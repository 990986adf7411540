----------------------------- MODULE Tables_proof -----------------------------
(***************************************************************************)
(* Proofs about Tables, for any finite number of threads and any tables,   *)
(* columns, requests and crashes: which tables the file and its metadata   *)
(* agree about, whatever the routes and the menu's load interleave.        *)
(***************************************************************************)
EXTENDS Tables, FiniteSetTheorems, TLAPS

Alter == {"add", "rename", "drop"}
Makes == {"create", "seed"}

LEMMA AfterRepoIs ==
    ASSUME NEW r
    PROVE  /\ r.op \in {"add", "rename"} => AfterRepo(r) = "read"
           /\ r.op \in {"delete", "drop"} => AfterRepo(r) = "confirm"
           /\ r.op = "create" /\ r.linked => AfterRepo(r) = "unique"
           /\ r.op = "create" /\ ~r.linked => AfterRepo(r) = "ddl"
           /\ r.op = "seed" => AfterRepo(r) = "ddl"
           /\ r.op = "ask" => AfterRepo(r) = "ask"
<1>1. r.op \in {"add", "rename"} => AfterRepo(r) = "read"
  BY DEF AfterRepo
<1>2. r.op \in {"delete", "drop"} => AfterRepo(r) = "confirm"
  BY DEF AfterRepo
<1>3. r.op = "create" /\ r.linked => AfterRepo(r) = "unique"
  BY DEF AfterRepo
<1>4. r.op = "create" /\ ~r.linked => AfterRepo(r) = "ddl"
  BY DEF AfterRepo
<1>5. r.op = "seed" => AfterRepo(r) = "ddl"
  BY DEF AfterRepo
<1>6. r.op = "ask" => AfterRepo(r) = "ask"
  BY DEF AfterRepo
<1> QED BY <1>1, <1>2, <1>3, <1>4, <1>5, <1>6

LEMMA AlteredIs ==
    ASSUME NEW r, NEW cols
    PROVE  /\ r.op = "add" => Altered(r, cols) = cols \union {r.col}
           /\ r.op = "drop" => Altered(r, cols) = cols \ {r.col}
           /\ r.op = "rename" => Altered(r, cols) = (cols \ {r.col}) \union {r.new}
<1>1. r.op = "add" => Altered(r, cols) = cols \union {r.col}
  BY DEF Altered
<1>2. r.op = "drop" => Altered(r, cols) = cols \ {r.col}
  BY DEF Altered
<1>3. r.op = "rename" => Altered(r, cols) = (cols \ {r.col}) \union {r.new}
  BY DEF Altered
<1> QED BY <1>1, <1>2, <1>3

LEMMA DescribedIs ==
    ASSUME NEW r
    PROVE  /\ r.op \in Makes => Described(r) = [cols |-> r.cols, linked |-> r.linked]
           /\ r.op = "delete" => Described(r) = NoTable
           /\ r.op \in Alter => Described(r) = IF meta[r.table] = NoTable THEN NoTable
                                ELSE [meta[r.table] EXCEPT !.cols = Altered(r, r.cols)]
<1>1. r.op \in Makes => Described(r) = [cols |-> r.cols, linked |-> r.linked]
  BY DEF Described, Makes
<1>2. r.op = "delete" => Described(r) = NoTable
  BY DEF Described
<1>3. r.op \in Alter => Described(r) = IF meta[r.table] = NoTable THEN NoTable
                        ELSE [meta[r.table] EXCEPT !.cols = Altered(r, r.cols)]
  BY DEF Described, Alter
<1> QED BY <1>1, <1>2, <1>3

-------------------------------------------------------------------------------
(* What each request is bound to do, by its operation and how far it is, and    *)
(* that it is one of the first n.                                            *)
Steered(r, n) ==
    /\ r.op = "seed" => r.step \in {"ddl", "dml"} /\ r.repo = ChatRepo /\ r.linked
    /\ r.op = "ask" => r.step \in {"build", "ask"}
    /\ r.op = "create" => r.step \in {"build", "unique", "ddl", "dml", "write", "audit"}
    /\ r.op = "delete" => r.step # "unique"
    /\ r.op \in Alter => r.step \in {"build", "confirm", "read", "ddl", "dml", "audit"}
    /\ r.op \in Makes /\ r.linked => Required \subseteq r.cols
    /\ r.op = "create" /\ r.linked => r.step # "write"
    /\ r.step = "unique" => r.linked
    /\ r.step = "ask" => r.op = "ask"
    /\ r.step = "build" <=> r.repo = NoRepo
    /\ r.op \notin {"seed", "ask"} => r.id \in 1..n

RequestsOK == \A t \in Threads : Busy(t) => Steered(req[t], count)

(* How a step moves a request that changes a table.                                             *)
Locals(r, q) ==
    /\ q.id = r.id /\ q.op = r.op /\ q.table = r.table /\ q.col = r.col /\ q.new = r.new
    /\ q.repo = r.repo

LEMMA StepOf ==
    ASSUME NEW r \in Requests, NEW st \in Steps
    PROVE  LET q == [r EXCEPT !.step = st] IN
           /\ q \in Requests /\ q.step = st /\ Locals(r, q)
           /\ q.cols = r.cols /\ q.linked = r.linked /\ q.tools = r.tools
  BY DEF Requests, Locals

(* What a route's step is to its own request r, which becomes q: what it      *)
(* found, and what it wrote.                                                 *)
OnlyReads(t, r, q) ==
    /\ UNCHANGED <<meta, disk, tools, unaudited>>
    /\ \/ q = NoRequest /\ r.step \in {"unique", "confirm", "read", "ddl"}
       \/ /\ q # NoRequest /\ q.tools = r.tools /\ q.cols = r.cols /\ q.linked = r.linked
          /\ \/ r.step = "unique" /\ q.step = "ddl" /\ ~LinkedThere
             \/ r.step = "confirm" /\ q.step = "read"
       \/ /\ q # NoRequest /\ r.step = "read" /\ q.step = "ddl" /\ q.tools = r.tools
          /\ meta[r.table] # NoTable
          /\ q.cols = meta[r.table].cols /\ q.linked = meta[r.table].linked
          /\ r.op \in {"rename", "drop"} /\ meta[r.table].linked => r.col \notin Required
       \/ /\ q # NoRequest /\ r.step = "load" /\ q.cols = r.cols /\ q.linked = r.linked
          /\ q.tools = tools
          /\ q.step = IF r.table \in tools THEN "write" ELSE "audit"

Lays(t, r, q) ==
    /\ UNCHANGED <<meta, tools>>
    /\ r.step = "ddl" /\ LockFree(t) /\ q # NoRequest /\ q.step = "dml"
    /\ q.tools = r.tools /\ q.cols = r.cols /\ q.linked = r.linked
    /\ disk' = [disk EXCEPT ![r.table] = Laid(r)]
    /\ r.op \in Makes => meta[r.table] = NoTable /\ disk[r.table] = NoTable
    /\ r.op \in Alter => disk[r.table] # NoTable
    /\ unaudited' = IF r.op = "seed" THEN unaudited ELSE unaudited \union {r.id}

Describes(t, r, q) ==
    /\ UNCHANGED <<disk, tools, unaudited>>
    /\ r.step = "dml"
    /\ meta' = [meta EXCEPT ![r.table] = Described(r)]
    /\ IF r.op = "seed" THEN q = NoRequest
       ELSE /\ q # NoRequest /\ q.step = AfterDml(r)
            /\ q.tools = r.tools /\ q.cols = r.cols /\ q.linked = r.linked

Lists(t, r, q) ==
    /\ UNCHANGED <<meta, disk, unaudited>>
    /\ r.step = "write" /\ q # NoRequest /\ q.step = "audit"
    /\ q.tools = r.tools /\ q.cols = r.cols /\ q.linked = r.linked
    /\ tools' = IF r.op = "create" THEN r.tools \union {r.table} ELSE r.tools \ {r.table}

Audits(t, r, q) ==
    /\ UNCHANGED <<meta, disk, tools>>
    /\ r.step = "audit" /\ q = NoRequest
    /\ unaudited' = IF r.op \in Alter /\ meta[r.table] = NoTable
                    THEN unaudited ELSE unaudited \ {r.id}

Moves(t, r, q) ==
    /\ r = req[t] /\ r # NoRequest /\ r.op # "ask" /\ r.step # "build"
    /\ req' = [req EXCEPT ![t] = q]
    /\ q # NoRequest => Locals(r, q)
    /\ UNCHANGED <<cached, count, crashes, overlapped, raced, parted>>
    /\ tokens' \in 0..MaxTokens
    /\ OnlyReads(t, r, q) \/ Lays(t, r, q) \/ Describes(t, r, q) \/ Lists(t, r, q) \/ Audits(t, r, q)

(* A route that asks returns, and nothing but the tokens tells. *)
Asks(t) ==
    /\ req[t] # NoRequest /\ req[t].op = "ask" /\ req[t].step = "ask"
    /\ req' = [req EXCEPT ![t] = NoRequest]
    /\ UNCHANGED <<meta, disk, tools, cached, count, crashes, history>>
    /\ tokens' \in 0..MaxTokens

LEMMA AfterDmlIs ==
    ASSUME NEW r
    PROVE  /\ r.op = "create" /\ ~r.linked => AfterDml(r) = "write"
           /\ r.op = "create" /\ r.linked => AfterDml(r) = "audit"
           /\ r.op = "delete" => AfterDml(r) = "load"
           /\ r.op \in Alter => AfterDml(r) = "audit"
           /\ AfterDml(r) \in {"write", "load", "audit"}
<1>1. r.op = "create" /\ ~r.linked => AfterDml(r) = "write"
  BY DEF AfterDml
<1>2. r.op = "create" /\ r.linked => AfterDml(r) = "audit"
  BY DEF AfterDml
<1>3. r.op = "delete" => AfterDml(r) = "load"
  BY DEF AfterDml
<1>4. r.op \in Alter => AfterDml(r) = "audit"
  BY DEF AfterDml, Alter
<1>5. AfterDml(r) \in {"write", "load", "audit"}
  BY DEF AfterDml
<1> QED BY <1>1, <1>2, <1>3, <1>4, <1>5

LEMMA AskAsks ==
    ASSUME TypeOK, RequestsOK, NEW t \in Threads, RequestConfirmation(t)
    PROVE  Asks(t)
<1>1. tokens \in 0..MaxTokens /\ MaxTokens \in Nat
  BY ConstantsAssumption DEF TypeOK
<1>2. req[t] # NoRequest /\ req[t].step = "ask" /\ req' = [req EXCEPT ![t] = NoRequest]
  BY DEF RequestConfirmation, At, Busy, Return
<1>3. req[t].op = "ask"
  BY <1>2 DEF RequestsOK, Busy, Steered
<1>4. tokens' \in 0..MaxTokens
  BY <1>1 DEF RequestConfirmation
<1> QED BY <1>2, <1>3, <1>4 DEF RequestConfirmation, Asks

LEMMA RouteMoves ==
    ASSUME TypeOK, RequestsOK, NEW t \in Threads, Route(t), ~Build(t), ~RequestConfirmation(t)
    PROVE  \E r \in Requests, q \in Requests \union {NoRequest} : Moves(t, r, q)
<1>1. /\ req[t] # NoRequest /\ req \in [Threads -> Requests \union {NoRequest}]
      /\ meta \in [TableNames -> TableDefs \union {NoTable}] /\ tools \subseteq TableNames
      /\ tokens \in 0..MaxTokens /\ MaxTokens \in Nat
  BY ConstantsAssumption DEF Route, Unique, Confirm, Read, Ddl, Dml, Load, Write, Audit, At,
     Busy, TypeOK
<1>2. PICK r \in Requests : r = req[t]
  BY <1>1
<1>3. r # NoRequest /\ r.op # "ask" /\ \A q \in Requests : q # NoRequest
  <2>1. r # NoRequest /\ \A q \in Requests : q # NoRequest
    BY <1>1, <1>2, NullsAssumption
  <2>2. r.step \in {"unique", "confirm", "read", "ddl", "dml", "load", "write", "audit"}
    BY <1>2 DEF Route, Unique, Confirm, Read, Ddl, Dml, Load, Write, Audit, At
  <2>3. Steered(r, count)
    BY <1>1, <1>2 DEF RequestsOK, Busy
  <2> QED BY <2>1, <2>2, <2>3 DEF Steered
<1>4. \A st \in Steps : \E q \in Requests :
        /\ q = [r EXCEPT !.step = st] /\ q.step = st /\ Locals(r, q)
        /\ q.cols = r.cols /\ q.linked = r.linked /\ q.tools = r.tools
  BY StepOf
<1> DEFINE Moved == \E q \in Requests \union {NoRequest} : Moves(t, r, q)
<1>5. CASE Unique(t)
  <2>1. /\ r.step = "unique" /\ tokens' = tokens
        /\ UNCHANGED <<meta, disk, tools, unaudited, cached, count, crashes, overlapped, raced, parted>>
    BY <1>2, <1>5 DEF Unique, At, history
  <2>2. CASE LinkedThere
    <3>1. req' = [req EXCEPT ![t] = NoRequest]
      BY <1>5, <2>2 DEF Unique, Return
    <3> QED BY <1>1, <1>2, <1>3, <2>1, <3>1 DEF Moves, OnlyReads
  <2>3. CASE ~LinkedThere
    <3>1. req' = [req EXCEPT ![t] = [r EXCEPT !.step = "ddl"]]
      BY <1>2, <1>5, <2>3 DEF Unique, Goto
    <3>2. PICK q \in Requests :
            /\ q = [r EXCEPT !.step = "ddl"] /\ q.step = "ddl" /\ Locals(r, q)
            /\ q.cols = r.cols /\ q.linked = r.linked /\ q.tools = r.tools
      BY <1>4 DEF Steps
    <3>3. Moves(t, r, q)
      BY <1>1, <1>2, <1>3, <2>1, <2>3, <3>1, <3>2 DEF Moves, OnlyReads
    <3> QED BY <3>3
  <2> QED BY <2>2, <2>3
<1>6. CASE Confirm(t)
  <2>1. /\ r.step = "confirm"
        /\ UNCHANGED <<meta, disk, tools, unaudited, cached, count, crashes, overlapped, raced, parted>>
    BY <1>2, <1>6 DEF Confirm, At, history
  <2>2. \/ req' = [req EXCEPT ![t] = NoRequest] /\ tokens' = tokens
        \/ req' = [req EXCEPT ![t] = [r EXCEPT !.step = "read"]] /\ tokens' \in 0..MaxTokens
    <3>1. \/ Return(t) /\ UNCHANGED tokens
          \/ tokens > 0 /\ tokens' = tokens - 1 /\ Goto(t, "read")
      BY <1>6 DEF Confirm
    <3>2. tokens > 0 => tokens - 1 \in 0..MaxTokens
      BY <1>1
    <3> QED BY <1>2, <3>1, <3>2 DEF Return, Goto
  <2>3. CASE req' = [req EXCEPT ![t] = NoRequest] /\ tokens' = tokens
    BY <1>1, <1>2, <1>3, <2>1, <2>3 DEF Moves, OnlyReads
  <2>4. CASE req' = [req EXCEPT ![t] = [r EXCEPT !.step = "read"]] /\ tokens' \in 0..MaxTokens
    <3>2. PICK q \in Requests :
            /\ q = [r EXCEPT !.step = "read"] /\ q.step = "read" /\ Locals(r, q)
            /\ q.cols = r.cols /\ q.linked = r.linked /\ q.tools = r.tools
      BY <1>4 DEF Steps
    <3>3. Moves(t, r, q)
      BY <1>1, <1>2, <1>3, <2>1, <2>4, <3>2 DEF Moves, OnlyReads
    <3> QED BY <3>3
  <2> QED BY <2>2, <2>3, <2>4
<1>7. CASE Read(t)
  <2>1. /\ r.step = "read" /\ tokens' = tokens
        /\ UNCHANGED <<meta, disk, tools, unaudited, cached, count, crashes, overlapped, raced, parted>>
    BY <1>2, <1>7 DEF Read, At, history
  <2>2. CASE Refused(r, meta[r.table])
    <3>1. req' = [req EXCEPT ![t] = NoRequest]
      BY <1>2, <1>7, <2>2 DEF Read, Return
    <3> QED BY <1>1, <1>2, <1>3, <2>1, <3>1 DEF Moves, OnlyReads
  <2>3. CASE ~Refused(r, meta[r.table])
    <3>0. r.table \in TableNames
      BY DEF Requests
    <3>1. /\ meta[r.table] # NoTable
          /\ r.op \in {"rename", "drop"} /\ meta[r.table].linked => r.col \notin Required
      BY <2>3 DEF Refused
    <3>2. PICK def \in TableDefs : def = meta[r.table]
      BY <1>1, <3>0, <3>1
    <3>3. PICK cols \in SUBSET Columns : cols = def.cols
      BY DEF TableDefs
    <3>4. PICK linked \in BOOLEAN : linked = def.linked
      BY DEF TableDefs
    <3>5. req' = [req EXCEPT ![t] = [r EXCEPT !.cols = cols, !.linked = linked, !.step = "ddl"]]
      BY <1>2, <1>7, <2>3, <3>2, <3>3, <3>4 DEF Read
    <3> DEFINE q == [r EXCEPT !.cols = cols, !.linked = linked, !.step = "ddl"]
    <3>6. /\ q \in Requests /\ q.step = "ddl" /\ Locals(r, q)
          /\ q.cols = cols /\ q.linked = linked /\ q.tools = r.tools
      BY DEF Requests, Locals, Steps
    <3>7. req' = [req EXCEPT ![t] = q]
      BY <3>5
    <3> HIDE DEF q
    <3>8. OnlyReads(t, r, q)
      BY <1>3, <2>1, <3>1, <3>2, <3>3, <3>4, <3>6 DEF OnlyReads
    <3>9. Moves(t, r, q)
      BY <1>1, <1>2, <1>3, <2>1, <3>7, <3>6, <3>8 DEF Moves
    <3> QED BY <3>6, <3>9
  <2> QED BY <2>2, <2>3
<1>8. CASE Ddl(t)
  <2>1. /\ r.step = "ddl" /\ tokens' = tokens /\ LockFree(t)
        /\ UNCHANGED <<meta, tools, cached, count, crashes, overlapped, raced, parted>>
    BY <1>2, <1>8 DEF Ddl, At
  <2>2. CASE (r.op \in Makes /\ meta[r.table] # NoTable) \/ SqliteRefuses(r)
    <3>1. req' = [req EXCEPT ![t] = NoRequest] /\ UNCHANGED <<disk, unaudited>>
      BY <1>2, <1>8, <2>2 DEF Ddl, Return, Makes
    <3> QED BY <1>1, <1>2, <1>3, <2>1, <3>1 DEF Moves, OnlyReads
  <2>3. CASE ~((r.op \in Makes /\ meta[r.table] # NoTable) \/ SqliteRefuses(r))
    <3>1. /\ req' = [req EXCEPT ![t] = [r EXCEPT !.step = "dml"]]
          /\ disk' = [disk EXCEPT ![r.table] = Laid(r)]
          /\ unaudited' = IF r.op = "seed" THEN unaudited ELSE unaudited \union {r.id}
      BY <1>2, <1>8, <2>3 DEF Ddl, Goto, Makes
    <3>2. /\ r.op \in Makes => meta[r.table] = NoTable /\ disk[r.table] = NoTable
          /\ r.op \in Alter => disk[r.table] # NoTable
      BY <2>3 DEF SqliteRefuses, Makes, Alter
    <3>3. PICK q \in Requests :
            /\ q = [r EXCEPT !.step = "dml"] /\ q.step = "dml" /\ Locals(r, q)
            /\ q.cols = r.cols /\ q.linked = r.linked /\ q.tools = r.tools
      BY <1>4 DEF Steps
    <3>4. Lays(t, r, q)
      BY <1>3, <2>1, <3>1, <3>2, <3>3 DEF Lays
    <3>5. Moves(t, r, q)
      BY <1>1, <1>2, <1>3, <2>1, <3>1, <3>3, <3>4 DEF Moves
    <3> QED BY <3>5
  <2> QED BY <2>2, <2>3
<1>9. CASE Dml(t)
  <2>1. /\ r.step = "dml" /\ tokens' = tokens
        /\ UNCHANGED <<disk, tools, unaudited, cached, count, crashes, overlapped, raced, parted>>
        /\ meta' = [meta EXCEPT ![r.table] = Described(r)]
    BY <1>2, <1>9 DEF Dml, At, history
  <2>2. CASE r.op = "seed"
    <3>1. req' = [req EXCEPT ![t] = NoRequest]
      BY <1>2, <1>9, <2>2 DEF Dml, Return
    <3> QED BY <1>1, <1>2, <1>3, <2>1, <2>2, <3>1 DEF Moves, Describes
  <2>3. CASE r.op # "seed"
    <3>1. AfterDml(r) \in Steps
      BY AfterDmlIs DEF Steps
    <3>2. PICK st \in Steps : st = AfterDml(r)
      BY <3>1
    <3>3. req' = [req EXCEPT ![t] = [r EXCEPT !.step = st]]
      BY <1>2, <1>9, <2>3, <3>2 DEF Dml, Goto
    <3>4. PICK q \in Requests :
            /\ q = [r EXCEPT !.step = st] /\ q.step = st /\ Locals(r, q)
            /\ q.cols = r.cols /\ q.linked = r.linked /\ q.tools = r.tools
      BY <1>4
    <3>5. Describes(t, r, q)
      BY <1>3, <2>1, <2>3, <3>2, <3>4 DEF Describes
    <3>6. Moves(t, r, q)
      BY <1>1, <1>2, <1>3, <2>1, <3>3, <3>4, <3>5 DEF Moves
    <3> QED BY <3>6
  <2> QED BY <2>2, <2>3
<1>10. CASE Load(t)
  <2>1. /\ r.step = "load" /\ tokens' = tokens
        /\ UNCHANGED <<meta, disk, tools, unaudited, cached, count, crashes, overlapped, raced, parted>>
    BY <1>2, <1>10 DEF Load, At, history
  <2>2. PICK ts \in SUBSET TableNames : ts = tools
    BY <1>1
  <2>3. PICK st \in Steps : st = IF r.table \in tools THEN "write" ELSE "audit"
    BY DEF Steps
  <2>4. req' = [req EXCEPT ![t] = [r EXCEPT !.tools = ts, !.step = st]]
    BY <1>2, <1>10, <2>2, <2>3 DEF Load
  <2> DEFINE q == [r EXCEPT !.tools = ts, !.step = st]
  <2>5. /\ q \in Requests /\ q.step = st /\ Locals(r, q)
        /\ q.cols = r.cols /\ q.linked = r.linked /\ q.tools = ts
    BY DEF Requests, Locals
  <2>6. req' = [req EXCEPT ![t] = q]
    BY <2>4
  <2> HIDE DEF q
  <2>7. OnlyReads(t, r, q)
    BY <1>3, <2>1, <2>2, <2>3, <2>5 DEF OnlyReads
  <2>8. Moves(t, r, q)
    BY <1>1, <1>2, <1>3, <2>1, <2>6, <2>5, <2>7 DEF Moves
  <2> QED BY <2>5, <2>8
<1>11. CASE Write(t)
  <2>1. /\ r.step = "write" /\ tokens' = tokens
        /\ UNCHANGED <<meta, disk, unaudited, cached, count, crashes, overlapped, raced, parted>>
        /\ tools' = IF r.op = "create" THEN r.tools \union {r.table} ELSE r.tools \ {r.table}
        /\ req' = [req EXCEPT ![t] = [r EXCEPT !.step = "audit"]]
    BY <1>2, <1>11 DEF Write, At, Goto, history
  <2>2. PICK q \in Requests :
          /\ q = [r EXCEPT !.step = "audit"] /\ q.step = "audit" /\ Locals(r, q)
          /\ q.cols = r.cols /\ q.linked = r.linked /\ q.tools = r.tools
    BY <1>4 DEF Steps
  <2>3. Lists(t, r, q)
    BY <1>3, <2>1, <2>2 DEF Lists
  <2>4. Moves(t, r, q)
    BY <1>1, <1>2, <1>3, <2>1, <2>2, <2>3 DEF Moves
  <2> QED BY <2>4
<1>12. CASE Audit(t)
  <2>1. /\ r.step = "audit" /\ tokens' = tokens
        /\ UNCHANGED <<meta, disk, tools, cached, count, crashes, overlapped, raced, parted>>
        /\ unaudited' = IF r.op \in Alter /\ meta[r.table] = NoTable
                        THEN unaudited ELSE unaudited \ {r.id}
        /\ req' = [req EXCEPT ![t] = NoRequest]
    BY <1>2, <1>12 DEF Audit, At, Return, Alter
  <2>2. Moves(t, r, NoRequest)
    BY <1>1, <1>2, <1>3, <2>1 DEF Moves, Audits
  <2> QED BY <2>2
<1> QED BY <1>5, <1>6, <1>7, <1>8, <1>9, <1>10, <1>11, <1>12 DEF Route

-------------------------------------------------------------------------------
(* How a request begins, and how a route comes to its repository.            *)

(* A request as it enters: its repository if there is one to have, its first  *)
(* step, and what the route has checked so far.                               *)
Fresh(r) ==
    /\ r.op = "seed" => r.step = "ddl" /\ r.repo = ChatRepo /\ r.linked /\ ~LinkedThere
    /\ r.op # "seed" => /\ r.op # "ask" => r.id \in 1..count'
                        /\ cached => r.repo = Latest /\ r.step = AfterRepo(r)
                        /\ ~cached => r.repo = NoRepo /\ r.step = "build"
    /\ r.op \in Makes /\ r.linked => Required \subseteq r.cols
    /\ r.op = "create" => r.tools = tools /\ (~r.linked => r.table \notin tools)

Enters(t, r) ==
    /\ ~Busy(t) /\ req' = [req EXCEPT ![t] = r] /\ Fresh(r)
    /\ UNCHANGED <<meta, disk, tools, cached, tokens, crashes, unaudited>>
    /\ count' \in 0..MaxRequests /\ count <= count'
    /\ overlapped' = (overlapped \/ \E u \in Threads : Changes(req[u]) /\ Changes(r))
    /\ raced' = IF \E u \in Threads : Changes(req[u]) /\ Changes(r) /\ req[u].table = r.table
                THEN raced \union {r.table} ELSE raced
    /\ parted' = parted \union PartedIn(req')

LEMMA ReposAre == /\ Cardinality(Threads) \in Nat
                  /\ ChatRepo \in Repos /\ Latest \in Repos /\ NoRepo \notin Repos
  BY ConstantsAssumption, NullsAssumption, FS_CardinalityType DEF Repos, ChatRepo, Latest

LEMMA EnterEnters ==
    ASSUME NEW t \in Threads, NEW r \in Requests, Enter(t, r), Fresh(r),
           count' \in 0..MaxRequests, count <= count'
    PROVE  Enters(t, r)
  BY DEF Enter, Enters

(* A route that begins takes the cached repository, or has one to build. *)
LEMMA AcquiredIs ==
    ASSUME NEW r \in Requests, r.repo = NoRepo, r.step = "build", r.op # "seed"
    PROVE  LET q == Acquired(r) IN
           /\ q \in Requests
           /\ q.id = r.id /\ q.op = r.op /\ q.table = r.table
           /\ q.cols = r.cols /\ q.linked = r.linked /\ q.tools = r.tools
           /\ cached => q.repo = Latest /\ q.step = AfterRepo(q)
           /\ ~cached => q.repo = NoRepo /\ q.step = "build"
<1>0. r.op \in Ops /\ AfterRepo(r) \in Steps
  <2>1. r.op \in Ops
    BY DEF Requests
  <2> QED BY <2>1, AfterRepoIs DEF Ops, Steps
<1>1. CASE ~cached
  BY <1>1 DEF Acquired
<1>2. CASE cached
  <2>1. PICK st \in Steps : st = AfterRepo(r)
    BY <1>0
  <2>2. PICK n \in Repos : n = Latest
    BY ReposAre
  <2> DEFINE q == [r EXCEPT !.repo = n, !.step = st]
  <2>3. /\ q \in Requests /\ q.step = st /\ q.repo = n
        /\ q.id = r.id /\ q.op = r.op /\ q.table = r.table
        /\ q.cols = r.cols /\ q.linked = r.linked /\ q.tools = r.tools
    BY DEF Requests
  <2>4. Acquired(r) = q
    BY <1>2, <2>1, <2>2 DEF Acquired
  <2> HIDE DEF q
  <2>5. AfterRepo(q) = AfterRepo(r)
    BY <1>0, <2>3, AfterRepoIs DEF Ops
  <2> QED BY <1>2, <2>1, <2>2, <2>3, <2>4, <2>5
<1> QED BY <1>1, <1>2

LEMMA LocalIs ==
    ASSUME NEW id \in Ids \union {SeedId}, NEW op \in Ops, NEW T \in TableNames, NEW c \in Columns,
           NEW d \in Columns, NEW cols \in SUBSET Columns, NEW linked \in BOOLEAN
    PROVE  LET q == Local(id, op, T, c, d, cols, linked) IN
           /\ q \in Requests /\ q.repo = NoRepo /\ q.step = "build"
           /\ q.id = id /\ q.op = op /\ q.table = T
           /\ q.cols = cols /\ q.linked = linked
  BY DEF Local, Requests, Steps

(* The posts and the menu's load are how requests enter. *)
LEMMA PostEnters ==
    ASSUME TypeOK, NEW t \in Threads, NEW r \in Requests, r.repo = NoRepo, r.step = "build",
           r.op # "seed", r.id = count + 1, Post(t, Acquired(r)),
           r.op = "create" => /\ r.tools = tools
                              /\ IF r.linked THEN Required \subseteq r.cols ELSE r.table \notin tools
    PROVE  \E q \in Requests : Enters(t, q)
<1>1. count \in Nat /\ count < MaxRequests /\ count' = count + 1 /\ MaxRequests \in Nat
  BY ConstantsAssumption DEF Post, TypeOK
<1>2. PICK q \in Requests :
        /\ q = Acquired(r)
        /\ q.id = r.id /\ q.op = r.op /\ q.table = r.table
        /\ q.cols = r.cols /\ q.linked = r.linked /\ q.tools = r.tools
        /\ cached => q.repo = Latest /\ q.step = AfterRepo(q)
        /\ ~cached => q.repo = NoRepo /\ q.step = "build"
  BY AcquiredIs
<1>3. Enter(t, q) /\ Fresh(q)
  BY <1>1, <1>2 DEF Post, Fresh, Makes
<1>4. count' \in 0..MaxRequests /\ count <= count'
  BY <1>1
<1> QED BY <1>3, <1>4, EnterEnters

LEMMA SeedIs ==
    LET q == Acquired(Local(SeedId, "seed", Menu, AnyColumn, AnyColumn, Required, TRUE)) IN
    /\ q \in Requests /\ q.op = "seed" /\ q.step = "ddl" /\ q.repo = ChatRepo
    /\ q.linked /\ q.cols = Required
<1>1. AnyColumn \in Columns /\ Required \in SUBSET Columns /\ Menu \in TableNames
  BY ConstantsAssumption DEF AnyColumn
<1>2. PICK c \in Columns : c = AnyColumn
  BY <1>1
<1> DEFINE r == [id |-> SeedId, op |-> "seed", table |-> Menu, col |-> c, new |-> c,
                 cols |-> Required, linked |-> TRUE, tools |-> {}, repo |-> NoRepo, step |-> "build"]
<1>3. r \in Requests /\ r.op = "seed" /\ r.linked /\ r.cols = Required
  BY <1>1 DEF Requests, Ops, Steps
<1>4. r = Local(SeedId, "seed", Menu, AnyColumn, AnyColumn, Required, TRUE)
  BY <1>2 DEF Local
<1> HIDE DEF r
<1>5. Acquired(r) = [r EXCEPT !.repo = ChatRepo, !.step = "ddl"]
  BY <1>3, AfterRepoIs DEF Acquired
<1>6. /\ [r EXCEPT !.repo = ChatRepo, !.step = "ddl"] \in Requests
      /\ [r EXCEPT !.repo = ChatRepo, !.step = "ddl"].op = "seed"
      /\ [r EXCEPT !.repo = ChatRepo, !.step = "ddl"].step = "ddl"
      /\ [r EXCEPT !.repo = ChatRepo, !.step = "ddl"].repo = ChatRepo
      /\ [r EXCEPT !.repo = ChatRepo, !.step = "ddl"].linked
      /\ [r EXCEPT !.repo = ChatRepo, !.step = "ddl"].cols = Required
  BY <1>3, ReposAre DEF Requests, Steps
<1> QED BY <1>4, <1>5, <1>6

Posts(t, T) == \/ PostCreate(t, T) \/ PostDelete(t, T) \/ PostAdd(t, T)
               \/ PostRename(t, T) \/ PostDrop(t, T)

LEMMA AskEnters ==
    ASSUME TypeOK, NEW t \in Threads, NEW T \in TableNames, PostAsk(t, T)
    PROVE  \E q \in Requests : Enters(t, q)
<1>1. count \in 0..MaxRequests /\ count' = count /\ MaxRequests \in Nat
  BY ConstantsAssumption DEF PostAsk, TypeOK
<1>2. PICK any \in Columns : any = AnyColumn
  BY ConstantsAssumption DEF AnyColumn
<1>3. PICK l \in Requests :
        /\ l = Local(SeedId, "ask", T, any, any, {}, FALSE)
        /\ l.repo = NoRepo /\ l.step = "build" /\ l.op = "ask"
  <2>1. {} \in SUBSET Columns /\ SeedId \in Ids \union {SeedId} /\ "ask" \in Ops /\ FALSE \in BOOLEAN
    BY DEF Ops
  <2>2. LET q == Local(SeedId, "ask", T, any, any, {}, FALSE) IN
        q \in Requests /\ q.repo = NoRepo /\ q.step = "build" /\ q.op = "ask"
    BY <2>1 DEF Local, Requests, Steps
  <2> QED BY <2>2
<1>4. PICK q \in Requests :
        /\ q = Acquired(l) /\ q.op = "ask"
        /\ cached => q.repo = Latest /\ q.step = AfterRepo(q)
        /\ ~cached => q.repo = NoRepo /\ q.step = "build"
  <2>1. l.repo = NoRepo /\ l.step = "build" /\ l.op # "seed" /\ l.op = "ask"
    BY <1>3
  <2>2. LET q == Acquired(l) IN
        /\ q \in Requests /\ q.op = l.op
        /\ cached => q.repo = Latest /\ q.step = AfterRepo(q)
        /\ ~cached => q.repo = NoRepo /\ q.step = "build"
    BY <2>1, AcquiredIs
  <2> QED BY <2>1, <2>2
<1>5. Enter(t, q) /\ Fresh(q)
  BY <1>2, <1>3, <1>4 DEF PostAsk, Fresh, Makes
<1>6. count' \in 0..MaxRequests /\ count <= count'
  BY <1>1
<1> QED BY <1>5, <1>6, EnterEnters

LEMMA RequestEnters ==
    ASSUME TypeOK, NEW t \in Threads, (\E T \in TableNames : Posts(t, T)) \/ LoadMenu(t)
    PROVE  \E q \in Requests : Enters(t, q)
<1>1. count \in 0..MaxRequests /\ tools \in SUBSET TableNames /\ MaxRequests \in Nat
  BY ConstantsAssumption DEF TypeOK
<1>2. CASE LoadMenu(t)
  <2>1. PICK q \in Requests :
          /\ q = Acquired(Local(SeedId, "seed", Menu, AnyColumn, AnyColumn, Required, TRUE))
          /\ q.op = "seed" /\ q.step = "ddl" /\ q.repo = ChatRepo /\ q.linked /\ q.cols = Required
    BY SeedIs
  <2>2. Enter(t, q) /\ count' = count /\ ~LinkedThere
    BY <1>2, <2>1 DEF LoadMenu
  <2>3. Fresh(q)
    BY <2>1, <2>2 DEF Fresh
  <2>4. count' \in 0..MaxRequests /\ count <= count'
    BY <1>1, <2>2
  <2> QED BY <2>2, <2>3, <2>4, EnterEnters
<1>3. CASE \E T \in TableNames : Posts(t, T)
  <2>1. PICK T \in TableNames : Posts(t, T)
    BY <1>3
  <2>2. count + 1 \in Ids
    <3>1. count < MaxRequests
      BY <2>1, Zenon DEF Posts, Post, PostCreate, PostDelete, PostAdd, PostRename, PostDrop
    <3> QED BY <1>1, <3>1 DEF Ids
  <2>3. PICK id \in Ids : id = count + 1
    BY <2>2
  <2>4. PICK any \in Columns : any = AnyColumn
    BY ConstantsAssumption DEF AnyColumn
  <2>5. ASSUME NEW op \in {"delete", "add", "rename", "drop"}, NEW c \in Columns, NEW d \in Columns,
               Post(t, Acquired(Local(id, op, T, c, d, {}, FALSE)))
        PROVE  \E q \in Requests : Enters(t, q)
    <3>1. PICK r \in Requests :
            /\ r = Local(id, op, T, c, d, {}, FALSE)
            /\ r.repo = NoRepo /\ r.step = "build" /\ r.id = id /\ r.op = op /\ r.table = T
            /\ r.cols = {} /\ r.linked = FALSE
      <4>1. op \in Ops /\ {} \in SUBSET Columns /\ FALSE \in BOOLEAN
        BY DEF Ops
      <4>2. LET q == Local(id, op, T, c, d, {}, FALSE) IN
            /\ q \in Requests /\ q.repo = NoRepo /\ q.step = "build"
            /\ q.id = id /\ q.op = op /\ q.table = T /\ q.cols = {} /\ q.linked = FALSE
        BY <4>1 DEF Local, Requests, Steps
      <4> QED BY <4>2
    <3> QED BY <2>3, <2>5, <3>1, PostEnters
  <2>6. CASE PostCreate(t, T)
    <3>1. PICK cols \in SUBSET Columns, linked \in BOOLEAN :
            /\ IF linked THEN Required \subseteq cols ELSE T \notin tools
            /\ Post(t, Acquired([Local(id, "create", T, any, any, cols, linked) EXCEPT !.tools = tools]))
      BY <2>3, <2>4, <2>6 DEF PostCreate
    <3>2. PICK ts \in SUBSET TableNames : ts = tools
      BY <1>1
    <3>3. PICK l \in Requests :
            /\ l = Local(id, "create", T, any, any, cols, linked)
            /\ l.repo = NoRepo /\ l.step = "build" /\ l.id = id /\ l.op = "create" /\ l.table = T
            /\ l.cols = cols /\ l.linked = linked
      BY LocalIs DEF Ops
    <3> DEFINE r == [l EXCEPT !.tools = ts]
    <3>4. /\ r \in Requests /\ r.repo = NoRepo /\ r.step = "build" /\ r.id = id /\ r.op = "create"
          /\ r.table = T /\ r.cols = cols /\ r.linked = linked /\ r.tools = ts
      BY <3>3 DEF Requests
    <3>5. Post(t, Acquired(r))
      BY <3>1, <3>2, <3>3
    <3> HIDE DEF r
    <3> QED BY <2>3, <3>1, <3>2, <3>4, <3>5, PostEnters
  <2>7. CASE PostDelete(t, T)
    BY <2>3, <2>4, <2>5, <2>7 DEF PostDelete
  <2>8. CASE PostAdd(t, T)
    <3>1. PICK c \in Columns : Post(t, Acquired(Local(count + 1, "add", T, c, c, {}, FALSE)))
      BY <2>8 DEF PostAdd
    <3> QED BY <2>3, <2>5, <3>1
  <2>9. CASE PostRename(t, T)
    <3>1. PICK c \in Columns, d \in Columns :
            Post(t, Acquired(Local(count + 1, "rename", T, c, d, {}, FALSE)))
      BY <2>9 DEF PostRename
    <3> QED BY <2>3, <2>5, <3>1
  <2>10. CASE PostDrop(t, T)
    <3>1. PICK c \in Columns : Post(t, Acquired(Local(count + 1, "drop", T, c, c, {}, FALSE)))
      BY <2>10 DEF PostDrop
    <3> QED BY <2>3, <2>5, <3>1
  <2> QED BY <2>1, <2>6, <2>7, <2>8, <2>9, <2>10 DEF Posts
<1> QED BY <1>2, <1>3

-------------------------------------------------------------------------------
(* Each repository a route holds has been renumbered once for each that was   *)
(* built since, and every route still building will renumber it once more.    *)
Builders == {t \in Threads : At(t, "build")}
BuildOK ==
    \A t \in Threads : Busy(t) /\ req[t].repo \notin {NoRepo, ChatRepo} =>
        cached /\ req[t].repo + Cardinality(Builders) <= Cardinality(Threads)

(* Two that change one table have met; an owner who waits has one at a time.  *)
RacedOK ==
    \A t, u \in Threads :
        Changes(req[t]) /\ Changes(req[u]) /\ t # u /\ req[t].table = req[u].table
            => req[t].table \in raced
AloneOK == ~overlapped => \A t, u \in Threads : Changes(req[t]) /\ Changes(req[u]) => t = u

(* A repository's lock has one holder, and two locks on a table are known of.  *)
LocksOK ==
    /\ PartedIn(req) \subseteq parted
    /\ \A t, u \in Threads : At(t, "dml") /\ At(u, "dml") /\ req[t].repo = req[u].repo => t = u

(* Build seen from each request r, which becomes q. *)
Same(r, q) ==
    /\ q.id = r.id /\ q.op = r.op /\ q.table = r.table /\ q.col = r.col /\ q.new = r.new
    /\ q.cols = r.cols /\ q.linked = r.linked /\ q.tools = r.tools
Renumbered(r, q) ==
    IF r = NoRequest THEN q = NoRequest
    ELSE /\ q # NoRequest /\ Same(r, q) /\ q.step = r.step
         /\ IF r.repo \in {NoRepo, ChatRepo} THEN q.repo = r.repo
            ELSE q.repo = r.repo + 1 /\ q.repo # NoRepo
Builds(t) ==
    /\ req[t] # NoRequest /\ req[t].step = "build"
    /\ cached' = TRUE /\ parted' = parted \union PartedIn(req')
    /\ UNCHANGED <<meta, disk, tools, tokens, count, crashes, overlapped, raced, unaudited>>
    /\ req' \in [Threads -> Requests \union {NoRequest}]
    /\ \A u \in Threads \ {t} : Renumbered(req[u], req'[u])
    /\ req'[t] # NoRequest /\ Same(req[t], req'[t])
    /\ req'[t].repo = Latest /\ req'[t].step = AfterRepo(req[t])

LEMMA BuildersAre ==
    /\ Cardinality(Threads) \in Nat
    /\ IsFiniteSet(Builders) /\ Cardinality(Builders) \in Nat
    /\ \A t \in Threads : At(t, "build") => Cardinality(Builders) >= 1
<1>1. Cardinality(Threads) \in Nat
  BY ConstantsAssumption, FS_CardinalityType
<1>2. IsFiniteSet(Builders) /\ Cardinality(Builders) \in Nat
  <2>1. Builders \in SUBSET Threads
    BY DEF Builders
  <2> QED BY <2>1, ConstantsAssumption, FS_Subset, FS_CardinalityType
<1>3. ASSUME NEW t \in Threads, At(t, "build")
      PROVE  Cardinality(Builders) >= 1
  <2>1. t \in Builders
    BY <1>3 DEF Builders
  <2>2. Cardinality(Builders) # 0
    BY <1>2, <2>1, FS_EmptySet
  <2> QED BY <1>2, <2>2
<1> QED BY <1>1, <1>2, <1>3

LEMMA BuildBuilds ==
    ASSUME TypeOK, BuildOK, NEW t \in Threads, Build(t)
    PROVE  Builds(t)
<1>1. /\ req \in [Threads -> Requests \union {NoRequest}]
      /\ \A q \in Requests : q # NoRequest
  BY NullsAssumption DEF TypeOK
<1>2. PICK r \in Requests : r = req[t] /\ r.step = "build"
  BY <1>1 DEF Build, At, Busy
<1>3. AfterRepo(r) \in Steps
  <2>1. r.op \in Ops
    BY DEF Requests
  <2> QED BY <2>1, AfterRepoIs DEF Ops, Steps
<1>4. PICK q \in Requests :
        /\ q = [r EXCEPT !.repo = Latest, !.step = AfterRepo(r)]
        /\ Same(r, q) /\ q.repo = Latest /\ q.step = AfterRepo(r)
  <2>1. PICK st \in Steps : st = AfterRepo(r)
    BY <1>3
  <2>2. /\ [r EXCEPT !.repo = Latest, !.step = st] \in Requests
        /\ Same(r, [r EXCEPT !.repo = Latest, !.step = st])
        /\ [r EXCEPT !.repo = Latest, !.step = st].repo = Latest
        /\ [r EXCEPT !.repo = Latest, !.step = st].step = st
    BY ReposAre DEF Requests, Same
  <2> QED BY <2>1, <2>2
<1>5. req'[t] = q
  BY <1>2, <1>4 DEF Build
<1>6. ASSUME NEW u \in Threads \ {t}
      PROVE  Renumbered(req[u], req'[u]) /\ req'[u] \in Requests \union {NoRequest}
  <2>1. req'[u] = IF Busy(u) /\ req[u].repo \notin {NoRepo, ChatRepo}
                  THEN [req[u] EXCEPT !.repo = @ + 1] ELSE req[u]
    BY <1>6 DEF Build
  <2>2. CASE ~(Busy(u) /\ req[u].repo \notin {NoRepo, ChatRepo})
    BY <1>1, <1>6, <2>1, <2>2 DEF Busy, Renumbered, Same
  <2>3. CASE Busy(u) /\ req[u].repo \notin {NoRepo, ChatRepo}
    <3>1. PICK s \in Requests : s = req[u]
      BY <1>1, <1>6, <2>3 DEF Busy
    <3>2. s.repo \in Repos /\ s.repo # NoRepo /\ s.repo # ChatRepo
      BY <2>3, <3>1 DEF Requests
    <3>3. s.repo + Cardinality(Builders) <= Cardinality(Threads)
      BY <1>6, <2>3, <3>1 DEF BuildOK
    <3>4. Cardinality(Builders) >= 1 /\ Cardinality(Builders) \in Nat /\ Cardinality(Threads) \in Nat
      BY BuildersAre DEF Build
    <3>5. s.repo + 1 \in Repos
      BY <3>2, <3>3, <3>4 DEF Repos
    <3>6. PICK n \in Repos : n = s.repo + 1
      BY <3>5
    <3>7. req'[u] = [s EXCEPT !.repo = n]
      BY <2>1, <2>3, <3>1, <3>6
    <3>8. /\ [s EXCEPT !.repo = n] \in Requests
          /\ Same(s, [s EXCEPT !.repo = n])
          /\ [s EXCEPT !.repo = n].repo = n /\ [s EXCEPT !.repo = n].step = s.step
      BY DEF Requests, Same
    <3>9. s # NoRequest /\ req'[u] # NoRequest
      BY <1>1, <3>7, <3>8
    <3> QED BY <2>3, <3>1, <3>2, <3>6, <3>7, <3>8, <3>9, ReposAre DEF Renumbered
  <2> QED BY <2>2, <2>3
<1>7. req' \in [Threads -> Requests \union {NoRequest}]
  <2>1. \A u \in Threads : req'[u] \in Requests \union {NoRequest}
    BY <1>4, <1>5, <1>6
  <2>2. req' = [u \in Threads |-> req'[u]]
    BY DEF Build
  <2> QED BY <2>1, <2>2
<1>8. /\ cached' = TRUE /\ parted' = parted \union PartedIn(req')
      /\ UNCHANGED <<meta, disk, tools, tokens, count, crashes, overlapped, raced, unaudited>>
  BY DEF Build
<1>9. req[t] # NoRequest /\ req'[t] # NoRequest
  BY <1>1, <1>2, <1>4, <1>5
<1> QED BY <1>2, <1>4, <1>5, <1>6, <1>7, <1>8, <1>9 DEF Builds

(* What else may happen: a token comes or goes, or nothing does. *)
Still ==
    /\ UNCHANGED <<meta, disk, tools, req, count, crashes, history>>
    /\ tokens' \in 0..MaxTokens /\ cached' = cached

LEMMA NextIs ==
    ASSUME TypeOK, BuildOK, RequestsOK, [Next]_vars
    PROVE  \/ \E t \in Threads, r \in Requests : Enters(t, r)
           \/ \E t \in Threads : Builds(t)
           \/ \E t \in Threads, r \in Requests, q \in Requests \union {NoRequest} : Moves(t, r, q)
           \/ \E t \in Threads : Asks(t)
           \/ Still
           \/ Crash
<1>0. tokens \in 0..MaxTokens /\ MaxTokens \in Nat
  BY ConstantsAssumption DEF TypeOK
<1>1. ASSUME NEW t \in Threads, (\E T \in TableNames : Posts(t, T)) \/ LoadMenu(t)
      PROVE  \E r \in Requests : Enters(t, r)
  BY <1>1, RequestEnters
<1>2. ASSUME NEW t \in Threads, NEW T \in TableNames, PostAsk(t, T)
      PROVE  \E r \in Requests : Enters(t, r)
  BY <1>2, AskEnters
<1>3. ASSUME NEW t \in Threads, Route(t)
      PROVE  \/ Builds(t) \/ Asks(t)
             \/ \E r \in Requests, q \in Requests \union {NoRequest} : Moves(t, r, q)
  BY <1>3, RouteMoves, BuildBuilds, AskAsks
<1>4. CASE TokenExpires
  BY <1>0, <1>4 DEF TokenExpires, Still
<1>5. CASE UNCHANGED vars
  BY <1>0, <1>5 DEF vars, Still, history
<1> QED BY <1>1, <1>2, <1>3, <1>4, <1>5 DEF Next, Posts

LEMMA EntersReq ==
    ASSUME TypeOK, NEW t \in Threads, NEW r \in Requests, Enters(t, r)
    PROVE  /\ r # NoRequest /\ req[t] = NoRequest /\ req'[t] = r
           /\ \A u \in Threads \ {t} : req'[u] = req[u]
           /\ raced \subseteq raced' /\ parted \subseteq parted'
<1>1. req \in [Threads -> Requests \union {NoRequest}] /\ r # NoRequest
  BY NullsAssumption DEF TypeOK
<1> QED BY <1>1 DEF Enters, Busy

LEMMA MovesReq ==
    ASSUME TypeOK, NEW t \in Threads, NEW r, NEW q, Moves(t, r, q)
    PROVE  /\ r # NoRequest /\ req[t] = r /\ req'[t] = q
           /\ \A u \in Threads \ {t} : req'[u] = req[u]
           /\ q # NoRequest => Locals(r, q)
           /\ r.step # "build" /\ Changes(r)
           /\ UNCHANGED <<cached, count, crashes, overlapped, raced, parted>>
<1>1. req \in [Threads -> Requests \union {NoRequest}]
  BY DEF TypeOK
<1> QED BY <1>1 DEF Moves, Changes

LEMMA AsksReq ==
    ASSUME TypeOK, NEW t \in Threads, Asks(t)
    PROVE  /\ Busy(t) /\ req[t].op = "ask" /\ ~Changes(req[t])
           /\ req'[t] = NoRequest /\ ~Busy(t)' /\ ~Changes(req'[t])
           /\ \A u \in Threads \ {t} : req'[u] = req[u]
           /\ \A u \in Threads : Busy(u)' => u # t
           /\ UNCHANGED <<meta, disk, tools, cached, count, crashes>> /\ UNCHANGED history
           /\ UNCHANGED <<overlapped, raced, parted, unaudited>>
<1>1. req \in [Threads -> Requests \union {NoRequest}]
  BY DEF TypeOK
<1> QED BY <1>1 DEF Asks, Changes, Busy, history

LEMMA BuildsReq ==
    ASSUME TypeOK, NEW t \in Threads, Builds(t)
    PROVE  /\ \A u \in Threads : (req[u] = NoRequest <=> req'[u] = NoRequest)
           /\ \A u \in Threads : req[u] # NoRequest => Same(req[u], req'[u])
           /\ \A u \in Threads \ {t} : req[u] # NoRequest => req'[u].step = req[u].step
           /\ req[t].step = "build" /\ req'[t].step = AfterRepo(req[t])
           /\ req'[t].step \in {"ask", "read", "confirm", "unique", "ddl"}
           /\ req'[t].step = "ddl" => req[t].op \in Makes
           /\ parted \subseteq parted'
<1>1. /\ req[t] # NoRequest /\ req[t].step = "build" /\ Same(req[t], req'[t])
      /\ req'[t] # NoRequest /\ req'[t].step = AfterRepo(req[t])
      /\ \A u \in Threads \ {t} : Renumbered(req[u], req'[u])
  BY DEF Builds
<1>2. PICK r \in Requests : r = req[t]
  BY <1>1 DEF TypeOK
<1>3. r.op \in Ops
  BY DEF Requests
<1>4. /\ AfterRepo(r) \in {"ask", "read", "confirm", "unique", "ddl"}
      /\ AfterRepo(r) = "ddl" => r.op \in Makes
  BY <1>3, AfterRepoIs DEF Ops, Makes
<1>5. parted \subseteq parted'
  BY DEF Builds
<1> QED BY <1>1, <1>2, <1>4, <1>5 DEF Renumbered

LEMMA MeetingsStep ==
    ASSUME TypeOK, BuildOK, RequestsOK, RacedOK, AloneOK, [Next]_vars
    PROVE  RacedOK' /\ AloneOK'
<1>1. ASSUME NEW t \in Threads, NEW r \in Requests, Enters(t, r)
      PROVE  RacedOK' /\ AloneOK'
  <2>1. /\ r # NoRequest /\ req[t] = NoRequest /\ req'[t] = r
        /\ \A u \in Threads \ {t} : req'[u] = req[u]
        /\ raced \subseteq raced'
    BY <1>1, EntersReq
  <2>2. /\ overlapped' = (overlapped \/ \E u \in Threads : Changes(req[u]) /\ Changes(r))
        /\ raced' = IF \E u \in Threads : Changes(req[u]) /\ Changes(r) /\ req[u].table = r.table
                    THEN raced \union {r.table} ELSE raced
    BY <1>1 DEF Enters
  <2>3. RacedOK'
    BY <2>1, <2>2 DEF RacedOK, Changes
  <2>4. AloneOK'
    BY <2>1, <2>2 DEF AloneOK, Changes
  <2> QED BY <2>3, <2>4
<1>2. ASSUME NEW t \in Threads, Builds(t)
      PROVE  RacedOK' /\ AloneOK'
  <2>1. /\ \A u \in Threads : (req[u] = NoRequest <=> req'[u] = NoRequest)
        /\ \A u \in Threads : req[u] # NoRequest =>
              req'[u].table = req[u].table /\ req'[u].op = req[u].op
    BY <1>2, BuildsReq DEF Same
  <2>2. raced' = raced /\ overlapped' = overlapped
    BY <1>2 DEF Builds
  <2> QED BY <2>1, <2>2 DEF RacedOK, AloneOK, Changes
<1>3. ASSUME NEW t \in Threads, NEW r \in Requests, NEW q \in Requests \union {NoRequest}, Moves(t, r, q)
      PROVE  RacedOK' /\ AloneOK'
  <2>1. /\ r # NoRequest /\ req[t] = r /\ req'[t] = q
        /\ \A u \in Threads \ {t} : req'[u] = req[u]
        /\ q # NoRequest => q.table = r.table
        /\ raced' = raced /\ overlapped' = overlapped /\ Changes(r)
    BY <1>3, MovesReq DEF Locals
  <2> QED BY <2>1 DEF RacedOK, AloneOK, Changes
<1>4. CASE Still
  BY <1>4 DEF Still, history, RacedOK, AloneOK
<1>5. CASE Crash
  <2>1. \A t \in Threads : req'[t] = NoRequest
    BY <1>5 DEF Crash
  <2> QED BY <2>1 DEF RacedOK, AloneOK, Changes
<1>6. ASSUME NEW t \in Threads, Asks(t)
      PROVE  RacedOK' /\ AloneOK'
  BY <1>6, AsksReq DEF RacedOK, AloneOK
<1> QED BY <1>1, <1>2, <1>3, <1>4, <1>5, <1>6, NextIs

LEMMA RequestsStep ==
    ASSUME TypeOK, BuildOK, RequestsOK, [Next]_vars
    PROVE  RequestsOK'
<1>0. \A u \in Threads : req[u] # NoRequest => req[u] \in Requests
  BY DEF TypeOK
<1>1. ASSUME NEW t \in Threads, NEW r \in Requests, Enters(t, r)
      PROVE  RequestsOK'
  <2>1. /\ r # NoRequest /\ req[t] = NoRequest /\ req'[t] = r
        /\ \A u \in Threads \ {t} : req'[u] = req[u]
    BY <1>1, EntersReq
  <2>2. Fresh(r) /\ count \in Nat /\ count' \in Nat /\ count <= count'
    BY <1>1 DEF Enters, TypeOK
  <2>3. r.op \in Ops
    BY DEF Requests
  <2>4. /\ r.op = "seed" => r.step = "ddl" /\ r.repo = ChatRepo /\ r.linked
        /\ r.op # "seed" => /\ r.op # "ask" => r.id \in 1..count'
                            /\ \/ r.repo = Latest /\ r.step = AfterRepo(r)
                               \/ r.repo = NoRepo /\ r.step = "build"
        /\ r.op \in Makes /\ r.linked => Required \subseteq r.cols
    BY <2>2 DEF Fresh
  <2>5. ChatRepo # NoRepo /\ Latest # NoRepo
    BY ReposAre
  <2>6. Steered(r, count')
    BY <2>3, <2>4, <2>5, AfterRepoIs DEF Steered, Ops, Alter, Makes
  <2>7. \A u \in Threads \ {t} : req[u] # NoRequest => Steered(req[u], count')
    BY <2>2 DEF RequestsOK, Busy, Steered
  <2> QED BY <2>1, <2>6, <2>7 DEF RequestsOK, Busy
<1>2. ASSUME NEW t \in Threads, Builds(t)
      PROVE  RequestsOK'
  <2>1. count' = count /\ req'[t].repo = Latest /\ Latest # NoRepo
    BY <1>2, ReposAre DEF Builds
  <2>2. ASSUME NEW u \in Threads, req'[u] # NoRequest
        PROVE  Steered(req[u], count) /\ req[u] \in Requests /\ Same(req[u], req'[u])
    BY <1>0, <1>2, <2>2, BuildsReq DEF RequestsOK, Busy
  <2>3. ASSUME req'[t] # NoRequest
        PROVE  Steered(req'[t], count')
    <3>1. PICK r \in Requests : r = req[t] /\ Steered(r, count) /\ Same(r, req'[t])
      BY <2>2, <2>3
    <3>2. r.step = "build" /\ req'[t].step = AfterRepo(r)
      BY <1>2, <3>1 DEF Builds
    <3>3. r.op \in Ops
      BY DEF Requests
    <3>4. PICK q \in Requests : q = req'[t]
      BY <1>2, <2>3 DEF Builds
    <3>5. Steered(q, count')
      BY <2>1, <3>1, <3>2, <3>3, <3>4, AfterRepoIs DEF Steered, Same, Ops, Alter, Makes
    <3> QED BY <3>4, <3>5
  <2>4. ASSUME NEW u \in Threads \ {t}, req'[u] # NoRequest
        PROVE  Steered(req'[u], count')
    <3>1. PICK r \in Requests : r = req[u] /\ Steered(r, count) /\ Same(r, req'[u])
      BY <2>2, <2>4
    <3>2. PICK q \in Requests : q = req'[u]
      BY <1>2, <2>4 DEF Builds
    <3>3. r # NoRequest /\ Renumbered(r, q)
      BY <1>2, <2>4, <3>1, <3>2 DEF Builds, Renumbered
    <3>4. q.step = r.step /\ (q.repo = NoRepo <=> r.repo = NoRepo)
          /\ (r.repo = ChatRepo => q.repo = ChatRepo)
      BY <3>3, ReposAre DEF Renumbered
    <3>5. Steered(q, count')
      BY <2>1, <3>1, <3>2, <3>3, <3>4 DEF Steered, Same
    <3> QED BY <3>2, <3>5
  <2> QED BY <2>3, <2>4 DEF RequestsOK, Busy
<1>3. ASSUME NEW t \in Threads, NEW r \in Requests, NEW q \in Requests \union {NoRequest}, Moves(t, r, q)
      PROVE  RequestsOK'
  <2>1. /\ r # NoRequest /\ req[t] = r /\ req'[t] = q
        /\ \A u \in Threads \ {t} : req'[u] = req[u]
        /\ q # NoRequest => Locals(r, q)
        /\ r.step # "build" /\ count' = count
    BY <1>3, MovesReq
  <2>2. Steered(r, count)
    BY <2>1 DEF RequestsOK, Busy
  <2>3. r.op \in Ops
    BY DEF Requests
  <2>4. ASSUME q # NoRequest
        PROVE  Steered(q, count')
    <3>1. OnlyReads(t, r, q) \/ Lays(t, r, q) \/ Describes(t, r, q) \/ Lists(t, r, q)
      BY <1>3, <2>4 DEF Moves, Audits
    <3>2. CASE OnlyReads(t, r, q)
      BY <2>1, <2>2, <2>3, <2>4, <3>2 DEF OnlyReads, Steered, Locals, Ops, Alter, Makes
    <3>3. CASE Lays(t, r, q)
      BY <2>1, <2>2, <2>3, <2>4, <3>3 DEF Lays, Steered, Locals, Ops, Alter, Makes
    <3>4. CASE Describes(t, r, q)
      BY <2>1, <2>2, <2>3, <2>4, <3>4, AfterDmlIs DEF Describes, Steered, Locals, Ops, Alter, Makes
    <3>5. CASE Lists(t, r, q)
      BY <2>1, <2>2, <2>3, <2>4, <3>5 DEF Lists, Steered, Locals, Ops, Alter, Makes
    <3> QED BY <3>1, <3>2, <3>3, <3>4, <3>5
  <2> QED BY <2>1, <2>4 DEF RequestsOK, Busy, Steered
<1>4. CASE Still
  BY <1>4 DEF Still, history, RequestsOK, Busy, Steered
<1>5. CASE Crash
  BY <1>5 DEF Crash, RequestsOK, Busy
<1>6. ASSUME NEW t \in Threads, Asks(t)
      PROVE  RequestsOK'
  <2>1. \A u \in Threads : Busy(u)' => Busy(u) /\ req'[u] = req[u] /\ count' = count
    BY <1>6, AsksReq DEF Busy
  <2> QED BY <2>1 DEF RequestsOK
<1> QED BY <1>1, <1>2, <1>3, <1>4, <1>5, <1>6, NextIs

LEMMA BuildStep ==
    ASSUME TypeOK, BuildOK, RequestsOK, [Next]_vars
    PROVE  BuildOK'
<1>0. /\ Cardinality(Threads) \in Nat /\ IsFiniteSet(Builders) /\ Cardinality(Builders) \in Nat
      /\ Latest = 1 /\ ChatRepo = 0
  BY BuildersAre DEF Latest, ChatRepo
<1>1. ASSUME NEW t \in Threads, NEW r \in Requests, Enters(t, r)
      PROVE  BuildOK'
  <2>1. /\ r # NoRequest /\ req[t] = NoRequest /\ req'[t] = r
        /\ \A u \in Threads \ {t} : req'[u] = req[u]
    BY <1>1, EntersReq
  <2>2. cached' = cached /\ Fresh(r)
    BY <1>1 DEF Enters
  <2>3. CASE cached
    <3>1. r.step # "build"
      <4>1. r.op \in Ops
        BY DEF Requests
      <4> QED BY <2>2, <2>3, <4>1, AfterRepoIs DEF Fresh, Ops
    <3>2. Builders' = Builders
      BY <2>1, <3>1 DEF Builders, At, Busy
    <3>3. Cardinality(Builders) + 1 <= Cardinality(Threads)
      <4>1. Builders \in SUBSET (Threads \ {t})
        BY <2>1 DEF Builders, At, Busy
      <4>2. /\ Cardinality(Threads \ {t}) = Cardinality(Threads) - 1 /\ IsFiniteSet(Threads \ {t})
        BY ConstantsAssumption, FS_RemoveElement
      <4>3. Cardinality(Builders) <= Cardinality(Threads \ {t})
        BY <4>1, <4>2, FS_Subset
      <4> QED BY <1>0, <4>2, <4>3
    <3>4. r.repo \in {NoRepo, ChatRepo, Latest}
      BY <2>2, <2>3 DEF Fresh
    <3> QED BY <1>0, <2>1, <2>2, <2>3, <3>2, <3>3, <3>4 DEF BuildOK, Busy
  <2>4. CASE ~cached
    <3>1. r.repo \in {NoRepo, ChatRepo}
      BY <2>2, <2>4 DEF Fresh
    <3>2. \A u \in Threads : Busy(u) => req[u].repo \in {NoRepo, ChatRepo}
      BY <2>4 DEF BuildOK
    <3> QED BY <2>1, <3>1, <3>2 DEF BuildOK, Busy
  <2> QED BY <2>3, <2>4
<1>2. ASSUME NEW t \in Threads, Builds(t)
      PROVE  BuildOK'
  <2>1. /\ \A u \in Threads : (req[u] = NoRequest <=> req'[u] = NoRequest)
        /\ \A u \in Threads \ {t} : req[u] # NoRequest => req'[u].step = req[u].step
        /\ req[t].step = "build" /\ req'[t].step # "build"
    BY <1>2, BuildsReq
  <2>2. /\ req[t] # NoRequest /\ cached' /\ req'[t].repo = Latest
        /\ \A u \in Threads \ {t} : Renumbered(req[u], req'[u])
    BY <1>2 DEF Builds
  <2>3. t \in Builders /\ Builders' = Builders \ {t}
    BY <2>1, <2>2 DEF Builders, At, Busy
  <2>4. Cardinality(Builders') = Cardinality(Builders) - 1
    BY <1>0, <2>3, FS_RemoveElement
  <2>5. Cardinality(Builders) <= Cardinality(Threads)
    <3>1. Builders \in SUBSET Threads
      BY DEF Builders
    <3> QED BY <3>1, ConstantsAssumption, FS_Subset
  <2>6. ASSUME NEW u \in Threads, Busy(u)', req'[u].repo \notin {NoRepo, ChatRepo}
        PROVE  req'[u].repo + Cardinality(Builders') <= Cardinality(Threads)
    <3>1. CASE u = t
      BY <1>0, <2>2, <2>4, <2>5, <3>1
    <3>2. CASE u # t
      <4>1. req[u] # NoRequest /\ Renumbered(req[u], req'[u])
        BY <2>1, <2>2, <2>6, <3>2 DEF Busy
      <4>2. PICK r \in Requests : r = req[u]
        BY <4>1 DEF TypeOK
      <4>3. r.repo \notin {NoRepo, ChatRepo} /\ req'[u].repo = r.repo + 1 /\ r.repo \in Nat
        BY <1>0, <2>6, <4>1, <4>2 DEF Renumbered, Requests, Repos
      <4>4. r.repo + Cardinality(Builders) <= Cardinality(Threads)
        BY <4>1, <4>2, <4>3 DEF BuildOK, Busy
      <4> QED BY <1>0, <2>4, <4>3, <4>4
    <3> QED BY <3>1, <3>2
  <2> QED BY <2>2, <2>6 DEF BuildOK
<1>3. ASSUME NEW t \in Threads, NEW r \in Requests, NEW q \in Requests \union {NoRequest}, Moves(t, r, q)
      PROVE  BuildOK'
  <2>1. /\ r # NoRequest /\ req[t] = r /\ req'[t] = q
        /\ \A u \in Threads \ {t} : req'[u] = req[u]
        /\ q # NoRequest => q.repo = r.repo
        /\ r.step # "build" /\ cached' = cached
    BY <1>3, MovesReq DEF Locals
  <2>2. q # NoRequest => q.step # "build"
    <3>1. AfterDml(r) # "build"
      BY AfterDmlIs
    <3> QED BY <1>3, <3>1 DEF Moves, OnlyReads, Lays, Describes, Lists, Audits
  <2>3. Builders' = Builders
    BY <2>1, <2>2 DEF Builders, At, Busy
  <2> QED BY <2>1, <2>3 DEF BuildOK, Busy
<1>4. CASE Still
  <2>1. req' = req /\ (cached => cached') /\ Builders' = Builders
    BY <1>4 DEF Still, Builders, At, Busy
  <2> QED BY <2>1 DEF BuildOK, Busy
<1>5. CASE Crash
  BY <1>5 DEF Crash, BuildOK, Busy
<1>6. ASSUME NEW t \in Threads, Asks(t)
      PROVE  BuildOK'
  <2>1. Builders' = Builders
    BY <1>6, AsksReq DEF Asks, Builders, At, Busy
  <2> QED BY <1>6, <2>1, AsksReq DEF BuildOK, Busy
<1> QED BY <1>1, <1>2, <1>3, <1>4, <1>5, <1>6, NextIs

(* The rows and the columns a step writes are tables' again. *)
LEMMA WritesTables ==
    ASSUME TypeOK, NEW r \in Requests, r.op # "ask"
    PROVE  /\ r.op \notin Alter \/ disk[r.table] # NoTable => Laid(r) \in Files \union {NoTable}
           /\ Described(r) \in TableDefs \union {NoTable}
<1>1. /\ r.op \in Ops /\ r.table \in TableNames /\ r.col \in Columns /\ r.new \in Columns
      /\ r.cols \in SUBSET Columns /\ r.linked \in BOOLEAN
  BY DEF Requests
<1>2. \A cols \in SUBSET Columns : r.op \in Alter => Altered(r, cols) \in SUBSET Columns
  BY <1>1, AlteredIs DEF Alter
<1>3. /\ meta[r.table] # NoTable => meta[r.table] \in TableDefs
      /\ disk[r.table] # NoTable => disk[r.table] \in Files
  BY <1>1 DEF TypeOK
<1>4. ASSUME r.op \notin Alter \/ disk[r.table] # NoTable
      PROVE  Laid(r) \in Files \union {NoTable}
  <2>1. CASE r.op \in Makes
    BY <1>1, <2>1 DEF Laid, Makes, Files
  <2>2. CASE r.op = "delete"
    BY <2>2 DEF Laid
  <2>3. CASE r.op \in Alter
    <3>1. disk[r.table].cols \in SUBSET Columns
      BY <1>3, <1>4, <2>3 DEF Files
    <3>2. Laid(r) = [cols |-> Altered(r, disk[r.table].cols)]
      BY <2>3 DEF Laid, Alter
    <3> QED BY <1>2, <2>3, <3>1, <3>2 DEF Files
  <2> QED BY <1>1, <2>1, <2>2, <2>3 DEF Ops, Makes, Alter
<1>5. Described(r) \in TableDefs \union {NoTable}
  <2>1. CASE r.op \in Makes
    BY <1>1, <2>1, DescribedIs DEF TableDefs
  <2>2. CASE r.op = "delete"
    BY <2>2, DescribedIs
  <2>3. CASE r.op \in Alter
    <3>1. Altered(r, r.cols) \in SUBSET Columns
      BY <1>1, <1>2, <2>3
    <3>2. PICK cols \in SUBSET Columns : cols = Altered(r, r.cols)
      BY <3>1
    <3>3. Described(r) = IF meta[r.table] = NoTable THEN NoTable
                         ELSE [meta[r.table] EXCEPT !.cols = cols]
      BY <2>3, <3>2, DescribedIs
    <3> QED BY <1>3, <3>3 DEF TableDefs
  <2> QED BY <1>1, <2>1, <2>2, <2>3 DEF Ops, Makes, Alter
<1> QED BY <1>4, <1>5

LEMMA TypeStep ==
    ASSUME TypeOK, BuildOK, RequestsOK, RacedOK, AloneOK, [Next]_vars
    PROVE  TypeOK'
<1>0. /\ MaxRequests \in Nat /\ MaxTokens \in Nat /\ MaxCrashes \in Nat
      /\ req \in [Threads -> Requests \union {NoRequest}]
  BY ConstantsAssumption DEF TypeOK
<1>1. PartedIn(req') \subseteq raced'
  <2>1. RacedOK'
    BY MeetingsStep
  <2> QED BY <2>1 DEF RacedOK, PartedIn
<1>2. ASSUME NEW t \in Threads, NEW r \in Requests, Enters(t, r)
      PROVE  TypeOK'
  <2>1. req' \in [Threads -> Requests \union {NoRequest}]
    BY <1>0, <1>2 DEF Enters
  <2>2. raced \subseteq raced' /\ raced' \subseteq TableNames /\ overlapped' \in BOOLEAN
    BY <1>2 DEF Enters, TypeOK, Requests
  <2>3. parted' \subseteq raced'
    BY <1>1, <1>2, <2>2 DEF Enters, TypeOK
  <2> QED BY <1>2, <2>1, <2>2, <2>3 DEF Enters, TypeOK
<1>3. ASSUME NEW t \in Threads, Builds(t)
      PROVE  TypeOK'
  <2>1. parted' \subseteq raced'
    BY <1>1, <1>3 DEF Builds, TypeOK
  <2> QED BY <1>3, <2>1 DEF Builds, TypeOK
<1>4. ASSUME NEW t \in Threads, NEW r \in Requests, NEW q \in Requests \union {NoRequest}, Moves(t, r, q)
      PROVE  TypeOK'
  <2>1. req' \in [Threads -> Requests \union {NoRequest}] /\ tokens' \in 0..MaxTokens
    BY <1>0, <1>4 DEF Moves
  <2>2. /\ r.table \in TableNames /\ r.tools \in SUBSET TableNames /\ r.id \in Ids \union {SeedId}
        /\ r.op # "ask"
    BY <1>4 DEF Requests, Moves
  <2>3. meta' \in [TableNames -> TableDefs \union {NoTable}]
    <3>1. meta' = meta \/ meta' = [meta EXCEPT ![r.table] = Described(r)]
      BY <1>4 DEF Moves, OnlyReads, Lays, Describes, Lists, Audits
    <3> QED BY <2>2, <3>1, WritesTables DEF TypeOK
  <2>4. disk' \in [TableNames -> Files \union {NoTable}]
    <3>1. \/ disk' = disk
          \/ /\ disk' = [disk EXCEPT ![r.table] = Laid(r)]
             /\ r.op \in Alter => disk[r.table] # NoTable
      BY <1>4 DEF Moves, OnlyReads, Lays, Describes, Lists, Audits
    <3> QED BY <2>2, <3>1, WritesTables DEF TypeOK
  <2>5. tools' \subseteq TableNames
    BY <1>4, <2>2 DEF Moves, OnlyReads, Lays, Describes, Lists, Audits, TypeOK
  <2>6. unaudited' \subseteq Ids \union {SeedId}
    BY <1>4, <2>2 DEF Moves, OnlyReads, Lays, Describes, Lists, Audits, TypeOK
  <2>7. UNCHANGED <<cached, count, crashes, overlapped, raced, parted>>
    BY <1>4 DEF Moves
  <2> QED BY <2>1, <2>3, <2>4, <2>5, <2>6, <2>7 DEF TypeOK
<1>5. CASE Still
  BY <1>5 DEF Still, history, TypeOK
<1>6. CASE Crash
  <2>1. crashes' \in 0..MaxCrashes /\ 0 \in 0..MaxTokens
    BY <1>0, <1>6 DEF Crash, TypeOK
  <2> QED BY <1>6, <2>1 DEF Crash, TypeOK
<1>7. ASSUME NEW t \in Threads, Asks(t)
      PROVE  TypeOK'
  <2>1. req' \in [Threads -> Requests \union {NoRequest}] /\ tokens' \in 0..MaxTokens
    BY <1>0, <1>7 DEF Asks
  <2>2. UNCHANGED <<meta, disk, tools, cached, count, crashes, overlapped, raced, parted, unaudited>>
    BY <1>7, AsksReq
  <2> QED BY <2>1, <2>2 DEF TypeOK
<1> QED BY <1>2, <1>3, <1>4, <1>5, <1>6, <1>7, NextIs

LEMMA LocksStep ==
    ASSUME TypeOK, BuildOK, RequestsOK, LocksOK, [Next]_vars
    PROVE  LocksOK'
<1>0. PartedIn(req) \subseteq parted
  BY DEF LocksOK
<1>1. ASSUME NEW t \in Threads, NEW r \in Requests, Enters(t, r)
      PROVE  LocksOK'
  <2>1. /\ req'[t] = r /\ \A u \in Threads \ {t} : req'[u] = req[u]
    BY <1>1, EntersReq
  <2>2. r.step # "dml"
    <3>1. r.op \in Ops /\ Fresh(r)
      BY <1>1 DEF Requests, Enters
    <3> QED BY <3>1, AfterRepoIs DEF Fresh, Ops
  <2>3. PartedIn(req') \subseteq parted'
    BY <1>1 DEF Enters
  <2> QED BY <2>1, <2>2, <2>3 DEF LocksOK, At, Busy
<1>2. ASSUME NEW t \in Threads, Builds(t)
      PROVE  LocksOK'
  <2>1. PartedIn(req') \subseteq parted'
    BY <1>2 DEF Builds
  <2>2. ASSUME NEW u \in Threads, At(u, "dml")'
        PROVE  /\ At(u, "dml") /\ Renumbered(req[u], req'[u]) /\ req[u] # NoRequest
               /\ req[u].repo \in Repos
    <3>1. u # t /\ req[u] # NoRequest /\ req[u].step = "dml"
      <4>1. req'[t].step # "dml"
        BY <1>2, BuildsReq
      <4> QED BY <1>2, <2>2, <4>1, BuildsReq DEF At, Busy
    <3>2. req[u] \in Requests /\ Steered(req[u], count)
      BY <3>1 DEF TypeOK, RequestsOK, Busy
    <3>3. req[u].repo \in Repos
      BY <3>1, <3>2 DEF Requests, Steered
    <3>4. Renumbered(req[u], req'[u])
      BY <1>2, <3>1 DEF Builds
    <3> QED BY <3>1, <3>3, <3>4 DEF At, Busy
  <2>3. ASSUME NEW u \in Threads, NEW v \in Threads, At(u, "dml")', At(v, "dml")',
               req'[u].repo = req'[v].repo
        PROVE  u = v
    <3>1. /\ At(u, "dml") /\ Renumbered(req[u], req'[u]) /\ req[u] # NoRequest /\ req[u].repo \in Repos
          /\ At(v, "dml") /\ Renumbered(req[v], req'[v]) /\ req[v] # NoRequest /\ req[v].repo \in Repos
      BY <2>2, <2>3
    <3>2. req[u].repo = req[v].repo
      BY <2>3, <3>1, ReposAre DEF Renumbered, Repos, ChatRepo
    <3> QED BY <3>1, <3>2 DEF LocksOK
  <2> QED BY <2>1, <2>3 DEF LocksOK
<1>3. ASSUME NEW t \in Threads, NEW r \in Requests, NEW q \in Requests \union {NoRequest}, Moves(t, r, q)
      PROVE  LocksOK'
  <2>1. /\ r # NoRequest /\ req[t] = r /\ req'[t] = q
        /\ \A u \in Threads \ {t} : req'[u] = req[u]
        /\ q # NoRequest => q.repo = r.repo /\ q.table = r.table
        /\ parted' = parted /\ Changes(r)
        /\ ~Changes(NoRequest)
    BY <1>3, MovesReq DEF Locals, Changes
  <2>2. PartedIn(req') \subseteq PartedIn(req)
    <3> SUFFICES ASSUME NEW T \in PartedIn(req')
                 PROVE  T \in PartedIn(req)
      OBVIOUS
    <3>1. PICK u \in Threads, v \in Threads :
            /\ \A x \in {u, v} : Changes(req'[x]) /\ req'[x].table = T /\ req'[x].repo # NoRepo
            /\ req'[u].repo # req'[v].repo
      BY DEF PartedIn
    <3>2. /\ \A x \in {u, v} : Changes(req[x]) /\ req[x].table = T /\ req[x].repo # NoRepo
          /\ req[u].repo # req[v].repo
      BY <2>1, <3>1
    <3> QED BY <3>2 DEF PartedIn
  <2>3. q # NoRequest /\ q.step = "dml" => LockFree(t)
    <3>1. AfterDml(r) # "dml"
      BY AfterDmlIs
    <3> QED BY <1>3, <3>1 DEF Moves, OnlyReads, Lays, Describes, Lists, Audits
  <2>4. \A u, v \in Threads : At(u, "dml")' /\ At(v, "dml")' /\ req'[u].repo = req'[v].repo => u = v
    BY <2>1, <2>3 DEF LocksOK, LockFree, At, Busy
  <2> QED BY <1>0, <2>1, <2>2, <2>4 DEF LocksOK
<1>4. CASE Still
  BY <1>4 DEF Still, history, LocksOK, At, Busy
<1>5. CASE Crash
  <2>1. \A u \in Threads : req'[u] = NoRequest
    BY <1>5 DEF Crash
  <2>2. PartedIn(req') = {}
    BY <2>1 DEF PartedIn, Changes
  <2> QED BY <2>1, <2>2 DEF LocksOK, At, Busy
<1>6. ASSUME NEW t \in Threads, Asks(t)
      PROVE  LocksOK'
  <2>1. /\ req'[t] = NoRequest /\ parted' = parted /\ ~Changes(req'[t])
        /\ \A u \in Threads \ {t} : req'[u] = req[u]
    BY <1>6, AsksReq
  <2>2. PartedIn(req') \subseteq PartedIn(req)
    BY <2>1 DEF PartedIn
  <2>3. \A u, v \in Threads : At(u, "dml")' /\ At(v, "dml")' /\ req'[u].repo = req'[v].repo => u = v
    BY <2>1 DEF LocksOK, At, Busy
  <2> QED BY <1>0, <2>1, <2>2, <2>3 DEF LocksOK
<1> QED BY <1>1, <1>2, <1>3, <1>4, <1>5, <1>6, NextIs

-------------------------------------------------------------------------------
(* The invariants of the tables themselves.                                  *)

(* Between its statements, a route that no other lock crosses has taken away   *)
(* or laid the table it meant to, and what it alters is still described.      *)
ThereOK ==
    crashes = 0 =>
        /\ DescribedIffThere
        /\ \A t \in Threads : At(t, "dml") /\ req[t].table \notin parted =>
              /\ disk[req[t].table] = NoTable <=> req[t].op = "delete"
              /\ req[t].op \in Alter => meta[req[t].table] # NoTable

(* A route that meets no other has the columns it read still described, and    *)
(* between its statements it has laid the columns it will describe.           *)
InStep(r) ==
    /\ r.step \in {"ddl", "dml"} /\ r.op \in Alter =>
          meta[r.table] # NoTable /\ meta[r.table].cols = r.cols
    /\ r.step = "dml" /\ r.op \in Makes => disk[r.table] = [cols |-> r.cols]
    /\ r.step = "dml" /\ r.op = "delete" => disk[r.table] = NoTable
    /\ r.step = "dml" /\ r.op \in Alter => disk[r.table] = [cols |-> Altered(r, r.cols)]
MatchOK ==
    crashes = 0 =>
        /\ \A T \in TableNames \ raced : ~InSection(T) => Matches(T)
        /\ \A t \in Threads : Changes(req[t]) /\ req[t].table \notin raced => InStep(req[t])

(* A route that meets no other takes no required column of a linked table.     *)
Spares(r) ==
    /\ /\ r.step \in {"ddl", "dml"} /\ r.op \in {"rename", "drop"}
       /\ meta[r.table] # NoTable /\ meta[r.table].linked
       => r.col \notin Required
    /\ r.step = "dml" /\ r.op \in Makes => disk[r.table] = [cols |-> r.cols]
LinkedOK ==
    /\ LinkedKeepsColumns
    /\ \A t \in Threads : Changes(req[t]) /\ req[t].table \notin raced => Spares(req[t])

(* A route that links a table found none that is linked, and alone none came.  *)
Linked(T) == meta[T] # NoTable /\ meta[T].linked
OneOK ==
    ~overlapped =>
        /\ \A T, U \in TableNames : Linked(T) /\ Linked(U) => T = U
        /\ \A t \in Threads :
              Busy(t) /\ req[t].op \in Makes /\ req[t].linked /\ req[t].step \in {"ddl", "dml"}
                  => ~LinkedThere

LEMMA LaidIs ==
    ASSUME NEW r
    PROVE  /\ r.op \in Makes => Laid(r) = [cols |-> r.cols]
           /\ r.op = "delete" => Laid(r) = NoTable
           /\ r.op \in Alter => Laid(r) = [cols |-> Altered(r, disk[r.table].cols)]
<1>1. r.op \in Makes => Laid(r) = [cols |-> r.cols]
  BY DEF Laid, Makes
<1>2. r.op = "delete" => Laid(r) = NoTable
  BY DEF Laid
<1>3. r.op \in Alter => Laid(r) = [cols |-> Altered(r, disk[r.table].cols)]
  BY DEF Laid, Alter
<1> QED BY <1>1, <1>2, <1>3

(* A step that no table notices: the files and who is between statements. *)
LEMMA NoSection ==
    ASSUME \A u \in Threads : At(u, "dml")' <=> At(u, "dml"),
           \A u \in Threads : At(u, "dml") => req'[u].table = req[u].table
    PROVE  \A T \in TableNames : InSection(T)' <=> InSection(T)
  BY DEF InSection

LEMMA ThereStep ==
    ASSUME TypeOK, BuildOK, RequestsOK, LocksOK, ThereOK, [Next]_vars
    PROVE  ThereOK'
<1>1. ASSUME NEW t \in Threads, NEW r \in Requests, Enters(t, r)
      PROVE  ThereOK'
  <2>1. /\ req[t] = NoRequest /\ req'[t] = r /\ \A u \in Threads \ {t} : req'[u] = req[u]
        /\ parted \subseteq parted'
    BY <1>1, EntersReq
  <2>2. r.step # "dml"
    <3>1. r.op \in Ops /\ Fresh(r)
      BY <1>1 DEF Requests, Enters
    <3> QED BY <3>1, AfterRepoIs DEF Fresh, Ops
  <2>3. UNCHANGED <<meta, disk, crashes>>
    BY <1>1 DEF Enters
  <2>4. \A T \in TableNames : InSection(T)' <=> InSection(T)
    BY <2>1, <2>2, NoSection DEF At, Busy
  <2> QED BY <2>1, <2>2, <2>3, <2>4 DEF ThereOK, DescribedIffThere, At, Busy
<1>2. ASSUME NEW t \in Threads, Builds(t)
      PROVE  ThereOK'
  <2>1. /\ \A u \in Threads : (req[u] = NoRequest <=> req'[u] = NoRequest)
        /\ \A u \in Threads : req[u] # NoRequest => Same(req[u], req'[u])
        /\ \A u \in Threads \ {t} : req[u] # NoRequest => req'[u].step = req[u].step
        /\ req[t].step = "build" /\ req'[t].step # "dml" /\ parted \subseteq parted'
    BY <1>2, BuildsReq
  <2>2. UNCHANGED <<meta, disk, crashes>>
    BY <1>2 DEF Builds
  <2>3. /\ \A u \in Threads : At(u, "dml")' <=> At(u, "dml")
        /\ \A u \in Threads : At(u, "dml") => req'[u].table = req[u].table /\ req'[u].op = req[u].op
    BY <2>1 DEF At, Busy, Same
  <2>4. \A T \in TableNames : InSection(T)' <=> InSection(T)
    BY <2>3, NoSection
  <2>5. DescribedIffThere /\ crashes = 0 => DescribedIffThere'
    BY <2>1, <2>2, <2>4 DEF DescribedIffThere
  <2> QED BY <2>1, <2>2, <2>3, <2>5 DEF ThereOK
<1>3. ASSUME NEW t \in Threads, NEW r \in Requests, NEW q \in Requests \union {NoRequest}, Moves(t, r, q)
      PROVE  ThereOK'
  <2>1. /\ r # NoRequest /\ req[t] = r /\ req'[t] = q
        /\ \A u \in Threads \ {t} : req'[u] = req[u]
        /\ q # NoRequest => q.table = r.table /\ q.op = r.op
        /\ parted' = parted /\ crashes' = crashes
    BY <1>3, MovesReq DEF Locals
  <2> DEFINE S == r.table
  <2>2. S \in TableNames /\ r.op \in Ops \ {"ask"}
    BY <1>3 DEF Requests, Moves
  <2>3. SUFFICES ASSUME crashes = 0
                 PROVE  ThereOK'
    BY <2>1 DEF ThereOK
  <2>4. /\ \A T \in TableNames \ parted : ~InSection(T) => (meta[T] = NoTable <=> disk[T] = NoTable)
        /\ \A u \in Threads : At(u, "dml") /\ req[u].table \notin parted =>
              /\ disk[req[u].table] = NoTable <=> req[u].op = "delete"
              /\ req[u].op \in Alter => meta[req[u].table] # NoTable
    BY <2>3 DEF ThereOK, DescribedIffThere
  <2>5. ASSUME S \notin parted, NEW u \in Threads \ {t}, At(u, "dml"), req[u].table = S,
               r.step # "build"
        PROVE  req[u].repo = r.repo
    <3>1. Steered(r, count) /\ Steered(req[u], count) /\ req[u].step = "dml" /\ req[u] # NoRequest
      BY <2>1, <2>5 DEF RequestsOK, Busy, At
    <3>2. r.repo # NoRepo /\ req[u].repo # NoRepo
      BY <2>5, <3>1 DEF Steered
    <3>3. S \notin PartedIn(req)
      BY <2>5 DEF LocksOK
    <3>4. Changes(r) /\ Changes(req[u])
      BY <1>3, <3>1, MovesReq DEF Changes, Steered
    <3> QED BY <2>1, <2>2, <2>5, <3>1, <3>2, <3>3, <3>4 DEF PartedIn
  <2>6. CASE OnlyReads(t, r, q) \/ Lists(t, r, q) \/ Audits(t, r, q)
    <3>1. UNCHANGED <<meta, disk>> /\ r.step # "dml" /\ (q # NoRequest => q.step # "dml")
      BY <2>6 DEF OnlyReads, Lists, Audits
    <3>2. \A u \in Threads : At(u, "dml")' <=> At(u, "dml") /\ u # t
      BY <2>1, <3>1 DEF At, Busy
    <3>3. \A T \in TableNames : InSection(T)' <=> InSection(T)
      BY <2>1, <3>1 DEF InSection, At, Busy
    <3> QED BY <2>1, <2>4, <3>1, <3>2, <3>3 DEF ThereOK, DescribedIffThere
  <2>7. CASE Lays(t, r, q)
    <3>1. /\ meta' = meta /\ r.step = "ddl" /\ LockFree(t) /\ q # NoRequest /\ q.step = "dml"
          /\ disk' = [disk EXCEPT ![S] = Laid(r)]
          /\ r.op \in Alter => disk[S] # NoTable
      BY <2>7 DEF Lays
    <3>2. InSection(S)' /\ At(t, "dml")' /\ ~At(t, "dml")
      BY <2>1, <3>1 DEF InSection, At, Busy
    <3>3. \A T \in TableNames \ {S} : (InSection(T)' <=> InSection(T)) /\ disk'[T] = disk[T]
      BY <2>1, <3>1 DEF InSection, At, Busy, TypeOK
    <3>4. S \notin parted => ~InSection(S)
      BY <2>1, <2>5, <3>1, <3>2 DEF InSection, LockFree
    <3>5. disk'[S] = NoTable <=> r.op = "delete"
      <4>1. disk'[S] = Laid(r)
        BY <2>2, <3>1 DEF TypeOK
      <4>2. r.op # "delete" => Laid(r) # NoTable
        <5>1. CASE r.op \in Makes
          <6>1. Laid(r) \in Files
            BY <5>1, LaidIs DEF Files, Requests
          <6> QED BY <6>1, NullsAssumption
        <5>2. CASE r.op \in Alter
          <6>1. disk[S].cols \in SUBSET Columns
            BY <2>2, <3>1, <5>2 DEF TypeOK, Files
          <6>2. Altered(r, disk[S].cols) \in SUBSET Columns
            BY <5>2, <6>1, AlteredIs DEF Alter, Requests
          <6>3. Laid(r) = [cols |-> Altered(r, disk[S].cols)]
            BY <5>2, LaidIs
          <6>4. Laid(r) \in Files
            BY <6>2, <6>3 DEF Files
          <6> QED BY <6>4, NullsAssumption
        <5> QED BY <2>2, <5>1, <5>2 DEF Ops, Makes, Alter
      <4> QED BY <4>1, <4>2, LaidIs
    <3>6. S \notin parted /\ r.op \in Alter => meta[S] # NoTable
      BY <2>2, <2>4, <3>1, <3>4
    <3>7. \A u \in Threads \ {t} : At(u, "dml")' => At(u, "dml") /\ (req[u].table = S => S \in parted)
      BY <2>1, <2>2, <3>4 DEF At, Busy, InSection
    <3>8. \A u \in Threads \ {t} : At(u, "dml") => req[u].table \in TableNames
      BY DEF At, Busy, TypeOK, Requests
    <3>9. DescribedIffThere'
      BY <2>1, <2>4, <3>1, <3>2, <3>3 DEF DescribedIffThere
    <3>10. \A u \in Threads : At(u, "dml")' /\ req'[u].table \notin parted' =>
             /\ disk'[req'[u].table] = NoTable <=> req'[u].op = "delete"
             /\ req'[u].op \in Alter => meta'[req'[u].table] # NoTable
      BY <2>1, <2>4, <3>1, <3>3, <3>5, <3>6, <3>7, <3>8
    <3> QED BY <3>9, <3>10 DEF ThereOK
  <2>8. CASE Describes(t, r, q)
    <3>1. /\ disk' = disk /\ r.step = "dml" /\ (q # NoRequest => q.step # "dml")
          /\ meta' = [meta EXCEPT ![S] = Described(r)]
      BY <2>8, AfterDmlIs DEF Describes
    <3>2. At(t, "dml") /\ ~At(t, "dml")'
      BY <2>1, <3>1 DEF At, Busy
    <3>3. \A T \in TableNames \ {S} : (InSection(T)' <=> InSection(T)) /\ meta'[T] = meta[T]
      BY <2>1, <3>1, <3>2 DEF InSection, At, Busy, TypeOK
    <3>4. ASSUME S \notin parted
          PROVE  \A u \in Threads \ {t} : At(u, "dml") => req[u].table # S
      BY <2>1, <2>5, <3>1, <3>2, <3>4 DEF LocksOK
    <3>5. meta'[S] = Described(r)
      BY <2>2, <3>1 DEF TypeOK
    <3>6. S \notin parted => (meta'[S] = NoTable <=> disk[S] = NoTable)
      <4>1. r.op \in Makes => Described(r) # NoTable
        <5>1. r.op \in Makes => Described(r) \in TableDefs
          BY DescribedIs DEF TableDefs, Requests
        <5> QED BY <5>1, NullsAssumption
      <4>2. r.op \in Alter /\ meta[S] # NoTable => Described(r) # NoTable
        <5>1. ASSUME r.op \in Alter, meta[S] # NoTable
              PROVE  Described(r) \in TableDefs
          <6>1. Altered(r, r.cols) \in SUBSET Columns
            BY <5>1, AlteredIs DEF Alter, Requests
          <6>2. PICK cols \in SUBSET Columns : cols = Altered(r, r.cols)
            BY <6>1
          <6>3. Described(r) = [meta[S] EXCEPT !.cols = cols] /\ meta[S] \in TableDefs
            BY <2>2, <5>1, <6>2, DescribedIs DEF TypeOK
          <6> QED BY <6>3 DEF TableDefs
        <5> QED BY <5>1, NullsAssumption
      <4> QED BY <2>1, <2>2, <2>4, <3>2, <3>5, <4>1, <4>2, DescribedIs DEF Ops, Makes, Alter
    <3>7. \A u \in Threads : At(u, "dml")' => /\ u # t /\ At(u, "dml") /\ req'[u] = req[u]
                                              /\ req[u].table \in TableNames
      BY <2>1, <3>2 DEF At, Busy, TypeOK, Requests
    <3>8. DescribedIffThere'
      BY <2>1, <2>4, <3>1, <3>3, <3>6 DEF DescribedIffThere
    <3>9. \A u \in Threads : At(u, "dml")' /\ req'[u].table \notin parted' =>
             /\ disk'[req'[u].table] = NoTable <=> req'[u].op = "delete"
             /\ req'[u].op \in Alter => meta'[req'[u].table] # NoTable
      BY <2>1, <2>4, <3>1, <3>3, <3>4, <3>7
    <3> QED BY <3>8, <3>9 DEF ThereOK
  <2> QED BY <1>3, <2>6, <2>7, <2>8 DEF Moves
<1>4. CASE Still
  <2>1. \A T \in TableNames : InSection(T)' <=> InSection(T)
    BY <1>4 DEF Still, InSection, At, Busy
  <2> QED BY <1>4, <2>1 DEF Still, history, ThereOK, DescribedIffThere, At, Busy
<1>5. CASE Crash
  <2>1. crashes' # 0
    BY <1>5 DEF Crash, TypeOK
  <2> QED BY <2>1 DEF ThereOK
<1>6. ASSUME NEW t \in Threads, Asks(t)
      PROVE  ThereOK'
  <2>1. \A u \in Threads : At(u, "dml")' <=> At(u, "dml") /\ u # t
    BY <1>6, AsksReq DEF At, Busy
  <2>2. ~At(t, "dml")
    BY <1>6 DEF Asks, At
  <2>3. \A T \in TableNames : InSection(T)' <=> InSection(T)
    BY <1>6, <2>1, <2>2, AsksReq DEF InSection
  <2> QED BY <1>6, <2>1, <2>3, AsksReq DEF ThereOK, DescribedIffThere
<1> QED BY <1>1, <1>2, <1>3, <1>4, <1>5, <1>6, NextIs

(* What a step of route t leaves alone: every table but its own, and what the  *)
(* routes that meet no other know of theirs.                                  *)
LEMMA OthersAlone ==
    ASSUME TypeOK, RacedOK, NEW t \in Threads, NEW r \in Requests, NEW q, Moves(t, r, q)
    PROVE  /\ \A T \in TableNames \ {r.table} : meta'[T] = meta[T] /\ disk'[T] = disk[T]
           /\ \A u \in Threads \ {t} : Changes(req[u]) /\ req[u].table \notin raced =>
                 req[u].table \in TableNames \ {r.table}
           /\ \A T \in TableNames \ {r.table} : InSection(T)' <=> InSection(T)
<1>1. /\ r # NoRequest /\ req[t] = r /\ req'[t] = q
      /\ \A u \in Threads \ {t} : req'[u] = req[u]
      /\ q # NoRequest => q.table = r.table
      /\ Changes(r)
  BY MovesReq DEF Locals
<1>2. /\ meta' = meta \/ meta' = [meta EXCEPT ![r.table] = Described(r)]
      /\ disk' = disk \/ disk' = [disk EXCEPT ![r.table] = Laid(r)]
  BY DEF Moves, OnlyReads, Lays, Describes, Lists, Audits
<1>3. \A T \in TableNames \ {r.table} : meta'[T] = meta[T] /\ disk'[T] = disk[T]
  BY <1>2 DEF TypeOK
<1>4. \A u \in Threads \ {t} : Changes(req[u]) /\ req[u].table \notin raced =>
         req[u].table \in TableNames \ {r.table}
  BY <1>1 DEF RacedOK, Changes, TypeOK, Requests
<1>5. \A T \in TableNames \ {r.table} : InSection(T)' <=> InSection(T)
  BY <1>1 DEF InSection, At, Busy
<1> QED BY <1>3, <1>4, <1>5

LEMMA MatchStep ==
    ASSUME TypeOK, BuildOK, RequestsOK, RacedOK, MatchOK, [Next]_vars
    PROVE  MatchOK'
<1>1. ASSUME NEW t \in Threads, NEW r \in Requests, Enters(t, r)
      PROVE  MatchOK'
  <2>1. /\ req[t] = NoRequest /\ req'[t] = r /\ \A u \in Threads \ {t} : req'[u] = req[u]
        /\ raced \subseteq raced'
    BY <1>1, EntersReq
  <2>2. UNCHANGED <<meta, disk, crashes>>
    BY <1>1 DEF Enters
  <2>3. r.step \notin {"ddl", "dml"} \/ (r.step = "ddl" /\ r.op \notin Alter)
    <3>1. r.op \in Ops /\ Fresh(r)
      BY <1>1 DEF Requests, Enters
    <3> QED BY <3>1, AfterRepoIs DEF Fresh, Ops, Alter
  <2>4. \A T \in TableNames : InSection(T)' <=> InSection(T)
    BY <2>1, <2>3, NoSection DEF At, Busy
  <2>5. InStep(req[t])'
    BY <2>1, <2>3 DEF InStep
  <2>6. \A T \in TableNames : Matches(T)' <=> Matches(T)
    BY <2>2 DEF Matches
  <2>7. \A u \in Threads \ {t} : InStep(req[u]) => InStep(req[u])'
    BY <2>1, <2>2 DEF InStep
  <2> QED BY <2>1, <2>2, <2>4, <2>5, <2>6, <2>7 DEF MatchOK
<1>2. ASSUME NEW t \in Threads, Builds(t)
      PROVE  MatchOK'
  <2>1. /\ \A u \in Threads : (req[u] = NoRequest <=> req'[u] = NoRequest)
        /\ \A u \in Threads : req[u] # NoRequest => Same(req[u], req'[u])
        /\ \A u \in Threads \ {t} : req[u] # NoRequest => req'[u].step = req[u].step
        /\ req[t].step = "build" /\ req'[t].step \notin {"dml"}
        /\ req'[t].step = "ddl" => req[t].op \in Makes
    BY <1>2, BuildsReq
  <2>2. UNCHANGED <<meta, disk, crashes, raced>>
    BY <1>2 DEF Builds
  <2>3. /\ \A u \in Threads : At(u, "dml")' <=> At(u, "dml")
        /\ \A u \in Threads : At(u, "dml") => req'[u].table = req[u].table
    BY <2>1 DEF At, Busy, Same
  <2>4. \A T \in TableNames : (InSection(T)' <=> InSection(T)) /\ (Matches(T)' <=> Matches(T))
    BY <2>2, <2>3, NoSection DEF Matches
  <2>5. ASSUME NEW u \in Threads, Busy(u)', InStep(req[u])
        PROVE  InStep(req[u])'
    <3>1. PICK r, q : r \in Requests /\ r = req[u] /\ q = req'[u] /\ Same(r, q)
      BY <2>1, <2>5 DEF Busy, TypeOK
    <3>2. Altered(q, q.cols) = Altered(r, r.cols) \/ r.op \notin Alter
      BY <3>1, AlteredIs DEF Same, Alter
    <3>3. CASE u = t
      BY <2>1, <2>5, <3>1, <3>3 DEF InStep, Same, Makes, Alter
    <3>4. CASE u # t
      <4>1. q.step = r.step
        BY <2>1, <2>5, <3>1, <3>4 DEF Busy
      <4> QED BY <2>2, <2>5, <3>1, <3>2, <4>1 DEF InStep, Same
    <3> QED BY <3>3, <3>4
  <2>6. \A u \in Threads : Changes(req'[u]) => Changes(req[u]) /\ Busy(u)' /\ req'[u].table = req[u].table
    BY <2>1 DEF Changes, Busy, Same
  <2> QED BY <2>2, <2>4, <2>5, <2>6 DEF MatchOK
<1>3. ASSUME NEW t \in Threads, NEW r \in Requests, NEW q \in Requests \union {NoRequest}, Moves(t, r, q)
      PROVE  MatchOK'
  <2>1. /\ r # NoRequest /\ req[t] = r /\ req'[t] = q
        /\ \A u \in Threads \ {t} : req'[u] = req[u]
        /\ q # NoRequest => Locals(r, q)
        /\ raced' = raced /\ crashes' = crashes /\ Changes(r)
    BY <1>3, MovesReq
  <2> DEFINE S == r.table
  <2>2. S \in TableNames /\ r.op \in Ops \ {"ask"}
    BY <1>3 DEF Requests, Moves
  <2>3. SUFFICES ASSUME crashes = 0
                 PROVE  MatchOK'
    BY <2>1 DEF MatchOK
  <2>4. /\ \A T \in TableNames \ raced : ~InSection(T) => Matches(T)
        /\ \A u \in Threads : Changes(req[u]) /\ req[u].table \notin raced => InStep(req[u])
    BY <2>3 DEF MatchOK
  <2>5. /\ \A T \in TableNames \ {S} : meta'[T] = meta[T] /\ disk'[T] = disk[T]
        /\ \A u \in Threads \ {t} : Changes(req[u]) /\ req[u].table \notin raced =>
              req[u].table \in TableNames \ {S}
        /\ \A T \in TableNames \ {S} : InSection(T)' <=> InSection(T)
    BY <1>3, OthersAlone
  <2>6. \A T \in TableNames \ (raced \union {S}) : ~InSection(T)' => Matches(T)'
    BY <2>4, <2>5 DEF Matches
  <2>7. \A u \in Threads \ {t} : Changes(req'[u]) /\ req'[u].table \notin raced' => InStep(req[u])'
    BY <2>1, <2>4, <2>5 DEF InStep
  <2>8. SUFFICES ASSUME S \notin raced
                 PROVE  /\ ~InSection(S)' => Matches(S)'
                        /\ q # NoRequest => InStep(req[t])'
    BY <2>1, <2>3, <2>6, <2>7 DEF MatchOK, Changes, Locals
  <2>9. InStep(r) /\ (r.step # "dml" => ~InSection(S))
    <3>1. InStep(r)
      BY <2>1, <2>4, <2>8
    <3>2. r.step # "dml" => ~InSection(S)
      <4>1. \A u \in Threads : At(u, "dml") => Changes(req[u])
        BY DEF RequestsOK, Steered, Changes, At, Busy
      <4> QED BY <2>1, <2>8, <4>1 DEF RacedOK, InSection, At
    <3> QED BY <3>1, <3>2
  <2>10. CASE OnlyReads(t, r, q) \/ Lists(t, r, q) \/ Audits(t, r, q)
    <3>1. UNCHANGED <<meta, disk>> /\ r.step # "dml" /\ (q # NoRequest => q.step # "dml")
      BY <2>10 DEF OnlyReads, Lists, Audits
    <3>2. Matches(S)'
      BY <2>2, <2>4, <2>8, <2>9, <3>1 DEF Matches
    <3>3. q # NoRequest => InStep(req[t])'
      <4>1. Steered(r, count)
        BY <2>1 DEF RequestsOK, Busy
      <4> QED BY <2>1, <2>9, <2>10, <3>1, <4>1
              DEF InStep, OnlyReads, Lists, Audits, Locals, Steered, Alter, Makes
    <3> QED BY <3>2, <3>3
  <2>11. CASE Lays(t, r, q)
    <3>1. /\ meta' = meta /\ r.step = "ddl" /\ q # NoRequest /\ q.step = "dml" /\ q.cols = r.cols
          /\ disk' = [disk EXCEPT ![S] = Laid(r)]
          /\ r.op \in Alter => disk[S] # NoTable
      BY <2>11 DEF Lays
    <3>2. InSection(S)' /\ disk'[S] = Laid(r) /\ Locals(r, q)
      BY <2>1, <2>2, <3>1 DEF InSection, At, Busy, Locals, TypeOK
    <3>3. Matches(S)
      BY <2>2, <2>4, <2>8, <2>9, <3>1
    <3>4. CASE r.op \in Makes
      BY <2>1, <3>1, <3>2, <3>4, LaidIs DEF InStep, Locals, Makes, Alter
    <3>5. CASE r.op = "delete"
      BY <2>1, <3>1, <3>2, <3>5, LaidIs DEF InStep, Locals, Makes, Alter
    <3>6. CASE r.op \in Alter
      <4>1. meta[S] # NoTable /\ meta[S].cols = r.cols
        BY <2>9, <3>1, <3>6 DEF InStep
      <4>2. disk[S].cols = r.cols
        BY <3>3, <4>1 DEF Matches
      <4>3. disk'[S] = [cols |-> Altered(r, r.cols)]
        BY <3>2, <3>6, <4>2, LaidIs
      <4>4. Altered(q, q.cols) = Altered(r, r.cols)
        BY <3>1, <3>2, <3>6, AlteredIs DEF Locals, Alter
      <4> QED BY <2>1, <3>1, <3>2, <3>6, <4>1, <4>3, <4>4 DEF InStep, Locals, Makes, Alter
    <3> QED BY <2>2, <3>2, <3>4, <3>5, <3>6 DEF Ops, Makes, Alter
  <2>12. CASE Describes(t, r, q)
    <3>1. /\ disk' = disk /\ r.step = "dml" /\ (q # NoRequest => q.step \notin {"ddl", "dml"})
          /\ meta' = [meta EXCEPT ![S] = Described(r)]
      BY <2>12, AfterDmlIs DEF Describes
    <3>2. meta'[S] = Described(r) /\ disk'[S] = disk[S]
      BY <2>2, <3>1 DEF TypeOK
    <3>3. q # NoRequest => InStep(req[t])'
      BY <2>1, <3>1 DEF InStep
    <3>4. CASE r.op \in Makes
      <4>1. Described(r) = [cols |-> r.cols, linked |-> r.linked] /\ disk[S] = [cols |-> r.cols]
        BY <2>9, <3>1, <3>4, DescribedIs DEF InStep
      <4>2. Described(r) # NoTable
        <5>1. Described(r) \in TableDefs
          BY <4>1 DEF TableDefs, Requests
        <5> QED BY <5>1, NullsAssumption
      <4> QED BY <3>2, <3>3, <4>1, <4>2 DEF Matches
    <3>5. CASE r.op = "delete"
      BY <2>9, <3>1, <3>2, <3>3, <3>5, DescribedIs DEF InStep, Matches
    <3>6. CASE r.op \in Alter
      <4>1. meta[S] # NoTable /\ meta[S] \in TableDefs /\ disk[S] = [cols |-> Altered(r, r.cols)]
        BY <2>2, <2>9, <3>1, <3>6 DEF InStep, TypeOK
      <4>2. PICK cols \in SUBSET Columns : cols = Altered(r, r.cols)
        <5>1. Altered(r, r.cols) \in SUBSET Columns
          BY <3>6, AlteredIs DEF Alter, Requests
        <5> QED BY <5>1
      <4>3. Described(r) = [meta[S] EXCEPT !.cols = cols]
        BY <3>6, <4>1, <4>2, DescribedIs
      <4>4. Described(r) \in TableDefs /\ Described(r).cols = cols
        BY <4>1, <4>3 DEF TableDefs
      <4>5. Described(r) # NoTable
        BY <4>4, NullsAssumption
      <4> QED BY <3>2, <3>3, <4>1, <4>2, <4>4, <4>5 DEF Matches
    <3> QED BY <2>2, <3>4, <3>5, <3>6 DEF Ops, Makes, Alter
  <2> QED BY <1>3, <2>10, <2>11, <2>12 DEF Moves
<1>4. CASE Still
  <2>1. /\ \A T \in TableNames : (InSection(T)' <=> InSection(T)) /\ (Matches(T)' <=> Matches(T))
        /\ \A u \in Threads : InStep(req[u]) => InStep(req[u])'
        /\ UNCHANGED <<req, crashes, raced>>
    BY <1>4 DEF Still, history, InSection, At, Busy, Matches, InStep
  <2> QED BY <2>1 DEF MatchOK
<1>5. CASE Crash
  <2>1. crashes' # 0
    BY <1>5 DEF Crash, TypeOK
  <2> QED BY <2>1 DEF MatchOK
<1>6. ASSUME NEW t \in Threads, Asks(t)
      PROVE  MatchOK'
  <2>1. /\ \A u \in Threads : At(u, "dml")' <=> At(u, "dml") /\ u # t
        /\ ~At(t, "dml")
    BY <1>6, AsksReq DEF Asks, At, Busy
  <2>2. \A T \in TableNames : (InSection(T)' <=> InSection(T)) /\ (Matches(T)' <=> Matches(T))
    BY <1>6, <2>1, AsksReq DEF InSection, Matches
  <2>3. \A u \in Threads \ {t} : InStep(req[u]) => InStep(req[u])'
    BY <1>6, AsksReq DEF InStep
  <2> QED BY <1>6, <2>2, <2>3, AsksReq DEF MatchOK
<1> QED BY <1>1, <1>2, <1>3, <1>4, <1>5, <1>6, NextIs

LEMMA LinkedStep ==
    ASSUME TypeOK, BuildOK, RequestsOK, RacedOK, LinkedOK, [Next]_vars
    PROVE  LinkedOK'
<1>1. ASSUME NEW t \in Threads, NEW r \in Requests, Enters(t, r)
      PROVE  LinkedOK'
  <2>1. /\ req[t] = NoRequest /\ req'[t] = r /\ \A u \in Threads \ {t} : req'[u] = req[u]
        /\ raced \subseteq raced'
    BY <1>1, EntersReq
  <2>2. UNCHANGED <<meta, disk>>
    BY <1>1 DEF Enters
  <2>3. r.step \notin {"ddl", "dml"} \/ (r.step = "ddl" /\ r.op \notin Alter)
    <3>1. r.op \in Ops /\ Fresh(r)
      BY <1>1 DEF Requests, Enters
    <3> QED BY <3>1, AfterRepoIs DEF Fresh, Ops, Alter
  <2>4. Spares(req[t])'
    BY <2>1, <2>3 DEF Spares, Alter
  <2>5. \A u \in Threads \ {t} : Spares(req[u]) => Spares(req[u])'
    BY <2>1, <2>2 DEF Spares
  <2> QED BY <2>1, <2>2, <2>4, <2>5 DEF LinkedOK, LinkedKeepsColumns
<1>2. ASSUME NEW t \in Threads, Builds(t)
      PROVE  LinkedOK'
  <2>1. /\ \A u \in Threads : (req[u] = NoRequest <=> req'[u] = NoRequest)
        /\ \A u \in Threads : req[u] # NoRequest => Same(req[u], req'[u])
        /\ \A u \in Threads \ {t} : req[u] # NoRequest => req'[u].step = req[u].step
        /\ req[t].step = "build" /\ req'[t].step \notin {"dml"}
        /\ req'[t].step = "ddl" => req[t].op \in Makes
    BY <1>2, BuildsReq
  <2>2. UNCHANGED <<meta, disk, raced>>
    BY <1>2 DEF Builds
  <2>3. ASSUME NEW u \in Threads, Busy(u)', Spares(req[u])
        PROVE  Spares(req[u])'
    BY <2>1, <2>2, <2>3 DEF Spares, Same, Busy, Makes
  <2>4. \A u \in Threads : Changes(req'[u]) => Changes(req[u]) /\ Busy(u)' /\ req'[u].table = req[u].table
    BY <2>1 DEF Changes, Busy, Same
  <2> QED BY <2>2, <2>3, <2>4 DEF LinkedOK, LinkedKeepsColumns
<1>3. ASSUME NEW t \in Threads, NEW r \in Requests, NEW q \in Requests \union {NoRequest}, Moves(t, r, q)
      PROVE  LinkedOK'
  <2>1. /\ r # NoRequest /\ req[t] = r /\ req'[t] = q
        /\ \A u \in Threads \ {t} : req'[u] = req[u]
        /\ q # NoRequest => Locals(r, q)
        /\ raced' = raced /\ Changes(r)
    BY <1>3, MovesReq
  <2> DEFINE S == r.table
  <2>2. S \in TableNames /\ r.op \in Ops \ {"ask"}
    BY <1>3 DEF Requests, Moves
  <2>3. /\ \A T \in TableNames \ raced : Linked(T) /\ disk[T] # NoTable => Required \subseteq disk[T].cols
        /\ \A u \in Threads : Changes(req[u]) /\ req[u].table \notin raced => Spares(req[u])
    BY DEF LinkedOK, LinkedKeepsColumns, Linked
  <2>4. /\ \A T \in TableNames \ {S} : meta'[T] = meta[T] /\ disk'[T] = disk[T]
        /\ \A u \in Threads \ {t} : Changes(req[u]) /\ req[u].table \notin raced =>
              req[u].table \in TableNames \ {S}
    BY <1>3, OthersAlone
  <2>5. \A u \in Threads \ {t} : Changes(req'[u]) /\ req'[u].table \notin raced' => Spares(req[u])'
    BY <2>1, <2>3, <2>4 DEF Spares
  <2>6. SUFFICES ASSUME S \notin raced
                 PROVE  /\ Linked(S)' /\ disk'[S] # NoTable => Required \subseteq disk'[S].cols
                        /\ q # NoRequest => Spares(req[t])'
    BY <2>1, <2>3, <2>4, <2>5 DEF LinkedOK, LinkedKeepsColumns, Linked, Changes, Locals
  <2>7. Spares(r) /\ (Linked(S) /\ disk[S] # NoTable => Required \subseteq disk[S].cols)
    BY <2>1, <2>2, <2>3, <2>6
  <2>8. Steered(r, count)
    BY <2>1 DEF RequestsOK, Busy
  <2>9. CASE OnlyReads(t, r, q) \/ Lists(t, r, q) \/ Audits(t, r, q)
    <3>1. UNCHANGED <<meta, disk>> /\ (q # NoRequest => q.step # "dml")
      BY <2>9 DEF OnlyReads, Lists, Audits
    <3>2. q # NoRequest => Spares(req[t])'
      BY <2>1, <2>7, <2>8, <2>9, <3>1 DEF Spares, OnlyReads, Lists, Audits, Locals, Steered, Alter
    <3> QED BY <2>7, <3>1, <3>2 DEF Linked
  <2>10. CASE Lays(t, r, q)
    <3>1. /\ meta' = meta /\ r.step = "ddl" /\ q # NoRequest /\ q.step = "dml" /\ q.cols = r.cols
          /\ disk' = [disk EXCEPT ![S] = Laid(r)]
          /\ r.op \in Makes => meta[S] = NoTable
          /\ r.op \in Alter => disk[S] # NoTable
      BY <2>10 DEF Lays
    <3>2. disk'[S] = Laid(r) /\ Locals(r, q)
      BY <2>1, <2>2, <3>1 DEF TypeOK
    <3>3. Spares(req[t])'
      BY <2>1, <2>7, <3>1, <3>2, LaidIs DEF Spares, Locals
    <3>4. CASE r.op \in Makes
      BY <3>1, <3>3, <3>4 DEF Linked
    <3>5. CASE r.op = "delete"
      BY <3>2, <3>3, <3>5, LaidIs
    <3>6. CASE r.op \in Alter
      <4>1. /\ Linked(S)' => Required \subseteq disk[S].cols
            /\ Linked(S)' /\ r.op \in {"rename", "drop"} => r.col \notin Required
        BY <2>7, <3>1, <3>6 DEF Linked, Spares
      <4>2. disk'[S] = [cols |-> Altered(r, disk[S].cols)]
        BY <3>2, <3>6, LaidIs
      <4>3. Linked(S)' => Required \subseteq Altered(r, disk[S].cols)
        BY <3>6, <4>1, AlteredIs DEF Alter
      <4> QED BY <3>3, <4>2, <4>3
    <3> QED BY <2>2, <3>4, <3>5, <3>6 DEF Ops, Makes, Alter
  <2>11. CASE Describes(t, r, q)
    <3>1. /\ disk' = disk /\ r.step = "dml" /\ (q # NoRequest => q.step \notin {"ddl", "dml"})
          /\ meta' = [meta EXCEPT ![S] = Described(r)]
      BY <2>11, AfterDmlIs DEF Describes
    <3>2. meta'[S] = Described(r) /\ disk'[S] = disk[S]
      BY <2>2, <3>1 DEF TypeOK
    <3>3. q # NoRequest => Spares(req[t])'
      BY <2>1, <3>1 DEF Spares
    <3>4. CASE r.op \in Makes
      <4>1. Described(r).linked = r.linked /\ disk[S] = [cols |-> r.cols]
        BY <2>7, <3>1, <3>4, DescribedIs DEF Spares
      <4> QED BY <2>8, <3>2, <3>3, <3>4, <4>1 DEF Linked, Steered
    <3>5. CASE r.op = "delete"
      BY <3>2, <3>3, <3>5, DescribedIs DEF Linked
    <3>6. CASE r.op \in Alter
      <4>1. Linked(S)' => Linked(S)
        <5>1. meta[S] # NoTable => meta[S] \in TableDefs
          BY <2>2 DEF TypeOK
        <5>2. Described(r) = IF meta[S] = NoTable THEN NoTable
                             ELSE [meta[S] EXCEPT !.cols = Altered(r, r.cols)]
          BY <3>6, DescribedIs
        <5>3. meta[S] # NoTable => [meta[S] EXCEPT !.cols = Altered(r, r.cols)].linked = meta[S].linked
          BY <5>1 DEF TableDefs
        <5> QED BY <3>2, <5>2, <5>3 DEF Linked
      <4> QED BY <2>7, <3>2, <3>3, <4>1
    <3> QED BY <2>2, <3>4, <3>5, <3>6 DEF Ops, Makes, Alter
  <2> QED BY <1>3, <2>9, <2>10, <2>11 DEF Moves
<1>4. CASE Still
  <2>1. /\ \A u \in Threads : Spares(req[u]) => Spares(req[u])'
        /\ UNCHANGED <<req, raced, meta, disk>>
    BY <1>4 DEF Still, history, Spares
  <2> QED BY <2>1 DEF LinkedOK, LinkedKeepsColumns
<1>5. CASE Crash
  BY <1>5 DEF Crash, LinkedOK, LinkedKeepsColumns, Changes
<1>6. ASSUME NEW t \in Threads, Asks(t)
      PROVE  LinkedOK'
  <2>1. \A u \in Threads \ {t} : Spares(req[u]) => Spares(req[u])'
    BY <1>6, AsksReq DEF Spares
  <2> QED BY <1>6, <2>1, AsksReq DEF LinkedOK, LinkedKeepsColumns
<1> QED BY <1>1, <1>2, <1>3, <1>4, <1>5, <1>6, NextIs

LEMMA OneStep ==
    ASSUME TypeOK, BuildOK, RequestsOK, AloneOK, OneOK, [Next]_vars
    PROVE  OneOK'
<1>0. LinkedThere <=> \E T \in TableNames : Linked(T)
  BY DEF LinkedThere, Linked
<1>1. ASSUME NEW t \in Threads, NEW r \in Requests, Enters(t, r)
      PROVE  OneOK'
  <2>1. /\ req[t] = NoRequest /\ req'[t] = r /\ \A u \in Threads \ {t} : req'[u] = req[u]
        /\ UNCHANGED meta /\ Fresh(r) /\ r.op \in Ops
        /\ overlapped => overlapped'
    BY <1>1, EntersReq DEF Enters, Requests
  <2>2. (LinkedThere' <=> LinkedThere) /\ \A T \in TableNames : Linked(T)' <=> Linked(T)
    BY <2>1 DEF LinkedThere, Linked
  <2>3. r.op \in Makes /\ r.linked /\ r.step \in {"ddl", "dml"} => ~LinkedThere
    BY <2>1, AfterRepoIs DEF Fresh, Makes
  <2> QED BY <2>1, <2>2, <2>3 DEF OneOK, Busy
<1>2. ASSUME NEW t \in Threads, Builds(t)
      PROVE  OneOK'
  <2>1. /\ \A u \in Threads : (req[u] = NoRequest <=> req'[u] = NoRequest)
        /\ \A u \in Threads : req[u] # NoRequest => Same(req[u], req'[u])
        /\ \A u \in Threads \ {t} : req[u] # NoRequest => req'[u].step = req[u].step
        /\ req[t].step = "build" /\ req'[t].step = AfterRepo(req[t])
    BY <1>2, BuildsReq
  <2>2. UNCHANGED <<meta, overlapped>> /\ req[t] # NoRequest
    BY <1>2 DEF Builds
  <2>3. (LinkedThere' <=> LinkedThere) /\ \A T \in TableNames : Linked(T)' <=> Linked(T)
    BY <2>2 DEF LinkedThere, Linked
  <2>4. req[t].op \in Makes /\ req[t].linked => req'[t].step = "unique"
    <3>1. Steered(req[t], count)
      BY <2>2 DEF RequestsOK, Busy
    <3>2. req[t].op # "seed"
      BY <2>1, <3>1 DEF Steered
    <3> QED BY <2>1, <3>2, AfterRepoIs DEF Makes
  <2> QED BY <2>1, <2>2, <2>3, <2>4 DEF OneOK, Busy, Same
<1>3. ASSUME NEW t \in Threads, NEW r \in Requests, NEW q \in Requests \union {NoRequest}, Moves(t, r, q)
      PROVE  OneOK'
  <2>1. /\ r # NoRequest /\ req[t] = r /\ req'[t] = q
        /\ \A u \in Threads \ {t} : req'[u] = req[u]
        /\ q # NoRequest => Locals(r, q)
        /\ overlapped' = overlapped
    BY <1>3, MovesReq
  <2>2. SUFFICES ASSUME ~overlapped
                 PROVE  OneOK'
    BY <2>1 DEF OneOK
  <2> DEFINE S == r.table
  <2>3. S \in TableNames /\ r.op \in Ops \ {"ask"}
    BY <1>3 DEF Requests, Moves
  <2>4. /\ \A T, U \in TableNames : Linked(T) /\ Linked(U) => T = U
        /\ r.op \in Makes /\ r.linked /\ r.step \in {"ddl", "dml"} => ~LinkedThere
        /\ Steered(r, count)
        /\ \A u \in Threads : u # t /\ Busy(u) => req[u].op = "ask" /\ Steered(req[u], count)
    BY <1>3, <2>1, <2>2, MovesReq DEF OneOK, AloneOK, RequestsOK, Changes, Busy
  <2>5. CASE ~Describes(t, r, q)
    <3>1. UNCHANGED meta
      BY <1>3, <2>5 DEF Moves, OnlyReads, Lays, Lists, Audits
    <3>2. (LinkedThere' <=> LinkedThere) /\ \A T \in TableNames : Linked(T)' <=> Linked(T)
      BY <3>1 DEF LinkedThere, Linked
    <3>3. q # NoRequest /\ q.op \in Makes /\ q.linked /\ q.step \in {"ddl", "dml"} => ~LinkedThere
      BY <1>3, <2>1, <2>4, <2>5 DEF Moves, OnlyReads, Lays, Lists, Audits, Locals, Steered, Makes
    <3> QED BY <2>1, <2>4, <3>2, <3>3 DEF OneOK, Busy, Makes
  <2>6. CASE Describes(t, r, q)
    <3>1. /\ r.step = "dml" /\ (q # NoRequest => q.step \notin {"ddl", "dml"})
          /\ meta' = [meta EXCEPT ![S] = Described(r)]
      BY <2>6, AfterDmlIs DEF Describes
    <3>2. meta'[S] = Described(r) /\ \A T \in TableNames \ {S} : meta'[T] = meta[T]
      BY <2>3, <3>1 DEF TypeOK
    <3>3. \A T, U \in TableNames : Linked(T)' /\ Linked(U)' => T = U
      <4>1. CASE r.op \in Makes
        <5>1. Described(r).linked = r.linked
          BY <4>1, DescribedIs
        <5>2. Linked(S)' => \A T \in TableNames : ~Linked(T)
          BY <1>0, <2>4, <3>1, <3>2, <4>1, <5>1 DEF Linked
        <5> QED BY <2>4, <3>2, <5>2 DEF Linked
      <4>2. CASE r.op = "delete"
        BY <2>4, <3>2, <4>2, DescribedIs DEF Linked
      <4>3. CASE r.op \in Alter
        <5>1. meta[S] # NoTable => meta[S] \in TableDefs
          BY <2>3 DEF TypeOK
        <5>2. Described(r) = IF meta[S] = NoTable THEN NoTable
                             ELSE [meta[S] EXCEPT !.cols = Altered(r, r.cols)]
          BY <4>3, DescribedIs
        <5>3. meta[S] # NoTable => [meta[S] EXCEPT !.cols = Altered(r, r.cols)].linked = meta[S].linked
          BY <5>1 DEF TableDefs
        <5>4. Linked(S)' => Linked(S)
          BY <3>2, <5>2, <5>3 DEF Linked
        <5> QED BY <2>4, <3>2, <5>4 DEF Linked
      <4> QED BY <2>3, <4>1, <4>2, <4>3 DEF Ops, Makes, Alter
    <3>4. \A u \in Threads : ~(Busy(u)' /\ req'[u].step \in {"ddl", "dml"})
      BY <2>1, <2>4, <3>1 DEF Busy, Steered
    <3> QED BY <3>3, <3>4 DEF OneOK
  <2> QED BY <2>5, <2>6
<1>4. CASE Still
  BY <1>4 DEF Still, history, OneOK, Busy, Linked, LinkedThere
<1>5. CASE Crash
  BY <1>5 DEF Crash, OneOK, Busy, Linked
<1>6. ASSUME NEW t \in Threads, Asks(t)
      PROVE  OneOK'
  <2>1. (LinkedThere' <=> LinkedThere) /\ \A T \in TableNames : Linked(T)' <=> Linked(T)
    BY <1>6, AsksReq DEF LinkedThere, Linked
  <2> QED BY <1>6, <2>1, AsksReq DEF OneOK, Busy
<1> QED BY <1>1, <1>2, <1>3, <1>4, <1>5, <1>6, NextIs

-------------------------------------------------------------------------------
(* One request at a time, and crashes: what is out of step is what a crash     *)
(* left, or the table of the request in flight.                               *)

Agrees(T) == Matches(T) /\ (T \in tools <=> meta[T] # NoTable /\ ~meta[T].linked)

(* How far the table of request r is, in the file, its row and its Tools. *)
InOrder(r) ==
    LET T == r.table IN
    /\ r.step \in {"build", "unique", "confirm", "read", "ddl", "audit"} => Agrees(T)
    /\ r.step \in {"ddl", "dml"} /\ r.op \in Alter =>
          meta[T] # NoTable /\ meta[T].cols = r.cols /\ (T \in tools <=> ~meta[T].linked)
    /\ r.op = "create" /\ ~r.linked /\ r.step # "audit" => T \notin tools
    /\ r.step = "dml" /\ r.op \in Makes =>
          meta[T] = NoTable /\ disk[T] = [cols |-> r.cols] /\ T \notin tools
    /\ r.step = "dml" /\ r.op = "delete" => disk[T] = NoTable
    /\ r.step = "dml" /\ r.op \in Alter => disk[T] = [cols |-> Altered(r, r.cols)]
    /\ r.step = "write" /\ r.op = "create" => Matches(T) /\ meta[T] # NoTable /\ ~meta[T].linked
    /\ r.step \in {"load", "write"} /\ r.op = "delete" => meta[T] = NoTable /\ disk[T] = NoTable

(* No request in flight changes T. *)
Quiet(T) == \A t \in Threads : Changes(req[t]) => req[t].table # T

(* All is in order but for the tables S. *)
Settled(S) ==
    \A T \in TableNames \ S :
        /\ Quiet(T) => Agrees(T)
        /\ \A t \in Threads : Changes(req[t]) /\ req[t].table = T => InOrder(req[t])

(* What the request in flight read is so still. *)
Knows(r) ==
    /\ \/ r.op = "create" /\ r.step # "audit"
       \/ r.op = "delete" /\ r.step = "write"
       => r.tools = tools
    /\ r.op \in Alter /\ r.step \in {"ddl", "dml", "audit"} => meta[r.table] # NoTable
KnownOK == ~overlapped => \A t \in Threads : Changes(req[t]) => Knows(req[t])

(* Every change is in the audit log, but those of A and the one in flight. *)
Owes(r) == r.op \notin {"seed", "ask"} /\ r.step \in {"dml", "load", "write", "audit"}
Accounted(A) ==
    \A i \in unaudited : i \in A \/ \E t \in Threads : Busy(t) /\ Owes(req[t]) /\ req[t].id = i

AtMost(S, n) == IsFiniteSet(S) /\ Cardinality(S) <= n
CrashOK == ~overlapped => /\ \E S \in SUBSET TableNames : AtMost(S, crashes) /\ Settled(S)
                          /\ \E A \in SUBSET (Ids \union {SeedId}) : AtMost(A, crashes) /\ Accounted(A)

LEMMA AgreesIs ==
    ASSUME NEW T \in TableNames
    PROVE  Agrees(T) <=> ~Disagrees(T)
  BY DEF Agrees, Disagrees

(* Before a step of a lone request: it is alone, and every other table idle. *)
LEMMA MovesAlone ==
    ASSUME TypeOK, RequestsOK, AloneOK, ~overlapped,
           NEW t \in Threads, NEW r \in Requests, NEW q, Moves(t, r, q)
    PROVE  /\ r # NoRequest /\ req[t] = r /\ req'[t] = q /\ (q # NoRequest => Locals(r, q))
           /\ Steered(r, count) /\ r.op \in Ops \ {"ask"} /\ r.table \in TableNames
           /\ \A u \in Threads \ {t} : ~Changes(req[u]) /\ ~Changes(req'[u])
           /\ \A T \in TableNames \ {r.table} :
                 Quiet(T) /\ Quiet(T)' /\ meta'[T] = meta[T] /\ disk'[T] = disk[T]
           /\ Changes(r) /\ (q # NoRequest => Changes(q))
           /\ overlapped' = overlapped /\ crashes' = crashes
<1>1. /\ r # NoRequest /\ req[t] = r /\ req'[t] = q /\ (q # NoRequest => Locals(r, q))
      /\ Changes(r) /\ (q # NoRequest => Changes(q))
      /\ \A u \in Threads \ {t} : req'[u] = req[u]
      /\ overlapped' = overlapped /\ crashes' = crashes
  BY MovesReq DEF Changes, Locals
<1>2. \A u \in Threads \ {t} : ~Changes(req[u]) /\ ~Changes(req'[u])
  BY <1>1 DEF AloneOK
<1>3. Steered(r, count) /\ r.op \in Ops \ {"ask"} /\ r.table \in TableNames
  BY <1>1 DEF RequestsOK, Busy, Changes, Requests
<1>4. /\ meta' = meta \/ meta' = [meta EXCEPT ![r.table] = Described(r)]
      /\ disk' = disk \/ disk' = [disk EXCEPT ![r.table] = Laid(r)]
  BY DEF Moves, OnlyReads, Lays, Describes, Lists, Audits
<1>5. \A T \in TableNames \ {r.table} : meta'[T] = meta[T] /\ disk'[T] = disk[T]
  BY <1>4 DEF TypeOK
<1>6. \A T \in TableNames \ {r.table} : Quiet(T) /\ Quiet(T)'
  BY <1>1, <1>2 DEF Quiet, Locals, Changes
<1> QED BY <1>1, <1>2, <1>3, <1>5, <1>6

(* The row an ALTER TABLE leaves has its columns, and the link it had. *)
LEMMA AlterKeeps ==
    ASSUME TypeOK, NEW r \in Requests, r.op \in Alter, meta[r.table] # NoTable
    PROVE  /\ Described(r) # NoTable
           /\ Described(r).cols = Altered(r, r.cols)
           /\ Described(r).linked = meta[r.table].linked
<1>1. meta[r.table] \in TableDefs
  BY DEF TypeOK, Requests
<1>2. Altered(r, r.cols) \in SUBSET Columns
  BY AlteredIs DEF Alter, Requests
<1>3. PICK cols \in SUBSET Columns : cols = Altered(r, r.cols)
  BY <1>2
<1>4. Described(r) = [meta[r.table] EXCEPT !.cols = cols]
  BY <1>3, DescribedIs
<1>5. Described(r) \in TableDefs
  BY <1>1, <1>4 DEF TableDefs
<1>6. Described(r).cols = cols /\ Described(r).linked = meta[r.table].linked
  BY <1>1, <1>4 DEF TableDefs
<1> QED BY <1>3, <1>5, <1>6, NullsAssumption

LEMMA MakesKeeps ==
    ASSUME NEW r \in Requests, r.op \in Makes
    PROVE  /\ Described(r) # NoTable
           /\ Described(r).cols = r.cols /\ Described(r).linked = r.linked
<1>1. Described(r) = [cols |-> r.cols, linked |-> r.linked]
  BY DescribedIs
<1>2. Described(r) \in TableDefs
  BY <1>1 DEF TableDefs, Requests
<1> QED BY <1>1, <1>2, NullsAssumption

LEMMA KnownStep ==
    ASSUME TypeOK, BuildOK, RequestsOK, AloneOK, KnownOK, [Next]_vars
    PROVE  KnownOK'
<1>1. ASSUME NEW t \in Threads, NEW r \in Requests, Enters(t, r)
      PROVE  KnownOK'
  <2>1. /\ req[t] = NoRequest /\ req'[t] = r /\ \A u \in Threads \ {t} : req'[u] = req[u]
        /\ UNCHANGED <<meta, tools>> /\ Fresh(r) /\ r.op \in Ops
        /\ overlapped => overlapped'
    BY <1>1, EntersReq DEF Enters, Requests
  <2>2. Knows(req[t])'
    BY <2>1, AfterRepoIs DEF Knows, Fresh, Ops, Alter
  <2> QED BY <2>1, <2>2 DEF KnownOK, Knows
<1>2. ASSUME NEW t \in Threads, Builds(t)
      PROVE  KnownOK'
  <2>1. /\ \A u \in Threads : (req[u] = NoRequest <=> req'[u] = NoRequest)
        /\ \A u \in Threads : req[u] # NoRequest => Same(req[u], req'[u])
        /\ \A u \in Threads \ {t} : req[u] # NoRequest => req'[u].step = req[u].step
        /\ req[t].step = "build" /\ req'[t].step \in {"ask", "read", "confirm", "unique", "ddl"}
        /\ req'[t].step = "ddl" => req[t].op \in Makes
    BY <1>2, BuildsReq
  <2>2. UNCHANGED <<meta, tools, overlapped>>
    BY <1>2 DEF Builds
  <2>3. ASSUME NEW u \in Threads, Busy(u)', Knows(req[u])
        PROVE  Knows(req[u])'
    BY <2>1, <2>2, <2>3 DEF Knows, Same, Busy, Makes, Alter
  <2> QED BY <2>1, <2>2, <2>3 DEF KnownOK, Busy, Changes, Same
<1>3. ASSUME NEW t \in Threads, NEW r \in Requests, NEW q \in Requests \union {NoRequest}, Moves(t, r, q)
      PROVE  KnownOK'
  <2>1. SUFFICES ASSUME ~overlapped
                 PROVE  KnownOK'
    BY <1>3 DEF KnownOK, Moves
  <2>2. /\ r # NoRequest /\ req[t] = r /\ req'[t] = q /\ (q # NoRequest => Locals(r, q))
        /\ Steered(r, count) /\ r.op \in Ops \ {"ask"} /\ r.table \in TableNames
        /\ Changes(r) /\ \A u \in Threads \ {t} : ~Changes(req'[u])
    BY <1>3, <2>1, MovesAlone
  <2>3. Knows(r)
    BY <2>1, <2>2 DEF KnownOK
  <2>4. SUFFICES ASSUME q # NoRequest
                 PROVE  Knows(req[t])'
    BY <2>2 DEF KnownOK, Changes
  <2>5. CASE OnlyReads(t, r, q)
    BY <2>2, <2>3, <2>4, <2>5 DEF OnlyReads, Knows, Locals, Steered, Alter
  <2>6. CASE Lays(t, r, q)
    BY <2>2, <2>3, <2>6 DEF Lays, Knows, Locals, Alter
  <2>7. CASE Describes(t, r, q)
    <3>1. /\ q.step = AfterDml(r) /\ q.tools = r.tools /\ tools' = tools /\ r.step = "dml"
          /\ meta' = [meta EXCEPT ![r.table] = Described(r)]
      BY <2>4, <2>7 DEF Describes
    <3>2. r.op \in Alter => meta'[r.table] # NoTable
      BY <2>2, <2>3, <3>1, AlterKeeps DEF Knows, TypeOK
    <3> QED BY <2>2, <2>3, <2>4, <3>1, <3>2, AfterDmlIs DEF Knows, Locals
  <2>8. CASE Lists(t, r, q)
    BY <2>2, <2>3, <2>8 DEF Lists, Knows, Locals, Steered
  <2> QED BY <1>3, <2>4, <2>5, <2>6, <2>7, <2>8 DEF Moves, Audits
<1>4. CASE Still
  BY <1>4 DEF Still, history, KnownOK, Knows
<1>5. CASE Crash
  BY <1>5 DEF Crash, KnownOK, Changes
<1>6. ASSUME NEW t \in Threads, Asks(t)
      PROVE  KnownOK'
  BY <1>6, AsksReq DEF KnownOK, Knows
<1> QED BY <1>1, <1>2, <1>3, <1>4, <1>5, <1>6, NextIs

LEMMA SettledMoves ==
    ASSUME TypeOK, RequestsOK, AloneOK, KnownOK, ~overlapped, NEW S, Settled(S),
           NEW t \in Threads, NEW r \in Requests, NEW q \in Requests \union {NoRequest}, Moves(t, r, q)
    PROVE  Settled(S)'
<1> DEFINE U == r.table
<1>1. /\ r # NoRequest /\ req[t] = r /\ req'[t] = q /\ (q # NoRequest => Locals(r, q))
      /\ Steered(r, count) /\ r.op \in Ops \ {"ask"} /\ U \in TableNames
      /\ Changes(r) /\ (q # NoRequest => Changes(q)) /\ ~Changes(NoRequest)
      /\ \A u \in Threads \ {t} : ~Changes(req[u]) /\ ~Changes(req'[u])
      /\ \A T \in TableNames \ {U} :
            Quiet(T) /\ Quiet(T)' /\ meta'[T] = meta[T] /\ disk'[T] = disk[T]
  BY MovesAlone DEF Changes
<1>2. Knows(r)
  BY <1>1 DEF KnownOK
<1>3. \A T \in TableNames \ {U} : T \in tools' <=> T \in tools
  <2>1. r.step = "write" => r.tools = tools
    BY <1>1, <1>2 DEF Knows, Steered, Ops, Alter
  <2> QED BY <1>1, <2>1 DEF Moves, OnlyReads, Lays, Describes, Lists, Audits
<1>4. \A T \in TableNames \ (S \union {U}) : Agrees(T)'
  BY <1>1, <1>3 DEF Settled, Agrees, Matches
<1>5. \A T \in TableNames \ {U} : \A u \in Threads : ~(Changes(req'[u]) /\ req'[u].table = T)
  BY <1>1 DEF Locals
<1>6. \A u \in Threads : Changes(req'[u]) => u = t
  BY <1>1
<1>7. SUFFICES ASSUME U \notin S
               PROVE  /\ q = NoRequest => Agrees(U)'
                      /\ q # NoRequest => InOrder(req[t])'
  BY <1>1, <1>4, <1>5, <1>6 DEF Settled, Quiet, Locals
<1>8. InOrder(r)
  BY <1>1, <1>7 DEF Settled
<1>9. CASE OnlyReads(t, r, q)
  <2>1. UNCHANGED <<meta, disk, tools>>
    BY <1>9 DEF OnlyReads
  <2>2. Agrees(U)' <=> Agrees(U)
    BY <2>1 DEF Agrees, Matches
  <2>3. q = NoRequest => Agrees(U)'
    BY <1>8, <1>9, <2>2 DEF OnlyReads, InOrder
  <2>4. ASSUME q # NoRequest
        PROVE  InOrder(req[t])'
    <3>1. Locals(r, q)
      BY <1>1, <2>4
    <3>2. CASE r.step \in {"unique", "confirm"}
      <4>1. q.step \in {"ddl", "read"} /\ (q.step = "ddl" => r.op \notin Alter) /\ q.linked = r.linked
        BY <1>1, <1>9, <2>4, <3>2 DEF OnlyReads, Steered
      <4> QED BY <1>1, <1>8, <2>1, <2>2, <3>1, <3>2, <4>1 DEF InOrder, Locals
    <3>3. CASE r.step = "read"
      <4>1. q.step = "ddl" /\ meta[U] # NoTable /\ q.cols = meta[U].cols /\ Agrees(U)
            /\ r.op # "create"
        BY <1>1, <1>8, <1>9, <2>4, <3>3 DEF OnlyReads, Steered, InOrder
      <4> QED BY <1>1, <2>1, <2>2, <3>1, <4>1 DEF InOrder, Locals, Agrees
    <3>4. CASE r.step = "load"
      <4>1. r.op = "delete" /\ meta[U] = NoTable /\ disk[U] = NoTable
            /\ q.step = IF U \in tools THEN "write" ELSE "audit"
        BY <1>1, <1>8, <1>9, <2>4, <3>4 DEF OnlyReads, Steered, InOrder, Ops, Alter
      <4>2. q.step = "audit" => Agrees(U)
        BY <4>1 DEF Agrees, Matches
      <4> QED BY <1>1, <2>1, <2>2, <3>1, <4>1, <4>2 DEF InOrder, Locals, Alter, Makes
    <3> QED BY <1>9, <2>4, <3>2, <3>3, <3>4 DEF OnlyReads
  <2> QED BY <2>3, <2>4
<1>10. CASE Lays(t, r, q)
  <2>1. /\ UNCHANGED <<meta, tools>> /\ r.step = "ddl" /\ q # NoRequest /\ q.step = "dml"
        /\ q.cols = r.cols /\ q.linked = r.linked
        /\ disk' = [disk EXCEPT ![U] = Laid(r)]
        /\ r.op \in Makes => meta[U] = NoTable
    BY <1>10 DEF Lays
  <2>2. disk'[U] = Laid(r) /\ Locals(r, q) /\ Agrees(U)
    BY <1>1, <1>8, <2>1 DEF TypeOK, InOrder
  <2>3. CASE r.op \in Makes
    <3>1. U \notin tools /\ disk'[U] = [cols |-> r.cols]
      BY <2>1, <2>2, <2>3, LaidIs DEF Agrees
    <3> QED BY <1>1, <2>1, <2>2, <2>3, <3>1 DEF InOrder, Locals, Makes, Alter
  <2>4. CASE r.op = "delete"
    BY <1>1, <2>1, <2>2, <2>4, LaidIs DEF InOrder, Locals, Makes, Alter
  <2>5. CASE r.op \in Alter
    <3>1. meta[U] # NoTable /\ meta[U].cols = r.cols /\ (U \in tools <=> ~meta[U].linked)
      BY <1>8, <2>1, <2>5 DEF InOrder
    <3>2. disk[U].cols = r.cols
      BY <2>2, <3>1 DEF Agrees, Matches
    <3>3. disk'[U] = [cols |-> Altered(r, r.cols)]
      BY <2>2, <2>5, <3>2, LaidIs
    <3>4. Altered(q, q.cols) = Altered(r, r.cols)
      BY <2>1, <2>2, <2>5, AlteredIs DEF Locals, Alter
    <3> QED BY <1>1, <2>1, <2>2, <2>5, <3>1, <3>3, <3>4 DEF InOrder, Locals, Makes, Alter
  <2> QED BY <1>1, <2>3, <2>4, <2>5 DEF Ops, Makes, Alter
<1>11. CASE Describes(t, r, q)
  <2>1. /\ UNCHANGED <<disk, tools>> /\ r.step = "dml"
        /\ meta' = [meta EXCEPT ![U] = Described(r)]
        /\ r.op = "seed" => q = NoRequest
        /\ r.op # "seed" => q # NoRequest /\ q.step = AfterDml(r) /\ q.linked = r.linked
    BY <1>11 DEF Describes
  <2>2. meta'[U] = Described(r) /\ disk'[U] = disk[U]
    BY <1>1, <2>1 DEF TypeOK
  <2>3. CASE r.op \in Makes
    <3>1. /\ meta'[U] # NoTable /\ meta'[U].cols = r.cols /\ meta'[U].linked = r.linked
          /\ disk'[U] = [cols |-> r.cols] /\ U \notin tools'
      BY <1>8, <2>1, <2>2, <2>3, MakesKeeps DEF InOrder
    <3>2. Matches(U)' /\ (r.linked => Agrees(U)')
      BY <3>1 DEF Matches, Agrees
    <3>3. CASE r.op = "seed"
      BY <1>1, <2>1, <3>2, <3>3 DEF Steered
    <3>4. CASE r.op = "create"
      <4>1. q # NoRequest /\ Locals(r, q) /\ q.linked = r.linked
            /\ q.step = IF r.linked THEN "audit" ELSE "write"
        BY <1>1, <2>1, <3>4, AfterDmlIs
      <4> QED BY <1>1, <3>1, <3>2, <3>4, <4>1 DEF InOrder, Locals, Alter, Makes
    <3> QED BY <2>3, <3>3, <3>4 DEF Makes
  <2>4. CASE r.op = "delete"
    <3>1. meta'[U] = NoTable /\ disk'[U] = NoTable
      BY <1>8, <2>1, <2>2, <2>4, DescribedIs DEF InOrder
    <3>2. q # NoRequest /\ Locals(r, q) /\ q.step = "load"
      BY <1>1, <2>1, <2>4, AfterDmlIs
    <3> QED BY <1>1, <2>4, <3>1, <3>2 DEF InOrder, Locals, Alter, Makes
  <2>5. CASE r.op \in Alter
    <3>1. /\ meta[U] # NoTable /\ disk[U] = [cols |-> Altered(r, r.cols)]
          /\ U \in tools <=> ~meta[U].linked
      BY <1>8, <2>1, <2>5 DEF InOrder
    <3>2. /\ meta'[U] # NoTable /\ meta'[U].cols = Altered(r, r.cols)
          /\ meta'[U].linked = meta[U].linked
      BY <2>2, <2>5, <3>1, AlterKeeps
    <3>3. Agrees(U)'
      BY <2>1, <2>2, <3>1, <3>2 DEF Agrees, Matches
    <3>4. q # NoRequest /\ Locals(r, q) /\ q.step = "audit"
      BY <1>1, <2>1, <2>5, AfterDmlIs DEF Alter
    <3> QED BY <1>1, <2>5, <3>3, <3>4 DEF InOrder, Locals, Alter, Makes
  <2> QED BY <1>1, <2>3, <2>4, <2>5 DEF Ops, Makes, Alter
<1>12. CASE Lists(t, r, q)
  <2>1. /\ UNCHANGED <<meta, disk>> /\ r.step = "write" /\ q # NoRequest /\ q.step = "audit"
        /\ q.linked = r.linked
        /\ tools' = IF r.op = "create" THEN r.tools \union {U} ELSE r.tools \ {U}
    BY <1>12 DEF Lists
  <2>2. r.op \in {"create", "delete"} /\ Locals(r, q)
    BY <1>1, <2>1 DEF Steered, Ops, Alter
  <2>3. CASE r.op = "create"
    <3>1. Matches(U) /\ meta[U] # NoTable /\ ~meta[U].linked /\ U \in tools'
      BY <1>8, <2>1, <2>3 DEF InOrder
    <3>2. Agrees(U)'
      BY <2>1, <3>1 DEF Agrees, Matches
    <3> QED BY <1>1, <2>1, <2>2, <2>3, <3>2 DEF InOrder, Locals, Alter, Makes
  <2>4. CASE r.op = "delete"
    <3>1. meta[U] = NoTable /\ disk[U] = NoTable /\ U \notin tools'
      BY <1>8, <2>1, <2>4 DEF InOrder
    <3>2. Agrees(U)'
      BY <2>1, <3>1 DEF Agrees, Matches
    <3> QED BY <1>1, <2>1, <2>2, <2>4, <3>2 DEF InOrder, Locals, Alter, Makes
  <2> QED BY <2>2, <2>3, <2>4
<1>13. CASE Audits(t, r, q)
  <2>1. UNCHANGED <<meta, disk, tools>> /\ q = NoRequest /\ Agrees(U)
    BY <1>8, <1>13 DEF Audits, InOrder
  <2> QED BY <2>1 DEF Agrees, Matches
<1> QED BY <1>9, <1>10, <1>11, <1>12, <1>13 DEF Moves

LEMMA AccountedMoves ==
    ASSUME TypeOK, RequestsOK, AloneOK, KnownOK, ~overlapped, NEW A, Accounted(A),
           NEW t \in Threads, NEW r \in Requests, NEW q \in Requests \union {NoRequest}, Moves(t, r, q)
    PROVE  Accounted(A)'
<1>1. /\ r # NoRequest /\ req[t] = r /\ req'[t] = q /\ (q # NoRequest => Locals(r, q))
      /\ Steered(r, count) /\ r.op \in Ops \ {"ask"}
      /\ Changes(r) /\ \A u \in Threads \ {t} : ~Changes(req[u]) /\ ~Changes(req'[u])
  BY MovesAlone
<1>2. Knows(r)
  BY <1>1 DEF KnownOK
<1>3. \A i \in unaudited : i \in A \/ (Owes(r) /\ r.id = i)
  BY <1>1 DEF Accounted, Busy, Changes, Owes
<1>4. SUFFICES \A i \in unaudited' : i \in A \/ (q # NoRequest /\ Owes(q) /\ q.id = i)
  BY <1>1 DEF Accounted, Busy, Changes, Owes
<1>5. CASE OnlyReads(t, r, q)
  BY <1>1, <1>3, <1>5 DEF OnlyReads, Owes, Locals
<1>6. CASE Lays(t, r, q)
  BY <1>1, <1>3, <1>6 DEF Lays, Owes, Locals
<1>7. CASE Describes(t, r, q)
  BY <1>1, <1>3, <1>7, AfterDmlIs DEF Describes, Owes, Locals
<1>8. CASE Lists(t, r, q)
  BY <1>1, <1>3, <1>8 DEF Lists, Owes, Locals
<1>9. CASE Audits(t, r, q)
  BY <1>1, <1>2, <1>3, <1>9 DEF Audits, Owes, Locals, Knows
<1> QED BY <1>5, <1>6, <1>7, <1>8, <1>9, <1>1, <1>3 DEF Moves

(* A crash adds the table and the change of the one request in flight. *)
LEMMA CrashAdds ==
    ASSUME TypeOK, AloneOK, ~overlapped, Crash,
           NEW S \in SUBSET TableNames, AtMost(S, crashes), Settled(S),
           NEW A \in SUBSET (Ids \union {SeedId}), AtMost(A, crashes), Accounted(A)
    PROVE  CrashOK'
<1>1. /\ \A u \in Threads : ~Changes(req'[u])
      /\ UNCHANGED <<meta, disk, tools, unaudited>> /\ crashes' = crashes + 1 /\ crashes \in Nat
  BY DEF Crash, Changes, TypeOK
<1>2. \A T \in TableNames : Quiet(T)' /\ (Agrees(T)' <=> Agrees(T))
  BY <1>1 DEF Quiet, Agrees, Matches
<1>3. /\ Cardinality(S) \in Nat /\ Cardinality(A) \in Nat
      /\ Cardinality(S) <= crashes /\ Cardinality(A) <= crashes /\ IsFiniteSet(S) /\ IsFiniteSet(A)
  BY FS_CardinalityType DEF AtMost
<1>4. CASE \A u \in Threads : ~Changes(req[u])
  <2>1. \A T \in TableNames \ S : Agrees(T)
    BY <1>4 DEF Settled, Quiet
  <2>2. Settled(S)'
    BY <1>1, <1>2, <2>1 DEF Settled
  <2>3. Accounted(A)'
    BY <1>1, <1>4 DEF Accounted, Busy, Changes, Owes
  <2>4. AtMost(S, crashes') /\ AtMost(A, crashes')
    BY <1>1, <1>3 DEF AtMost
  <2> QED BY <2>2, <2>3, <2>4 DEF CrashOK
<1>5. CASE \E u \in Threads : Changes(req[u])
  <2>1. PICK t \in Threads : Changes(req[t])
    BY <1>5
  <2>2. PICK r \in Requests : r = req[t]
    BY <2>1 DEF Changes, TypeOK
  <2>3. /\ r.table \in TableNames /\ r.id \in Ids \union {SeedId}
        /\ \A u \in Threads \ {t} : ~Changes(req[u])
    BY <2>1, <2>2 DEF AloneOK, Requests
  <2> DEFINE S1 == S \union {r.table}
             A1 == A \union {r.id}
  <2>4. \A T \in TableNames \ S1 : Agrees(T)
    BY <2>1, <2>2, <2>3 DEF Settled, Quiet
  <2>5. \A i \in unaudited : i \in A1
    BY <2>1, <2>2, <2>3 DEF Accounted, Busy, Changes, Owes
  <2>6. AtMost(S1, crashes') /\ AtMost(A1, crashes')
    <3>1. /\ IsFiniteSet(S1)
          /\ Cardinality(S1) = IF r.table \in S THEN Cardinality(S) ELSE Cardinality(S) + 1
      BY <1>3, FS_AddElement
    <3>2. /\ IsFiniteSet(A1)
          /\ Cardinality(A1) = IF r.id \in A THEN Cardinality(A) ELSE Cardinality(A) + 1
      BY <1>3, FS_AddElement
    <3> QED BY <1>1, <1>3, <3>1, <3>2 DEF AtMost
  <2>7. S1 \in SUBSET TableNames /\ A1 \in SUBSET (Ids \union {SeedId})
    BY <2>3
  <2> HIDE DEF S1, A1
  <2>8. Settled(S1)'
    BY <1>1, <1>2, <2>4 DEF Settled
  <2>9. Accounted(A1)'
    BY <1>1, <2>5 DEF Accounted
  <2> QED BY <2>6, <2>7, <2>8, <2>9 DEF CrashOK
<1> QED BY <1>4, <1>5

LEMMA CrashStep ==
    ASSUME TypeOK, BuildOK, RequestsOK, AloneOK, KnownOK, CrashOK, [Next]_vars
    PROVE  CrashOK'
<1>1. ASSUME ~overlapped, NEW S \in SUBSET TableNames, AtMost(S, crashes), Settled(S),
             NEW A \in SUBSET (Ids \union {SeedId}), AtMost(A, crashes), Accounted(A)
      PROVE  CrashOK'
  <2>1. ASSUME NEW t \in Threads, NEW r \in Requests, Enters(t, r)
        PROVE  CrashOK'
    <3>0. CASE ~Changes(r)
      <4>1. /\ \A u \in Threads : Changes(req'[u]) <=> Changes(req[u]) /\ u # t
            /\ ~Changes(req[t]) /\ \A u \in Threads \ {t} : req'[u] = req[u]
            /\ UNCHANGED <<meta, disk, tools, unaudited, crashes>>
        BY <2>1, <3>0, EntersReq DEF Enters, Changes
      <4>2. Settled(S)'
        BY <1>1, <4>1 DEF Settled, Quiet, Agrees, Matches, InOrder
      <4>3. \A u \in Threads : Busy(u) => Busy(u)' /\ req'[u] = req[u]
        BY <2>1, EntersReq DEF Busy
      <4>4. Accounted(A)'
        BY <1>1, <4>1, <4>3 DEF Accounted
      <4> QED BY <1>1, <4>1, <4>2, <4>4 DEF CrashOK
    <3> SUFFICES ASSUME Changes(r)
                 PROVE  CrashOK'
      BY <3>0
    <3>1. /\ req[t] = NoRequest /\ req'[t] = r /\ r # NoRequest
          /\ \A u \in Threads \ {t} : req'[u] = req[u]
          /\ UNCHANGED <<meta, disk, tools, unaudited, crashes>> /\ Fresh(r) /\ r.op \in Ops
          /\ overlapped' = (overlapped \/ \E u \in Threads : Changes(req[u]))
          /\ r.table \in TableNames
      BY <2>1, EntersReq DEF Enters, Requests
    <3>2. SUFFICES ASSUME \A u \in Threads : ~Changes(req[u])
                   PROVE  Settled(S)' /\ Accounted(A)'
      BY <1>1, <3>1 DEF CrashOK
    <3>3. \A T \in TableNames \ S : Agrees(T) /\ Agrees(T)'
      BY <1>1, <3>1, <3>2 DEF Settled, Quiet, Agrees, Matches
    <3>4. r.step # "dml" /\ r.step # "write" /\ r.step # "load" /\ (r.step = "ddl" => r.op \notin Alter)
      BY <3>1, AfterRepoIs DEF Fresh, Ops, Alter
    <3>5. r.table \notin S => InOrder(req[t])'
      BY <3>1, <3>3, <3>4 DEF InOrder, Fresh
    <3>6. \A u \in Threads : Changes(req'[u]) => u = t
      BY <3>1, <3>2
    <3>7. Settled(S)'
      BY <3>1, <3>3, <3>5, <3>6 DEF Settled
    <3>8. Accounted(A)'
      BY <1>1, <3>1, <3>2 DEF Accounted, Busy, Changes, Owes
    <3> QED BY <3>7, <3>8
  <2>2. ASSUME NEW t \in Threads, Builds(t)
        PROVE  CrashOK'
    <3>1. /\ \A u \in Threads : (req[u] = NoRequest <=> req'[u] = NoRequest)
          /\ \A u \in Threads : req[u] # NoRequest => Same(req[u], req'[u])
          /\ \A u \in Threads \ {t} : req[u] # NoRequest => req'[u].step = req[u].step
          /\ req[t].step = "build" /\ req'[t].step \in {"ask", "read", "confirm", "unique", "ddl"}
          /\ req'[t].step = "ddl" => req[t].op \in Makes
      BY <2>2, BuildsReq
    <3>2. UNCHANGED <<meta, disk, tools, unaudited, crashes>> /\ req[t] # NoRequest
      BY <2>2 DEF Builds
    <3>3. \A T \in TableNames : (Agrees(T)' <=> Agrees(T)) /\ (Quiet(T)' <=> Quiet(T))
      BY <3>1, <3>2 DEF Agrees, Matches, Quiet, Changes, Same
    <3>4. \A u \in Threads : Changes(req'[u]) <=> Changes(req[u])
      BY <3>1 DEF Changes, Same
    <3>5. ASSUME InOrder(req[t])
          PROVE  InOrder(req[t])'
      <4>1. PICK r, q : r \in Requests /\ r = req[t] /\ q = req'[t] /\ Same(r, q)
        BY <3>1, <3>2 DEF TypeOK
      <4>2. r.table \in TableNames /\ Agrees(r.table)
        BY <3>1, <3>5, <4>1 DEF InOrder, Requests
      <4>3. Agrees(q.table)'
        <5>1. Agrees(r.table)'
          BY <3>3, <4>2
        <5> QED BY <4>1, <5>1 DEF Same
      <4>4. r.op = "create" /\ ~r.linked => r.table \notin tools'
        BY <3>1, <3>2, <3>5, <4>1 DEF InOrder
      <4> QED BY <3>1, <4>1, <4>3, <4>4 DEF InOrder, Same, Alter, Makes
    <3>6. ASSUME NEW u \in Threads \ {t}, Changes(req[u]), InOrder(req[u])
          PROVE  InOrder(req[u])'
      <4>1. PICK r, q : r = req[u] /\ q = req'[u] /\ Same(r, q) /\ q.step = r.step
        BY <3>1, <3>6 DEF Changes
      <4>2. r.op \in Alter => Altered(q, q.cols) = Altered(r, r.cols)
        BY <4>1, AlteredIs DEF Same, Alter
      <4>3. q.table = r.table /\ (Agrees(q.table)' <=> Agrees(r.table))
            /\ (Matches(q.table)' <=> Matches(r.table))
        BY <3>2, <4>1 DEF Same, Agrees, Matches
      <4> QED BY <3>2, <3>6, <4>1, <4>2, <4>3 DEF InOrder, Same, Alter
    <3>7. Settled(S)'
      <4>1. \A u \in Threads : Changes(req[u]) => req'[u].table = req[u].table
        BY <3>1 DEF Same, Changes
      <4> QED BY <1>1, <3>3, <3>4, <3>5, <3>6, <4>1 DEF Settled
    <3>8. Accounted(A)'
      BY <1>1, <3>1, <3>2 DEF Accounted, Busy, Owes, Same
    <3> QED BY <1>1, <3>2, <3>7, <3>8 DEF CrashOK
  <2>3. ASSUME NEW t \in Threads, NEW r \in Requests, NEW q \in Requests \union {NoRequest}, Moves(t, r, q)
        PROVE  CrashOK'
    <3>1. Settled(S)' /\ Accounted(A)'
      BY <1>1, <2>3, SettledMoves, AccountedMoves
    <3>2. crashes' = crashes
      BY <2>3 DEF Moves
    <3> QED BY <1>1, <3>1, <3>2 DEF CrashOK
  <2>4. CASE Still
    <3>1. UNCHANGED <<meta, disk, tools, req, unaudited, crashes>>
      BY <2>4 DEF Still, history
    <3>2. Settled(S)'
      BY <1>1, <3>1 DEF Settled, Quiet, Agrees, Matches, InOrder
    <3>3. Accounted(A)'
      BY <1>1, <3>1 DEF Accounted, Busy, Owes
    <3> QED BY <1>1, <3>1, <3>2, <3>3 DEF CrashOK
  <2>5. CASE Crash
    BY <1>1, <2>5, CrashAdds
  <2>6. ASSUME NEW t \in Threads, Asks(t)
        PROVE  CrashOK'
    <3>1. /\ req[t].op = "ask" /\ ~Changes(req[t]) /\ ~Changes(req'[t])
          /\ \A u \in Threads \ {t} : req'[u] = req[u]
          /\ UNCHANGED <<meta, disk, tools, unaudited, crashes>>
      BY <2>6, AsksReq
    <3>2. Settled(S)'
      BY <1>1, <3>1 DEF Settled, Quiet, Agrees, Matches, InOrder
    <3>3. Accounted(A)'
      BY <1>1, <3>1 DEF Accounted, Busy, Owes
    <3> QED BY <1>1, <3>1, <3>2, <3>3 DEF CrashOK
  <2> QED BY <2>1, <2>2, <2>3, <2>4, <2>5, <2>6, NextIs
<1>2. CASE overlapped
  <2>1. overlapped'
    BY <1>2, NextIs DEF Enters, Builds, Moves, Asks, Still, history, Crash
  <2> QED BY <2>1 DEF CrashOK
<1> QED BY <1>1, <1>2 DEF CrashOK

-------------------------------------------------------------------------------
TablesInv ==
    /\ TypeOK /\ RequestsOK /\ BuildOK /\ RacedOK /\ AloneOK /\ LocksOK
    /\ ThereOK /\ MatchOK /\ LinkedOK /\ OneOK /\ KnownOK /\ CrashOK

LEMMA TablesInit == Init => TablesInv
<1> SUFFICES ASSUME Init
             PROVE  TablesInv
  OBVIOUS
<1>1. /\ \A t \in Threads : ~Busy(t) /\ ~Changes(req[t])
      /\ \A T \in TableNames : meta[T] = NoTable /\ disk[T] = NoTable
      /\ tools = {} /\ crashes = 0 /\ unaudited = {}
  BY DEF Init, Busy, Changes
<1>2. TypeOK
  <2>1. 0 \in 0..MaxTokens /\ 0 \in 0..MaxRequests /\ 0 \in 0..MaxCrashes
    BY ConstantsAssumption
  <2>2. req \in [Threads -> Requests \union {NoRequest}]
    BY DEF Init
  <2>3. /\ meta \in [TableNames -> TableDefs \union {NoTable}]
        /\ disk \in [TableNames -> Files \union {NoTable}]
    BY DEF Init
  <2> QED BY <2>1, <2>2, <2>3 DEF Init, TypeOK
<1>3. RequestsOK /\ BuildOK /\ RacedOK /\ AloneOK /\ KnownOK
  BY <1>1 DEF RequestsOK, BuildOK, RacedOK, AloneOK, KnownOK
<1>4. LocksOK
  BY <1>1 DEF LocksOK, PartedIn, At, Busy
<1>5. \A T \in TableNames : Matches(T) /\ Agrees(T) /\ ~Linked(T) /\ ~InSection(T)
  BY <1>1 DEF Matches, Agrees, Linked, InSection, At
<1>6. ThereOK /\ MatchOK /\ OneOK
  BY <1>1, <1>5 DEF ThereOK, DescribedIffThere, MatchOK, OneOK, At
<1>7. LinkedOK
  BY <1>1, <1>5 DEF LinkedOK, LinkedKeepsColumns
<1>8. CrashOK
  <2>1. AtMost({}, crashes)
    BY <1>1, FS_EmptySet DEF AtMost
  <2>2. Settled({}) /\ Accounted({})
    BY <1>1, <1>5 DEF Settled, Accounted
  <2> QED BY <2>1, <2>2 DEF CrashOK
<1> QED BY <1>2, <1>3, <1>4, <1>6, <1>7, <1>8 DEF TablesInv

(* The invariant that the theorems below read off: types; how each request is  *)
(* steered; who holds which lock; and, for tables on which no other request    *)
(* or no other lock came, what file, metadata and Tools have in common.       *)
THEOREM TablesInvariant == Spec => []TablesInv
<1>1. TablesInv /\ [Next]_vars => TablesInv'
  BY MeetingsStep, RequestsStep, BuildStep, TypeStep, LocksStep, ThereStep, MatchStep, LinkedStep,
     OneStep, KnownStep, CrashStep DEF TablesInv
<1> QED BY TablesInit, <1>1, PTL DEF Spec

(* The files, the tokens, the requests in flight and the history have types;   *)
(* tables under two locks at once have had two requests at once.              *)
THEOREM TableTypes == Spec => []TypeOK
<1>1. TablesInv => TypeOK
  BY DEF TablesInv
<1> QED BY <1>1, TablesInvariant, PTL

(* Whatever the routes interleave, a table is in the file exactly while it is  *)
(* described, unless two repositories' locks met on it                        *)
(* (sqlite_repository.py:105-169).                                            *)
THEOREM ThereWhileDescribed == Spec => []DescribedIffThere
<1>1. TablesInv => DescribedIffThere
  BY DEF TablesInv, ThereOK, DescribedIffThere
<1> QED BY <1>1, TablesInvariant, PTL

(* Where no two requests met, and nothing crashed, the metadata has the columns *)
(* the file has (sqlite_repository.py:171-226).                                *)
THEOREM DescribedAsThere == Spec => []ColumnsMatch
<1>1. TablesInv => ColumnsMatch
  <2> SUFFICES ASSUME TablesInv, crashes = 0, NEW T \in TableNames \ raced, Idle(T)
               PROVE  Matches(T)
    BY DEF ColumnsMatch
  <2>1. ~InSection(T)
    BY DEF Idle, InSection, At
  <2> QED BY <2>1 DEF TablesInv, MatchOK
<1> QED BY <1>1, TablesInvariant, PTL

(* A linked table on which no two requests met keeps the columns its Tool      *)
(* reads, through any crashes (sqlite_repository.py:313-338).                 *)
THEOREM LinkedAsItsToolReads == Spec => []LinkedKeepsColumns
<1>1. TablesInv => LinkedKeepsColumns
  BY DEF TablesInv, LinkedOK
<1> QED BY <1>1, TablesInvariant, PTL

(* With one request at a time at most one table is linked to a Tool            *)
(* (sqlite_repository.py:114-123).                                            *)
THEOREM OneAtMost == Spec => []OneLinkedTable
<1>1. TablesInv => OneLinkedTable
  <2> SUFFICES ASSUME TablesInv, ~overlapped
               PROVE  Cardinality({T \in TableNames : Linked(T)}) <= 1
    BY DEF OneLinkedTable, Linked
  <2> DEFINE Ls == {T \in TableNames : Linked(T)}
  <2>1. \A T, U \in TableNames : Linked(T) /\ Linked(U) => T = U
    BY DEF TablesInv, OneOK
  <2>2. CASE Ls = {}
    BY <2>2, FS_EmptySet
  <2>3. CASE Ls # {}
    <3>1. PICK T \in Ls : TRUE
      BY <2>3
    <3>2. Ls = {T}
      BY <2>1, <3>1
    <3>3. Cardinality({T}) = 1
      BY FS_Singleton
    <3> QED BY <3>2, <3>3
  <2> QED BY <2>2, <2>3
<1> QED BY <1>1, TablesInvariant, PTL

(* With one request at a time each crash leaves at most one table whose file,  *)
(* metadata and Tools disagree, and at most one change without an audit entry  *)
(* (entities_router.py:94-171).                                               *)
THEOREM EachCrashLeavesOne == Spec => []OneCrashOneTable
<1>1. TablesInv => OneCrashOneTable
  <2> SUFFICES ASSUME TablesInv, ~overlapped
               PROVE  /\ Cardinality({T \in TableNames : Idle(T) /\ Disagrees(T)}) <= crashes
                      /\ Cardinality({i \in unaudited : \A t \in Threads : Busy(t) => req[t].id # i})
                            <= crashes
    BY DEF OneCrashOneTable
  <2>1. crashes \in Nat
    BY DEF TablesInv, TypeOK
  <2>2. ASSUME NEW X, NEW S, X \subseteq S, AtMost(S, crashes)
        PROVE  Cardinality(X) <= crashes
    <3>1. Cardinality(X) <= Cardinality(S) /\ Cardinality(X) \in Nat /\ Cardinality(S) \in Nat
      BY <2>2, FS_Subset, FS_CardinalityType DEF AtMost
    <3> QED BY <2>1, <2>2, <3>1 DEF AtMost
  <2>3. PICK S \in SUBSET TableNames : AtMost(S, crashes) /\ Settled(S)
    BY DEF TablesInv, CrashOK
  <2>4. PICK A \in SUBSET (Ids \union {SeedId}) : AtMost(A, crashes) /\ Accounted(A)
    BY DEF TablesInv, CrashOK
  <2>5. {T \in TableNames : Idle(T) /\ Disagrees(T)} \subseteq S
    BY <2>3, AgreesIs DEF Settled, Quiet, Idle, Busy, Changes
  <2>6. {i \in unaudited : \A t \in Threads : Busy(t) => req[t].id # i} \subseteq A
    BY <2>4 DEF Accounted
  <2> QED BY <2>2, <2>3, <2>4, <2>5, <2>6
<1> QED BY <1>1, TablesInvariant, PTL
===============================================================================
