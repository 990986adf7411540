-------------------------------- MODULE Tables --------------------------------
(***************************************************************************)
(* The owner-defined tables of one Business: SqliteEntityRepository        *)
(* (entities/sqlite_repository.py) under the admin routes                  *)
(* (interfaces/admin/entities_router.py), with the tools list of           *)
(* business.yaml the routes rewrite, and the menu table the chat runtime   *)
(* creates for itself when it loads (tools/registry.py).                   *)
(*                                                                         *)
(* A route runs on a worker thread; each lock section of the repository    *)
(* and each read or write of the config file is a step.  Python's sqlite3  *)
(* opens a transaction before an INSERT, UPDATE or DELETE only, so a       *)
(* CREATE, DROP or ALTER TABLE is committed on its own and the row that    *)
(* describes it follows in another transaction: two steps.  The lock is    *)
(* one repository's.  The routes share a repository they build on first    *)
(* use, unless two of them build one each; the chat runtime has its own.   *)
(***************************************************************************)
EXTENDS Integers, FiniteSets

CONSTANTS
    Threads,      \* worker threads
    TableNames,   \* table names
    Columns,      \* column names
    Required,     \* the columns a tool_linked table must have
    Menu,         \* DEFAULT_MENU_TABLE's name
    MaxRequests,  \* bound: requests of the routes
    MaxTokens,    \* bound: confirm tokens outstanding
    MaxCrashes,   \* bound: crashes
    NoTable,      \* no row in __qantonic_tables__, or no table in the file
    NoRepo,       \* no repository built yet
    NoRequest     \* an idle thread

ASSUME ConstantsAssumption ==
    /\ IsFiniteSet(Threads) /\ Columns # {}
    /\ Required \subseteq Columns /\ Menu \in TableNames
    /\ MaxRequests \in Nat /\ MaxTokens \in Nat /\ MaxCrashes \in Nat

Files == [cols : SUBSET Columns]
TableDefs == [cols : SUBSET Columns, linked : BOOLEAN]
Ops == {"create", "delete", "add", "rename", "drop", "seed", "ask"}
Steps == {"build", "unique", "ask", "confirm", "read", "ddl", "dml", "load", "write", "audit"}
Ids == 1..MaxRequests
SeedId == 0

(* SqliteEntityRepository objects, each with a lock: the chat runtime's is 0,  *)
(* and the routes' are numbered from the latest, which is the cached one.     *)
ChatRepo == 0
Latest == 1
Repos == 0..(Cardinality(Threads) + 1)

(* The locals of a route: its repository, op's table, a column and the name   *)
(* it is renamed to, the columns given or read, and the tools list as it was   *)
(* read.                                                                      *)
Requests == [id : Ids \union {SeedId}, op : Ops, table : TableNames,
             col : Columns, new : Columns,
             cols : SUBSET Columns, linked : BOOLEAN,
             tools : SUBSET TableNames, repo : Repos \union {NoRepo}, step : Steps]

ASSUME NullsAssumption ==
    NoTable \notin TableDefs /\ NoTable \notin Files /\ NoRepo \notin Repos /\ NoRequest \notin Requests

VARIABLES
    meta,       \* __qantonic_tables__: each table's definition
    disk,       \* each table in the file
    tools,      \* the tables whose four Tools business.yaml lists
    cached,     \* _entity_repos: is there a repository for the next route
    tokens,     \* _pending_confirmations, which no deletion tells apart
    req,        \* the route each thread runs
    count,      \* requests so far
    crashes,    \* crashes so far
    overlapped, \* history: were two requests that change tables ever in flight at once
    raced,      \* history: tables on which two of them ever were
    parted,     \* history: the same under different locks, in this process
    unaudited   \* history: requests that changed the file and have no audit entry

history == <<overlapped, raced, parted, unaudited>>
vars == <<meta, disk, tools, cached, tokens, req, count, crashes, history>>

Busy(t) == req[t] # NoRequest
At(t, step) == Busy(t) /\ req[t].step = step
Goto(t, step) == req' = [req EXCEPT ![t].step = step]
(* The route returns, with a response or an error. *)
Return(t) == req' = [req EXCEPT ![t] = NoRequest]

(* It changes tables; a route that asks only reads them. *)
Changes(r) == r # NoRequest /\ r.op # "ask"

LinkedThere == \E T \in TableNames : meta[T] # NoTable /\ meta[T].linked

(* Between its DDL and its commit a route holds the lock of its repository. *)
LockFree(t) == \A u \in Threads : At(u, "dml") => req[u].repo # req[t].repo

(* What a route does once it has its repository. *)
AfterRepo(r) ==
    CASE r.op \in {"add", "rename"} -> "read"
      [] r.op \in {"delete", "drop"} -> "confirm"
      [] r.op = "ask" -> "ask"
      [] OTHER -> IF r.op = "create" /\ r.linked THEN "unique" ELSE "ddl"

(* _entity_repo: the cached repository, or one still to be built. *)
Acquired(r) ==
    IF r.op = "seed" THEN [r EXCEPT !.repo = ChatRepo, !.step = AfterRepo(r)]
    ELSE IF ~cached THEN r
    ELSE [r EXCEPT !.repo = Latest, !.step = AfterRepo(r)]

(* Tables that two of the requests rs change under different locks. *)
PartedIn(rs) ==
    {T \in TableNames : \E t, u \in Threads :
        /\ \A x \in {t, u} : Changes(rs[x]) /\ rs[x].table = T /\ rs[x].repo # NoRepo
        /\ rs[t].repo # rs[u].repo}

-------------------------------------------------------------------------------
Init ==
    /\ meta = [T \in TableNames |-> NoTable]
    /\ disk = [T \in TableNames |-> NoTable]
    /\ tools = {} /\ cached = FALSE /\ tokens = 0 /\ count = 0 /\ crashes = 0
    /\ req = [t \in Threads |-> NoRequest]
    /\ overlapped = FALSE /\ raced = {} /\ parted = {} /\ unaudited = {}

(* A request joins those in flight. *)
Enter(t, r) ==
    /\ ~Busy(t)
    /\ req' = [req EXCEPT ![t] = r]
    /\ LET others == {u \in Threads : Changes(req[u]) /\ Changes(r)} IN
       /\ overlapped' = (overlapped \/ others # {})
       /\ raced' = IF \E u \in others : req[u].table = r.table
                   THEN raced \union {r.table} ELSE raced
    /\ parted' = parted \union PartedIn(req')
    /\ UNCHANGED <<meta, disk, tools, cached, tokens, crashes, unaudited>>

Local(id, op, T, col, new, cols, linked) ==
    [id |-> id, op |-> op, table |-> T, col |-> col, new |-> new, cols |-> cols,
     linked |-> linked, tools |-> {}, repo |-> NoRepo, step |-> "build"]

Post(t, r) ==
    /\ count < MaxRequests
    /\ count' = count + 1
    /\ Enter(t, r)

AnyColumn == CHOOSE c \in Columns : TRUE

(* create_table reads the config and refuses a name whose Tools are listed;  *)
(* the repository refuses a linked table without its columns.                *)
PostCreate(t, T) ==
    \E cols \in SUBSET Columns, linked \in BOOLEAN :
        /\ IF linked THEN Required \subseteq cols ELSE T \notin tools
        /\ Post(t, Acquired([Local(count + 1, "create", T, AnyColumn, AnyColumn, cols, linked)
                               EXCEPT !.tools = tools]))
PostDelete(t, T) ==
    Post(t, Acquired(Local(count + 1, "delete", T, AnyColumn, AnyColumn, {}, FALSE)))
PostAdd(t, T) ==
    \E c \in Columns : Post(t, Acquired(Local(count + 1, "add", T, c, c, {}, FALSE)))
PostRename(t, T) ==
    \E c \in Columns : \E d \in Columns \ {c} :
        Post(t, Acquired(Local(count + 1, "rename", T, c, d, {}, FALSE)))
PostDrop(t, T) ==
    \E c \in Columns : Post(t, Acquired(Local(count + 1, "drop", T, c, c, {}, FALSE)))

(* A deletion without a token, or any other route that looks at a table. *)
PostAsk(t, T) ==
    /\ Enter(t, Acquired(Local(SeedId, "ask", T, AnyColumn, AnyColumn, {}, FALSE)))
    /\ UNCHANGED count

TokenExpires ==
    /\ tokens > 0
    /\ tokens' = tokens - 1
    /\ UNCHANGED <<meta, disk, tools, cached, req, count, crashes, history>>

(* The chat runtime of a Business whose tool_provider is sqlite_menu loads, and *)
(* its list_tables finds no linked table; where it finds one, nothing changes. *)
LoadMenu(t) ==
    /\ ~LinkedThere
    /\ \A u \in Threads : Busy(u) => req[u].op # "seed"
    /\ Enter(t, Acquired(Local(SeedId, "seed", Menu, AnyColumn, AnyColumn, Required, TRUE)))
    /\ UNCHANGED count

-------------------------------------------------------------------------------
(* The route found no repository: it builds one and caches it, in place of any *)
(* that another route has cached since.                                       *)
Build(t) ==
    /\ At(t, "build")
    /\ cached' = TRUE
    /\ req' = [u \in Threads |->
                  IF u = t THEN [req[t] EXCEPT !.repo = Latest, !.step = AfterRepo(req[t])]
                  ELSE IF Busy(u) /\ req[u].repo \notin {NoRepo, ChatRepo}
                  THEN [req[u] EXCEPT !.repo = @ + 1] ELSE req[u]]
    /\ parted' = parted \union PartedIn(req')
    /\ UNCHANGED <<meta, disk, tools, tokens, count, crashes, overlapped, raced, unaudited>>

(* _require_table of a route that asks: if the table is there, a deletion is   *)
(* given a token.  The others (list_tables, the rows' routes) change no table. *)
RequestConfirmation(t) ==
    /\ At(t, "ask") /\ LockFree(t)
    /\ \/ UNCHANGED tokens
       \/ meta[req[t].table] # NoTable /\ tokens < MaxTokens /\ tokens' = tokens + 1
    /\ Return(t)
    /\ UNCHANGED <<meta, disk, tools, cached, count, crashes, history>>

(* Mutant: a second linked table is not refused. *)
UniqueUnchecked(t) ==
    /\ At(t, "unique") /\ LockFree(t)
    /\ Goto(t, "ddl")
    /\ UNCHANGED <<meta, disk, tools, cached, tokens, count, crashes, history>>

(* list_tables: at most one table is linked to a Tool. *)
Unique(t) ==
    /\ At(t, "unique") /\ LockFree(t)
    /\ IF LinkedThere THEN Return(t) ELSE Goto(t, "ddl")
    /\ UNCHANGED <<meta, disk, tools, cached, tokens, count, crashes, history>>

(* Mutant: a confirm_token that is not outstanding is taken. *)
ConfirmAny(t) ==
    /\ At(t, "confirm") /\ LockFree(t)
    /\ LET r == req[t]
           found == meta[r.table] # NoTable /\ (r.op = "drop" => r.col \in meta[r.table].cols)
       IN IF found
          THEN tokens' = tokens - 1 /\ Goto(t, "read")
          ELSE Return(t) /\ UNCHANGED tokens
    /\ UNCHANGED <<meta, disk, tools, cached, count, crashes, history>>

(* _require_table of the route, and its confirm_token is consumed. *)
Confirm(t) ==
    /\ At(t, "confirm") /\ LockFree(t)
    /\ LET r == req[t]
           found == meta[r.table] # NoTable /\ (r.op = "drop" => r.col \in meta[r.table].cols)
       IN IF found /\ tokens > 0
          THEN tokens' = tokens - 1 /\ Goto(t, "read")
          ELSE Return(t) /\ UNCHANGED tokens
    /\ UNCHANGED <<meta, disk, tools, cached, count, crashes, history>>

(* Mutant: a required column may be renamed or dropped. *)
RefusedLess(r, def) ==
    \/ def = NoTable
    \/ r.op = "add" /\ r.col \in def.cols
    \/ r.op \in {"rename", "drop"} /\ r.col \notin def.cols
    \/ r.op = "rename" /\ r.new \in def.cols

(* What the repository refuses once it has read the table's definition. *)
Refused(r, def) ==
    \/ def = NoTable
    \/ r.op = "add" /\ r.col \in def.cols
    \/ r.op \in {"rename", "drop"} /\ r.col \notin def.cols
    \/ r.op = "rename" /\ r.new \in def.cols
    \/ r.op \in {"rename", "drop"} /\ def.linked /\ r.col \in Required

(* _require_table of the repository: the columns it reads are written back *)
(* with one changed, a lock section later.                                 *)
Read(t) ==
    /\ At(t, "read") /\ LockFree(t)
    /\ LET r == req[t] IN
       IF Refused(r, meta[r.table])
       THEN Return(t)
       ELSE req' = [req EXCEPT ![t].cols = meta[r.table].cols,
                               ![t].linked = meta[r.table].linked, ![t].step = "ddl"]
    /\ UNCHANGED <<meta, disk, tools, cached, tokens, count, crashes, history>>

(* The columns that a request's ALTER TABLE makes of cols. *)
Altered(r, cols) ==
    CASE r.op = "add"    -> cols \union {r.col}
      [] r.op = "drop"   -> cols \ {r.col}
      [] r.op = "rename" -> (cols \ {r.col}) \union {r.new}

(* SQLite refuses the statement: the table or the column is not as expected. *)
SqliteRefuses(r) ==
    LET d == disk[r.table] IN
    \/ r.op \in {"create", "seed"} /\ d # NoTable
    \/ r.op \in {"add", "rename", "drop"} /\ d = NoTable
    \/ r.op = "add" /\ d # NoTable /\ r.col \in d.cols
    \/ r.op \in {"rename", "drop"} /\ d # NoTable /\ r.col \notin d.cols
    \/ r.op = "rename" /\ d # NoTable /\ r.new \in d.cols

(* The table that the first statement of a lock section leaves in the file. *)
Laid(r) ==
    CASE r.op \in {"create", "seed"} -> [cols |-> r.cols]
      [] r.op = "delete" -> NoTable
      [] OTHER -> [cols |-> Altered(r, disk[r.table].cols)]

(* That statement, committed as it is executed. *)
Ddl(t) ==
    /\ At(t, "ddl") /\ LockFree(t)
    /\ LET r == req[t] IN
       IF (r.op \in {"create", "seed"} /\ meta[r.table] # NoTable) \/ SqliteRefuses(r)
       THEN Return(t) /\ UNCHANGED <<disk, unaudited>>
       ELSE
          /\ disk' = [disk EXCEPT ![r.table] = Laid(r)]
          /\ unaudited' = IF r.op = "seed" THEN unaudited ELSE unaudited \union {r.id}
          /\ Goto(t, "dml")
    /\ UNCHANGED <<meta, tools, cached, tokens, count, crashes, overlapped, raced, parted>>

(* Mutant: the metadata row of a dropped table stays. *)
DescribedKeeps(r) ==
    CASE r.op \in {"create", "seed"} -> [cols |-> r.cols, linked |-> r.linked]
      [] r.op = "delete" -> meta[r.table]
      [] OTHER -> IF meta[r.table] = NoTable THEN NoTable
                  ELSE [meta[r.table] EXCEPT !.cols = Altered(r, r.cols)]

(* The row the second statement leaves; an UPDATE finds the row or does nothing. *)
Described(r) ==
    CASE r.op \in {"create", "seed"} -> [cols |-> r.cols, linked |-> r.linked]
      [] r.op = "delete" -> NoTable
      [] OTHER -> IF meta[r.table] = NoTable THEN NoTable
                  ELSE [meta[r.table] EXCEPT !.cols = Altered(r, r.cols)]

(* What a route does once the table is as its client asked. *)
AfterDml(r) ==
    CASE r.op = "create" /\ ~r.linked -> "write"
      [] r.op = "delete" -> "load"
      [] OTHER -> "audit"

(* Mutant: the metadata of an altered table is not written. *)
DmlCreatesOnly(t) ==
    /\ At(t, "dml")
    /\ LET r == req[t] IN
       /\ meta' = IF r.op \in {"create", "seed", "delete"}
                  THEN [meta EXCEPT ![r.table] = Described(r)] ELSE meta
       /\ IF r.op = "seed" THEN Return(t)
          ELSE Goto(t, AfterDml(r))
    /\ UNCHANGED <<disk, tools, cached, tokens, count, crashes, history>>

(* The second statement and the commit, and the lock is given back. *)
Dml(t) ==
    /\ At(t, "dml")
    /\ LET r == req[t] IN
       /\ meta' = [meta EXCEPT ![r.table] = Described(r)]
       /\ IF r.op = "seed" THEN Return(t)
          ELSE Goto(t, AfterDml(r))
    /\ UNCHANGED <<disk, tools, cached, tokens, count, crashes, history>>

(* delete_table reads the config once the table is gone. *)
Load(t) ==
    /\ At(t, "load")
    /\ req' = [req EXCEPT ![t].tools = tools,
                          ![t].step = IF req[t].table \in tools THEN "write" ELSE "audit"]
    /\ UNCHANGED <<meta, disk, tools, cached, tokens, count, crashes, history>>

(* Mutant: the tools list is written back without the new table's Tools. *)
WriteForgets(t) ==
    /\ At(t, "write")
    /\ LET r == req[t] IN
       tools' = IF r.op = "create" THEN r.tools ELSE r.tools \ {r.table}
    /\ Goto(t, "audit")
    /\ UNCHANGED <<meta, disk, cached, tokens, count, crashes, history>>

(* update_business_config replaces the whole tools list by the one it was given. *)
Write(t) ==
    /\ At(t, "write")
    /\ LET r == req[t] IN
       tools' = IF r.op = "create" THEN r.tools \union {r.table} ELSE r.tools \ {r.table}
    /\ Goto(t, "audit")
    /\ UNCHANGED <<meta, disk, cached, tokens, count, crashes, history>>

(* record_audit, which an altered table reaches only if it is still there to read. *)
Audit(t) ==
    /\ At(t, "audit")
    /\ LET r == req[t] IN
       unaudited' = IF r.op \in {"add", "rename", "drop"} /\ meta[r.table] = NoTable
                    THEN unaudited ELSE unaudited \ {r.id}
    /\ Return(t)
    /\ UNCHANGED <<meta, disk, tools, cached, tokens, count, crashes, overlapped, raced, parted>>

(* The process stops: files stay as they are, threads and tokens are gone. *)
Crash ==
    /\ crashes < MaxCrashes
    /\ crashes' = crashes + 1
    /\ req' = [t \in Threads |-> NoRequest]
    /\ tokens' = 0 /\ cached' = FALSE /\ parted' = {}
    /\ UNCHANGED <<meta, disk, tools, count, overlapped, raced, unaudited>>

-------------------------------------------------------------------------------
Route(t) == \/ Build(t) \/ RequestConfirmation(t) \/ Unique(t) \/ Confirm(t)
            \/ Read(t) \/ Ddl(t) \/ Dml(t) \/ Load(t) \/ Write(t) \/ Audit(t)

Next ==
    \/ \E t \in Threads, T \in TableNames :
          \/ PostCreate(t, T) \/ PostDelete(t, T) \/ PostAdd(t, T)
          \/ PostRename(t, T) \/ PostDrop(t, T) \/ PostAsk(t, T)
    \/ \E t \in Threads : LoadMenu(t) \/ Route(t)
    \/ TokenExpires \/ Crash

Spec == Init /\ [][Next]_vars

-------------------------------------------------------------------------------
(* The files, the tokens, the requests in flight and the history have types. *)
TypeOK ==
    /\ meta \in [TableNames -> TableDefs \union {NoTable}]
    /\ disk \in [TableNames -> Files \union {NoTable}]
    /\ tools \subseteq TableNames /\ cached \in BOOLEAN /\ tokens \in 0..MaxTokens
    /\ req \in [Threads -> Requests \union {NoRequest}]
    /\ count \in 0..MaxRequests /\ crashes \in 0..MaxCrashes
    /\ overlapped \in BOOLEAN /\ parted \subseteq raced /\ raced \subseteq TableNames
    /\ unaudited \subseteq Ids \union {SeedId}

Idle(T) == \A t \in Threads : Busy(t) => req[t].table # T
InSection(T) == \E t \in Threads : At(t, "dml") /\ req[t].table = T
Matches(T) == IF meta[T] = NoTable THEN disk[T] = NoTable ELSE disk[T] = [cols |-> meta[T].cols]

(* Whatever requests interleave, the repository's lock keeps a table in the   *)
(* file exactly while it is described (sqlite_repository.py:105-169), unless    *)
(* two of them were under different locks: the menu's under the chat runtime's  *)
(* own, or two first requests, each with a repository it has just built        *)
(* (entities_router.py:63-68).                                                *)
DescribedIffThere ==
    crashes = 0 => \A T \in TableNames \ parted :
        ~InSection(T) => (meta[T] = NoTable <=> disk[T] = NoTable)

(* Where no two requests met, the columns described are the columns there     *)
(* (sqlite_repository.py:171-226), whatever goes on in other tables.          *)
ColumnsMatch ==
    crashes = 0 => \A T \in TableNames \ raced : Idle(T) => Matches(T)

(* A linked table keeps the columns its Tool reads (sqlite_repository.py:     *)
(* 313-338), through crashes and whatever goes on in other tables.            *)
LinkedKeepsColumns ==
    \A T \in TableNames \ raced :
        meta[T] # NoTable /\ meta[T].linked /\ disk[T] # NoTable => Required \subseteq disk[T].cols

(* An owner who waits for each answer has at most one table linked to a Tool  *)
(* (sqlite_repository.py:114-123).                                            *)
OneLinkedTable ==
    ~overlapped => Cardinality({T \in TableNames : meta[T] # NoTable /\ meta[T].linked}) <= 1

(* ... and a crash leaves at most one table whose definition, columns and     *)
(* Tools disagree, and at most one change without an audit entry              *)
(* (entities_router.py:94-171).                                               *)
Disagrees(T) == ~Matches(T) \/ (T \in tools <=> meta[T] = NoTable \/ meta[T].linked)
OneCrashOneTable ==
    ~overlapped =>
        /\ Cardinality({T \in TableNames : Idle(T) /\ Disagrees(T)}) <= crashes
        /\ Cardinality({i \in unaudited : \A t \in Threads : Busy(t) => req[t].id # i}) <= crashes
===============================================================================
