------------------------------ MODULE Rows_proof ------------------------------
(***************************************************************************)
(* Proofs about Rows, for any number of threads, connections, columns,     *)
(* values, requests and restarts.                                          *)
(***************************************************************************)
EXTENDS Rows, FiniteSetTheorems, TLAPS

(* The types the argument needs; ids are numbers, whatever the bound. *)
Types ==
    /\ file \in Contents /\ draft \in Contents
    /\ writer \in Conns \union {NoConn}
    /\ txn \in [Conns -> Contents \union {NoTxn, Unread}] /\ stale \subseteq Conns
    /\ req \in [Threads -> Requests \union {NoRequest}]
    /\ crashes \in Nat
    /\ want \in [Ids -> RowValues \union {NoRow}]

(* Whoever is in a lock section holds the write lock, alone, and reads the  *)
(* file as it is; so does every transaction that is not stale.              *)
SectionsOK ==
    /\ \A t \in Threads : At(t, "commit") => writer = req[t].via
    /\ \A t, u \in Threads : At(t, "commit") /\ At(u, "commit") => t = u
    /\ (\A t \in Threads : ~At(t, "commit")) => draft = file
    /\ stale \subseteq {c \in Conns : Reading(c)}
    /\ writer \notin stale
    /\ \A c \in Conns \ stale : Reading(c) => txn[c] = file

(* Two requests on one row have met. *)
MeetingsOK ==
    \A t, u \in Threads :
        t # u /\ Busy(t) /\ Busy(u) /\ req[t].row = req[u].row /\ req[t].row # 0
            => req[t].row \in met

(* What an update read is what is wanted, unless its connection may not write. *)
Sound(r) ==
    /\ r.op = "read" => r.step = "get"
    /\ r.op = "update" => r.row \in Ids
    /\ r.op = "update" /\ r.step \in {"require", "write", "commit"} =>
          /\ r.old # NoRow
          /\ r.row \in met \/ r.via \in stale \/ file.table = "none" \/ r.old = want[r.row]
UpdatesOK == \A t \in Threads : Busy(t) => Sound(req[t])

(* What is about to be committed is the file with the request's row. *)
DraftOK ==
    \A t \in Threads : At(t, "commit") =>
        /\ draft.table # "none" /\ file.table # "none"
        /\ draft.rows = [file.rows EXCEPT ![req[t].row] =
                            IF req[t].op = "delete" THEN NoRow ELSE Stored(req[t])]

Inv ==
    /\ Types /\ SectionsOK /\ TransactionsEnd
    /\ MeetingsOK /\ UpdatesOK /\ DraftOK /\ AsWritten

-------------------------------------------------------------------------------
(* The row a request makes is a row. *)
LEMMA StoredIsRow ==
    ASSUME NEW r \in Requests, r.op = "create" \/ r.old # NoRow
    PROVE  Stored(r) \in RowValues
  BY ConstantsAssumption DEF Stored, With, Empty, Requests, RowValues, Patches

(* Outside a section a connection reads the file, or is stale. *)
LEMMA ViewIsFile ==
    ASSUME Types, SectionsOK, NEW c \in Conns, ~InSection(c), c \notin stale
    PROVE  View(c) = file
<1>1. CASE writer = c
  <2>1. \A t \in Threads : ~At(t, "commit")
    BY <1>1 DEF SectionsOK, InSection
  <2> QED BY <1>1, <2>1 DEF SectionsOK, View
<1>2. CASE writer # c
  BY <1>2 DEF SectionsOK, View, Reading
<1> QED BY <1>1, <1>2

LEMMA ViewIsContents ==
    ASSUME Types, NEW c \in Conns
    PROVE  View(c) \in Contents
  BY DEF Types, View

(* Reading settles an open transaction's view and changes nothing else. *)
LEMMA SelectEffect ==
    ASSUME Types, SectionsOK, NEW c \in Conns, ~InSection(c), Select(c)
    PROVE  /\ txn' \in [Conns -> Contents \union {NoTxn, Unread}]
           /\ \A d \in Conns : txn'[d] # txn[d] => d = c /\ txn[d] = Unread
           /\ \A d \in Conns : txn'[d] # txn[d] /\ d \notin stale => txn'[d] = file
  BY ViewIsFile, ViewIsContents DEF Select, Types

-------------------------------------------------------------------------------
(* A call, a read or a write that fails leaves the lock sections as they are.  *)
Aside(t) ==
    /\ t \in Threads /\ ~At(t, "commit") /\ ~At(t, "commit")'
    /\ req' \in [Threads -> Requests \union {NoRequest}]
    /\ \A u \in Threads \ {t} : req'[u] = req[u]
    /\ UNCHANGED <<file, draft, stale, want>>

LEMMA AsideSections ==
    ASSUME Inv, NEW t, Aside(t)
    PROVE  /\ DraftOK'
           /\ \A u \in Threads : At(u, "commit")' <=> At(u, "commit")
           /\ \A u \in Threads : At(u, "commit") => req'[u] = req[u]
           /\ \A c \in Conns : InSection(c)' <=> InSection(c)
<1>1. \A u \in Threads : At(u, "commit")' <=> At(u, "commit")
  BY DEF Aside, At, Busy
<1>2. \A u \in Threads : At(u, "commit") => req'[u] = req[u]
  BY DEF Aside
<1>3. \A c \in Conns : InSection(c)' <=> InSection(c)
  BY <1>1, <1>2 DEF InSection
<1>4. DraftOK'
  BY <1>1, <1>2 DEF Inv, DraftOK, Aside, Stored, With
<1> QED BY <1>1, <1>2, <1>3, <1>4

(* An update that another thread runs loses nothing to it. *)
LEMMA AsideUpdates ==
    ASSUME Inv, NEW t, Aside(t), met \subseteq met',
           Busy(t)' => Sound(req[t])'
    PROVE  UpdatesOK'
  BY DEF Inv, UpdatesOK, Aside, Busy, Sound

(* The rows are as they were wanted, and are wanted as they were. *)
LEMMA AsideRows ==
    ASSUME Inv, NEW t, Aside(t), met \subseteq met'
    PROVE  AsWritten'
  BY DEF Inv, AsWritten, Aside

LEMMA CallKeepsInv ==
    ASSUME Inv, NEW t \in Threads, NEW c \in Conns,
           NEW op \in {"read", "create", "update", "delete"},
           NEW i \in Ids \union {0}, NEW patch \in Patches, Call(t, c, op, i, patch),
           op = "update" => i \in Ids
    PROVE  Inv'
<1> DEFINE r == [via |-> c, op |-> op, row |-> i, patch |-> patch, old |-> NoRow,
                 step |-> IF op = "create" \/ (op = "delete" /\ c # Admin)
                          THEN "require" ELSE "get"]
<1>1. r \in Requests /\ r # NoRequest
  BY ConstantsAssumption, NullsAssumption DEF Requests, Ids
<1>2. /\ req' = [req EXCEPT ![t] = r] /\ ~Busy(t)
      /\ UNCHANGED <<file, draft, writer, txn, stale, crashes, want, failed, missing>>
      /\ met \subseteq met'
  BY DEF Call
<1>3. req'[t] = r /\ \A u \in Threads \ {t} : req'[u] = req[u]
  BY <1>2 DEF Inv, Types
<1>4. Aside(t)
  BY <1>1, <1>2, <1>3 DEF Aside, At, Busy, Inv, Types
<1>5. Types'
  BY <1>2, <1>4 DEF Inv, Types, Aside
<1>6. SectionsOK'
  BY <1>2, <1>4, AsideSections DEF Inv, SectionsOK, Reading
<1>7. TransactionsEnd'
  BY <1>2, <1>4, AsideSections DEF Inv, TransactionsEnd
<1>8. MeetingsOK'
  BY <1>2, <1>3 DEF Inv, MeetingsOK, Call, OnRow, Busy
<1>9. UpdatesOK'
  BY <1>2, <1>3, <1>4, AsideUpdates DEF Sound
<1>10. DraftOK' /\ AsWritten'
  BY <1>2, <1>4, AsideSections, AsideRows
<1> QED BY <1>5, <1>6, <1>7, <1>8, <1>9, <1>10 DEF Inv

(* What a read leaves of its request, if anything. *)
Goes(t) ==
    \/ req'[t] = NoRequest
    \/ /\ req'[t] \in Requests /\ req'[t] # NoRequest
       /\ req'[t].via = req[t].via /\ req'[t].op = req[t].op /\ req'[t].row = req[t].row
       /\ \/ req'[t].step = "write" /\ req'[t].old = req[t].old /\ req[t].step = "require"
          \/ /\ req'[t].step = "require" /\ req[t].op # "read"
             /\ req'[t].old = View(req[t].via).rows[req[t].row]
             /\ req'[t].old # NoRow

LEMMA ReadKeepsInv ==
    ASSUME Inv, NEW t \in Threads, Get(t) \/ Require(t) \/ Reread(t)
    PROVE  Inv'
<1> DEFINE c == req[t].via
<1>1. /\ Busy(t) /\ ~At(t, "commit") /\ c \in Conns /\ ~InSection(c) /\ Select(c)
      /\ UNCHANGED <<file, draft, writer, stale, crashes, want, met, failed>>
  BY DEF Inv, Types, Get, Require, Reread, At, Busy, Requests, history
<1>2. /\ req' \in [Threads -> Requests \union {NoRequest}]
      /\ \A u \in Threads \ {t} : req'[u] = req[u]
      /\ Goes(t)
  <2>1. req[t] \in Requests /\ View(c) \in Contents
    BY <1>1, ViewIsContents DEF Inv, Types, Busy
  <2>2. CASE Get(t)
    BY <2>1, <2>2, NullsAssumption DEF Get, Goes, Return, Requests, Contents, Inv, Types, At, Busy
  <2>3. CASE Require(t)
    BY <2>1, <2>3, NullsAssumption DEF Require, Goes, Return, Goto, Requests, Inv, Types, At, Busy
  <2>4. CASE Reread(t)
    BY <2>4 DEF Reread, Goes, Return, Inv, Types
  <2> QED BY <2>2, <2>3, <2>4
<1>3. Aside(t)
  BY <1>1, <1>2 DEF Aside, Goes, At, Busy
<1>4. /\ txn' \in [Conns -> Contents \union {NoTxn, Unread}]
      /\ \A d \in Conns : txn'[d] # txn[d] => d = c /\ txn[d] = Unread
      /\ \A d \in Conns : txn'[d] # txn[d] /\ d \notin stale => txn'[d] = file
  BY <1>1, SelectEffect DEF Inv
<1>5. Types'
  BY <1>1, <1>3, <1>4 DEF Inv, Types, Aside
<1>6. SectionsOK'
  <2>1. stale \subseteq {d \in Conns : Reading(d)'}
    BY <1>4 DEF Inv, SectionsOK, Reading
  <2>2. \A d \in Conns \ stale : Reading(d)' => txn'[d] = file
    BY <1>4 DEF Inv, SectionsOK, Reading
  <2> QED BY <1>1, <1>3, <2>1, <2>2, AsideSections DEF Inv, SectionsOK
<1>7. TransactionsEnd'
  <2> SUFFICES ASSUME NEW d \in Conns \ failed, ~InSection(d)
               PROVE  txn'[d] = NoTxn /\ writer # d
    BY <1>1, <1>3, AsideSections DEF TransactionsEnd
  <2>1. txn[d] = NoTxn /\ writer # d
    BY DEF Inv, TransactionsEnd
  <2> QED BY <1>4, <2>1, NullsAssumption
<1>8. MeetingsOK'
  BY <1>1, <1>2 DEF Inv, MeetingsOK, Goes, Busy
<1>9. UpdatesOK'
  <2>1. ASSUME Busy(t)'
        PROVE  Sound(req[t])'
    <3>1. Goes(t) /\ req'[t] # NoRequest
      BY <1>2, <2>1 DEF Busy
    <3>2. Sound(req[t])
      BY <1>1 DEF Inv, UpdatesOK
    <3>3. CASE req'[t].step = "write"
      BY <1>1, <3>1, <3>2, <3>3 DEF Goes, Sound
    <3>4. CASE req'[t].step = "require"
      <4>1. req'[t].old = View(c).rows[req[t].row] /\ req'[t].old # NoRow /\ req'[t].op # "read"
        BY <3>1, <3>4 DEF Goes
      <4>2. c \notin stale => View(c) = file
        BY <1>1, ViewIsFile DEF Inv
      <4> QED BY <1>1, <3>1, <3>2, <3>4, <4>1, <4>2 DEF Goes, Sound, Inv, AsWritten
    <3> QED BY <3>1, <3>3, <3>4 DEF Goes
  <2> QED BY <1>1, <1>3, <2>1, AsideUpdates
<1>10. DraftOK' /\ AsWritten'
  BY <1>1, <1>3, AsideSections, AsideRows
<1> QED BY <1>5, <1>6, <1>7, <1>8, <1>9, <1>10 DEF Inv

(* A write that fails: no such table, a value with no type, out of time, refused. *)
Fails(t) == NoSuchTable(t) \/ CannotBind(t) \/ TimeOut(t) \/ Refuse(t)

(* It leaves the transactions as they were, or one open, or one a writer's. *)
Keeps == UNCHANGED <<writer, txn, failed>>
Opens(c) ==
    /\ writer' = writer /\ failed' = failed \union {c}
    /\ txn' = IF txn[c] = NoTxn THEN [txn EXCEPT ![c] = Unread] ELSE txn
Writes(c) ==
    /\ writer' = c /\ failed' = failed \union {c} /\ txn' = [txn EXCEPT ![c] = file]
    /\ ~Blocked(c)

LEMMA FailureEffect ==
    ASSUME Inv, NEW t \in Threads, Fails(t)
    PROVE  /\ Busy(t) /\ ~At(t, "commit") /\ req[t].via \in Conns /\ ~InSection(req[t].via)
           /\ Return(t)
           /\ UNCHANGED <<file, draft, stale, crashes, count, want, met, missing>>
           /\ Keeps \/ Opens(req[t].via) \/ Writes(req[t].via)
<1>1. Busy(t) /\ ~At(t, "commit") /\ req[t].via \in Conns /\ ~InSection(req[t].via)
  BY DEF Inv, Types, Fails, NoSuchTable, CannotBind, TimeOut, Refuse, Ready, At, Busy, Requests
<1>2. CASE NoSuchTable(t)
  BY <1>1, <1>2 DEF NoSuchTable, Keeps, Writes
<1>3. CASE CannotBind(t) \/ TimeOut(t)
  BY <1>1, <1>3 DEF CannotBind, TimeOut, FailsOpen, Opens
<1>4. CASE Refuse(t)
  BY <1>1, <1>4 DEF Refuse, Writes
<1> QED BY <1>2, <1>3, <1>4 DEF Fails

LEMMA FailureKeepsInv ==
    ASSUME Inv, NEW t \in Threads, Fails(t)
    PROVE  Inv'
<1> DEFINE c == req[t].via
<1>1. /\ Busy(t) /\ ~At(t, "commit") /\ c \in Conns /\ ~InSection(c) /\ Return(t)
      /\ UNCHANGED <<file, draft, stale, crashes, want, met>>
      /\ Keeps \/ Opens(c) \/ Writes(c)
  BY FailureEffect
<1>2. req'[t] = NoRequest /\ \A u \in Threads \ {t} : req'[u] = req[u]
  BY <1>1 DEF Return, Inv, Types
<1>3. Aside(t)
  BY <1>1, <1>2 DEF Aside, Return, Inv, Types, At, Busy
<1>4. MeetingsOK'
  BY <1>1, <1>2 DEF Inv, MeetingsOK, Busy
<1>5. UpdatesOK'
  BY <1>1, <1>2, <1>3, AsideUpdates DEF Busy
<1>6. DraftOK' /\ AsWritten'
  BY <1>1, <1>3, AsideSections, AsideRows
<1>7. Types' /\ SectionsOK' /\ TransactionsEnd'
  <2>1. CASE Keeps
    <3>1. UNCHANGED <<writer, txn, failed>>
      BY <2>1 DEF Keeps
    <3> QED BY <1>1, <1>3, <3>1, AsideSections
            DEF Inv, Types, SectionsOK, TransactionsEnd, Reading, Aside
  <2>2. CASE Opens(c)
    <3>1. /\ writer' = writer /\ failed' = failed \union {c}
          /\ txn' = IF txn[c] = NoTxn THEN [txn EXCEPT ![c] = Unread] ELSE txn
      BY <2>2 DEF Opens
    <3>2. /\ txn' \in [Conns -> Contents \union {NoTxn, Unread}]
          /\ \A d \in Conns : txn'[d] # txn[d] => d = c /\ ~Reading(d) /\ ~Reading(d)'
      BY <1>1, <3>1 DEF Inv, Types, Reading
    <3>3. Types'
      BY <1>1, <1>3, <3>1, <3>2 DEF Inv, Types, Aside
    <3>4. SectionsOK'
      <4>1. stale \subseteq {d \in Conns : Reading(d)'}
        BY <3>2 DEF Inv, SectionsOK, Reading
      <4>2. \A d \in Conns \ stale : Reading(d)' => txn'[d] = file
        BY <3>2 DEF Inv, SectionsOK, Reading
      <4> QED BY <1>1, <1>3, <3>1, <4>1, <4>2, AsideSections DEF Inv, SectionsOK
    <3>5. TransactionsEnd'
      BY <1>1, <1>3, <3>1, <3>2, AsideSections DEF Inv, TransactionsEnd
    <3> QED BY <3>3, <3>4, <3>5
  <2>3. CASE Writes(c)
    <3>1. /\ writer' = c /\ failed' = failed \union {c} /\ txn' = [txn EXCEPT ![c] = file]
          /\ ~Blocked(c)
      BY <2>3 DEF Writes
    <3>2. /\ c \notin stale
          /\ \A u \in Threads : ~At(u, "commit")
      BY <1>1, <3>1, NullsAssumption DEF Blocked, Inv, Types, SectionsOK, InSection, Requests, At, Busy
    <3>3. Types'
      BY <1>1, <1>3, <3>1 DEF Inv, Types, Aside
    <3>4. SectionsOK'
      BY <1>1, <1>3, <3>1, <3>2, AsideSections DEF Inv, SectionsOK, Types, Reading
    <3>5. TransactionsEnd'
      BY <1>1, <1>3, <3>1, <3>2, AsideSections DEF Inv, TransactionsEnd, Types, InSection
    <3> QED BY <3>3, <3>4, <3>5
  <2> QED BY <1>1, <2>1, <2>2, <2>3
<1> QED BY <1>4, <1>5, <1>6, <1>7 DEF Inv

(* The request enters its lock section. *)
LEMMA StatementKeepsInv ==
    ASSUME Inv, NEW t \in Threads, Statement(t)
    PROVE  Inv'
<1> DEFINE r == req[t]
           c == r.via
           i == RowOf(r)
           value == IF r.op = "delete" THEN NoRow ELSE Stored(r)
<1>1. /\ r \in Requests /\ r.step = "write" /\ Busy(t) /\ c \in Conns
      /\ ~InSection(c) /\ ~Blocked(c) /\ View(c).table # "none"
  BY DEF Inv, Types, Statement, Ready, At, Busy, Requests
<1>2. /\ UNCHANGED <<file, stale, crashes, want, failed>>
      /\ writer' = c /\ txn' = [txn EXCEPT ![c] = file]
      /\ met' = IF OnRow(i) \ {t} # {} THEN met \union {i} ELSE met
  BY DEF Statement
<1>3. c \notin stale /\ \A u \in Threads : ~At(u, "commit")
  BY <1>1, NullsAssumption DEF Blocked, Inv, Types, SectionsOK, InSection, Requests, At, Busy
<1>4. draft = file /\ View(c) = file
  BY <1>1, <1>3, ViewIsFile DEF Inv, SectionsOK
<1>5. i \in Nat /\ (r.op # "create" => i = r.row) /\ (r.op = "create" => i # 0)
  BY <1>1 DEF RowOf, Inv, Types, Contents, Requests
<1>6. value \in RowValues \union {NoRow}
  BY <1>1, StoredIsRow DEF Inv, UpdatesOK, Sound, Requests
<1>7. /\ draft' \in Contents /\ draft'.table = file.table
      /\ draft'.rows = [file.rows EXCEPT ![i] = value]
  BY <1>4, <1>5, <1>6 DEF Statement, Inv, Types, Contents
<1>8. /\ req' \in [Threads -> Requests \union {NoRequest}]
      /\ req'[t] = [r EXCEPT !.row = i, !.step = "commit"] /\ req'[t] \in Requests
      /\ \A u \in Threads \ {t} : req'[u] = req[u]
  BY <1>1, <1>5 DEF Statement, Inv, Types, Requests
<1>9. /\ req'[t].via = c /\ req'[t].op = r.op /\ req'[t].row = i /\ req'[t].step = "commit"
      /\ req'[t].old = r.old /\ req'[t].patch = r.patch
      /\ Busy(t)' /\ At(t, "commit")' /\ \A u \in Threads \ {t} : ~At(u, "commit")'
  <2>1. /\ req'[t].via = c /\ req'[t].op = r.op /\ req'[t].row = i /\ req'[t].step = "commit"
        /\ req'[t].old = r.old /\ req'[t].patch = r.patch
    BY <1>1, <1>8 DEF Requests
  <2>2. Busy(t)' /\ At(t, "commit")'
    BY <1>8, <2>1, NullsAssumption DEF At, Busy
  <2>3. \A u \in Threads \ {t} : ~At(u, "commit")'
    BY <1>3, <1>8 DEF At, Busy
  <2> QED BY <2>1, <2>2, <2>3
<1>10. Types'
  BY <1>1, <1>2, <1>7, <1>8 DEF Inv, Types
<1>11. SectionsOK'
  BY <1>2, <1>3, <1>9 DEF Inv, SectionsOK, Types, Reading
<1>12. TransactionsEnd'
  BY <1>2, <1>3, <1>9 DEF Inv, TransactionsEnd, Types, InSection
<1>13. MeetingsOK'
  <2>1. ASSUME NEW u \in Threads \ {t}, Busy(u), req[u].row = i
        PROVE  i \in met'
    BY <1>2, <2>1 DEF OnRow
  <2>2. \A u \in Threads \ {t} : Busy(u)' <=> Busy(u)
    BY <1>8 DEF Busy
  <2>3. met \subseteq met'
    BY <1>2
  <2>4. ASSUME NEW u \in Threads \ {t}, NEW v \in Threads \ {t}, u # v,
               Busy(u)', Busy(v)', req'[u].row = req'[v].row, req'[u].row # 0
        PROVE  req'[u].row \in met'
    BY <1>8, <2>2, <2>3, <2>4 DEF Inv, MeetingsOK
  <2>5. ASSUME NEW u \in Threads \ {t}, Busy(u)', req'[u].row = req'[t].row
        PROVE  req'[t].row \in met'
    BY <1>8, <1>9, <2>1, <2>2, <2>5
  <2> QED BY <2>4, <2>5 DEF MeetingsOK
<1>14. UpdatesOK'
  <2>1. Sound(req[t])'
    BY <1>1, <1>2, <1>5, <1>9 DEF Inv, UpdatesOK, Sound
  <2>2. \A u \in Threads \ {t} : Busy(u)' => Sound(req[u])'
    BY <1>2, <1>8 DEF Inv, UpdatesOK, Sound, Busy
  <2> QED BY <2>1, <2>2 DEF UpdatesOK
<1>15. DraftOK'
  BY <1>1, <1>2, <1>4, <1>7, <1>9 DEF DraftOK, Stored, With
<1>16. AsWritten'
  BY <1>2 DEF Inv, AsWritten
<1> QED BY <1>10, <1>11, <1>12, <1>13, <1>14, <1>15, <1>16 DEF Inv

(* The section ends: the row is as wanted, and other readers are stale. *)
LEMMA CommitKeepsInv ==
    ASSUME Inv, NEW t \in Threads, Commit(t)
    PROVE  Inv'
<1> DEFINE r == req[t]
           c == r.via
           value == IF r.op = "delete" THEN NoRow ELSE Stored(r)
<1>1. /\ r \in Requests /\ r.step = "commit" /\ Busy(t) /\ At(t, "commit") /\ c \in Conns
      /\ writer = c /\ c \notin stale
      /\ \A u \in Threads \ {t} : ~At(u, "commit")
  BY DEF Inv, Types, SectionsOK, Commit, At, Busy, Requests
<1>2. /\ file' = draft /\ draft' = draft /\ writer' = NoConn
      /\ txn' = [txn EXCEPT ![c] = NoTxn] /\ failed' = failed \ {c}
      /\ crashes' = crashes /\ met' = met
      /\ want' = [want EXCEPT ![r.row] = Wanted(r)]
      /\ stale' = IF r.op = "delete" /\ draft = file THEN stale
                  ELSE {d \in Conns \ {c} : Reading(d)}
  BY DEF Commit
<1>3. /\ draft.table # "none" /\ file.table # "none"
      /\ draft.rows = [file.rows EXCEPT ![r.row] = value]
  BY <1>1 DEF Inv, DraftOK
<1>4. /\ req' \in [Threads -> Requests \union {NoRequest}]
      /\ \A u \in Threads \ {t} : req'[u] = req[u]
      /\ req'[t] # NoRequest => /\ req'[t].step = "reread" /\ req'[t].op = r.op
                               /\ req'[t].row = r.row /\ r.op # "delete"
      /\ ~At(t, "commit")'
  BY <1>1 DEF Commit, Return, Goto, Inv, Types, Requests, At, Busy
<1>5. \A u \in Threads : ~At(u, "commit")'
  BY <1>1, <1>4 DEF At, Busy
<1>6. stale \subseteq stale' /\ stale' \subseteq {d \in Conns \ {c} : Reading(d)}
  BY <1>1, <1>2 DEF Inv, SectionsOK
<1>7. value \in RowValues \union {NoRow} /\ (r.row \in Ids => Wanted(r) \in RowValues \union {NoRow})
  <2>1. value \in RowValues \union {NoRow}
    BY <1>1, StoredIsRow DEF Inv, UpdatesOK, Sound, Requests
  <2>2. r.row \in Ids /\ r.op = "update" => Wanted(r) \in RowValues \union {NoRow}
    BY <1>1 DEF Wanted, Inv, Types, RowValues, Patches, Requests
  <2> QED BY <1>1, <2>1, <2>2 DEF Wanted, Inv, UpdatesOK, Sound, Requests
<1>8. Types'
  BY <1>1, <1>2, <1>4, <1>6, <1>7 DEF Inv, Types
<1>9. SectionsOK'
  <2>1. \A d \in Conns : Reading(d)' => d # c /\ Reading(d) /\ txn'[d] = txn[d]
    BY <1>1, <1>2 DEF Inv, Types, Reading
  <2>2. \A d \in Conns \ {c} : Reading(d) => Reading(d)'
    BY <1>1, <1>2 DEF Inv, Types, Reading
  <2>3. \A d \in Conns \ stale' : Reading(d)' => txn'[d] = file'
    BY <1>2, <2>1 DEF Inv, SectionsOK
  <2>4. writer' \notin stale'
    BY <1>2, <1>6, NullsAssumption
  <2> QED BY <1>2, <1>5, <1>6, <2>2, <2>3, <2>4 DEF SectionsOK
<1>10. TransactionsEnd'
  BY <1>1, <1>2, NullsAssumption DEF Inv, TransactionsEnd, Types, InSection
<1>11. MeetingsOK'
  BY <1>1, <1>2, <1>4 DEF Inv, MeetingsOK, Busy
<1>12. UpdatesOK'
  <2>1. Busy(t)' => Sound(req[t])'
    BY <1>1, <1>4 DEF Inv, UpdatesOK, Sound, Busy
  <2>2. ASSUME NEW u \in Threads \ {t}, Busy(u)'
        PROVE  Sound(req[u])'
    <3>1. Busy(u) /\ Sound(req[u]) /\ req'[u] = req[u]
      BY <1>4, <2>2 DEF Inv, UpdatesOK, Busy
    <3>2. req[u].row = r.row /\ req[u].row \in Ids => r.row \in met
      BY <1>1, <3>1 DEF Inv, MeetingsOK, Ids
    <3> QED BY <1>2, <1>3, <1>6, <3>1, <3>2 DEF Sound, Inv, Types
  <2> QED BY <2>1, <2>2 DEF UpdatesOK
<1>13. AsWritten'
  <2> SUFFICES ASSUME NEW i \in Ids \ met
               PROVE  draft.rows[i] = want'[i]
    BY <1>2 DEF AsWritten
  <2>1. file.rows[i] = want[i]
    BY DEF Inv, AsWritten
  <2>2. CASE i # r.row
    BY <1>2, <1>3, <2>1, <2>2 DEF Inv, Types, Contents
  <2>3. CASE i = r.row
    <3>1. draft.rows[i] = value /\ want'[i] = Wanted(r)
      BY <1>2, <1>3, <2>3 DEF Inv, Types, Contents
    <3>2. r.op \in {"create", "delete"} => Wanted(r) = value
      BY DEF Wanted
    <3>3. r.op = "update" => r.old # NoRow /\ r.old = want[i]
      BY <1>1, <1>3, <2>3 DEF Inv, UpdatesOK, Sound
    <3>4. r.op = "update" => Wanted(r) = value
      BY <2>3, <3>3 DEF Wanted, Stored, With
    <3>5. r.op # "read"
      BY <1>1 DEF Inv, UpdatesOK, Sound
    <3> QED BY <1>1, <3>1, <3>2, <3>4, <3>5 DEF Requests
  <2> QED BY <2>2, <2>3
<1>14. DraftOK'
  BY <1>5 DEF DraftOK
<1> QED BY <1>8, <1>9, <1>10, <1>11, <1>12, <1>13, <1>14 DEF Inv

(* What no request does. *)
LEMMA OthersKeepInv ==
    ASSUME Inv, OtherStoresCommit \/ DropTable \/ CreateTable \/ Restart
    PROVE  Inv'
<1>1. CASE OtherStoresCommit
  <2>1. /\ UNCHANGED <<file, draft, writer, txn, req, crashes, want, met, failed>>
        /\ writer = NoConn /\ stale' = {c \in Conns : Reading(c)}
    BY <1>1 DEF OtherStoresCommit, history
  <2>2. stale \subseteq stale' /\ writer \notin stale'
    BY <2>1, NullsAssumption DEF Inv, SectionsOK
  <2>3. Types'
    BY <2>1 DEF Inv, Types
  <2>4. SectionsOK'
    BY <2>1, <2>2 DEF Inv, SectionsOK, At, Busy, Reading
  <2>5. TransactionsEnd' /\ MeetingsOK' /\ DraftOK' /\ AsWritten'
    BY <2>1 DEF Inv, TransactionsEnd, InSection, At, Busy, MeetingsOK, DraftOK, Stored, With, AsWritten
  <2>6. UpdatesOK'
    BY <2>1, <2>2 DEF Inv, UpdatesOK, Sound, Busy
  <2> QED BY <2>3, <2>4, <2>5, <2>6 DEF Inv
<1>2. CASE DropTable \/ CreateTable
  <2>1. PICK table \in {"none", "plain", "linked"} : Redefine(table)
    BY <1>2 DEF DropTable, CreateTable
  <2>2. /\ ~InSection(Admin) /\ ~Blocked(Admin) /\ Admin \in Conns
        /\ file' = [table |-> table, rows |-> [i \in Ids |-> NoRow], seq |-> 0]
        /\ draft' = file' /\ want' = file'.rows /\ writer' = NoConn
        /\ txn' = [txn EXCEPT ![Admin] = NoTxn]
        /\ stale' = {c \in Conns \ {Admin} : Reading(c)} /\ failed' = failed \ {Admin}
        /\ UNCHANGED <<req, crashes>>
    BY <2>1, ConstantsAssumption DEF Redefine
  <2>3. \A t \in Threads : ~At(t, "commit") /\ ~At(t, "commit")'
    BY <2>2, NullsAssumption DEF Blocked, Inv, Types, SectionsOK, InSection, Requests, At, Busy
  <2>4. file' \in Contents /\ \A i \in Ids : file'.rows[i] = NoRow
    BY <2>2 DEF Contents
  <2>5. Types'
    BY <2>2, <2>4 DEF Inv, Types, Contents
  <2>6. SectionsOK'
    <3>1. \A c \in Conns : Reading(c)' => c # Admin /\ Reading(c)
      BY <2>2 DEF Inv, Types, Reading
    <3>2. \A c \in Conns \ {Admin} : Reading(c) => Reading(c)'
      BY <2>2 DEF Inv, Types, Reading
    <3> QED BY <2>2, <2>3, <3>1, <3>2, NullsAssumption DEF SectionsOK
  <2>7. TransactionsEnd'
    BY <2>2, <2>3, NullsAssumption DEF Inv, TransactionsEnd, Types, InSection
  <2>8. met \subseteq met' /\ (file'.table # "none" =>
                               \A t \in Threads : Busy(t) /\ req[t].row \in Ids => req[t].row \in met')
    BY <1>2, <2>2 DEF DropTable, CreateTable, Redefine, Ids
  <2>9. MeetingsOK'
    BY <2>2, <2>8 DEF Inv, MeetingsOK, Busy
  <2>10. UpdatesOK'
    BY <2>2, <2>8 DEF Inv, UpdatesOK, Sound, Busy
  <2>11. DraftOK' /\ AsWritten'
    BY <2>2, <2>3 DEF DraftOK, AsWritten
  <2> QED BY <2>5, <2>6, <2>7, <2>9, <2>10, <2>11 DEF Inv
<1>3. CASE Restart
  <2>1. /\ file' = file /\ draft' = file /\ writer' = NoConn /\ want' = want /\ met' = met
        /\ txn' = [c \in Conns |-> NoTxn] /\ stale' = {} /\ failed' = {}
        /\ req' = [t \in Threads |-> NoRequest] /\ crashes' = crashes + 1
    BY <1>3 DEF Restart
  <2>2. \A t \in Threads : ~Busy(t)' /\ \A step : ~At(t, step)'
    BY <2>1 DEF Busy, At
  <2>3. Types'
    BY <2>1 DEF Inv, Types
  <2>4. SectionsOK' /\ TransactionsEnd'
    BY <2>1, <2>2, NullsAssumption DEF SectionsOK, TransactionsEnd, Reading
  <2>5. MeetingsOK' /\ UpdatesOK' /\ DraftOK' /\ AsWritten'
    BY <2>1, <2>2 DEF MeetingsOK, UpdatesOK, DraftOK, AsWritten, Inv
  <2> QED BY <2>3, <2>4, <2>5 DEF Inv
<1> QED BY <1>1, <1>2, <1>3

-------------------------------------------------------------------------------
(* The inductive invariant holds in every behaviour: sections exclude one     *)
(* another through the write lock, an update that may still write has read     *)
(* what is wanted of its row, and a commit publishes just that row.           *)
THEOREM Invariant == Spec => []Inv
<1>1. Init => Inv
  <2> SUFFICES ASSUME Init PROVE Inv
    OBVIOUS
  <2>1. PICK kind \in {"plain", "linked"}, r \in RowValues :
            file = [table |-> kind, rows |-> [i \in Ids |-> IF i = 1 THEN r ELSE NoRow], seq |-> 1]
    BY DEF Init
  <2>2. file \in Contents /\ want = file.rows
    BY <2>1 DEF Init, Contents
  <2>3. \A t \in Threads : ~Busy(t) /\ \A step : ~At(t, step)
    BY DEF Init, Busy, At
  <2>4. Types
    BY <2>2 DEF Init, Types, Contents
  <2>5. SectionsOK /\ TransactionsEnd
    BY <2>3, NullsAssumption DEF Init, SectionsOK, TransactionsEnd, Reading
  <2>6. MeetingsOK /\ UpdatesOK /\ DraftOK /\ AsWritten
    BY <2>2, <2>3 DEF MeetingsOK, UpdatesOK, DraftOK, AsWritten
  <2> QED BY <2>4, <2>5, <2>6 DEF Inv
<1>2. Inv /\ [Next]_vars => Inv'
  <2> SUFFICES ASSUME Inv, [Next]_vars PROVE Inv'
    OBVIOUS
  <2>1. ASSUME NEW t \in Threads, NEW c \in Conns,
               CallRead(t, c) \/ CallCreate(t, c) \/ CallUpdate(t, c) \/ CallDelete(t, c)
        PROVE  Inv'
    <3>1. NoPatch \in Patches
      BY DEF NoPatch, Patches
    <3> QED BY <2>1, <3>1, CallKeepsInv DEF CallRead, CallCreate, CallUpdate, CallDelete
  <2>2. ASSUME NEW t \in Threads,
               \/ Get(t) \/ Require(t) \/ Fails(t) \/ Statement(t) \/ Commit(t) \/ Reread(t)
        PROVE  Inv'
    BY <2>2, ReadKeepsInv, FailureKeepsInv, StatementKeepsInv, CommitKeepsInv
  <2>3. CASE OtherStoresCommit \/ DropTable \/ CreateTable \/ Restart
    BY <2>3, OthersKeepInv
  <2>4. CASE UNCHANGED vars
    BY <2>4 DEF vars, history, Inv, Types, SectionsOK, TransactionsEnd, MeetingsOK, UpdatesOK,
                DraftOK, AsWritten, Busy, At, InSection, Reading, Sound, Stored, With
  <2> QED BY <2>1, <2>2, <2>3, <2>4 DEF Next, Fails
<1> QED BY <1>1, <1>2, PTL DEF Spec

(* On a row where no two requests met, an update changes the fields it was    *)
(* given and no other, and a deletion is final, whatever fails, restarts or    *)
(* reads an old file (entity_crud_provider.py:70-77, sqlite_repository.py:     *)
(* 237-291).                                                                   *)
THEOREM RowsAreAsWritten == Spec => []AsWritten
<1>1. Inv => AsWritten
  BY DEF Inv
<1> QED BY <1>1, Invariant, PTL

(* A connection is in a transaction, or keeps the write lock, outside its lock *)
(* sections only since a write of its own failed (sqlite_repository.py:        *)
(* 255-291).                                                                   *)
THEOREM OnlyFailuresHoldOn == Spec => []TransactionsEnd
<1>1. Inv => TransactionsEnd
  BY DEF Inv
<1> QED BY <1>1, Invariant, PTL

(* Nothing but a restart ends the transaction of a connection whose view is   *)
(* stale: no rollback, and its writes never reach their commit.               *)
LEMMA StepKeepsStale ==
    ASSUME Inv, Next
    PROVE  \A c \in stale : c \in stale' \/ crashes' > crashes
<1>1. ASSUME NEW t \in Threads, Commit(t)
      PROVE  stale \subseteq stale'
  <2>1. req[t].via \in Conns /\ req[t].via \notin stale
    BY <1>1 DEF Commit, At, Busy, Inv, Types, SectionsOK, Requests
  <2> QED BY <1>1, <2>1 DEF Commit, Inv, SectionsOK
<1>2. CASE DropTable \/ CreateTable
  BY <1>2 DEF DropTable, CreateTable, Redefine, Blocked, Inv, SectionsOK
<1>3. CASE OtherStoresCommit
  BY <1>3 DEF OtherStoresCommit, Inv, SectionsOK
<1>4. CASE Restart
  BY <1>4 DEF Restart, Inv, Types
<1>5. ASSUME NEW t \in Threads,
             Get(t) \/ Require(t) \/ Fails(t) \/ Statement(t) \/ Reread(t)
      PROVE  stale' = stale
  BY <1>5, FailureEffect DEF Get, Require, Statement, Reread
<1>6. ASSUME NEW t \in Threads, NEW c \in Conns,
             CallRead(t, c) \/ CallCreate(t, c) \/ CallUpdate(t, c) \/ CallDelete(t, c)
      PROVE  stale' = stale
  BY <1>6 DEF CallRead, CallCreate, CallUpdate, CallDelete, Call
<1> QED BY <1>1, <1>2, <1>3, <1>4, <1>5, <1>6 DEF Next, Fails

(* A connection that reads an old file does so until the process restarts.    *)
THEOREM StaleForGood == Spec => StaleUntilRestart
<1>1. Inv /\ [Next]_vars => [\A c \in stale : c \in stale' \/ crashes' > crashes]_vars
  BY StepKeepsStale
<1> QED BY <1>1, Invariant, PTL DEF Spec, StaleUntilRestart

-------------------------------------------------------------------------------
(* How many rows are given an id, and what a request finds when it reads its   *)
(* row back.                                                                  *)

(* The creates that have not reached their statement will be given the next ids. *)
Pending ==
    {t \in Threads : Busy(t) /\ req[t].op = "create" /\ req[t].step \in {"get", "require", "write"}}
SeqOK ==
    /\ count \in 0..MaxRequests /\ crashes \in 0..MaxCrashes
    /\ IsFiniteSet(Pending)
    /\ file.seq <= draft.seq
    /\ draft.seq + Cardinality(Pending) <= count + 1

(* The row of a request, once it has one, is a row with an id. *)
Placed(r) ==
    /\ r.row \in Ids \union {0}
    /\ r.step \in {"commit", "reread"} \/ r.op = "delete" => r.row \in Ids
RowsOK ==
    /\ \A t \in Threads : Busy(t) => Placed(req[t])
    /\ met \subseteq Ids /\ failed \subseteq Conns

(* From its commit on, the row is in the file and in all its connection reads, *)
(* unless the table is dropped or another request met it.                     *)
Has(v, i) == v.table = "none" \/ v.rows[i] # NoRow
PresentOK ==
    /\ missing \subseteq met
    /\ \A t \in Threads : At(t, "reread") /\ req[t].row \notin met =>
          /\ Has(file, req[t].row)
          /\ Reading(req[t].via) => Has(txn[req[t].via], req[t].row)

Bounds == SeqOK /\ RowsOK /\ PresentOK

LEMMA PendingIs ==
    ASSUME SeqOK, Types
    PROVE  /\ Cardinality(Pending) \in Nat /\ count \in Nat /\ file.seq \in Nat /\ draft.seq \in Nat
           /\ MaxRequests \in Nat /\ MaxCrashes \in Nat
           /\ draft.seq <= count + 1 /\ draft.seq \in Ids \union {0}
           /\ \A t \in Pending : draft.seq + 1 <= count + 1 /\ draft.seq + 1 \in Ids
<1>1. /\ Cardinality(Pending) \in Nat /\ count \in Nat /\ file.seq \in Nat /\ draft.seq \in Nat
      /\ MaxRequests \in Nat /\ MaxCrashes \in Nat
  BY ConstantsAssumption, FS_CardinalityType DEF SeqOK, Types, Contents
<1>2. draft.seq <= count + 1 /\ draft.seq \in Ids \union {0}
  BY <1>1 DEF SeqOK, Ids
<1>3. ASSUME NEW t \in Pending
      PROVE  draft.seq + 1 <= count + 1 /\ draft.seq + 1 \in Ids
  <2>1. Cardinality(Pending) # 0
    BY FS_EmptySet DEF SeqOK
  <2> QED BY <1>1, <2>1 DEF SeqOK, Ids
<1> QED BY <1>1, <1>2, <1>3

(* A step after which fewer creates are to come, and no id is given. *)
LEMMA FewerPending ==
    ASSUME SeqOK, Types, Pending' \subseteq Pending, UNCHANGED <<file, draft, count>>,
           crashes' \in 0..MaxCrashes
    PROVE  SeqOK'
<1>1. IsFiniteSet(Pending') /\ Cardinality(Pending') <= Cardinality(Pending)
  BY FS_Subset DEF SeqOK
<1>2. Cardinality(Pending') \in Nat
  BY <1>1, FS_CardinalityType
<1> QED BY <1>1, <1>2, PendingIs DEF SeqOK

LEMMA CallKeepsBounds ==
    ASSUME Inv, Bounds, NEW t \in Threads, NEW c \in Conns,
           NEW op \in {"read", "create", "update", "delete"},
           NEW i \in Ids \union {0}, NEW patch \in Patches, Call(t, c, op, i, patch),
           op = "delete" => i \in Ids
    PROVE  Bounds'
<1> DEFINE r == [via |-> c, op |-> op, row |-> i, patch |-> patch, old |-> NoRow,
                 step |-> IF op = "create" \/ (op = "delete" /\ c # Admin)
                          THEN "require" ELSE "get"]
<1>1. r.op = op /\ r.row = i /\ r.step \in {"get", "require"}
  OBVIOUS
<1>2. /\ req' = [req EXCEPT ![t] = r] /\ ~Busy(t)
      /\ UNCHANGED <<file, draft, txn, crashes, failed, missing>>
      /\ count < MaxRequests /\ count' = count + 1
      /\ met' = IF i # 0 /\ OnRow(i) # {} THEN met \union {i} ELSE met
  BY DEF Call
<1>3. req'[t] = r /\ \A u \in Threads \ {t} : req'[u] = req[u]
  BY <1>2 DEF Inv, Types
<1> HIDE DEF r
<1>4. SeqOK'
  <2>1. Pending' \subseteq Pending \union {t}
    BY <1>3 DEF Pending, Busy
  <2>2. /\ IsFiniteSet(Pending \union {t})
        /\ Cardinality(Pending \union {t}) = Cardinality(Pending) + 1
    <3>1. t \notin Pending
      BY <1>2 DEF Pending
    <3> QED BY <3>1, FS_AddElement DEF Bounds, SeqOK
  <2>3. IsFiniteSet(Pending') /\ Cardinality(Pending') <= Cardinality(Pending) + 1
    BY <2>1, <2>2, FS_Subset
  <2>4. Cardinality(Pending') \in Nat
    BY <2>3, FS_CardinalityType
  <2> QED BY <1>2, <2>3, <2>4, PendingIs DEF Bounds, SeqOK, Inv
<1>5. RowsOK'
  <2>1. Placed(req[t])'
    BY <1>1, <1>3 DEF Placed
  <2>2. \A u \in Threads \ {t} : Busy(u)' => Placed(req[u])'
    BY <1>3 DEF Bounds, RowsOK, Busy
  <2>3. met' \subseteq Ids /\ failed' \subseteq Conns
    BY <1>2 DEF Bounds, RowsOK
  <2> QED BY <2>1, <2>2, <2>3 DEF RowsOK
<1>6. PresentOK'
  <2>1. ~At(t, "reread")' /\ met \subseteq met'
    BY <1>1, <1>2, <1>3 DEF At
  <2>2. \A u \in Threads \ {t} : At(u, "reread")' => At(u, "reread")
    BY <1>3 DEF At, Busy
  <2> QED BY <1>2, <1>3, <2>1, <2>2 DEF Bounds, PresentOK, Has, Reading
<1> QED BY <1>4, <1>5, <1>6 DEF Bounds

(* What a read finds of a row that is in the file and in what was read. *)
LEMMA ViewHas ==
    ASSUME Inv, NEW c \in Conns, ~InSection(c), NEW i, Has(file, i),
           Reading(c) => Has(txn[c], i)
    PROVE  Has(View(c), i)
<1>1. CASE writer = c
  <2>1. \A t \in Threads : ~At(t, "commit")
    BY <1>1 DEF Inv, SectionsOK, InSection
  <2> QED BY <1>1, <2>1 DEF Inv, SectionsOK, View
<1>2. CASE writer # c
  BY <1>2 DEF View, Reading
<1> QED BY <1>1, <1>2

LEMMA ReadKeepsBounds ==
    ASSUME Inv, Bounds, NEW t \in Threads, Get(t) \/ Require(t) \/ Reread(t)
    PROVE  Bounds'
<1> DEFINE c == req[t].via
<1>1. /\ Busy(t) /\ ~At(t, "commit") /\ c \in Conns /\ ~InSection(c) /\ Select(c)
      /\ req[t].step \in {"get", "require", "reread"} /\ req[t] \in Requests
      /\ UNCHANGED <<file, draft, writer, stale, count, crashes, met, failed>>
  BY DEF Inv, Types, Get, Require, Reread, At, Busy, Requests, history
<1>2. /\ \A u \in Threads \ {t} : req'[u] = req[u]
      /\ \/ req'[t] = NoRequest
         \/ /\ req'[t].op = req[t].op /\ req'[t].row = req[t].row
            /\ req'[t].step \in {"require", "write"} /\ req[t].step \in {"get", "require"}
  <2>1. View(c) \in Contents
    BY <1>1, ViewIsContents DEF Inv
  <2>2. CASE Get(t)
    BY <1>1, <2>1, <2>2 DEF Get, Return, Requests, Contents, Inv, Types, At
  <2>3. CASE Require(t)
    BY <1>1, <2>1, <2>3 DEF Require, Return, Goto, Requests, Inv, Types, At
  <2>4. CASE Reread(t)
    BY <2>4 DEF Reread, Return, Inv, Types
  <2> QED BY <2>2, <2>3, <2>4
<1>3. SeqOK'
  <2>1. Pending' \subseteq Pending
    BY <1>1, <1>2 DEF Pending, Busy
  <2> QED BY <1>1, <2>1, FewerPending DEF Bounds, Inv, SeqOK
<1>4. RowsOK'
  <2>1. Placed(req[t])
    BY <1>1 DEF Bounds, RowsOK
  <2> QED BY <1>1, <1>2, <2>1 DEF Bounds, RowsOK, Placed, Busy
<1>5. missing' \subseteq met'
  <2>1. CASE Reread(t)
    <3>1. missing' = IF View(c).table # "none" /\ View(c).rows[req[t].row] = NoRow
                     THEN missing \union {req[t].row} ELSE missing
      BY <2>1 DEF Reread
    <3>2. At(t, "reread")
      BY <2>1 DEF Reread
    <3>3. req[t].row \notin met => Has(View(c), req[t].row)
      BY <1>1, <3>2, ViewHas DEF Bounds, PresentOK
    <3> QED BY <1>1, <3>1, <3>3 DEF Bounds, PresentOK, Has
  <2>2. CASE Get(t) \/ Require(t)
    BY <1>1, <2>2 DEF Get, Require, history, Bounds, PresentOK
  <2> QED BY <2>1, <2>2
<1>6. PresentOK'
  <2> SUFFICES ASSUME NEW u \in Threads, At(u, "reread")', req'[u].row \notin met'
               PROVE  /\ Has(file', req'[u].row)
                      /\ Reading(req[u].via)' => Has(txn'[req'[u].via], req'[u].row)
    BY <1>5 DEF PresentOK, Has, Reading
  <2>1. u # t /\ req'[u] = req[u] /\ At(u, "reread") /\ req[u].via \in Conns
    BY <1>2 DEF At, Busy, Inv, Types, Requests
  <2>2. /\ Has(file, req[u].row) /\ (Reading(req[u].via) => Has(txn[req[u].via], req[u].row))
    BY <1>1, <2>1 DEF Bounds, PresentOK
  <2>3. /\ txn'[req[u].via] # txn[req[u].via] => req[u].via = c /\ txn'[c] = View(c) /\ ~Reading(c)
    BY <1>1, <2>1 DEF Select, Inv, Types, Reading
  <2>4. req[u].via = c => Has(View(c), req[u].row)
    BY <1>1, <2>2, ViewHas
  <2> QED BY <1>1, <2>1, <2>2, <2>3, <2>4 DEF Has, Reading
<1> QED BY <1>3, <1>4, <1>6 DEF Bounds

LEMMA FailureKeepsBounds ==
    ASSUME Inv, Bounds, NEW t \in Threads, Fails(t)
    PROVE  Bounds'
<1> DEFINE c == req[t].via
<1>1. /\ Busy(t) /\ c \in Conns /\ Return(t)
      /\ UNCHANGED <<file, draft, crashes, count, met, missing>>
      /\ failed' \subseteq failed \union {c}
      /\ Keeps \/ Opens(c) \/ Writes(c)
  BY FailureEffect DEF Keeps, Opens, Writes
<1>2. req'[t] = NoRequest /\ \A u \in Threads \ {t} : req'[u] = req[u]
  BY <1>1 DEF Return, Inv, Types
<1>3. SeqOK'
  <2>1. Pending' \subseteq Pending
    BY <1>2 DEF Pending, Busy
  <2> QED BY <1>1, <2>1, FewerPending DEF Bounds, Inv, SeqOK
<1>4. RowsOK'
  BY <1>1, <1>2 DEF Bounds, RowsOK, Busy
<1>5. \A d \in Conns : Reading(d)' => txn'[d] = file \/ (Reading(d) /\ txn'[d] = txn[d])
  <2>1. \/ txn' = txn
        \/ txn' = IF txn[c] = NoTxn THEN [txn EXCEPT ![c] = Unread] ELSE txn
        \/ txn' = [txn EXCEPT ![c] = file]
    BY <1>1 DEF Keeps, Opens, Writes
  <2> QED BY <1>1, <2>1 DEF Inv, Types, Reading
<1>6. PresentOK'
  <2> SUFFICES ASSUME NEW u \in Threads, At(u, "reread")', req'[u].row \notin met'
               PROVE  /\ Has(file', req'[u].row)
                      /\ Reading(req[u].via)' => Has(txn'[req'[u].via], req'[u].row)
    BY <1>1 DEF PresentOK, Has, Reading, Bounds
  <2>1. u # t /\ req'[u] = req[u] /\ At(u, "reread") /\ req[u].via \in Conns
    BY <1>2 DEF At, Busy, Inv, Types, Requests
  <2>2. /\ Has(file, req[u].row) /\ (Reading(req[u].via) => Has(txn[req[u].via], req[u].row))
    BY <1>1, <2>1 DEF Bounds, PresentOK
  <2>3. Reading(req[u].via)' => \/ txn'[req[u].via] = file
                                \/ Reading(req[u].via) /\ txn'[req[u].via] = txn[req[u].via]
    BY <1>5, <2>1 DEF Reading
  <2> QED BY <1>1, <2>1, <2>2, <2>3 DEF Has
<1> QED BY <1>3, <1>4, <1>6 DEF Bounds

LEMMA StatementKeepsBounds ==
    ASSUME Inv, Bounds, NEW t \in Threads, Statement(t)
    PROVE  Bounds'
<1> DEFINE r == req[t]
           c == r.via
           i == RowOf(r)
<1>1. /\ r \in Requests /\ r.step = "write" /\ Busy(t) /\ c \in Conns /\ Placed(r)
      /\ UNCHANGED <<file, crashes, count, failed, missing>>
      /\ txn' = [txn EXCEPT ![c] = file]
      /\ met' = IF OnRow(i) \ {t} # {} THEN met \union {i} ELSE met
  BY DEF Inv, Types, Statement, Ready, At, Busy, Requests, Bounds, RowsOK
<1>2. r.op \in {"create", "update", "delete"} /\ (r.op = "update" => r.row \in Ids)
  BY <1>1 DEF Inv, UpdatesOK, Sound, Requests
<1>3. r.op = "create" => t \in Pending
  BY <1>1 DEF Pending
<1>4. i \in Ids
  BY <1>1, <1>2, <1>3, PendingIs DEF RowOf, Placed, Bounds, Inv
<1>5. draft'.seq = IF r.op = "create" THEN draft.seq + 1 ELSE draft.seq
  BY <1>4 DEF Statement, Inv, Types, Contents, RowOf
<1>6. /\ \A u \in Threads \ {t} : req'[u] = req[u]
      /\ req'[t].op = r.op /\ req'[t].row = i /\ req'[t].step = "commit"
  <2>1. i \in Nat
    BY <1>4 DEF Ids
  <2> QED BY <1>1, <2>1 DEF Statement, Inv, Types, Requests
<1>7. SeqOK'
  <2>1. CASE r.op = "create"
    <3>1. Pending' \subseteq Pending \ {t}
      BY <1>6 DEF Pending, Busy
    <3>2. IsFiniteSet(Pending \ {t}) /\ Cardinality(Pending \ {t}) = Cardinality(Pending) - 1
      BY <1>3, <2>1, FS_RemoveElement DEF Bounds, SeqOK
    <3>3. IsFiniteSet(Pending') /\ Cardinality(Pending') <= Cardinality(Pending) - 1
      BY <3>1, <3>2, FS_Subset
    <3>4. Cardinality(Pending') \in Nat
      BY <3>3, FS_CardinalityType
    <3> QED BY <1>1, <1>5, <2>1, <3>3, <3>4, PendingIs DEF Bounds, SeqOK, Inv
  <2>2. CASE r.op # "create"
    <3>1. Pending' \subseteq Pending
      BY <1>6, <2>2 DEF Pending, Busy
    <3>2. IsFiniteSet(Pending') /\ Cardinality(Pending') <= Cardinality(Pending)
      BY <3>1, FS_Subset DEF Bounds, SeqOK
    <3>3. Cardinality(Pending') \in Nat
      BY <3>2, FS_CardinalityType
    <3> QED BY <1>1, <1>5, <2>2, <3>2, <3>3, PendingIs DEF Bounds, SeqOK, Inv
  <2> QED BY <2>1, <2>2
<1>8. RowsOK'
  <2>1. Placed(req[t])'
    BY <1>4, <1>6 DEF Placed
  <2>2. \A u \in Threads \ {t} : Busy(u)' => Placed(req[u])'
    BY <1>6 DEF Bounds, RowsOK, Busy
  <2>3. met' \subseteq Ids /\ failed' \subseteq Conns
    BY <1>1, <1>4 DEF Bounds, RowsOK
  <2> QED BY <2>1, <2>2, <2>3 DEF RowsOK
<1>9. PresentOK'
  <2>1. missing' \subseteq met'
    BY <1>1 DEF Bounds, PresentOK
  <2> SUFFICES ASSUME NEW u \in Threads, At(u, "reread")', req'[u].row \notin met'
               PROVE  /\ Has(file', req'[u].row)
                      /\ Reading(req[u].via)' => Has(txn'[req'[u].via], req'[u].row)
    BY <2>1 DEF PresentOK, Has, Reading
  <2>2. u # t /\ req'[u] = req[u] /\ At(u, "reread") /\ req[u].via \in Conns
    BY <1>6 DEF At, Busy, Inv, Types, Requests
  <2>3. /\ Has(file, req[u].row) /\ (Reading(req[u].via) => Has(txn[req[u].via], req[u].row))
    BY <1>1, <2>2 DEF Bounds, PresentOK
  <2>4. txn'[req[u].via] = IF req[u].via = c THEN file ELSE txn[req[u].via]
    BY <1>1, <2>2 DEF Inv, Types
  <2> QED BY <1>1, <2>2, <2>3, <2>4 DEF Has, Reading
<1> QED BY <1>7, <1>8, <1>9 DEF Bounds

LEMMA CommitKeepsBounds ==
    ASSUME Inv, Bounds, NEW t \in Threads, Commit(t)
    PROVE  Bounds'
<1> DEFINE r == req[t]
           c == r.via
<1>1. /\ r \in Requests /\ r.step = "commit" /\ Busy(t) /\ At(t, "commit") /\ c \in Conns
      /\ Placed(r) /\ r.row \in Ids
      /\ file' = draft /\ draft' = draft /\ txn' = [txn EXCEPT ![c] = NoTxn]
      /\ UNCHANGED <<crashes, count, met, missing>> /\ failed' \subseteq failed
  BY DEF Inv, Types, Commit, At, Busy, Requests, Bounds, RowsOK, Placed
<1>2. /\ draft.table # "none" /\ file.table # "none"
      /\ draft.rows = [file.rows EXCEPT ![r.row] =
                          IF r.op = "delete" THEN NoRow ELSE Stored(r)]
  BY <1>1 DEF Inv, DraftOK
<1>3. /\ \A u \in Threads \ {t} : req'[u] = req[u]
      /\ req'[t] # NoRequest => /\ req'[t].step = "reread" /\ req'[t].op = r.op
                               /\ req'[t].row = r.row /\ req'[t].via = c /\ r.op # "delete"
  BY <1>1 DEF Commit, Return, Goto, Inv, Types, Requests
<1>4. SeqOK'
  <2>1. Pending' \subseteq Pending
    BY <1>3 DEF Pending, Busy
  <2>2. IsFiniteSet(Pending') /\ Cardinality(Pending') <= Cardinality(Pending)
    BY <2>1, FS_Subset DEF Bounds, SeqOK
  <2>3. Cardinality(Pending') \in Nat
    BY <2>2, FS_CardinalityType
  <2> QED BY <1>1, <2>2, <2>3, PendingIs DEF Bounds, SeqOK, Inv
<1>5. RowsOK'
  BY <1>1, <1>3 DEF Bounds, RowsOK, Placed, Busy
<1>6. PresentOK'
  <2>1. missing' \subseteq met'
    BY <1>1 DEF Bounds, PresentOK
  <2> SUFFICES ASSUME NEW u \in Threads, At(u, "reread")', req'[u].row \notin met'
               PROVE  /\ Has(file', req'[u].row)
                      /\ Reading(req[u].via)' => Has(txn'[req'[u].via], req'[u].row)
    BY <2>1 DEF PresentOK, Has, Reading
  <2>2. CASE u = t
    <3>1. req'[t].row = r.row /\ req'[t].via = c /\ r.op # "delete"
      BY <1>3, <2>2 DEF At, Busy
    <3>2. Stored(r) # NoRow
      <4>1. r.op = "create" \/ r.old # NoRow
        BY <1>1, <3>1 DEF Inv, UpdatesOK, Sound, Requests
      <4> QED BY <1>1, <4>1, StoredIsRow, NullsAssumption
    <3>3. Has(file', r.row)
      BY <1>1, <1>2, <3>1, <3>2 DEF Has, Inv, Types, Contents
    <3>4. txn'[c] = NoTxn
      BY <1>1 DEF Inv, Types
    <3> QED BY <2>2, <3>1, <3>3, <3>4 DEF Reading
  <2>3. CASE u # t
    <3>1. req'[u] = req[u] /\ At(u, "reread") /\ req[u].via \in Conns /\ Busy(u) /\ Placed(req[u])
      BY <1>3, <2>3 DEF At, Busy, Inv, Types, Requests, Bounds, RowsOK
    <3>2. /\ Has(file, req[u].row) /\ (Reading(req[u].via) => Has(txn[req[u].via], req[u].row))
      BY <1>1, <3>1 DEF Bounds, PresentOK
    <3>3. req[u].row \in Ids /\ req[u].row # 0
      BY <3>1 DEF Placed, At, Ids
    <3>4. req[u].row # r.row
      BY <1>1, <2>3, <3>1, <3>3 DEF Inv, MeetingsOK
    <3>5. Has(file', req[u].row)
      BY <1>1, <1>2, <3>2, <3>3, <3>4 DEF Has, Inv, Types, Contents
    <3>6. txn'[req[u].via] = IF req[u].via = c THEN NoTxn ELSE txn[req[u].via]
      BY <1>1, <3>1 DEF Inv, Types
    <3> QED BY <3>1, <3>2, <3>5, <3>6 DEF Has, Reading
  <2> QED BY <2>2, <2>3
<1> QED BY <1>4, <1>5, <1>6 DEF Bounds

LEMMA OthersKeepBounds ==
    ASSUME Inv, Bounds, OtherStoresCommit \/ DropTable \/ CreateTable \/ Restart
    PROVE  Bounds'
<1>1. CASE OtherStoresCommit
  <2>1. UNCHANGED <<file, draft, txn, req, crashes, count, met, failed, missing>>
    BY <1>1 DEF OtherStoresCommit, history
  <2>2. Pending' = Pending
    BY <2>1 DEF Pending, Busy
  <2> QED BY <2>1, <2>2 DEF Bounds, SeqOK, RowsOK, PresentOK, At, Busy, Reading, Has, Placed
<1>2. CASE DropTable \/ CreateTable
  <2>1. PICK table : Redefine(table)
    BY <1>2 DEF DropTable, CreateTable
  <2>2. /\ file' = [table |-> table, rows |-> [i \in Ids |-> NoRow], seq |-> 0]
        /\ draft' = file' /\ txn' = [txn EXCEPT ![Admin] = NoTxn] /\ failed' = failed \ {Admin}
        /\ UNCHANGED <<req, crashes, missing>>
    BY <2>1 DEF Redefine
  <2>3. /\ met' \subseteq met \union ({req[t].row : t \in {u \in Threads : Busy(u)}} \ {0})
        /\ count' \in count..(count + 1) /\ count' \in 0..MaxRequests
    BY <1>2, PendingIs DEF DropTable, CreateTable, Bounds, Inv, SeqOK
  <2>4. SeqOK'
    <3>1. Pending' = Pending
      BY <2>2 DEF Pending, Busy
    <3> QED BY <2>2, <2>3, <3>1, PendingIs DEF Bounds, SeqOK, Inv
  <2>5. RowsOK'
    BY <2>2, <2>3 DEF Bounds, RowsOK, Placed, Busy
  <2>6. \A d \in Conns : Reading(d)' => Reading(d) /\ txn'[d] = txn[d]
    BY <2>2 DEF Inv, Types, Reading
  <2>7. \A u \in Threads : At(u, "reread") => req[u].via \in Conns /\ req[u].row \in Ids
    BY DEF At, Busy, Inv, Types, Requests, Bounds, RowsOK, Placed
  <2>8. met \subseteq met' /\ \A u \in Threads : At(u, "reread") =>
                                 table = "none" \/ req[u].row \in met'
    <3>1. CASE DropTable
      BY <2>2, <3>1 DEF DropTable, Redefine
    <3>2. CASE CreateTable
      BY <2>7, <3>2 DEF CreateTable, At, Ids
    <3> QED BY <1>2, <3>1, <3>2
  <2>9. PresentOK'
    BY <2>2, <2>6, <2>7, <2>8 DEF Bounds, PresentOK, At, Busy, Has, Reading
  <2> QED BY <2>4, <2>5, <2>9 DEF Bounds
<1>3. CASE Restart
  <2>1. /\ file' = file /\ draft' = file /\ failed' = {} /\ met' = met /\ missing' = missing
        /\ req' = [t \in Threads |-> NoRequest] /\ count' = count /\ crashes' = crashes + 1
        /\ crashes < MaxCrashes
    BY <1>3 DEF Restart
  <2>2. \A t \in Threads : ~Busy(t)' /\ \A step : ~At(t, step)'
    BY <2>1 DEF Busy, At
  <2>3. SeqOK'
    <3>1. Pending' = {}
      BY <2>2 DEF Pending
    <3>2. IsFiniteSet({}) /\ Cardinality({}) = 0
      BY FS_EmptySet
    <3> QED BY <2>1, <3>1, <3>2, PendingIs DEF Bounds, SeqOK, Inv
  <2>4. RowsOK' /\ PresentOK'
    BY <2>1, <2>2 DEF Bounds, RowsOK, PresentOK
  <2> QED BY <2>3, <2>4 DEF Bounds
<1> QED BY <1>1, <1>2, <1>3

(* The ids given never outrun the requests, a request's row has an id, and the *)
(* row it has committed is in the file and in whatever its connection reads.   *)
THEOREM BoundsInvariant == Spec => []Bounds
<1>1. Init => Bounds
  <2> SUFFICES ASSUME Init PROVE Bounds
    OBVIOUS
  <2>1. /\ file.seq = 1 /\ draft.seq = 1 /\ count = 0 /\ crashes = 0
        /\ met = {} /\ failed = {} /\ missing = {}
    BY DEF Init
  <2>2. \A t \in Threads : ~Busy(t) /\ \A step : ~At(t, step)
    BY DEF Init, Busy, At
  <2>3. Pending = {} /\ IsFiniteSet({}) /\ Cardinality({}) = 0
    BY <2>2, FS_EmptySet DEF Pending
  <2>4. SeqOK
    BY <2>1, <2>3, ConstantsAssumption DEF SeqOK
  <2>5. RowsOK /\ PresentOK
    BY <2>1, <2>2 DEF RowsOK, PresentOK
  <2> QED BY <2>4, <2>5 DEF Bounds
<1>2. Inv /\ Bounds /\ [Next]_vars => Bounds'
  <2> SUFFICES ASSUME Inv, Bounds, [Next]_vars PROVE Bounds'
    OBVIOUS
  <2>1. ASSUME NEW t \in Threads, NEW c \in Conns,
               CallRead(t, c) \/ CallCreate(t, c) \/ CallUpdate(t, c) \/ CallDelete(t, c)
        PROVE  Bounds'
    <3>1. NoPatch \in Patches
      BY DEF NoPatch, Patches
    <3> QED BY <2>1, <3>1, CallKeepsBounds DEF CallRead, CallCreate, CallUpdate, CallDelete
  <2>2. ASSUME NEW t \in Threads,
               \/ Get(t) \/ Require(t) \/ Fails(t) \/ Statement(t) \/ Commit(t) \/ Reread(t)
        PROVE  Bounds'
    BY <2>2, ReadKeepsBounds, FailureKeepsBounds, StatementKeepsBounds, CommitKeepsBounds
  <2>3. CASE OtherStoresCommit \/ DropTable \/ CreateTable \/ Restart
    BY <2>3, OthersKeepBounds
  <2>4. CASE UNCHANGED vars
    <3>1. UNCHANGED <<file, draft, txn, req, count, crashes, met, failed, missing>>
      BY <2>4 DEF vars, history
    <3>2. Pending' = Pending
      BY <3>1 DEF Pending, Busy
    <3> QED BY <3>1, <3>2 DEF Bounds, SeqOK, RowsOK, PresentOK, At, Busy, Reading, Has, Placed
  <2> QED BY <2>1, <2>2, <2>3, <2>4 DEF Next, Fails
<1> QED BY Invariant, <1>1, <1>2, PTL DEF Spec

(* The file, the transactions, the requests and the history have types, and no *)
(* row is given an id beyond one for each request and the first row's; an     *)
(* update merges into a row it found (entity_crud_provider.py:72-77).         *)
THEOREM RowTypes == Spec => []TypeOK
<1>1. Inv /\ Bounds => TypeOK
  <2> SUFFICES ASSUME Inv, Bounds PROVE TypeOK
    OBVIOUS
  <2>1. draft.seq \in Ids \union {0}
    BY PendingIs DEF Bounds, Inv
  <2>2. \A t \in Threads :
            Busy(t) /\ req[t].op = "update" /\ req[t].step \in {"require", "write", "commit"}
                => req[t].old # NoRow
    BY DEF Inv, UpdatesOK, Sound
  <2> QED BY <2>1, <2>2 DEF Inv, Types, Bounds, SeqOK, RowsOK, PresentOK, TypeOK
<1> QED BY <1>1, Invariant, BoundsInvariant, PTL

(* A row that a request has just committed is there when it reads it back,     *)
(* unless another request met it, whatever other repositories read, fail or    *)
(* commit (sqlite_repository.py:281).                                         *)
THEOREM StoredIsThere == Spec => []ReadBack
<1>1. Bounds => ReadBack
  BY DEF Bounds, PresentOK, ReadBack
<1> QED BY <1>1, BoundsInvariant, PTL
===============================================================================
