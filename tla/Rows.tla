--------------------------------- MODULE Rows ---------------------------------
(***************************************************************************)
(* The rows of one owner-defined table: list_rows, get_row, upsert_row and *)
(* delete_row (entities/sqlite_repository.py) under the admin routes       *)
(* (interfaces/admin/entities_router.py) and under the Tools the LLM calls *)
(* (tools/entity_crud_provider.py).  Each side has a repository of its     *)
(* own, a lock and a connection, on the same SQLite file in WAL mode.      *)
(*                                                                         *)
(* Python's sqlite3 opens a transaction between preparing an INSERT or     *)
(* DELETE and running it, and only commit() ends it: nothing in the        *)
(* repository rolls back, whatever raises.  SQLite lets one transaction    *)
(* write at a time; another's write fails when it has waited five seconds. *)
(* A transaction that reads keeps what it read: it never sees a later      *)
(* commit, and may never write after one.                                  *)
(***************************************************************************)
EXTENDS Integers, FiniteSets

CONSTANTS
    Threads,      \* worker threads
    Conns,        \* the repositories open on the file
    Admin,        \* the admin routes' one
    Columns,      \* the table's columns
    Required,     \* its NOT NULL columns
    Values,       \* what a column may hold
    Null,         \* one of them: nothing
    MaxRequests,  \* bound: requests
    MaxCrashes,   \* bound: restarts
    NoConn, NoRow, NoRequest,
    NoTxn,        \* a connection outside a transaction
    Unread        \* one whose transaction has read nothing yet

ASSUME ConstantsAssumption ==
    /\ Admin \in Conns /\ Required \subseteq Columns /\ Null \in Values
    /\ MaxRequests \in Nat /\ MaxCrashes \in Nat

Ids == 1..(MaxRequests + 1)
Patches == UNION {[S -> Values] : S \in SUBSET Columns}
RowValues == [Columns -> Values]
Contents == [table : {"none", "plain", "linked"}, rows : [Ids -> RowValues \union {NoRow}],
             seq : Nat]
Requests == [via : Conns, op : {"read", "create", "update", "delete"}, row : Nat,
             patch : Patches, old : RowValues \union {NoRow},
             step : {"get", "require", "write", "commit", "reread"}]

ASSUME NullsAssumption ==
    NoConn \notin Conns /\ NoRow \notin RowValues /\ NoRequest \notin Requests
    /\ NoTxn # Unread /\ {NoTxn, Unread} \intersect Contents = {}

VARIABLES
    file,     \* what is committed
    draft,    \* the same with what writer has not committed
    writer,   \* the connection whose transaction may write
    txn,      \* each connection's transaction: none, or what it reads
    stale,    \* connections whose transaction reads what is no longer so
    req,      \* the request each thread runs
    count,    \* requests so far
    crashes,  \* restarts so far
    want,     \* history: the rows as the writes committed make them
    met,      \* history: rows on which two requests ever met, or one and a new table
    failed,   \* history: connections whose latest write raised in its transaction
    missing   \* history: rows that were not there to read back

history == <<want, met, failed, missing>>
vars == <<file, draft, writer, txn, stale, req, count, crashes, history>>

Busy(t) == req[t] # NoRequest
At(t, step) == Busy(t) /\ req[t].step = step
Goto(t, step) == req' = [req EXCEPT ![t].step = step]
Return(t) == req' = [req EXCEPT ![t] = NoRequest]

(* A thread is between its statement and its commit: it holds the lock of c. *)
InSection(c) == \E t \in Threads : At(t, "commit") /\ req[t].via = c

(* What connection c reads. *)
View(c) ==
    IF writer = c THEN draft
    ELSE IF txn[c] \in {NoTxn, Unread} THEN file ELSE txn[c]

(* A transaction's first SELECT settles what it reads from then on. *)
Select(c) == txn' = IF txn[c] = Unread THEN [txn EXCEPT ![c] = View(c)] ELSE txn

OnRow(i) == {t \in Threads : Busy(t) /\ req[t].row = i}

-------------------------------------------------------------------------------
Empty == [c \in Columns |-> Null]
(* Mutant: an update writes its fields and forgets the others. *)
WithForgets(old, patch) ==
    [c \in Columns |-> IF c \in DOMAIN patch THEN patch[c] ELSE Null]
(* {**existing, **patch} *)
With(old, patch) ==
    [c \in Columns |-> IF c \in DOMAIN patch THEN patch[c] ELSE old[c]]

Init ==
    /\ \E kind \in {"plain", "linked"}, r \in RowValues :
          /\ \A c \in Required : r[c] # Null
          /\ file = [table |-> kind, rows |-> [i \in Ids |-> IF i = 1 THEN r ELSE NoRow], seq |-> 1]
    /\ draft = file /\ want = file.rows
    /\ writer = NoConn /\ txn = [c \in Conns |-> NoTxn] /\ stale = {}
    /\ req = [t \in Threads |-> NoRequest] /\ count = 0 /\ crashes = 0
    /\ met = {} /\ failed = {} /\ missing = {}

(* An admin route or a Tool is called.  A create has no row yet; an admin's *)
(* delete reads its row first.                                              *)
Call(t, c, op, i, patch) ==
    /\ ~Busy(t) /\ count < MaxRequests
    /\ count' = count + 1
    /\ req' = [req EXCEPT ![t] =
                 [via |-> c, op |-> op, row |-> i, patch |-> patch, old |-> NoRow,
                  step |-> IF op = "create" \/ (op = "delete" /\ c # Admin)
                           THEN "require" ELSE "get"]]
    /\ met' = IF i # 0 /\ OnRow(i) # {} THEN met \union {i} ELSE met
    /\ UNCHANGED <<file, draft, writer, txn, stale, crashes, want, failed, missing>>

NoPatch == [c \in {} |-> Null]
CallRead(t, c) == Call(t, c, "read", 0, NoPatch)
CallCreate(t, c) == \E patch \in Patches : Call(t, c, "create", 0, patch)
CallUpdate(t, c) == \E i \in Ids, patch \in Patches : Call(t, c, "update", i, patch)
CallDelete(t, c) == \E i \in Ids : Call(t, c, "delete", i, NoPatch)

(* The table is there, and the Tools are those of a table linked to none. *)
Known(r, v) ==
    v.table = "plain" \/ (v.table = "linked" /\ (r.via = Admin \/ r.op = "read"))

(* Mutant: a row that is not there is updated all the same. *)
GetUnchecked(t) ==
    /\ At(t, "get")
    /\ LET r == req[t]  v == View(r.via) IN
       /\ ~InSection(r.via)
       /\ Select(r.via)
       /\ IF Known(r, v) /\ r.op # "read"
          THEN \/ req' = [req EXCEPT ![t].old = v.rows[r.row], ![t].step = "require"]
               \/ r.op = "delete" /\ Return(t)
          ELSE Return(t)
    /\ UNCHANGED <<file, draft, writer, stale, count, crashes, history>>

(* list_rows, or get_row before a write; an admin's delete then resolves its *)
(* confirm_token, which may not be outstanding.                              *)
Get(t) ==
    /\ At(t, "get")
    /\ LET r == req[t]  v == View(r.via) IN
       /\ ~InSection(r.via)
       /\ Select(r.via)
       /\ IF Known(r, v) /\ r.op # "read" /\ v.rows[r.row] # NoRow
          THEN \/ req' = [req EXCEPT ![t].old = v.rows[r.row], ![t].step = "require"]
               \/ r.op = "delete" /\ Return(t)
          ELSE Return(t)
    /\ UNCHANGED <<file, draft, writer, stale, count, crashes, history>>

(* _require_table of upsert_row and delete_row. *)
Require(t) ==
    /\ At(t, "require")
    /\ LET r == req[t] IN
       /\ ~InSection(r.via)
       /\ Select(r.via)
       /\ IF Known(r, View(r.via)) THEN Goto(t, "write") ELSE Return(t)
    /\ UNCHANGED <<file, draft, writer, stale, count, crashes, history>>

(* The row a create or an update gives the statement. *)
Stored(r) == With(IF r.op = "create" THEN Empty ELSE r.old, r.patch)
RowOf(r) == IF r.op = "create" THEN draft.seq + 1 ELSE r.row

(* SQLite will not let c write: another transaction does, or has done so *)
(* since the one of c first read.                                        *)
Blocked(c) == writer \notin {NoConn, c} \/ c \in stale

(* A statement may be given to SQLite. *)
Ready(t) ==
    /\ At(t, "write") /\ ~InSection(req[t].via)

(* The table was dropped since _require_table.  Preparing the statement fails *)
(* and opens no transaction, unless the connection has it, or the table, in  *)
(* its cache: then running it fails, with the transaction open and the write *)
(* lock taken.                                                               *)
NoSuchTable(t) ==
    LET c == req[t].via IN
    /\ Ready(t) /\ View(c).table = "none"
    /\ \/ UNCHANGED <<writer, txn, failed>>
       \/ /\ ~Blocked(c)
          /\ writer' = c /\ txn' = [txn EXCEPT ![c] = file]
          /\ failed' = failed \union {c}
    /\ Return(t)
    /\ UNCHANGED <<file, draft, stale, count, crashes, want, met, missing>>

(* The statement raises with its transaction open, and not yet a writer's. *)
FailsOpen(t) ==
    LET c == req[t].via IN
    /\ txn' = IF txn[c] = NoTxn THEN [txn EXCEPT ![c] = Unread] ELSE txn
    /\ failed' = failed \union {c}
    /\ Return(t)
    /\ UNCHANGED <<file, draft, writer, stale, count, crashes, want, met, missing>>

(* A value, or the id a Tool is given, that SQLite has no type for; an admin's *)
(* id is text of the path.                                                    *)
CannotBind(t) ==
    /\ Ready(t) /\ (req[t].op = "delete" => req[t].via # Admin)
    /\ FailsOpen(t)

(* Mutant: a write that fails ends the transaction an earlier one left. *)
TimeOutRollsBack(t) ==
    LET c == req[t].via IN
    /\ Ready(t) /\ Blocked(c)
    /\ txn' = [txn EXCEPT ![c] = IF @ = NoTxn THEN Unread ELSE NoTxn]
    /\ stale' = stale \ {c}
    /\ failed' = failed \union {c}
    /\ Return(t)
    /\ UNCHANGED <<file, draft, writer, count, crashes, want, met, missing>>

(* "database is locked". *)
TimeOut(t) ==
    /\ Ready(t) /\ Blocked(req[t].via)
    /\ FailsOpen(t)

(* A NOT NULL column has no value: the transaction holds the write lock. *)
Refuse(t) ==
    LET c == req[t].via IN
    /\ Ready(t) /\ View(c).table # "none" /\ ~Blocked(c)
    /\ req[t].op # "delete" /\ \E k \in Required : Stored(req[t])[k] = Null
    /\ writer' = c /\ txn' = [txn EXCEPT ![c] = file]
    /\ failed' = failed \union {c}
    /\ Return(t)
    /\ UNCHANGED <<file, draft, stale, count, crashes, want, met, missing>>

(* INSERT, INSERT OR REPLACE of the whole row, or DELETE. *)
Statement(t) ==
    LET r == req[t]  c == r.via  i == RowOf(r) IN
    /\ Ready(t) /\ View(c).table # "none" /\ ~Blocked(c)
    /\ r.op # "delete" => \A k \in Required : Stored(r)[k] # Null
    /\ draft' = [draft EXCEPT !.rows[i] = IF r.op = "delete" THEN NoRow ELSE Stored(r),
                              !.seq = IF r.op = "create" THEN i ELSE @]
    /\ writer' = c /\ txn' = [txn EXCEPT ![c] = file]
    /\ req' = [req EXCEPT ![t].row = i, ![t].step = "commit"]
    /\ met' = IF OnRow(i) \ {t} # {} THEN met \union {i} ELSE met
    /\ UNCHANGED <<file, stale, count, crashes, want, failed, missing>>

Reading(c) == txn[c] \notin {NoTxn, Unread}

(* The row as it was, but for the fields the request gives. *)
Wanted(r) ==
    CASE r.op = "create" -> Stored(r)
      [] r.op = "delete" -> NoRow
      [] OTHER -> IF want[r.row] = NoRow THEN NoRow
                  ELSE [c \in Columns |-> IF c \in DOMAIN r.patch THEN r.patch[c]
                                          ELSE want[r.row][c]]

(* Mutant: a DELETE that found no row is not committed. *)
CommitIfFound(t) ==
    LET r == req[t]  c == r.via IN
    /\ At(t, "commit")
    /\ file' = draft
    /\ IF r.op = "delete" /\ draft = file
       THEN UNCHANGED <<writer, txn, stale>>
       ELSE /\ writer' = NoConn /\ txn' = [txn EXCEPT ![c] = NoTxn]
            /\ stale' = {d \in Conns \ {c} : Reading(d)}
    /\ want' = [want EXCEPT ![r.row] = Wanted(r)]
    /\ failed' = failed \ {c}
    /\ IF r.op = "delete" THEN Return(t) ELSE Goto(t, "reread")
    /\ UNCHANGED <<draft, count, crashes, met, missing>>

(* Mutant: the transaction is rolled back. *)
CommitRollsBack(t) ==
    LET r == req[t]  c == r.via IN
    /\ At(t, "commit")
    /\ draft' = file
    /\ writer' = NoConn /\ txn' = [txn EXCEPT ![c] = NoTxn]
    /\ IF r.op = "delete" THEN Return(t) ELSE Goto(t, "reread")
    /\ UNCHANGED <<file, stale, count, crashes, history>>

(* The transaction ends and is the file's; others that have read are stale, *)
(* unless a DELETE found nothing to write.                                  *)
Commit(t) ==
    LET r == req[t]  c == r.via IN
    /\ At(t, "commit")
    /\ file' = draft
    /\ writer' = NoConn /\ txn' = [txn EXCEPT ![c] = NoTxn]
    /\ stale' = IF r.op = "delete" /\ draft = file THEN stale
                ELSE {d \in Conns \ {c} : Reading(d)}
    /\ want' = [want EXCEPT ![r.row] = Wanted(r)]
    /\ failed' = failed \ {c}
    /\ IF r.op = "delete" THEN Return(t) ELSE Goto(t, "reread")
    /\ UNCHANGED <<draft, count, crashes, met, missing>>

(* upsert_row reads its row back, and asserts that it is there. *)
Reread(t) ==
    /\ At(t, "reread")
    /\ LET r == req[t]  v == View(r.via) IN
       /\ ~InSection(r.via)
       /\ Select(r.via)
       /\ missing' = IF v.table # "none" /\ v.rows[r.row] = NoRow
                     THEN missing \union {r.row} ELSE missing
    /\ Return(t)
    /\ UNCHANGED <<file, draft, writer, stale, count, crashes, want, met, failed>>

-------------------------------------------------------------------------------
(* The session, customer and other stores of the Business write the same file. *)
OtherStoresCommit ==
    /\ writer = NoConn
    /\ stale' = {c \in Conns : Reading(c)}
    /\ UNCHANGED <<file, draft, writer, txn, req, count, crashes, history>>

(* drop_table and create_table of the admin routes, which Tables takes apart, *)
(* leave a table without rows; their commit ends the transaction a write that *)
(* failed has left open, and the ids begin anew.                              *)
Redefine(table) ==
    /\ ~InSection(Admin) /\ ~Blocked(Admin)
    /\ file' = [table |-> table, rows |-> [i \in Ids |-> NoRow], seq |-> 0]
    /\ draft' = file' /\ want' = file'.rows
    /\ writer' = NoConn /\ txn' = [txn EXCEPT ![Admin] = NoTxn]
    /\ stale' = {c \in Conns \ {Admin} : Reading(c)}
    /\ failed' = failed \ {Admin}
    /\ UNCHANGED <<req, crashes, missing>>

DropTable ==
    /\ file.table # "none"
    /\ Redefine("none")
    /\ UNCHANGED <<count, met>>

(* A request still in flight meets the new table, whose rows have the old ids. *)
CreateTable ==
    /\ file.table = "none" /\ count < MaxRequests
    /\ \E kind \in {"plain", "linked"} : Redefine(kind)
    /\ count' = count + 1
    /\ met' = met \union ({req[t].row : t \in {u \in Threads : Busy(u)}} \ {0})

(* The process stops and starts: what was not committed is gone. *)
Restart ==
    /\ crashes < MaxCrashes
    /\ crashes' = crashes + 1
    /\ draft' = file /\ writer' = NoConn
    /\ txn' = [c \in Conns |-> NoTxn] /\ stale' = {} /\ failed' = {}
    /\ req' = [t \in Threads |-> NoRequest]
    /\ UNCHANGED <<file, count, want, met, missing>>

Next ==
    \/ \E t \in Threads, c \in Conns :
          CallRead(t, c) \/ CallCreate(t, c) \/ CallUpdate(t, c) \/ CallDelete(t, c)
    \/ \E t \in Threads :
          \/ Get(t) \/ Require(t)
          \/ NoSuchTable(t) \/ CannotBind(t) \/ TimeOut(t) \/ Refuse(t) \/ Statement(t)
          \/ Commit(t) \/ Reread(t)
    \/ OtherStoresCommit \/ DropTable \/ CreateTable \/ Restart

Spec == Init /\ [][Next]_vars

-------------------------------------------------------------------------------
(* The file, the transactions, the requests in flight and the history have    *)
(* types; no more ids are given than there were requests; and an update that  *)
(* has read its row holds one to merge into.                                  *)
TypeOK ==
    /\ file \in Contents /\ draft \in Contents /\ draft.seq \in Ids \union {0}
    /\ writer \in Conns \union {NoConn}
    /\ txn \in [Conns -> Contents \union {NoTxn, Unread}] /\ stale \subseteq Conns
    /\ req \in [Threads -> Requests \union {NoRequest}]
    /\ \A t \in Threads :
          Busy(t) /\ req[t].op = "update" /\ req[t].step \in {"require", "write", "commit"}
              => req[t].old # NoRow
    /\ count \in 0..MaxRequests /\ crashes \in 0..MaxCrashes
    /\ want \in [Ids -> RowValues \union {NoRow}]
    /\ met \subseteq Ids /\ failed \subseteq Conns /\ missing \subseteq Ids

(* "Only the fields provided are changed; the rest keep their current value"  *)
(* (crud_tools.py:75), and a deleted row is gone: so it is on the rows where   *)
(* no two requests met, whatever fails, restarts or reads an old file.         *)
AsWritten == \A i \in Ids \ met : file.rows[i] = want[i]

(* "assert stored is not None" (sqlite_repository.py:281): the row just       *)
(* committed is there to read back, unless another request met it.            *)
ReadBack == missing \subseteq met

(* A connection keeps a transaction, and with it the write lock or an old     *)
(* view of the file, only from a write of its own that raised inside it (the  *)
(* row refused, a value that cannot be bound, the lock timed out, the table   *)
(* gone and the statement cached) until one of its own is committed           *)
(* (sqlite_repository.py:255-278, 286-290).                                   *)
TransactionsEnd ==
    \A c \in Conns \ failed : InSection(c) \/ (txn[c] = NoTxn /\ writer # c)

(* ... and once it reads an old file it does so until the process restarts:   *)
(* the repository never rolls back, so no later call of it can write.         *)
StaleUntilRestart ==
    [][\A c \in stale : c \in stale' \/ crashes' > crashes]_vars
===============================================================================
