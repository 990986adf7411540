-------------------------- MODULE Conversation_proof --------------------------
(***************************************************************************)
(* Proofs about Conversation, for every number of threads, Sessions, Tools *)
(* and turns, every set of steps that may raise and every tool policy:     *)
(* type correctness, and the Rails whatever overlaps, raises or restarts.  *)
(***************************************************************************)
EXTENDS Conversation, TLAPS, SequenceTheorems

History == Seq([role : Roles, turn : TurnIds])
LogType == Seq([session : Sessions, msg : Messages])

(* A write to the Session Store keeps the store's types. *)
LEMMA UpsertType ==
    ASSUME TypeOK, NEW s \in Sessions, NEW p \in Calls \union {NoCall}, NEW h \in History,
           Upsert(s, p, h)
    PROVE  /\ pending' \in [Sessions -> Calls \union {NoCall}]
           /\ history' \in [Sessions -> History]
           /\ idleRows' \subseteq Sessions
           /\ writes' \in 0..(SweepInterval - 1)
<1>1. pending' \in [Sessions -> Calls \union {NoCall}]
  BY DEF Upsert, TypeOK
<1>2. history' \in [Sessions -> History]
  <2>1. <<>> \in History
    BY DEF History
  <2> QED BY <2>1 DEF Upsert, TypeOK, History
<1>3. idleRows' \subseteq Sessions
  BY DEF Upsert, TypeOK
<1>4. writes' \in 0..(SweepInterval - 1)
  BY ConstantsAssumption DEF Upsert, TypeOK
<1> QED BY <1>1, <1>2, <1>3, <1>4

(* What TypeOK says of one thread. *)
LEMMA BusyTurn ==
    ASSUME TypeOK, NEW t \in Threads, Busy(t)
    PROVE  /\ turn[t] \in Turns
           /\ turn[t].id \in TurnIds /\ turn[t].session \in Sessions
           /\ turn[t].msg \in Messages
           /\ turn[t].call \in Calls \union {NoCall}
           /\ turn[t].kind \in Kinds /\ turn[t].gate \in Gates
           /\ pc[t] \in UsesCall => turn[t].call \in Calls /\ turn[t].call.name \in Tools
<1>1. turn[t] \in Turns /\ (pc[t] \in UsesCall => turn[t].call # NoCall)
  <2>1. LocalsOK
    BY DEF TypeOK
  <2> QED BY <2>1 DEF LocalsOK
<1>2. /\ turn[t].id \in TurnIds /\ turn[t].session \in Sessions
      /\ turn[t].msg \in Messages /\ turn[t].call \in Calls \union {NoCall}
      /\ turn[t].kind \in Kinds /\ turn[t].gate \in Gates
  BY <1>1 DEF Turns
<1>3. \A c \in Calls : c.name \in Tools
  BY DEF Calls
<1> QED BY <1>1, <1>2, <1>3

(* Appending a turn's entry keeps the store's types. *)
LEMMA AppendTurnType ==
    ASSUME TypeOK, NEW s \in Sessions, NEW role \in Roles, NEW id \in TurnIds,
           AppendTurn(s, role, id)
    PROVE  /\ pending' \in [Sessions -> Calls \union {NoCall}]
           /\ history' \in [Sessions -> History]
           /\ idleRows' \subseteq Sessions
           /\ writes' \in 0..(SweepInterval - 1)
<1>1. Append(history[s], [role |-> role, turn |-> id]) \in History
  <2>1. history[s] \in History
    BY DEF TypeOK, History
  <2> QED BY <2>1 DEF History
<1>2. pending[s] \in Calls \union {NoCall}
  BY DEF TypeOK
<1> QED BY <1>1, <1>2, UpsertType DEF AppendTurn

(* Every step keeps the types, one lemma's fact per action. *)
LEMMA TypeStep == TypeOK /\ [Next]_vars => TypeOK'
<1> USE ConstantsAssumption
<1> SUFFICES ASSUME TypeOK, [Next]_vars PROVE TypeOK'
  OBVIOUS
<1>1. ASSUME NEW t \in Threads, NEW s \in Sessions, NEW m \in Messages, Begin(t, s, m)
      PROVE  TypeOK'
  <2>1. Len(log) + 1 \in TurnIds
    BY <1>1 DEF Begin, TypeOK, TurnIds
  <2>2. log' \in Seq([session : Sessions, msg : Messages]) /\ Len(log') <= MaxTurns
    BY <1>1 DEF Begin, TypeOK
  <2>3. [id |-> Len(log) + 1, session |-> s, msg |-> m, call |-> NoCall,
         kind |-> "none", gate |-> "unchecked"] \in Turns
    BY <2>1 DEF Turns, Kinds, Gates
  <2>4. pc' = [pc EXCEPT ![t] = "input"] /\ pc' \in [Threads -> Steps]
    BY <1>1 DEF Begin, Goto, TypeOK, Steps
  <2> DEFINE locals == [id |-> Len(log) + 1, session |-> s, msg |-> m, call |-> NoCall,
                        kind |-> "none", gate |-> "unchecked"]
  <2>5. turn' = [turn EXCEPT ![t] = locals]
    BY <1>1 DEF Begin
  <2>6. locals \in Turns
    BY <2>3
  <2> HIDE DEF locals
  <2>7. turn' \in [Threads -> Turns \union {NoTurn}] /\ LocalsOK'
    BY <2>4, <2>5, <2>6 DEF TypeOK, Busy, UsesCall, LocalsOK
  <2> QED BY <1>1, <2>2, <2>4, <2>7 DEF Begin, TypeOK, store
<1>2. ASSUME NEW t \in Threads, InputRailAllows(t) PROVE TypeOK'
  BY <1>2 DEF InputRailAllows, TypeOK, Goto, Steps, Busy, UsesCall, LocalsOK, store, ghosts
<1>3. ASSUME NEW t \in Threads, InputRailBlocks(t) PROVE TypeOK'
  <2>1. turn[t] \in Turns /\ turn[t].id \in TurnIds
    BY <1>3, BusyTurn DEF InputRailBlocks, Busy
  <2>2. [turn[t] EXCEPT !.kind = "refusal", !.gate = "input"] \in Turns
    BY <2>1 DEF Turns, Kinds, Gates
  <2> QED BY <1>3, <2>1, <2>2 DEF InputRailBlocks, TypeOK, Goto, Steps, Busy, UsesCall, LocalsOK, store
<1>4. ASSUME NEW t \in Threads, ReadPending(t) PROVE TypeOK'
  <2> DEFINE p == pending[turn[t].session]
  <2>1. turn[t] \in Turns /\ turn[t].session \in Sessions /\ p \in Calls \union {NoCall}
    BY <1>4, BusyTurn DEF ReadPending, Busy, TypeOK
  <2>2. p # NoCall => [turn[t] EXCEPT !.call = p] \in Turns
    BY <2>1 DEF Turns
  <2>3. [turn[t] EXCEPT !.kind = "nudge"] \in Turns
    BY <2>1 DEF Turns, Kinds
  <2>4. [turn[t] EXCEPT !.call = p].call = p
    BY <2>1 DEF Turns
  <2> HIDE DEF p
  <2>5. CASE p = NoCall
    BY <1>4, <2>5 DEF ReadPending, p, TypeOK, Goto, Steps, Busy, UsesCall, LocalsOK, store, ghosts
  <2>6. CASE p # NoCall /\ turn[t].msg \in {"yes", "no"}
    <3>1. /\ turn' = [turn EXCEPT ![t] = [turn[t] EXCEPT !.call = p]]
          /\ \/ pc' = [pc EXCEPT ![t] = "run"]
             \/ pc' = [pc EXCEPT ![t] = "cancel"]
          /\ UNCHANGED <<loaded, store, customers, restarts, ghosts>>
      BY <1>4, <2>6 DEF ReadPending, p, Goto
    <3> QED BY <2>1, <2>2, <2>4, <2>6, <3>1 DEF TypeOK, Steps, Busy, UsesCall, LocalsOK, store, ghosts
  <2>7. CASE p # NoCall /\ turn[t].msg = "other"
    BY <1>4, <2>3, <2>7 DEF ReadPending, p, Say, TypeOK, Goto, Steps, Busy, UsesCall, LocalsOK, store, ghosts
  <2> QED BY <1>4, <2>5, <2>6, <2>7 DEF ReadPending, p
<1>5. ASSUME NEW t \in Threads, RunConfirmed(t) \/ RunAllowed(t) PROVE TypeOK'
  <2>1. turn[t].call \in Calls /\ turn[t].call.name \in Tools /\ turn[t].id \in TurnIds
    BY <1>5, BusyTurn DEF RunConfirmed, RunAllowed, Busy, UsesCall, LocalsOK
  <2>2. executed' \subseteq Executions
    BY <1>5, <2>1 DEF RunConfirmed, RunAllowed, Execute, Executions, TypeOK
  <2> QED BY <1>5, <2>2 DEF RunConfirmed, RunAllowed, TypeOK, Goto, Steps, Busy, UsesCall, LocalsOK, store
<1>6. ASSUME NEW t \in Threads, ContinueConfirmed(t) \/ RespondText(t) \/ ContinueAllowed(t)
      PROVE  TypeOK'
  <2>1. turn[t] \in Turns /\ (pc[t] = "continue" => turn[t].call # NoCall)
    <3>1. Busy(t)
      BY <1>6 DEF ContinueConfirmed, RespondText, ContinueAllowed, Busy
    <3> QED BY <3>1, BusyTurn, NullsAssumption DEF UsesCall
  <2> DEFINE said == [turn[t] EXCEPT !.kind = "answer"]
  <2>2. said \in Turns /\ said.call = turn[t].call
    BY <2>1 DEF Turns, Kinds
  <2>3. turn' = [turn EXCEPT ![t] = said]
    BY <1>6 DEF ContinueConfirmed, RespondText, ContinueAllowed, Say
  <2>4. \/ pc' = [pc EXCEPT ![t] = "output"]
        \/ pc[t] = "continue" /\ pc' = [pc EXCEPT ![t] = "clear"]
    BY <1>6 DEF ContinueConfirmed, RespondText, ContinueAllowed, Say, Goto
  <2> HIDE DEF said
  <2>5. UNCHANGED <<loaded, store, customers, restarts, ghosts>>
    BY <1>6 DEF ContinueConfirmed, RespondText, ContinueAllowed
  <2> QED BY <2>1, <2>2, <2>3, <2>4, <2>5 DEF TypeOK, Steps, Busy, UsesCall, LocalsOK, store, ghosts
<1>7. ASSUME NEW t \in Threads, ClearConfirmed(t) PROVE TypeOK'
  <2>1. turn[t].session \in Sessions /\ history[turn[t].session] \in History
    BY <1>7, BusyTurn DEF ClearConfirmed, Busy, TypeOK, History
  <2>2. /\ pending' \in [Sessions -> Calls \union {NoCall}]
        /\ history' \in [Sessions -> History]
        /\ idleRows' \subseteq Sessions
        /\ writes' \in 0..(SweepInterval - 1)
    BY <1>7, <2>1, UpsertType DEF ClearConfirmed, SetPending
  <2> QED BY <1>7, <2>2 DEF ClearConfirmed, TypeOK, Goto, Steps, Busy, UsesCall, LocalsOK, ghosts, History
<1>8. ASSUME NEW t \in Threads, CancelPending(t) PROVE TypeOK'
  <2>1. /\ turn[t].session \in Sessions /\ history[turn[t].session] \in History
        /\ turn[t] \in Turns /\ turn[t].call \in Calls /\ turn[t].id \in TurnIds
    BY <1>8, BusyTurn DEF CancelPending, Busy, TypeOK, History, UsesCall
  <2>2. /\ pending' \in [Sessions -> Calls \union {NoCall}]
        /\ history' \in [Sessions -> History]
        /\ idleRows' \subseteq Sessions
        /\ writes' \in 0..(SweepInterval - 1)
    BY <1>8, <2>1, UpsertType DEF CancelPending, SetPending
  <2>3. [turn[t] EXCEPT !.kind = "cancelled"] \in Turns
    BY <2>1 DEF Turns, Kinds
  <2>4. cancelled' \subseteq Cancellations
    BY <1>8, <2>1 DEF CancelPending, Cancel, Cancellations, TypeOK
  <2> QED BY <1>8, <2>1, <2>2, <2>3, <2>4 DEF CancelPending, Say, TypeOK, Goto, Steps, Busy, UsesCall, LocalsOK, History
<1>9. ASSUME NEW t \in Threads, NEW name \in Tools, RespondCall(t, name) PROVE TypeOK'
  <2> DEFINE c == [id |-> turn[t].id, name |-> name]
  <2>1. turn[t] \in Turns /\ c \in Calls
    BY <1>9, BusyTurn DEF RespondCall, Busy, Calls
  <2>2. /\ [turn[t] EXCEPT !.call = c] \in Turns /\ [turn[t] EXCEPT !.call = c].call = c
        /\ [turn[t] EXCEPT !.kind = "deny"] \in Turns
    BY <2>1 DEF Turns, Kinds
  <2>3. c # NoCall
    BY <2>1, NullsAssumption
  <2> HIDE DEF c
  <2>4. CASE turn' = [turn EXCEPT ![t].call = c] /\ (Goto(t, "call") \/ Goto(t, "ask"))
    BY <1>9, <2>1, <2>2, <2>3, <2>4
      DEF RespondCall, TypeOK, Goto, Steps, Busy, UsesCall, LocalsOK, store, ghosts
  <2>5. CASE Say(t, "deny", "output")
    BY <1>9, <2>1, <2>2, <2>5
      DEF RespondCall, Say, TypeOK, Goto, Steps, Busy, UsesCall, LocalsOK, store, ghosts
  <2> QED BY <1>9, <2>4, <2>5 DEF RespondCall, c
<1>10. ASSUME NEW t \in Threads, AskConfirmation(t) PROVE TypeOK'
  <2>1. /\ turn[t].session \in Sessions /\ history[turn[t].session] \in History
        /\ turn[t] \in Turns /\ turn[t].call \in Calls
    BY <1>10, BusyTurn DEF AskConfirmation, Busy, TypeOK, History, UsesCall
  <2>2. /\ pending' \in [Sessions -> Calls \union {NoCall}]
        /\ history' \in [Sessions -> History]
        /\ idleRows' \subseteq Sessions
        /\ writes' \in 0..(SweepInterval - 1)
    BY <1>10, <2>1, UpsertType DEF AskConfirmation, SetPending
  <2>3. [turn[t] EXCEPT !.kind = "prompt"] \in Turns
    BY <2>1 DEF Turns, Kinds
  <2>4. asked' \subseteq Sessions \X Calls
    BY <1>10, <2>1 DEF AskConfirmation, TypeOK
  <2> QED BY <1>10, <2>2, <2>3, <2>4
      DEF AskConfirmation, Say, TypeOK, Goto, Steps, Busy, UsesCall, LocalsOK, History
<1>11. ASSUME NEW t \in Threads, OutputRailAllows(t) \/ OutputRailBlocks(t) PROVE TypeOK'
  <2>1. turn[t] \in Turns
    BY <1>11, BusyTurn DEF OutputRailAllows, OutputRailBlocks, Busy
  <2>2. PICK said \in Turns : turn' = [turn EXCEPT ![t] = said] \/ turn' = turn
    <3>1. /\ [turn[t] EXCEPT !.gate = "output"] \in Turns
          /\ [turn[t] EXCEPT !.kind = "replaced", !.gate = "output"] \in Turns
      BY <2>1 DEF Turns, Kinds, Gates
    <3>2. \/ turn' = [turn EXCEPT ![t] = [turn[t] EXCEPT !.gate = "output"]]
          \/ turn' = [turn EXCEPT ![t] = [turn[t] EXCEPT !.kind = "replaced", !.gate = "output"]]
          \/ turn' = turn
      BY <1>11 DEF OutputRailAllows, OutputRailBlocks
    <3> QED BY <2>1, <3>1, <3>2
  <2>3. pc' = [pc EXCEPT ![t] = "user"] /\ pc[t] = "output"
    BY <1>11 DEF OutputRailAllows, OutputRailBlocks, Goto
  <2>4. UNCHANGED <<loaded, store, customers, restarts, ghosts>>
    BY <1>11 DEF OutputRailAllows, OutputRailBlocks
  <2>5. turn' \in [Threads -> Turns \union {NoTurn}] /\ pc' \in [Threads -> Steps]
    BY <2>1, <2>2, <2>3 DEF TypeOK, Steps
  <2>6. LocalsOK'
    <3>1. turn'[t] \in Turns /\ pc'[t] \notin UsesCall
      BY <2>1, <2>2, <2>3 DEF TypeOK, UsesCall
    <3>2. \A u \in Threads \ {t} : turn'[u] = turn[u] /\ pc'[u] = pc[u]
      BY <2>2, <2>3 DEF TypeOK
    <3> QED BY <3>1, <3>2 DEF TypeOK, LocalsOK, Busy
  <2> QED BY <2>4, <2>5, <2>6 DEF TypeOK, store, ghosts
<1>12. ASSUME NEW t \in Threads, AppendUser(t) PROVE TypeOK'
  <2>1. turn[t].session \in Sessions /\ turn[t].id \in TurnIds
    BY <1>12, BusyTurn DEF AppendUser, Busy
  <2>2. /\ pending' \in [Sessions -> Calls \union {NoCall}]
        /\ history' \in [Sessions -> History]
        /\ idleRows' \subseteq Sessions
        /\ writes' \in 0..(SweepInterval - 1)
    BY <1>12, <2>1, AppendTurnType DEF AppendUser, Roles
  <2> QED BY <1>12, <2>2 DEF AppendUser, TypeOK, Goto, Steps, Busy, UsesCall, LocalsOK, ghosts, History
<1>13. ASSUME NEW t \in Threads, AppendAssistant(t) PROVE TypeOK'
  <2>1. /\ turn[t].session \in Sessions /\ turn[t].id \in TurnIds
        /\ turn[t].kind \in Kinds /\ turn[t].gate \in Gates
    BY <1>13, BusyTurn DEF AppendAssistant, Busy
  <2>2. /\ pending' \in [Sessions -> Calls \union {NoCall}]
        /\ history' \in [Sessions -> History]
        /\ idleRows' \subseteq Sessions
        /\ writes' \in 0..(SweepInterval - 1)
    BY <1>13, <2>1, AppendTurnType DEF AppendAssistant, Roles
  <2>3. replies' \subseteq [turn : TurnIds, kind : Kinds, gate : Gates]
    BY <1>13, <2>1 DEF AppendAssistant, TypeOK
  <2> QED BY <1>13, <2>2, <2>3 DEF AppendAssistant, TypeOK, Goto, Steps, Busy, UsesCall, LocalsOK, History
<1>14. ASSUME NEW t \in Threads, Raise(t) PROVE TypeOK'
  BY <1>14 DEF Raise, TypeOK, Goto, Steps, Busy, UsesCall, LocalsOK, store, ghosts
<1>15. ASSUME NEW s \in Sessions, RowAges(s) PROVE TypeOK'
  BY <1>15 DEF RowAges, TypeOK, LocalsOK, Busy, ghosts
<1>16. CASE Restart
  <2>1. 0 \in 0..(SweepInterval - 1) /\ restarts' \in 0..MaxRestarts
    BY <1>16 DEF Restart, TypeOK
  <2> QED BY <1>16, <2>1 DEF Restart, TypeOK, Steps, Busy, UsesCall, LocalsOK, ghosts
<1>17. CASE UNCHANGED vars
  BY <1>17 DEF vars, store, ghosts, TypeOK, LocalsOK, Busy
<1> QED BY <1>1, <1>2, <1>3, <1>4, <1>5, <1>6, <1>7, <1>8, <1>9, <1>10, <1>11, <1>12,
           <1>13, <1>14, <1>15, <1>16, <1>17 DEF Next, Handle, Work

(* The empty store and idle threads have the types.                          *)
LEMMA TypeInit == Init => TypeOK
<1>1. \A s \in Sessions : <<>> \in Seq([role : Roles, turn : TurnIds])
  OBVIOUS
<1>2. <<>> \in Seq([session : Sessions, msg : Messages]) /\ Len(<<>>) <= MaxTurns
  BY ConstantsAssumption
<1>3. 0 \in 0..(SweepInterval - 1) /\ 0 \in 0..MaxRestarts
  BY ConstantsAssumption
<1> QED BY <1>1, <1>2, <1>3, ConstantsAssumption DEF Init, TypeOK, Steps, Busy, UsesCall, LocalsOK

(* The Session rows, the locals of every handler and the logs keep their     *)
(* types, and a handler about to use a tool call holds one, whatever         *)
(* overlaps, raises or restarts (conversation.py:79-214).                    *)
THEOREM TypeCorrect == Spec => []TypeOK
  BY TypeInit, TypeStep, PTL DEF Spec

-------------------------------------------------------------------------------
(* What a step inside the handler of thread t leaves alone: the log, every   *)
(* other thread, and which message its own turn is about.                    *)
OthersKeep(t) == \A u \in Threads \ {t} : pc'[u] = pc[u] /\ turn'[u] = turn[u]
KeepsTurn(t) == /\ turn'[t].id = turn[t].id /\ turn'[t].session = turn[t].session
                /\ turn'[t].msg = turn[t].msg

(* The locals after their text, their verdict or their call is changed. *)
LEMMA ExceptKind ==
    ASSUME NEW r \in Turns, NEW k \in Kinds
    PROVE  LET q == [r EXCEPT !.kind = k] IN
           /\ q.id = r.id /\ q.session = r.session /\ q.msg = r.msg /\ q.call = r.call
           /\ q.kind = k /\ q.gate = r.gate
  BY DEF Turns

LEMMA ExceptKindGate ==
    ASSUME NEW r \in Turns, NEW k \in Kinds, NEW g \in Gates
    PROVE  LET q == [r EXCEPT !.kind = k, !.gate = g] IN
           /\ q.id = r.id /\ q.session = r.session /\ q.msg = r.msg /\ q.call = r.call
           /\ q.kind = k /\ q.gate = g
  BY DEF Turns

LEMMA ExceptGate ==
    ASSUME NEW r \in Turns, NEW g \in Gates
    PROVE  LET q == [r EXCEPT !.gate = g] IN
           /\ q.id = r.id /\ q.session = r.session /\ q.msg = r.msg /\ q.call = r.call
           /\ q.kind = r.kind /\ q.gate = g
  BY DEF Turns

LEMMA ExceptCall ==
    ASSUME NEW r \in Turns, NEW c \in Calls \union {NoCall}
    PROVE  LET q == [r EXCEPT !.call = c] IN
           /\ q.id = r.id /\ q.session = r.session /\ q.msg = r.msg /\ q.call = c
           /\ q.kind = r.kind /\ q.gate = r.gate
  BY DEF Turns

(* How each step of a handler moves its thread, and what it writes into its  *)
(* locals: the one fact about the locals the safety proofs need.             *)
LEMMA WorkMoves ==
    ASSUME TypeOK, NEW t \in Threads, Work(t)
    PROVE  /\ Busy(t) /\ log' = log /\ loaded' = loaded /\ replies' = replies
           /\ OthersKeep(t) /\ KeepsTurn(t)
           /\ \/ pc[t] = "input" /\ pc'[t] = "pending" /\ turn' = turn
              \/ /\ pc[t] = "input" /\ pc'[t] = "user" /\ InputRailBlocks(t)
                 /\ turn'[t].kind = "refusal" /\ turn'[t].gate = "input"
              \/ pc[t] = "pending" /\ pc'[t] = "respond" /\ turn' = turn
              \/ /\ pc[t] = "pending" /\ pc'[t] \in {"run", "cancel"}
                 /\ pending[turn[t].session] # NoCall
                 /\ turn'[t].call = pending[turn[t].session]
                 /\ turn'[t].kind = turn[t].kind
                 /\ pc'[t] = "run" => turn[t].msg = "yes"
              \/ pc[t] = "pending" /\ pc'[t] = "output" /\ turn'[t].kind = "nudge"
              \/ pc[t] = "run" /\ pc'[t] = "continue" /\ turn' = turn
              \/ /\ pc[t] = "continue" /\ pc'[t] = "clear" /\ turn'[t].kind = "answer"
                 /\ turn'[t].call = turn[t].call
              \/ pc[t] = "clear" /\ pc'[t] = "output" /\ turn' = turn
              \/ /\ pc[t] = "cancel" /\ pc'[t] = "output" /\ turn'[t].kind = "cancelled"
              \/ pc[t] = "respond" /\ pc'[t] = "output" /\ turn'[t].kind \in {"answer", "deny"}
              \/ /\ pc[t] = "respond" /\ pc'[t] \in {"call", "ask"}
                 /\ turn'[t].call.id = turn[t].id /\ turn'[t].kind = turn[t].kind
                 /\ pc'[t] = "call" => loaded[turn'[t].call.name] = "free"
              \/ pc[t] = "call" /\ pc'[t] = "explain" /\ turn' = turn
              \/ pc[t] = "explain" /\ pc'[t] = "output" /\ turn'[t].kind = "answer"
              \/ pc[t] = "ask" /\ pc'[t] = "output" /\ turn'[t].kind = "prompt"
              \/ /\ pc[t] = "output" /\ pc'[t] = "user"
                 /\ OutputEnabled => turn'[t].gate = "output"
                 /\ turn'[t].kind \in {turn[t].kind, "replaced"}
              \/ pc[t] = "user" /\ pc'[t] = "assistant" /\ turn' = turn
<1>1. Busy(t)
  BY DEF Work, Busy, InputRailAllows, InputRailBlocks, ReadPending, RunConfirmed,
     ContinueConfirmed, ClearConfirmed, CancelPending, RespondText, RespondCall, RunAllowed,
     ContinueAllowed, AskConfirmation, OutputRailAllows, OutputRailBlocks, AppendUser
<1>2. turn[t] \in Turns /\ turn \in [Threads -> Turns \union {NoTurn}] /\ pc \in [Threads -> Steps]
  BY <1>1, BusyTurn DEF TypeOK
<1>3. log' = log /\ loaded' = loaded /\ replies' = replies
  BY DEF Work, ghosts, InputRailAllows, InputRailBlocks, ReadPending, RunConfirmed,
     ContinueConfirmed, ClearConfirmed, CancelPending, RespondText, RespondCall, RunAllowed,
     ContinueAllowed, AskConfirmation, OutputRailAllows, OutputRailBlocks, AppendUser
<1>4. CASE InputRailAllows(t)
  BY <1>1, <1>2, <1>3, <1>4 DEF InputRailAllows, Goto, OthersKeep, KeepsTurn
<1>5. CASE InputRailBlocks(t)
  <2>1. turn' = [turn EXCEPT ![t] = [turn[t] EXCEPT !.kind = "refusal", !.gate = "input"]]
    BY <1>5 DEF InputRailBlocks
  <2>2. turn'[t].kind = "refusal" /\ turn'[t].gate = "input" /\ KeepsTurn(t)
    BY <1>2, <2>1, ExceptKindGate DEF Kinds, Gates, KeepsTurn
  <2> QED BY <1>1, <1>2, <1>3, <1>5, <2>1, <2>2 DEF InputRailBlocks, Goto, OthersKeep
<1>6. CASE ReadPending(t)
  <2> DEFINE p == pending[turn[t].session]
  <2>0. p \in Calls \union {NoCall}
    BY <1>1, BusyTurn DEF TypeOK
  <2>1. CASE p = NoCall
    BY <1>1, <1>2, <1>3, <1>6, <2>1 DEF ReadPending, Goto, OthersKeep, KeepsTurn
  <2>2. CASE p # NoCall /\ turn[t].msg \in {"yes", "no"}
    <3>1. /\ turn' = [turn EXCEPT ![t] = [turn[t] EXCEPT !.call = p]] /\ pc[t] = "pending"
          /\ pc' = [pc EXCEPT ![t] = IF turn[t].msg = "yes" THEN "run" ELSE "cancel"]
      BY <1>6, <2>2 DEF ReadPending, Goto
    <3>2. turn'[t] = [turn[t] EXCEPT !.call = p]
      BY <1>2, <3>1
    <3>3. turn'[t].call = p /\ turn'[t].kind = turn[t].kind /\ KeepsTurn(t)
      BY <1>2, <2>0, <3>2, ExceptCall DEF KeepsTurn
    <3> QED BY <1>1, <1>2, <1>3, <2>2, <3>1, <3>3 DEF OthersKeep, KeepsTurn
  <2>3. CASE p # NoCall /\ turn[t].msg = "other"
    <3>1. /\ turn' = [turn EXCEPT ![t] = [turn[t] EXCEPT !.kind = "nudge"]] /\ pc[t] = "pending"
          /\ pc' = [pc EXCEPT ![t] = "output"]
      BY <1>6, <2>3 DEF ReadPending, Goto, Say
    <3>2. turn'[t].kind = "nudge" /\ KeepsTurn(t)
      BY <1>2, <3>1, ExceptKind DEF Kinds, KeepsTurn
    <3> QED BY <1>1, <1>2, <1>3, <3>1, <3>2 DEF OthersKeep
  <2> QED BY <1>6, <2>1, <2>2, <2>3 DEF ReadPending
<1>7. CASE RunConfirmed(t) \/ RunAllowed(t)
  BY <1>1, <1>2, <1>3, <1>7 DEF RunConfirmed, RunAllowed, Goto, OthersKeep, KeepsTurn
<1>8. CASE ContinueConfirmed(t) \/ RespondText(t) \/ ContinueAllowed(t)
  <2>1. turn' = [turn EXCEPT ![t] = [turn[t] EXCEPT !.kind = "answer"]]
    BY <1>8 DEF ContinueConfirmed, RespondText, ContinueAllowed, Say
  <2>2. \/ pc[t] = "continue" /\ pc' = [pc EXCEPT ![t] = "clear"]
        \/ pc[t] \in {"respond", "explain"} /\ pc' = [pc EXCEPT ![t] = "output"]
    BY <1>8 DEF ContinueConfirmed, RespondText, ContinueAllowed, Say, Goto
  <2>3. turn'[t].call = turn[t].call /\ turn'[t].kind = "answer" /\ KeepsTurn(t)
    BY <1>2, <2>1, ExceptKind DEF Kinds, KeepsTurn
  <2> QED BY <1>1, <1>2, <1>3, <2>1, <2>2, <2>3 DEF OthersKeep
<1>9. CASE ClearConfirmed(t)
  BY <1>1, <1>2, <1>3, <1>9 DEF ClearConfirmed, Goto, OthersKeep, KeepsTurn
<1>10. CASE CancelPending(t)
  <2>1. /\ turn' = [turn EXCEPT ![t] = [turn[t] EXCEPT !.kind = "cancelled"]]
        /\ pc[t] = "cancel" /\ pc' = [pc EXCEPT ![t] = "output"]
    BY <1>10 DEF CancelPending, Say, Goto
  <2>2. turn'[t].kind = "cancelled" /\ KeepsTurn(t)
    BY <1>2, <2>1, ExceptKind DEF Kinds, KeepsTurn
  <2> QED BY <1>1, <1>2, <1>3, <2>1, <2>2 DEF OthersKeep
<1>11. ASSUME NEW n \in Tools, RespondCall(t, n)
       PROVE  /\ OthersKeep(t) /\ KeepsTurn(t) /\ pc[t] = "respond"
              /\ \/ pc'[t] = "output" /\ turn'[t].kind = "deny"
                 \/ /\ pc'[t] \in {"call", "ask"}
                    /\ turn'[t].call.id = turn[t].id /\ turn'[t].kind = turn[t].kind
                    /\ pc'[t] = "call" => loaded[turn'[t].call.name] = "free"
  <2> DEFINE c == [id |-> turn[t].id, name |-> n]
  <2>0. c \in Calls /\ c.id = turn[t].id /\ c.name = n
    BY <1>1, BusyTurn DEF Calls
  <2> HIDE DEF c
  <2>1. CASE /\ turn' = [turn EXCEPT ![t].call = c]
             /\ \/ loaded[n] = "free" /\ Goto(t, "call")
                \/ Goto(t, "ask")
    <3>1. turn'[t] = [turn[t] EXCEPT !.call = c]
      BY <1>2, <2>1
    <3>3. turn'[t].call = c /\ KeepsTurn(t) /\ turn'[t].kind = turn[t].kind
      BY <1>2, <2>0, <3>1, ExceptCall DEF KeepsTurn
    <3> QED BY <1>2, <1>11, <2>0, <2>1, <3>3 DEF OthersKeep, Goto, RespondCall
  <2>2. CASE Say(t, "deny", "output")
    <3>1. turn' = [turn EXCEPT ![t] = [turn[t] EXCEPT !.kind = "deny"]]
          /\ pc' = [pc EXCEPT ![t] = "output"]
      BY <2>2 DEF Say, Goto
    <3>2. turn'[t].kind = "deny" /\ KeepsTurn(t)
      BY <1>2, <3>1, ExceptKind DEF Kinds, KeepsTurn
    <3> QED BY <1>2, <1>11, <3>1, <3>2 DEF OthersKeep, RespondCall
  <2> QED BY <1>11, <2>1, <2>2 DEF RespondCall, c
<1>12. CASE AskConfirmation(t)
  <2>1. /\ turn' = [turn EXCEPT ![t] = [turn[t] EXCEPT !.kind = "prompt"]]
        /\ pc[t] = "ask" /\ pc' = [pc EXCEPT ![t] = "output"]
    BY <1>12 DEF AskConfirmation, Say, Goto
  <2>2. turn'[t].kind = "prompt" /\ KeepsTurn(t)
    BY <1>2, <2>1, ExceptKind DEF Kinds, KeepsTurn
  <2> QED BY <1>1, <1>2, <1>3, <2>1, <2>2 DEF OthersKeep
<1>13. CASE OutputRailAllows(t)
  <2>1. /\ turn' = IF OutputEnabled THEN [turn EXCEPT ![t] = [turn[t] EXCEPT !.gate = "output"]]
                   ELSE turn
        /\ pc[t] = "output" /\ pc' = [pc EXCEPT ![t] = "user"]
    BY <1>13 DEF OutputRailAllows, Goto
  <2>2. CASE OutputEnabled
    <3>1. turn'[t].gate = "output" /\ turn'[t].kind = turn[t].kind /\ KeepsTurn(t)
      BY <1>2, <2>1, <2>2, ExceptGate DEF Gates, KeepsTurn
    <3> QED BY <1>1, <1>2, <1>3, <2>1, <2>2, <3>1 DEF OthersKeep
  <2>3. CASE ~OutputEnabled
    BY <1>1, <1>2, <1>3, <2>1, <2>3 DEF OthersKeep, KeepsTurn
  <2> QED BY <2>2, <2>3
<1>14. CASE OutputRailBlocks(t)
  <2>1. /\ turn' = [turn EXCEPT ![t] = [turn[t] EXCEPT !.kind = "replaced", !.gate = "output"]]
        /\ pc[t] = "output" /\ pc' = [pc EXCEPT ![t] = "user"]
    BY <1>14 DEF OutputRailBlocks, Goto
  <2>2. turn'[t].kind = "replaced" /\ turn'[t].gate = "output" /\ KeepsTurn(t)
    BY <1>2, <2>1, ExceptKindGate DEF Kinds, Gates, KeepsTurn
  <2> QED BY <1>1, <1>2, <1>3, <2>1, <2>2 DEF OthersKeep
<1>15. CASE AppendUser(t)
  BY <1>1, <1>2, <1>3, <1>15 DEF AppendUser, Goto, OthersKeep, KeepsTurn
<1> QED BY <1>1, <1>3, <1>4, <1>5, <1>6, <1>7, <1>8, <1>9, <1>10, <1>11, <1>12, <1>13, <1>14,
           <1>15 DEF Work

-------------------------------------------------------------------------------
(* The Rails hold whatever overlaps, raises or restarts: the Tool Rail's gate, *)
(* the Input Rail's refusal and the Output Rail's check.  Inv is the           *)
(* inductive invariant; it is TypeOK and four parts, each of which says what   *)
(* the next needs to know of the threads.                                      *)
Handled == 1..Len(log)

(* A handler works on a message of the log, alone; what is on record is about *)
(* messages of the log, and a reply is about a turn that has ended.           *)
TurnsOK ==
    /\ \A t \in Threads : Busy(t) =>
          /\ turn[t].id \in Handled
          /\ log[turn[t].id].session = turn[t].session /\ log[turn[t].id].msg = turn[t].msg
    /\ \A t, u \in Threads : Busy(t) /\ Busy(u) /\ turn[t].id = turn[u].id => t = u
    /\ \A e \in executed : e.turn \in Handled
    /\ \A c \in cancelled : c.turn \in Handled
    /\ \A a \in asked : a[2].id \in Handled
    /\ blocked \subseteq Handled
    /\ \A r \in replies : /\ r.turn \in Handled
                          /\ \A t \in Threads : Busy(t) => turn[t].id # r.turn

(* What is pending was asked; the turn that asks is past its question when the *)
(* request can be read, so a "yes" confirms another turn's call.               *)
GateOK ==
    /\ \A s \in Sessions : pending[s] # NoCall => <<s, pending[s]>> \in asked
    /\ \A t \in Threads : pc[t] = "run" =>
          /\ turn[t].msg = "yes" /\ turn[t].call.id # turn[t].id
          /\ <<turn[t].session, turn[t].call>> \in asked
    /\ \A t \in Threads : pc[t] \in {"call", "ask"} => turn[t].call.id = turn[t].id
    /\ \A t \in Threads : pc[t] = "call" => loaded[turn[t].call.name] = "free"
    /\ \A a \in asked, t \in Threads :
          Busy(t) /\ turn[t].id = a[2].id => pc[t] \in {"output", "user", "assistant"}
    /\ RunsOnlyWhenAllowed

(* A refused turn is at its two appends with the refusal in hand; a turn that  *)
(* ran or cancelled a call is past the Input Rail.                             *)
RefusalOK ==
    /\ \A t \in Threads : Busy(t) /\ turn[t].id \in blocked =>
          pc[t] \in {"user", "assistant"} /\ turn[t].kind = "refusal"
    /\ \A t \in Threads : Busy(t) /\ turn[t].kind = "refusal" => turn[t].id \in blocked
    /\ \A e \in executed, t \in Threads :
          Busy(t) /\ turn[t].id = e.turn => pc[t] # "input"
    /\ \A c \in cancelled, t \in Threads :
          Busy(t) /\ turn[t].id = c.turn => pc[t] # "input"
    /\ BlockedIsInert

CheckedOK ==
    /\ OutputEnabled =>
          \A t \in Threads : pc[t] \in {"user", "assistant"} =>
             turn[t].gate = "output" \/ turn[t].id \in blocked
    /\ NothingLeavesUnchecked

-------------------------------------------------------------------------------
(* What a step inside the handler of thread t writes outside its locals.     *)
WorkWrites(t) ==
    /\ \/ executed' = executed
       \/ /\ pc[t] \in {"run", "call"}
          /\ executed' = executed \union {[call |-> turn[t].call, turn |-> turn[t].id,
                                           mode |-> loaded[turn[t].call.name]]}
    /\ \/ cancelled' = cancelled
       \/ pc[t] = "cancel" /\ Cancel(t)
    /\ \/ asked' = asked
       \/ pc[t] = "ask" /\ asked' = asked \union {<<turn[t].session, turn[t].call>>}
    /\ \/ blocked' = blocked
       \/ pc[t] = "input" /\ blocked' = blocked \union {turn[t].id}
    /\ \A s \in Sessions : 
          \/ pending'[s] \in {pending[s], NoCall}
          \/ pc[t] = "ask" /\ <<s, pending'[s]>> \in asked'

(* A write to the store moves no other Session's request, except out.        *)
LEMMA UpsertPending ==
    ASSUME TypeOK, NEW s \in Sessions, NEW p, NEW h, Upsert(s, p, h)
    PROVE  /\ pending'[s] = p
           /\ \A x \in Sessions \ {s} : pending'[x] \in {pending[x], NoCall}
  BY DEF Upsert

LEMMA WorkWritesOnly == ASSUME TypeOK, NEW t \in Threads, Work(t) PROVE WorkWrites(t)
<1>1. /\ turn[t].session \in Sessions
  <2>1. Busy(t)
    BY WorkMoves
  <2> QED BY <2>1, BusyTurn
<1>2. CASE \/ InputRailAllows(t) \/ ReadPending(t) \/ ContinueConfirmed(t) \/ RespondText(t)
           \/ (\E n \in Tools : RespondCall(t, n)) \/ ContinueAllowed(t)
           \/ OutputRailAllows(t) \/ OutputRailBlocks(t)
  BY <1>2 DEF InputRailAllows, ReadPending, ContinueConfirmed, RespondText, RespondCall,
     ContinueAllowed, OutputRailAllows, OutputRailBlocks, store, ghosts, WorkWrites
<1>3. CASE InputRailBlocks(t)
  BY <1>3 DEF InputRailBlocks, store, WorkWrites
<1>4. CASE RunConfirmed(t) \/ RunAllowed(t)
  BY <1>4 DEF RunConfirmed, RunAllowed, Execute, store, WorkWrites
<1>5. CASE ClearConfirmed(t) \/ CancelPending(t)
  <2>1. \A s \in Sessions : pending'[s] \in {pending[s], NoCall}
    BY <1>1, <1>5, UpsertPending DEF ClearConfirmed, CancelPending, SetPending
  <2> QED BY <1>5, <2>1 DEF ClearConfirmed, CancelPending, ghosts, WorkWrites
<1>6. CASE AppendUser(t)
  <2>1. \A s \in Sessions : pending'[s] \in {pending[s], NoCall}
    BY <1>1, <1>6, UpsertPending DEF AppendUser, AppendTurn
  <2> QED BY <1>6, <2>1 DEF AppendUser, ghosts, WorkWrites
<1>7. CASE AskConfirmation(t)
  <2>1. /\ pending'[turn[t].session] = turn[t].call
        /\ \A s \in Sessions \ {turn[t].session} : pending'[s] \in {pending[s], NoCall}
    BY <1>1, <1>7, UpsertPending DEF AskConfirmation, SetPending
  <2> QED BY <1>7, <2>1 DEF AskConfirmation, WorkWrites
<1> QED BY <1>2, <1>3, <1>4, <1>5, <1>6, <1>7 DEF Work

(* A handler's return and its failure free the thread and log nothing but    *)
(* the reply.                                                                *)
LeavesOnly(t) ==
    /\ Busy(t) /\ ~Busy(t)' /\ OthersKeep(t)
    /\ log' = log /\ loaded' = loaded
    /\ executed' = executed /\ cancelled' = cancelled /\ asked' = asked /\ blocked' = blocked
    /\ \A s \in Sessions : pending'[s] \in {pending[s], NoCall}
    /\ \/ replies' = replies
       \/ /\ pc[t] = "assistant"
          /\ replies' = replies \union {[turn |-> turn[t].id, kind |-> turn[t].kind,
                                         gate |-> turn[t].gate]}

LEMMA LeaveLeaves ==
    ASSUME TypeOK, NEW t \in Threads, AppendAssistant(t) \/ Raise(t) PROVE LeavesOnly(t)
<1>1. turn[t].session \in Sessions /\ Busy(t)
  <2>1. Busy(t)
    BY ConstantsAssumption DEF AppendAssistant, Raise, Busy
  <2> QED BY <2>1, BusyTurn
<1>2. pc \in [Threads -> Steps] /\ turn \in [Threads -> Turns \union {NoTurn}]
  BY DEF TypeOK
<1>3. \A s \in Sessions : pending'[s] \in {pending[s], NoCall}
  BY <1>1, UpsertPending DEF AppendAssistant, AppendTurn, Raise, store
<1> QED BY <1>1, <1>2, <1>3 DEF AppendAssistant, Raise, Goto, Busy, OthersKeep, LeavesOnly, ghosts

(* The steps that leave every handler where it is.                           *)
Still ==
    /\ UNCHANGED <<pc, turn, pending, loaded, log, executed, cancelled, asked, blocked, replies>>

LEMMA StillSteps ==
    ASSUME UNCHANGED vars \/ \E s \in Sessions : RowAges(s) PROVE Still
  BY DEF vars, store, ghosts, RowAges, Still

(* The other steps: one thread begins, works or leaves, or all are gone.     *)
LEMMA StepKinds ==
    ASSUME TypeOK, [Next]_vars
    PROVE  \/ \E t \in Threads, s \in Sessions, m \in Messages : Begin(t, s, m)
           \/ \E t \in Threads : Work(t)
           \/ \E t \in Threads : LeavesOnly(t)
           \/ Restart
           \/ Still
  BY LeaveLeaves, StillSteps DEF Next, Handle

(* A message that arrives is a fresh entry of the log on a free thread.      *)
BeginsOnly(t, s, m) ==
    /\ ~Busy(t) /\ pc'[t] = "input" /\ OthersKeep(t)
    /\ turn'[t].id = Len(log) + 1 /\ turn'[t].session = s /\ turn'[t].msg = m
    /\ turn'[t].kind = "none"
    /\ Len(log') = Len(log) + 1 /\ \A i \in Handled : log'[i] = log[i]
    /\ log'[Len(log) + 1].session = s /\ log'[Len(log) + 1].msg = m
    /\ UNCHANGED <<pending, loaded, executed, cancelled, asked, blocked, replies>>

LEMMA BeginBegins ==
    ASSUME TypeOK, NEW t \in Threads, NEW s \in Sessions, NEW m \in Messages, Begin(t, s, m)
    PROVE  BeginsOnly(t, s, m)
<1>1. pc \in [Threads -> Steps] /\ turn \in [Threads -> Turns \union {NoTurn}]
      /\ log \in Seq([session : Sessions, msg : Messages]) /\ Len(log) \in Nat
  BY DEF TypeOK
<1> DEFINE entry == [session |-> s, msg |-> m]
           locals == [id |-> Len(log) + 1, session |-> s, msg |-> m,
                      call |-> NoCall, kind |-> "none", gate |-> "unchecked"]
<1>2. /\ locals.id = Len(log) + 1 /\ locals.session = s /\ locals.msg = m
      /\ locals.kind = "none" /\ entry.session = s /\ entry.msg = m
      /\ entry \in [session : Sessions, msg : Messages]
  OBVIOUS
<1>3. log' = Append(log, entry) /\ turn' = [turn EXCEPT ![t] = locals]
      /\ pc' = [pc EXCEPT ![t] = "input"] /\ ~Busy(t)
      /\ UNCHANGED <<pending, loaded, executed, cancelled, asked, blocked, replies>>
  BY DEF Begin, Goto, store
<1> HIDE DEF entry, locals
<1>4. /\ Len(log') = Len(log) + 1 /\ \A i \in Handled : log'[i] = log[i]
      /\ log'[Len(log) + 1] = entry
  BY <1>1, <1>2, <1>3 DEF Handled
<1>5. turn'[t] = locals /\ pc'[t] = "input" /\ OthersKeep(t)
  BY <1>1, <1>3 DEF OthersKeep
<1> QED BY <1>2, <1>3, <1>4, <1>5 DEF BeginsOnly

-------------------------------------------------------------------------------
(* What a turn knows of the log stays true: threads never share a message.   *)
LEMMA TurnsStep == ASSUME TypeOK, TurnsOK, GateOK, [Next]_vars PROVE TurnsOK'
<1>0. Len(log) \in Nat /\ Handled \subseteq Nat
  BY DEF TypeOK, Handled
<1>1. ASSUME NEW t \in Threads, NEW s \in Sessions, NEW m \in Messages, BeginsOnly(t, s, m)
      PROVE  TurnsOK'
  <2>1. Handled' = Handled \union {Len(log) + 1} /\ Len(log) + 1 \notin Handled
    BY <1>0, <1>1 DEF BeginsOnly, Handled
  <2>2. \A u \in Threads : Busy(u)' <=> u = t \/ Busy(u)
    BY <1>1 DEF BeginsOnly, OthersKeep, Busy
  <2>3. \A u \in Threads \ {t} : turn'[u] = turn[u]
    BY <1>1 DEF BeginsOnly, OthersKeep
  <2> QED BY <1>1, <2>1, <2>2, <2>3 DEF BeginsOnly, TurnsOK
<1>2. ASSUME NEW t \in Threads, Work(t) PROVE TurnsOK'
  <2>1. /\ Busy(t) /\ log' = log /\ replies' = replies /\ KeepsTurn(t) /\ OthersKeep(t)
    BY <1>2, WorkMoves
  <2>2. /\ Handled' = Handled
        /\ \A u \in Threads : Busy(u)' => Busy(u) /\ turn'[u].id = turn[u].id
              /\ turn'[u].session = turn[u].session /\ turn'[u].msg = turn[u].msg
    BY <2>1 DEF Handled, OthersKeep, KeepsTurn, Busy
  <2>3. WorkWrites(t) /\ turn[t].id \in Handled
    BY <1>2, <2>1, WorkWritesOnly DEF TurnsOK
  <2>4. pc[t] = "ask" => turn[t].call.id = turn[t].id
    BY DEF GateOK
  <2>5. /\ \A e \in executed' : e.turn \in Handled
        /\ \A c \in cancelled' : c.turn \in Handled
        /\ \A a \in asked' : a[2].id \in Handled
        /\ blocked' \subseteq Handled
    BY <2>3, <2>4 DEF WorkWrites, Cancel, TurnsOK
  <2> QED BY <2>1, <2>2, <2>5 DEF TurnsOK
<1>3. ASSUME NEW t \in Threads, LeavesOnly(t) PROVE TurnsOK'
  <2>1. /\ Handled' = Handled
        /\ \A u \in Threads : Busy(u)' => u # t /\ Busy(u) /\ turn'[u] = turn[u]
    BY <1>3 DEF LeavesOnly, OthersKeep, Busy, Handled
  <2>2. \A r \in replies' : r \in replies \/ r.turn = turn[t].id
    BY <1>3 DEF LeavesOnly
  <2> QED BY <1>3, <2>1, <2>2 DEF LeavesOnly, TurnsOK
<1>4. CASE Restart
  <2>1. \A t \in Threads : ~Busy(t)'
    BY <1>4 DEF Restart, Busy
  <2> QED BY <1>4, <2>1 DEF Restart, TurnsOK, Handled, ghosts
<1>5. CASE Still
  BY <1>5 DEF Still, TurnsOK, Handled, Busy
<1> QED BY <1>1, <1>2, <1>3, <1>4, <1>5, StepKinds, BeginBegins

(* Who may run which call, whatever the other threads do meanwhile.          *)
LEMMA GateStep == ASSUME TypeOK, TurnsOK, GateOK, [Next]_vars PROVE GateOK'
<1>0. Len(log) \in Nat /\ Len(log) + 1 \notin Handled
  BY DEF TypeOK, Handled
<1>1. ASSUME NEW t \in Threads, NEW s \in Sessions, NEW m \in Messages, BeginsOnly(t, s, m)
      PROVE  GateOK'
  <2>1. /\ \A u \in Threads \ {t} : turn'[u] = turn[u] /\ pc'[u] = pc[u]
        /\ \A a \in asked : a[2].id # turn'[t].id
    BY <1>0, <1>1 DEF BeginsOnly, OthersKeep, TurnsOK
  <2>2. RunsOnlyWhenAllowed'
    BY <1>1 DEF BeginsOnly, RunsOnlyWhenAllowed, TurnsOK, GateOK
  <2> QED BY <1>1, <2>1, <2>2 DEF BeginsOnly, GateOK, Busy
<1>2. ASSUME NEW t \in Threads, Work(t) PROVE GateOK'
  <2>1. /\ Busy(t) /\ log' = log /\ loaded' = loaded /\ KeepsTurn(t) /\ OthersKeep(t)
        /\ WorkWrites(t) /\ turn[t].session \in Sessions /\ turn[t].id \in Handled
    BY <1>2, WorkMoves, WorkWritesOnly, BusyTurn DEF TurnsOK
  <2>2. \A s \in Sessions : pending'[s] # NoCall => <<s, pending'[s]>> \in asked'
    BY <2>1 DEF WorkWrites, GateOK
  <2>3. ASSUME pc'[t] = "run"
        PROVE  /\ turn'[t].msg = "yes" /\ turn'[t].call.id # turn'[t].id
               /\ <<turn'[t].session, turn'[t].call>> \in asked'
    <3>1. /\ pc[t] = "pending" /\ pending[turn[t].session] # NoCall
          /\ turn'[t].call = pending[turn[t].session] /\ turn[t].msg = "yes"
      BY <1>2, <2>3, WorkMoves
    <3>2. <<turn[t].session, turn'[t].call>> \in asked
      BY <2>1, <3>1 DEF GateOK
    <3>3. turn'[t].call.id # turn[t].id
      BY <2>1, <3>1, <3>2 DEF GateOK
    <3> QED BY <2>1, <3>1, <3>2, <3>3 DEF KeepsTurn, WorkWrites
  <2>4. /\ pc'[t] \in {"call", "ask"} => turn'[t].call.id = turn'[t].id
        /\ pc'[t] = "call" => loaded'[turn'[t].call.name] = "free"
    BY <1>2, <2>1, WorkMoves DEF KeepsTurn
  <2>5. pc[t] \in {"ask", "output", "user"} => pc'[t] \in {"output", "user", "assistant"}
    BY <1>2, WorkMoves
  <2>6. \A a \in asked' :
         a \in asked \/ (a[2].id = turn[t].id /\ pc[t] = "ask")
    BY <2>1 DEF WorkWrites, GateOK
  <2>7. pc[t] # "assistant"
    BY <1>2, WorkMoves
  <2>8. ASSUME NEW a \in asked', NEW u \in Threads, Busy(u)', turn'[u].id = a[2].id
        PROVE  pc'[u] \in {"output", "user", "assistant"}
    <3>1. Busy(u) /\ turn[u].id = a[2].id
      BY <2>1, <2>8 DEF OthersKeep, KeepsTurn, Busy
    <3>2. CASE u = t
      BY <2>5, <2>6, <2>7, <3>1, <3>2 DEF GateOK
    <3>3. CASE u # t
      <4>1. a \in asked
        BY <2>1, <2>6, <3>1, <3>3 DEF TurnsOK
      <4> QED BY <2>1, <3>1, <3>3, <4>1 DEF OthersKeep, GateOK
    <3> QED BY <3>2, <3>3
  <2>9. RunsOnlyWhenAllowed'
    <3> SUFFICES ASSUME NEW e \in executed'
                 PROVE  \/ e.turn = e.call.id /\ e.mode = "free"
                        \/ /\ e.turn # e.call.id
                           /\ log[e.turn].msg = "yes"
                           /\ <<log[e.turn].session, e.call>> \in asked'
      BY <2>1 DEF RunsOnlyWhenAllowed
    <3>1. asked \subseteq asked'
      BY <2>1 DEF WorkWrites
    <3>2. CASE e \in executed
      BY <3>1, <3>2 DEF GateOK, RunsOnlyWhenAllowed
    <3>3. CASE e \notin executed
      <4>1. /\ pc[t] \in {"run", "call"}
            /\ e.call = turn[t].call /\ e.turn = turn[t].id
            /\ e.mode = loaded[turn[t].call.name]
        BY <2>1, <3>3 DEF WorkWrites
      <4>2. log[turn[t].id].session = turn[t].session /\ log[turn[t].id].msg = turn[t].msg
        BY <2>1 DEF TurnsOK
      <4> QED BY <3>1, <4>1, <4>2 DEF GateOK
    <3> QED BY <3>2, <3>3
  <2>10. \A u \in Threads \ {t} : turn'[u] = turn[u] /\ pc'[u] = pc[u]
    BY <2>1 DEF OthersKeep
  <2>11. asked \subseteq asked'
    BY <2>1 DEF WorkWrites
  <2>12. \A u \in Threads : pc'[u] = "run" =>
            /\ turn'[u].msg = "yes" /\ turn'[u].call.id # turn'[u].id
            /\ <<turn'[u].session, turn'[u].call>> \in asked'
    BY <2>3, <2>10, <2>11 DEF GateOK
  <2>13. \A u \in Threads : pc'[u] \in {"call", "ask"} => turn'[u].call.id = turn'[u].id
    BY <2>4, <2>10 DEF GateOK
  <2>14. \A u \in Threads : pc'[u] = "call" => loaded'[turn'[u].call.name] = "free"
    BY <2>1, <2>4, <2>10 DEF GateOK
  <2> QED BY <2>2, <2>8, <2>9, <2>12, <2>13, <2>14 DEF GateOK
<1>3. ASSUME NEW t \in Threads, LeavesOnly(t) PROVE GateOK'
  <2>1. \A u \in Threads : Busy(u)' => Busy(u) /\ turn'[u] = turn[u] /\ pc'[u] = pc[u]
    BY <1>3 DEF LeavesOnly, OthersKeep, Busy
  <2>2. \A u \in Threads : pc'[u] \in {"run", "call", "ask"} => Busy(u)'
    BY DEF Busy
  <2>3. RunsOnlyWhenAllowed'
    BY <1>3 DEF LeavesOnly, RunsOnlyWhenAllowed, GateOK
  <2> QED BY <1>3, <2>1, <2>2, <2>3 DEF LeavesOnly, GateOK
<1>4. CASE Restart
  <2>1. \A t \in Threads : pc'[t] = "idle"
    BY <1>4 DEF Restart
  <2> QED BY <1>4, <2>1 DEF Restart, GateOK, RunsOnlyWhenAllowed, ghosts, Busy
<1>5. CASE Still
  BY <1>5 DEF Still, GateOK, RunsOnlyWhenAllowed, Busy
<1> QED BY <1>1, <1>2, <1>3, <1>4, <1>5, StepKinds, BeginBegins

(* A refused turn does nothing but be answered.                              *)
LEMMA RefusalStep == ASSUME TypeOK, TurnsOK, GateOK, RefusalOK, [Next]_vars PROVE RefusalOK'
<1>0. Len(log) \in Nat /\ Len(log) + 1 \notin Handled
  BY DEF TypeOK, Handled
<1>1. ASSUME NEW t \in Threads, NEW s \in Sessions, NEW m \in Messages, BeginsOnly(t, s, m)
      PROVE  RefusalOK'
  <2>1. \A u \in Threads \ {t} : turn'[u] = turn[u] /\ pc'[u] = pc[u]
    BY <1>1 DEF BeginsOnly, OthersKeep
  <2>2. /\ turn'[t].id \notin blocked /\ \A e \in executed : turn'[t].id # e.turn
        /\ \A c \in cancelled : turn'[t].id # c.turn
    BY <1>0, <1>1 DEF BeginsOnly, TurnsOK
  <2>3. BlockedIsInert'
    BY <1>1 DEF BeginsOnly, BlockedIsInert, RefusalOK
  <2> QED BY <1>1, <2>1, <2>2, <2>3 DEF BeginsOnly, RefusalOK, Busy
<1>2. ASSUME NEW t \in Threads, Work(t) PROVE RefusalOK'
  <2>1. /\ Busy(t) /\ replies' = replies /\ KeepsTurn(t) /\ OthersKeep(t) /\ WorkWrites(t)
        /\ \A u \in Threads \ {t} : turn'[u] = turn[u] /\ pc'[u] = pc[u]
        /\ \A u \in Threads : Busy(u)' => Busy(u) /\ turn'[u].id = turn[u].id
    BY <1>2, WorkMoves, WorkWritesOnly DEF OthersKeep, KeepsTurn, Busy
  <2>2. CASE InputRailBlocks(t)
    <3>1. /\ executed' = executed /\ asked' = asked /\ cancelled' = cancelled
          /\ blocked' = blocked \union {turn[t].id}
          /\ pc[t] = "input"
      BY <2>2 DEF InputRailBlocks
    <3>2. pc'[t] = "user" /\ turn'[t].kind = "refusal"
      BY <1>2, <2>2, <3>1, WorkMoves DEF InputRailBlocks, TypeOK, Goto
    <3>3. /\ \A e \in executed : e.turn # turn[t].id
          /\ \A c \in cancelled : c.turn # turn[t].id
      BY <2>1, <3>1 DEF RefusalOK
    <3>4. \A a \in asked : a[2].id # turn[t].id
      BY <2>1, <3>1 DEF GateOK
    <3>5. \A e \in executed : e.call.id # turn[t].id
      <4>1. \A e \in executed : e.turn = e.call.id \/ <<log[e.turn].session, e.call>> \in asked
        BY DEF GateOK, RunsOnlyWhenAllowed
      <4> QED BY <3>3, <3>4, <4>1
    <3>6. \A r \in replies : r.turn # turn[t].id
      BY <2>1 DEF TurnsOK
    <3>7. BlockedIsInert'
      BY <2>1, <3>1, <3>3, <3>4, <3>5, <3>6 DEF BlockedIsInert, RefusalOK
    <3>8. \A u \in Threads \ {t} : Busy(u) => turn[u].id # turn[t].id
      BY <2>1 DEF TurnsOK
    <3> QED BY <2>1, <3>1, <3>2, <3>3, <3>7, <3>8 DEF RefusalOK
  <2>3. CASE ~InputRailBlocks(t)
    <3>1. blocked' = blocked
      BY <1>2, <2>3 DEF Work, ghosts, InputRailAllows, ReadPending, RunConfirmed,
         ContinueConfirmed, ClearConfirmed, CancelPending, RespondText, RespondCall, RunAllowed,
         ContinueAllowed, AskConfirmation, OutputRailAllows, OutputRailBlocks, AppendUser
    <3>2. /\ pc'[t] # "input"
          /\ pc[t] = "user" => pc'[t] = "assistant" /\ turn' = turn
          /\ pc[t] # "assistant"
          /\ turn'[t].kind = "refusal" => turn[t].kind = "refusal"
      BY <1>2, <2>3, WorkMoves
    <3>3. turn[t].id \in blocked => pc[t] \in {"user", "assistant"}
      BY <2>1 DEF RefusalOK
    <3>4. \A a \in asked' : a[2].id \notin blocked
      <4>1. \A a \in asked' :
             a \in asked \/ (a[2].id = turn[t].id /\ pc[t] = "ask")
        BY <2>1 DEF WorkWrites, GateOK
      <4> QED BY <3>3, <4>1 DEF RefusalOK, BlockedIsInert
    <3>5. \A e \in executed' : \/ e \in executed
                                \/ /\ pc[t] \in {"run", "call"}
                                   /\ e.call = turn[t].call /\ e.turn = turn[t].id
      BY <2>1 DEF WorkWrites
    <3>6. pc[t] \in {"run", "call"} => turn[t].call.id \notin blocked
      <4>1. CASE pc[t] = "run"
        BY <4>1 DEF GateOK, RefusalOK, BlockedIsInert
      <4>2. CASE pc[t] = "call"
        BY <3>3, <4>2 DEF GateOK
      <4> QED BY <4>1, <4>2
    <3>7. \A c \in cancelled' :
             c \in cancelled \/ (pc[t] = "cancel" /\ c.turn = turn[t].id)
      BY <2>1 DEF WorkWrites, Cancel
    <3>8. \A c \in cancelled' : c.turn \notin blocked
      BY <3>3, <3>7 DEF RefusalOK, BlockedIsInert
    <3>9. \A c \in cancelled', u \in Threads : Busy(u)' /\ turn'[u].id = c.turn => pc'[u] # "input"
      <4>1. \A u \in Threads : pc'[u] = "input" => u # t /\ pc[u] = "input" /\ turn[u].id # turn[t].id
        BY <2>1, <3>2 DEF TurnsOK, Busy
      <4> QED BY <2>1, <3>7, <4>1 DEF RefusalOK
    <3>10. BlockedIsInert'
      BY <2>1, <3>1, <3>3, <3>4, <3>5, <3>6, <3>8 DEF BlockedIsInert, RefusalOK
    <3>11. \A e \in executed', u \in Threads : Busy(u)' /\ turn'[u].id = e.turn => pc'[u] # "input"
      <4>1. \A u \in Threads : pc'[u] = "input" => u # t /\ pc[u] = "input" /\ turn[u].id # turn[t].id
        BY <2>1, <3>2 DEF TurnsOK, Busy
      <4> QED BY <2>1, <3>5, <4>1 DEF RefusalOK
    <3>12. \A u \in Threads : Busy(u)' /\ turn'[u].id \in blocked =>
            pc'[u] \in {"user", "assistant"} /\ turn'[u].kind = "refusal"
      BY <2>1, <3>2, <3>3 DEF RefusalOK
    <3>13. \A u \in Threads : Busy(u)' /\ turn'[u].kind = "refusal" => turn'[u].id \in blocked
      BY <2>1, <3>2 DEF RefusalOK
    <3> QED BY <3>1, <3>10, <3>11, <3>12, <3>13, <3>9 DEF RefusalOK
  <2> QED BY <2>2, <2>3
<1>3. ASSUME NEW t \in Threads, LeavesOnly(t) PROVE RefusalOK'
  <2>1. \A u \in Threads : Busy(u)' => Busy(u) /\ turn'[u] = turn[u] /\ pc'[u] = pc[u]
    BY <1>3 DEF LeavesOnly, OthersKeep, Busy
  <2>2. turn[t].id \in blocked <=> turn[t].kind = "refusal"
    BY <1>3 DEF LeavesOnly, RefusalOK
  <2>3. \A r \in replies' : r \in replies \/ (r.turn = turn[t].id /\ r.kind = turn[t].kind)
    BY <1>3 DEF LeavesOnly
  <2>4. BlockedIsInert'
    BY <1>3, <2>2, <2>3 DEF LeavesOnly, BlockedIsInert, RefusalOK
  <2> QED BY <1>3, <2>1, <2>4 DEF LeavesOnly, RefusalOK
<1>4. CASE Restart
  <2>1. \A t \in Threads : ~Busy(t)'
    BY <1>4 DEF Restart, Busy
  <2> QED BY <1>4, <2>1 DEF Restart, RefusalOK, BlockedIsInert, ghosts
<1>5. CASE Still
  BY <1>5 DEF Still, RefusalOK, BlockedIsInert, Busy
<1> QED BY <1>1, <1>2, <1>3, <1>4, <1>5, StepKinds, BeginBegins

(* What is about to be returned has passed the Output Rail or is a refusal.  *)
LEMMA CheckedStep ==
    ASSUME TypeOK, TurnsOK, CheckedOK, [Next]_vars PROVE CheckedOK'
<1>1. ASSUME NEW t \in Threads, NEW s \in Sessions, NEW m \in Messages, BeginsOnly(t, s, m)
      PROVE  CheckedOK'
  BY <1>1 DEF BeginsOnly, OthersKeep, CheckedOK, NothingLeavesUnchecked
<1>2. ASSUME NEW t \in Threads, Work(t) PROVE CheckedOK'
  <2>1. replies' = replies /\ OthersKeep(t) /\ KeepsTurn(t) /\ blocked \subseteq blocked'
    BY <1>2, WorkMoves, WorkWritesOnly DEF WorkWrites
  <2>2. InputRailBlocks(t) => turn[t].id \in blocked'
    BY DEF InputRailBlocks
  <2>3. OutputEnabled /\ pc'[t] \in {"user", "assistant"} =>
          turn'[t].gate = "output" \/ turn'[t].id \in blocked'
    <3>1. \/ pc'[t] = "user" /\ InputRailBlocks(t)
          \/ pc'[t] = "user" /\ (OutputEnabled => turn'[t].gate = "output")
          \/ pc[t] = "user" /\ turn' = turn
          \/ pc'[t] \notin {"user", "assistant"}
      BY <1>2, WorkMoves
    <3> QED BY <2>1, <2>2, <3>1 DEF KeepsTurn, CheckedOK
  <2> QED BY <2>1, <2>3 DEF OthersKeep, CheckedOK, NothingLeavesUnchecked
<1>3. ASSUME NEW t \in Threads, LeavesOnly(t) PROVE CheckedOK'
  BY <1>3 DEF LeavesOnly, OthersKeep, Busy, CheckedOK, NothingLeavesUnchecked
<1>4. CASE Restart
  BY <1>4 DEF Restart, CheckedOK, NothingLeavesUnchecked, ghosts
<1>5. CASE Still
  BY <1>5 DEF Still, CheckedOK, NothingLeavesUnchecked
<1> QED BY <1>1, <1>2, <1>3, <1>4, <1>5, StepKinds, BeginBegins

-------------------------------------------------------------------------------
Inv == TypeOK /\ TurnsOK /\ GateOK /\ RefusalOK /\ CheckedOK

(* The inductive invariant holds in every state (conversation.py:79-223).    *)
THEOREM Invariant == Spec => []Inv
<1>1. Init => Inv
  <2>1. Init => TypeOK
    BY TypeInit
  <2>2. Init => TurnsOK /\ GateOK /\ RefusalOK /\ CheckedOK
    BY DEF Init, TurnsOK, GateOK, RefusalOK, CheckedOK, Busy, Handled, RunsOnlyWhenAllowed,
       BlockedIsInert, NothingLeavesUnchecked
  <2> QED BY <2>1, <2>2 DEF Inv
<1>2. Inv /\ [Next]_vars => Inv'
  BY TypeStep, TurnsStep, GateStep, RefusalStep, CheckedStep DEF Inv
<1> QED BY <1>1, <1>2, PTL DEF Spec

(* For any threads, Sessions, Tools and policies, a tool call runs either in  *)
(* the turn that made it under a policy that frees it, or in another turn of  *)
(* the Session it was asked in whose message was "yes", however the handlers  *)
(* interleave, raise or die (conversation.py:118-214).                        *)
THEOREM ToolGateHolds == Spec => []RunsOnlyWhenAllowed
<1>1. Inv => RunsOnlyWhenAllowed
  BY DEF Inv, GateOK
<1> QED BY <1>1, Invariant, PTL

(* A message the Input Rail refused runs, asks and cancels nothing, and its   *)
(* refusal is the only reply with that text (conversation.py:99-104).         *)
THEOREM RefusalIsInert == Spec => []BlockedIsInert
<1>1. Inv => BlockedIsInert
  BY DEF Inv, RefusalOK
<1> QED BY <1>1, Invariant, PTL

(* With the Output Rail on, a reply passed it or is the Input Rail's refusal  *)
(* (conversation.py:91-98, 112).                                              *)
THEOREM RepliesAreChecked == Spec => []NothingLeavesUnchecked
<1>1. Inv => NothingLeavesUnchecked
  BY DEF Inv, CheckedOK
<1> QED BY <1>1, Invariant, PTL
===============================================================================
