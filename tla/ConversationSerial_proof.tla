------------------------ MODULE ConversationSerial_proof ------------------------
(***************************************************************************)
(* Proofs about the Sessions of Conversation whose messages are handled    *)
(* one after the other: the conditions under which a confirmed call runs   *)
(* at most once and a cancellation is the truth, the refinement of the     *)
(* abstract gate under them, and the conditions under which a Session's    *)
(* history, and the transcripts made of it, are whole.  The runs           *)
(* conv_yes_twice and conv_false_cancel break the first two by dropping a  *)
(* condition.                                                              *)
(***************************************************************************)
EXTENDS Conversation_proof, Transcript

(* The steps after which a confirmed call has run and is still pending.      *)
Confirmed == {"continue", "clear"}

(* One handler per Session; no failure and no crash between running a        *)
(* confirmed call and clearing it.                                           *)
Serial == ~Overlap /\ Faults \intersect Confirmed = {} /\ ~CrashAnywhere

Ran == {e.call : e \in executed}
Clearing(t, s) == pc[t] \in Confirmed /\ turn[t].session = s /\ turn[t].call = pending[s]

(* A pending call has neither been cancelled nor run, but for the handler    *)
(* that is about to clear it; a handler that answers a request holds the one *)
(* that is pending, unless the sweep has taken it; a call is asked once.     *)
SerialOK ==
    /\ \A t, u \in Threads :
          Busy(t) /\ Busy(u) /\ turn[t].session = turn[u].session => t = u
    /\ \A t \in Threads : pc[t] \in {"run", "cancel"} \union Confirmed =>
          /\ pending[turn[t].session] \in {turn[t].call, NoCall}
          /\ <<turn[t].session, turn[t].call>> \in asked
    /\ \A t \in Threads : pc[t] \in {"run", "cancel"} =>
          turn[t].call \notin CancelledCalls /\ turn[t].call \notin Ran
    /\ \A s \in Sessions : pending[s] # NoCall =>
          /\ pending[s] \notin CancelledCalls
          /\ pending[s] \in Ran => \E t \in Threads : Clearing(t, s)
    /\ \A a, b \in asked : a[2] = b[2] => a = b
    /\ \A c \in CancelledCalls : \E a \in asked : a[2] = c
    /\ \A e \in executed, t \in Threads : Busy(t) /\ turn[t].id = e.turn =>
          pc[t] \in Confirmed \union {"explain", "output", "user", "assistant"}
    /\ AtMostOnce /\ CancelledNeverRan

-------------------------------------------------------------------------------
(* What a step writes of the requests: it asks or settles its own Session's, *)
(* and the sweep may take another's.                                         *)
RequestWrites(t) ==
    /\ \/ CancelledCalls' = CancelledCalls
       \/ pc[t] = "cancel" /\ CancelledCalls' = CancelledCalls \union {turn[t].call}
    /\ \A s \in Sessions \ {turn[t].session} : pending'[s] \in {pending[s], NoCall}
    /\ LET p == pending'[turn[t].session] IN
       \/ pc[t] \in {"clear", "cancel"} /\ p = NoCall
       \/ pc[t] = "ask" /\ p = turn[t].call
       \/ pc[t] \notin {"clear", "cancel", "ask"} /\ p = pending[turn[t].session]

LEMMA CancelAdds ==
    ASSUME NEW t \in Threads
    PROVE  /\ cancelled' = cancelled => CancelledCalls' = CancelledCalls
           /\ Cancel(t) => CancelledCalls' = CancelledCalls \union {turn[t].call}
<1> DEFINE c == [call |-> turn[t].call, turn |-> turn[t].id]
<1>1. c.call = turn[t].call
  OBVIOUS
<1>2. Cancel(t) => cancelled' = cancelled \union {c}
  BY DEF Cancel
<1> HIDE DEF c
<1> QED BY <1>1, <1>2 DEF CancelledCalls

LEMMA WorkRequests == ASSUME TypeOK, NEW t \in Threads, Work(t) PROVE RequestWrites(t)
<1>1. turn[t].session \in Sessions /\ Busy(t)
  <2>1. Busy(t)
    BY WorkMoves
  <2> QED BY <2>1, BusyTurn
<1>2. CASE \/ InputRailAllows(t) \/ ReadPending(t) \/ ContinueConfirmed(t) \/ RespondText(t)
           \/ (\E n \in Tools : RespondCall(t, n)) \/ ContinueAllowed(t)
           \/ OutputRailAllows(t) \/ OutputRailBlocks(t) \/ InputRailBlocks(t)
           \/ RunConfirmed(t) \/ RunAllowed(t)
  BY <1>2, CancelAdds DEF InputRailAllows, ReadPending, ContinueConfirmed, RespondText, RespondCall,
     ContinueAllowed, OutputRailAllows, OutputRailBlocks, InputRailBlocks, RunConfirmed,
     RunAllowed, store, ghosts, RequestWrites
<1>3. CASE ClearConfirmed(t)
  BY <1>1, <1>3, UpsertPending, CancelAdds DEF ClearConfirmed, SetPending, ghosts, RequestWrites
<1>4. CASE CancelPending(t)
  BY <1>1, <1>4, UpsertPending, CancelAdds DEF CancelPending, SetPending, RequestWrites
<1>5. CASE AskConfirmation(t)
  BY <1>1, <1>5, UpsertPending, CancelAdds DEF AskConfirmation, SetPending, RequestWrites
<1>6. CASE AppendUser(t)
  BY <1>1, <1>6, UpsertPending, CancelAdds DEF AppendUser, AppendTurn, ghosts, RequestWrites
<1> QED BY <1>2, <1>3, <1>4, <1>5, <1>6 DEF Work

(* A call that ran, is pending or was cancelled is not the call of a turn     *)
(* that has yet to ask or to run it.                                          *)
LEMMA FreshCall ==
    ASSUME TypeOK, TurnsOK, GateOK, SerialOK, NEW t \in Threads, pc[t] \in {"ask", "call"}
    PROVE  /\ turn[t].call \notin CancelledCalls /\ turn[t].call \notin Ran
           /\ \A a \in asked : a[2] # turn[t].call
           /\ \A s \in Sessions : pending[s] # NoCall => pending[s] # turn[t].call
<1>1. turn[t].call.id = turn[t].id /\ Busy(t)
  BY DEF GateOK, Busy
<1>2. \A a \in asked : a[2] # turn[t].call
  BY <1>1 DEF GateOK
<1>3. \A e \in executed : e.turn = e.call.id \/ <<log[e.turn].session, e.call>> \in asked
  BY DEF GateOK, RunsOnlyWhenAllowed
<1>4. turn[t].call \notin Ran
  <2> SUFFICES ASSUME NEW e \in executed, e.call = turn[t].call PROVE FALSE
    BY DEF Ran
  <2>1. e.turn # e.call.id
    BY <1>1 DEF SerialOK, Confirmed
  <2>2. <<log[e.turn].session, e.call>> \in asked
    BY <1>3, <2>1
  <2>3. <<log[e.turn].session, e.call>>[2] = turn[t].call
    OBVIOUS
  <2> QED BY <1>2, <2>2, <2>3
<1>5. turn[t].call \notin CancelledCalls
  BY <1>2 DEF SerialOK
<1>6. \A s \in Sessions : pending[s] # NoCall => pending[s] # turn[t].call
  BY <1>2 DEF GateOK
<1> QED BY <1>2, <1>4, <1>5, <1>6

LEMMA SerialWork ==
    ASSUME TypeOK, TurnsOK, GateOK, SerialOK, NEW t \in Threads, Work(t), TurnsOK', GateOK'
    PROVE  SerialOK'
<1>1. /\ Busy(t) /\ KeepsTurn(t) /\ OthersKeep(t) /\ WorkWrites(t) /\ RequestWrites(t)
      /\ turn[t].session \in Sessions
  BY WorkMoves, WorkWritesOnly, WorkRequests, BusyTurn
<1> DEFINE mine == turn[t].session
<1>2. /\ \A u \in Threads \ {t} : turn'[u] = turn[u] /\ pc'[u] = pc[u]
      /\ \A u \in Threads : Busy(u)' => /\ Busy(u) /\ turn'[u].id = turn[u].id
                                        /\ turn'[u].session = turn[u].session
      /\ \A u \in Threads \ {t} : Busy(u) => turn[u].session # mine
  BY <1>1 DEF OthersKeep, KeepsTurn, Busy, SerialOK
<1>3. \A t1, u \in Threads :
          Busy(t1)' /\ Busy(u)' /\ turn'[t1].session = turn'[u].session => t1 = u
  BY <1>2 DEF SerialOK
<1>4. asked \subseteq asked' /\ \A a \in asked' : a \in asked
                                     \/ (pc[t] = "ask" /\ a = <<mine, turn[t].call>>)
  BY <1>1 DEF WorkWrites
<1>5. \A a, b \in asked' : a[2] = b[2] => a = b
  <2>1. pc[t] = "ask" => \A a \in asked : a[2] # turn[t].call
    BY FreshCall
  <2>2. \A a, b \in asked : a[2] = b[2] => a = b
    BY DEF SerialOK
  <2> QED BY <1>4, <2>1, <2>2
<1>6. \A c \in CancelledCalls' : c \in CancelledCalls \/ (pc[t] = "cancel" /\ c = turn[t].call)
  BY <1>1 DEF RequestWrites
<1>7. \A c \in CancelledCalls' : \E a \in asked' : a[2] = c
  <2>1. pc[t] = "cancel" => <<mine, turn[t].call>> \in asked
    BY DEF SerialOK
  <2>2. <<mine, turn[t].call>>[2] = turn[t].call
    OBVIOUS
  <2> QED BY <1>4, <1>6, <2>1, <2>2 DEF SerialOK
<1>8. executed \subseteq executed' /\ \A e \in executed' :
         e \in executed \/ (pc[t] \in {"run", "call"} /\ e.call = turn[t].call /\ e.turn = turn[t].id)
  BY <1>1 DEF WorkWrites
<1>9. pc[t] \in {"run", "call"} => turn[t].call \notin Ran /\ turn[t].call \notin CancelledCalls
  BY FreshCall DEF SerialOK
<1>10. AtMostOnce'
  <2>1. \A e, f \in executed' : e \notin executed /\ f \notin executed => e = f
    BY <1>1 DEF WorkWrites
  <2>2. \A e \in executed, f \in executed' : f \notin executed => e.call # f.call
    BY <1>8, <1>9 DEF Ran
  <2> QED BY <2>1, <2>2 DEF AtMostOnce, SerialOK
<1>11. CancelledNeverRan'
  <2>1. \A e \in executed' : e.call \notin CancelledCalls
    BY <1>8, <1>9 DEF CancelledNeverRan, SerialOK
  <2>2. pc[t] = "cancel" => executed' = executed /\ turn[t].call \notin Ran
    BY <1>1 DEF WorkWrites, SerialOK
  <2> QED BY <1>6, <2>1, <2>2 DEF CancelledNeverRan, Ran
<1>12. pc'[t] \in Confirmed \union {"run", "cancel"} =>
          /\ pending'[mine] = pending[mine] /\ turn'[t].call \in Calls \union {NoCall}
          /\ \/ pc[t] = "pending" /\ pc'[t] \in {"run", "cancel"}
                /\ turn'[t].call = pending[mine] /\ pending[mine] # NoCall
             \/ pc[t] \in {"run", "continue"} /\ pc'[t] \in Confirmed /\ turn'[t].call = turn[t].call
  <2>1. pc'[t] \in Confirmed \union {"run", "cancel"} =>
          \/ pc[t] = "pending" /\ pc'[t] \in {"run", "cancel"}
             /\ turn'[t].call = pending[mine] /\ pending[mine] # NoCall
          \/ pc[t] \in {"run", "continue"} /\ pc'[t] \in Confirmed /\ turn'[t].call = turn[t].call
    BY WorkMoves DEF Confirmed
  <2>2. pc[t] \in {"pending", "run", "continue"} => pending'[mine] = pending[mine]
    BY <1>1 DEF RequestWrites
  <2>3. pending[mine] \in Calls \union {NoCall} /\ turn[t].call \in Calls \union {NoCall}
    BY <1>1, BusyTurn DEF TypeOK
  <2> QED BY <2>1, <2>2, <2>3
<1>13. \A u \in Threads : pc'[u] \in {"run", "cancel"} \union Confirmed =>
          /\ pending'[turn'[u].session] \in {turn'[u].call, NoCall}
          /\ <<turn'[u].session, turn'[u].call>> \in asked'
  <2>1. ASSUME NEW u \in Threads \ {t}, pc'[u] \in {"run", "cancel"} \union Confirmed
        PROVE  /\ pending'[turn'[u].session] \in {turn'[u].call, NoCall}
               /\ <<turn'[u].session, turn'[u].call>> \in asked'
    <3>1. /\ pc[u] \in {"run", "cancel"} \union Confirmed /\ turn'[u] = turn[u]
          /\ turn[u].session # mine /\ turn[u].session \in Sessions
      <4>1. Busy(u) /\ turn'[u] = turn[u] /\ pc'[u] = pc[u]
        BY <1>2, <2>1 DEF Busy, Confirmed
      <4> QED BY <1>2, <2>1, <4>1, BusyTurn
    <3>2. pending'[turn[u].session] \in {pending[turn[u].session], NoCall}
      BY <1>1, <3>1 DEF RequestWrites
    <3> QED BY <1>4, <3>1, <3>2 DEF SerialOK
  <2>2. ASSUME pc'[t] \in {"run", "cancel"} \union Confirmed
        PROVE  /\ pending'[turn'[t].session] \in {turn'[t].call, NoCall}
               /\ <<turn'[t].session, turn'[t].call>> \in asked'
    <3>1. turn'[t].session = mine
      BY <1>1 DEF KeepsTurn
    <3>2. CASE pc[t] = "pending" /\ turn'[t].call = pending[mine] /\ pending[mine] # NoCall
      BY <1>1, <1>4, <1>12, <2>2, <3>1, <3>2 DEF GateOK
    <3>3. CASE pc[t] \in {"run", "continue"} /\ turn'[t].call = turn[t].call
      BY <1>4, <1>12, <2>2, <3>1, <3>3 DEF SerialOK, Confirmed
    <3> QED BY <1>12, <2>2, <3>2, <3>3
  <2> QED BY <2>1, <2>2
<1>14. \A u \in Threads : pc'[u] \in {"run", "cancel"} =>
          turn'[u].call \notin CancelledCalls' /\ turn'[u].call \notin Ran'
  <2>1. ASSUME NEW u \in Threads \ {t}, pc'[u] \in {"run", "cancel"}
        PROVE  turn'[u].call \notin CancelledCalls' /\ turn'[u].call \notin Ran'
    <3>1. pc[u] \in {"run", "cancel"} /\ turn'[u] = turn[u] /\ turn[u].session # mine
      BY <1>2, <2>1 DEF Busy
    <3>2. turn[u].call \notin CancelledCalls /\ turn[u].call \notin Ran
          /\ <<turn[u].session, turn[u].call>> \in asked
      BY <3>1 DEF SerialOK
    <3>3. pc[t] \in {"run", "cancel", "call"} => turn[u].call # turn[t].call
      <4>1. CASE pc[t] = "call"
        <5>1. <<turn[u].session, turn[u].call>>[2] # turn[t].call
          BY <3>2, <4>1, FreshCall
        <5> QED BY <5>1
      <4>2. CASE pc[t] \in {"run", "cancel"}
        <5>1. <<mine, turn[t].call>> \in asked
          BY <4>2 DEF SerialOK
        <5>2. \A a, b \in asked : a[2] = b[2] => a = b
          BY DEF SerialOK
        <5> QED BY <3>1, <3>2, <5>1, <5>2
      <4> QED BY <4>1, <4>2
    <3> QED BY <1>6, <1>8, <3>1, <3>2, <3>3 DEF Ran
  <2>2. ASSUME pc'[t] \in {"run", "cancel"}
        PROVE  turn'[t].call \notin CancelledCalls' /\ turn'[t].call \notin Ran'
    <3>1. pc[t] = "pending" /\ turn'[t].call = pending[mine] /\ pending[mine] # NoCall
      BY <1>12, <2>2 DEF Confirmed
    <3>2. pending[mine] \notin CancelledCalls /\ pending[mine] \notin Ran
      <4>1. ~\E u \in Threads : Clearing(u, mine)
        BY <1>2, <3>1 DEF Clearing, Confirmed, Busy
      <4> QED BY <1>1, <3>1, <4>1 DEF SerialOK
    <3> QED BY <1>6, <1>8, <3>1, <3>2 DEF Ran
  <2> QED BY <2>1, <2>2
<1>15. \A s \in Sessions : pending'[s] # NoCall =>
          /\ pending'[s] \notin CancelledCalls'
          /\ pending'[s] \in Ran' => \E u \in Threads : Clearing(u, s)'
  <2> SUFFICES ASSUME NEW s \in Sessions, pending'[s] # NoCall
               PROVE  /\ pending'[s] \notin CancelledCalls'
                      /\ pending'[s] \in Ran' => \E u \in Threads : Clearing(u, s)'
    OBVIOUS
  <2>1. CASE s # mine
    <3>1. pending'[s] = pending[s] /\ <<s, pending[s]>> \in asked
      BY <1>1, <2>1 DEF RequestWrites, GateOK
    <3>2. pc[t] \in {"run", "cancel", "call"} => pending[s] # turn[t].call
      <4>1. CASE pc[t] = "call"
        BY <3>1, <4>1, FreshCall
      <4>2. CASE pc[t] \in {"run", "cancel"}
        <5>1. <<mine, turn[t].call>> \in asked
          BY <4>2 DEF SerialOK
        <5>2. \A a, b \in asked : a[2] = b[2] => a = b
          BY DEF SerialOK
        <5> QED BY <2>1, <3>1, <5>1, <5>2
      <4> QED BY <4>1, <4>2
    <3>3. pending[s] \notin CancelledCalls'
      BY <1>6, <3>1, <3>2 DEF SerialOK
    <3>4. ASSUME pending[s] \in Ran' PROVE \E u \in Threads : Clearing(u, s)'
      <4>1. pending[s] \in Ran
        BY <1>8, <3>2, <3>4 DEF Ran
      <4>2. PICK u \in Threads : Clearing(u, s)
        BY <3>1, <4>1 DEF SerialOK
      <4>3. u # t
        BY <2>1, <4>2 DEF Clearing
      <4> QED BY <1>2, <3>1, <4>2, <4>3 DEF Clearing
    <3> QED BY <3>1, <3>3, <3>4
  <2>2. CASE s = mine /\ pc[t] = "ask"
    <3>1. pending'[s] = turn[t].call
      BY <1>1, <2>2 DEF RequestWrites
    <3>2. pending'[s] \notin CancelledCalls' /\ pending'[s] \notin Ran'
      BY <1>6, <1>8, <2>2, <3>1, FreshCall DEF Ran
    <3> QED BY <3>2
  <2>3. CASE s = mine /\ pc[t] # "ask"
    <3>1. pending'[s] = pending[s] /\ pc[t] \notin {"clear", "cancel"}
      BY <1>1, <2>3 DEF RequestWrites
    <3>2. pending[s] \notin CancelledCalls'
      BY <1>6, <3>1 DEF SerialOK
    <3>3. CASE pc[t] = "run"
      <4>1. pc'[t] = "continue" /\ turn'[t].call = turn[t].call /\ turn'[t].session = mine
        BY <1>1, <3>3, WorkMoves DEF KeepsTurn
      <4>2. pending[s] = turn[t].call
        BY <2>3, <3>1, <3>3 DEF SerialOK
      <4>3. Clearing(t, s)'
        BY <2>3, <3>1, <4>1, <4>2 DEF Clearing, Confirmed
      <4> QED BY <3>1, <3>2, <4>3
    <3>4. CASE pc[t] = "continue"
      <4>1. pc'[t] = "clear" /\ turn'[t].call = turn[t].call /\ turn'[t].session = mine
        BY <1>1, <3>4, WorkMoves DEF KeepsTurn
      <4>2. pending[s] = turn[t].call
        BY <2>3, <3>1, <3>4 DEF SerialOK, Confirmed
      <4>3. Clearing(t, s)'
        BY <2>3, <3>1, <4>1, <4>2 DEF Clearing, Confirmed
      <4> QED BY <3>1, <3>2, <4>3
    <3>5. CASE pc[t] \notin {"run", "continue"}
      <4>1. pc[t] = "call" => pending[s] # turn[t].call
        BY <3>1, FreshCall
      <4>2. pending[s] \notin Ran
        <5>1. ~\E u \in Threads : Clearing(u, s)
          BY <1>2, <2>3, <3>1, <3>5 DEF Clearing, Confirmed, Busy
        <5> QED BY <3>1, <5>1 DEF SerialOK
      <4>3. pending[s] \notin Ran'
        BY <1>8, <3>5, <4>1, <4>2 DEF Ran
      <4> QED BY <3>1, <3>2, <4>3
    <3> QED BY <3>3, <3>4, <3>5
  <2> QED BY <2>1, <2>2, <2>3
<1>16. \A e \in executed', u \in Threads : Busy(u)' /\ turn'[u].id = e.turn =>
          pc'[u] \in Confirmed \union {"explain", "output", "user", "assistant"}
  <2> SUFFICES ASSUME NEW e \in executed', NEW u \in Threads, Busy(u)', turn'[u].id = e.turn
               PROVE  pc'[u] \in Confirmed \union {"explain", "output", "user", "assistant"}
    OBVIOUS
  <2>1. Busy(u) /\ turn[u].id = e.turn
    BY <1>2
  <2>2. pc[t] \in Confirmed \union {"explain", "output", "user", "run", "call"} =>
        pc'[t] \in Confirmed \union {"explain", "output", "user", "assistant"}
    BY WorkMoves DEF Confirmed
  <2>3. pc[t] # "assistant"
    BY WorkMoves
  <2>4. CASE e \in executed
    BY <1>2, <2>1, <2>2, <2>3, <2>4 DEF SerialOK
  <2>5. CASE e \notin executed
    <3>1. u = t /\ pc[t] \in {"run", "call"}
      BY <1>1, <1>8, <2>1, <2>5 DEF TurnsOK
    <3> QED BY <2>2, <3>1
  <2> QED BY <2>4, <2>5
<1> HIDE DEF mine
<1> QED BY <1>3, <1>5, <1>7, <1>10, <1>11, <1>13, <1>14, <1>15, <1>16 DEF SerialOK

(* A handler that returns or fails holds no confirmed call that still pends. *)
LEMMA SerialLeave ==
    ASSUME TypeOK, SerialOK, Serial, NEW t \in Threads, AppendAssistant(t) \/ Raise(t)
    PROVE  SerialOK'
<1>1. LeavesOnly(t) /\ CancelledCalls' = CancelledCalls
  BY LeaveLeaves DEF LeavesOnly, CancelledCalls
<1>2. pc[t] \notin Confirmed
  BY DEF Serial, AppendAssistant, Raise, Confirmed
<1>3. \A u \in Threads : Busy(u)' => /\ u # t /\ Busy(u)
                                     /\ turn'[u] = turn[u] /\ pc'[u] = pc[u]
  BY <1>1 DEF LeavesOnly, OthersKeep, Busy
<1>4. \A u \in Threads : pc'[u] \in {"run", "cancel"} \union Confirmed => Busy(u)'
  BY DEF Confirmed, Busy
<1>5. \A u \in Threads : pc'[u] \in {"run", "cancel"} \union Confirmed =>
          /\ pending'[turn'[u].session] \in {turn'[u].call, NoCall}
          /\ <<turn'[u].session, turn'[u].call>> \in asked'
  <2> SUFFICES ASSUME NEW u \in Threads, pc'[u] \in {"run", "cancel"} \union Confirmed
               PROVE  /\ pending'[turn[u].session] \in {turn[u].call, NoCall}
                      /\ <<turn[u].session, turn[u].call>> \in asked
    BY <1>1, <1>3, <1>4 DEF LeavesOnly
  <2>1. Busy(u) /\ pc[u] \in {"run", "cancel"} \union Confirmed
    BY <1>3, <1>4
  <2>2. turn[u].session \in Sessions
    BY <2>1, BusyTurn
  <2>3. pending'[turn[u].session] \in {pending[turn[u].session], NoCall}
    BY <1>1, <2>2 DEF LeavesOnly
  <2> QED BY <2>1, <2>3 DEF SerialOK
<1>6. \A u \in Threads : pc'[u] \in {"run", "cancel"} =>
          turn'[u].call \notin CancelledCalls' /\ turn'[u].call \notin Ran'
  BY <1>1, <1>3, <1>4 DEF LeavesOnly, SerialOK, Ran
<1>7. \A s \in Sessions : pending'[s] # NoCall =>
          /\ pending'[s] \notin CancelledCalls'
          /\ pending'[s] \in Ran' => \E u \in Threads : Clearing(u, s)'
  <2> SUFFICES ASSUME NEW s \in Sessions, pending'[s] # NoCall
               PROVE  /\ pending'[s] \notin CancelledCalls
                      /\ pending'[s] \in Ran => \E u \in Threads : Clearing(u, s)'
    BY <1>1 DEF LeavesOnly, Ran
  <2>1. pending'[s] = pending[s]
    BY <1>1 DEF LeavesOnly
  <2>2. \A u \in Threads : Clearing(u, s) => Clearing(u, s)'
    BY <1>1, <1>2, <2>1 DEF Clearing, LeavesOnly, OthersKeep
  <2> QED BY <2>1, <2>2 DEF SerialOK
<1>8. AtMostOnce' /\ CancelledNeverRan'
  BY <1>1 DEF LeavesOnly, AtMostOnce, CancelledNeverRan, SerialOK
<1>9. \A e \in executed', u \in Threads : Busy(u)' /\ turn'[u].id = e.turn =>
          pc'[u] \in Confirmed \union {"explain", "output", "user", "assistant"}
  BY <1>1, <1>3 DEF LeavesOnly, SerialOK
<1> QED BY <1>1, <1>3, <1>5, <1>6, <1>7, <1>8, <1>9 DEF LeavesOnly, SerialOK

(* A message begins where no handler of its Session is running.              *)
LEMMA SerialBegin ==
    ASSUME TypeOK, TurnsOK, SerialOK, Serial,
           NEW t \in Threads, NEW s \in Sessions, NEW m \in Messages, Begin(t, s, m)
    PROVE  SerialOK'
<1>1. BeginsOnly(t, s, m) /\ CancelledCalls' = CancelledCalls
  BY BeginBegins DEF BeginsOnly, CancelledCalls
<1>2. \A u \in Threads : Busy(u) => turn[u].session # s
  BY DEF Begin, Serial
<1>3. /\ ~Busy(t) /\ pc'[t] = "input" /\ turn'[t].session = s
      /\ \A u \in Threads \ {t} : turn'[u] = turn[u] /\ pc'[u] = pc[u]
      /\ \A e \in executed : e.turn # turn'[t].id
  <2>1. Len(log) + 1 \notin Handled
    BY DEF TypeOK, Handled
  <2> QED BY <1>1, <2>1 DEF BeginsOnly, OthersKeep, TurnsOK
<1>4. UNCHANGED <<pending, executed, asked, CancelledCalls>>
  BY <1>1 DEF BeginsOnly
<1>5. \A u, v \in Threads :
          Busy(u)' /\ Busy(v)' /\ turn'[u].session = turn'[v].session => u = v
  BY <1>2, <1>3 DEF SerialOK, Busy
<1>6. \A x \in Sessions, u \in Threads : Clearing(u, x) => Clearing(u, x)'
  BY <1>3, <1>4 DEF Clearing, Busy, Confirmed
<1>7. \A u \in Threads : pc'[u] \in {"run", "cancel"} \union Confirmed =>
          /\ pc[u] = pc'[u] /\ turn'[u] = turn[u]
  BY <1>3 DEF Confirmed
<1>8. AtMostOnce' /\ CancelledNeverRan'
  BY <1>4 DEF AtMostOnce, CancelledNeverRan, SerialOK
<1>9. \A e \in executed', u \in Threads : Busy(u)' /\ turn'[u].id = e.turn =>
          pc'[u] \in Confirmed \union {"explain", "output", "user", "assistant"}
  BY <1>3, <1>4 DEF SerialOK, Busy
<1>10. \A u \in Threads : pc'[u] \in {"run", "cancel"} \union Confirmed =>
          /\ pending'[turn'[u].session] \in {turn'[u].call, NoCall}
          /\ <<turn'[u].session, turn'[u].call>> \in asked'
  BY <1>4, <1>7 DEF SerialOK
<1>11. \A x \in Sessions : pending'[x] # NoCall =>
          /\ pending'[x] \notin CancelledCalls'
          /\ pending'[x] \in Ran' => \E u \in Threads : Clearing(u, x)'
  BY <1>4, <1>6 DEF SerialOK, Ran
<1> QED BY <1>4, <1>5, <1>7, <1>8, <1>9, <1>10, <1>11 DEF SerialOK, Ran

LEMMA SerialStep ==
    ASSUME TypeOK, TurnsOK, GateOK, SerialOK, Serial, [Next]_vars, TurnsOK', GateOK'
    PROVE  SerialOK'
<1>1. CASE Restart
  <2>1. \A t \in Threads : ~Busy(t) /\ ~Busy(t)' /\ pc[t] = "idle" /\ pc'[t] = "idle"
    BY <1>1 DEF Restart, Serial, Busy
  <2>2. UNCHANGED <<pending, executed, asked, CancelledCalls>>
    BY <1>1 DEF Restart, ghosts, CancelledCalls
  <2>3. \A t \in Threads, s \in Sessions : ~Clearing(t, s)
    BY <2>1 DEF Clearing, Confirmed
  <2>4. AtMostOnce' /\ CancelledNeverRan'
    BY <2>2 DEF AtMostOnce, CancelledNeverRan, SerialOK
  <2> QED BY <2>1, <2>2, <2>3, <2>4 DEF SerialOK, Ran, Confirmed
<1>2. CASE Still
  <2>1. CancelledCalls' = CancelledCalls
    BY <1>2 DEF Still, CancelledCalls
  <2>2. AtMostOnce' /\ CancelledNeverRan'
    BY <1>2, <2>1 DEF Still, AtMostOnce, CancelledNeverRan, SerialOK
  <2>3. \A t \in Threads, s \in Sessions : Clearing(t, s)' <=> Clearing(t, s)
    BY <1>2 DEF Still, Clearing
  <2> QED BY <1>2, <2>1, <2>2, <2>3 DEF Still, SerialOK, Ran, Busy
<1>3. CASE \E t \in Threads : Handle(t)
  BY <1>3, SerialWork, SerialLeave DEF Handle
<1>4. CASE \E t \in Threads, s \in Sessions, m \in Messages : Begin(t, s, m)
  BY <1>4, SerialBegin
<1> QED BY <1>1, <1>2, <1>3, <1>4, StillSteps DEF Next

-------------------------------------------------------------------------------
(* Where the messages of a Session are handled one after the other, and no   *)
(* failure or crash comes between running a confirmed call and clearing it,  *)
(* the invariant holds (conversation.py:118-152).                            *)
THEOREM SerialInvariant == ASSUME Serial PROVE Spec => []SerialOK
<1>1. Init => SerialOK
  BY DEF Init, SerialOK, Busy, Confirmed, AtMostOnce, CancelledNeverRan, CancelledCalls
<1>2. Inv /\ Inv' /\ SerialOK /\ [Next]_vars => SerialOK'
  BY SerialStep DEF Inv
<1> QED BY <1>1, <1>2, Invariant, PTL DEF Spec

(* ... so a tool call the LLM made once is run by at most one turn           *)
(* (interface_layer/service.py:4-6) ...                                      *)
THEOREM RunsAtMostOnce == ASSUME Serial PROVE Spec => []AtMostOnce
<1>1. SerialOK => AtMostOnce
  BY DEF SerialOK
<1> QED BY <1>1, SerialInvariant, PTL

(* ... and a call whose cancellation was confirmed to the Customer was not    *)
(* run before and is not run later (conversation.py:40, 146-148).             *)
THEOREM CancellationIsTrue == ASSUME Serial PROVE Spec => []CancelledNeverRan
<1>1. SerialOK => CancelledNeverRan
  BY DEF SerialOK
<1> QED BY <1>1, SerialInvariant, PTL

-------------------------------------------------------------------------------
(* What a handler's step writes of the Session rows: at most its own Session's *)
(* request or history, and the sweep of the same write empties idle rows.      *)
OwnRequest(t) ==
    LET s == turn[t].session IN
    \/ pending'[s] = pending[s]
    \/ pc[t] \in {"clear", "cancel"} /\ pending'[s] = NoCall
    \/ pc[t] = "ask" /\ pending'[s] = turn[t].call

OwnHistory(t) ==
    LET s == turn[t].session IN
    \/ /\ pc[t] = "user" /\ pc'[t] = "assistant" /\ s \notin idleRows'
       /\ history'[s] = Append(history[s], [role |-> "user", turn |-> turn[t].id])
    \/ /\ pc[t] = "assistant" /\ pc'[t] = "idle"
       /\ history'[s] = Append(history[s], [role |-> "assistant", turn |-> turn[t].id])
    \/ /\ pc'[t] # "assistant" /\ history'[s] = history[s]
       /\ pc[t] = "assistant" => "assistant" \in Faults

Swept(s) == s \in idleRows /\ pending'[s] = NoCall /\ history'[s] = <<>>

RowWrites(t) ==
    /\ idleRows' \subseteq idleRows
    /\ \A s \in Sessions \ {turn[t].session} :
          Swept(s) \/ (pending'[s] = pending[s] /\ history'[s] = history[s])
    /\ OwnRequest(t) /\ OwnHistory(t)

LEMMA UpsertRows ==
    ASSUME TypeOK, NEW s \in Sessions, NEW p, NEW h, Upsert(s, p, h)
    PROVE  /\ pending'[s] = p /\ history'[s] = h /\ idleRows' \subseteq idleRows \ {s}
           /\ \A x \in Sessions \ {s} :
                 Swept(x) \/ (pending'[x] = pending[x] /\ history'[x] = history[x])
  BY DEF Upsert, Swept

LEMMA HandleRows == ASSUME TypeOK, NEW t \in Threads, Handle(t) PROVE RowWrites(t)
<1>1. Busy(t) /\ turn[t].session \in Sessions /\ pc \in [Threads -> Steps]
  <2>1. Busy(t)
    BY WorkMoves, LeaveLeaves DEF Handle, LeavesOnly
  <2> QED BY <2>1, BusyTurn DEF TypeOK
<1>2. CASE \/ InputRailAllows(t) \/ ReadPending(t) \/ ContinueConfirmed(t) \/ RespondText(t)
           \/ (\E n \in Tools : RespondCall(t, n)) \/ ContinueAllowed(t)
           \/ OutputRailAllows(t) \/ OutputRailBlocks(t) \/ InputRailBlocks(t)
           \/ RunConfirmed(t) \/ RunAllowed(t)
  <2>1. UNCHANGED store
    BY <1>2 DEF InputRailAllows, ReadPending, ContinueConfirmed, RespondText, RespondCall,
       ContinueAllowed, OutputRailAllows, OutputRailBlocks, InputRailBlocks, RunConfirmed,
       RunAllowed
  <2>2. Work(t)
    BY <1>2 DEF Work
  <2>3. pc[t] \notin {"user", "assistant"}
    BY <1>2 DEF InputRailAllows, ReadPending, ContinueConfirmed, RespondText, RespondCall,
       ContinueAllowed, OutputRailAllows, OutputRailBlocks, InputRailBlocks, RunConfirmed,
       RunAllowed
  <2>4. pc'[t] # "assistant"
    BY <2>2, <2>3, WorkMoves
  <2> QED BY <2>1, <2>3, <2>4 DEF store, RowWrites, OwnRequest, OwnHistory
<1>3. CASE ClearConfirmed(t) \/ CancelPending(t) \/ AskConfirmation(t)
  <2>1. PICK p : Upsert(turn[t].session, p, history[turn[t].session])
                 /\ \/ pc[t] \in {"clear", "cancel"} /\ p = NoCall
                    \/ pc[t] = "ask" /\ p = turn[t].call
    BY <1>3 DEF ClearConfirmed, CancelPending, AskConfirmation, SetPending
  <2>2. pc'[t] = "output"
    BY <1>1, <1>3 DEF ClearConfirmed, CancelPending, AskConfirmation, Say, Goto
  <2> QED BY <1>1, <2>1, <2>2, UpsertRows DEF RowWrites, OwnRequest, OwnHistory
<1>4. CASE AppendUser(t)
  <2> DEFINE h == Append(history[turn[t].session], [role |-> "user", turn |-> turn[t].id])
  <2>1. Upsert(turn[t].session, pending[turn[t].session], h)
    BY <1>4 DEF AppendUser, AppendTurn
  <2> HIDE DEF h
  <2>2. pc[t] = "user" /\ pc'[t] = "assistant"
    BY <1>1, <1>4 DEF AppendUser, Goto
  <2>3. /\ pending'[turn[t].session] = pending[turn[t].session]
        /\ history'[turn[t].session] = h /\ turn[t].session \notin idleRows'
        /\ idleRows' \subseteq idleRows
        /\ \A x \in Sessions \ {turn[t].session} :
              Swept(x) \/ (pending'[x] = pending[x] /\ history'[x] = history[x])
    BY <1>1, <2>1, UpsertRows
  <2> QED BY <2>1, <2>2, <2>3 DEF RowWrites, OwnRequest, OwnHistory, h
<1>5. CASE AppendAssistant(t)
  <2> DEFINE h == Append(history[turn[t].session], [role |-> "assistant", turn |-> turn[t].id])
  <2>1. Upsert(turn[t].session, pending[turn[t].session], h)
    BY <1>5 DEF AppendAssistant, AppendTurn
  <2> HIDE DEF h
  <2>2. pc[t] = "assistant" /\ pc'[t] = "idle"
    BY <1>1, <1>5 DEF AppendAssistant, Goto
  <2>3. /\ pending'[turn[t].session] = pending[turn[t].session]
        /\ history'[turn[t].session] = h /\ turn[t].session \notin idleRows'
        /\ idleRows' \subseteq idleRows
        /\ \A x \in Sessions \ {turn[t].session} :
              Swept(x) \/ (pending'[x] = pending[x] /\ history'[x] = history[x])
    BY <1>1, <2>1, UpsertRows
  <2> QED BY <2>1, <2>2, <2>3 DEF RowWrites, OwnRequest, OwnHistory, h
<1>6. CASE Raise(t)
  BY <1>1, <1>6 DEF Raise, Goto, store, RowWrites, OwnRequest, OwnHistory
<1> QED BY <1>2, <1>3, <1>4, <1>5, <1>6 DEF Handle, Work

(* Every step is a message's arrival, a handler's, the passing of time or a  *)
(* restart; the last two leave the requests and the histories alone.         *)
LEMMA NextKinds ==
    ASSUME TypeOK, [Next]_vars
    PROVE  \/ \E t \in Threads, s \in Sessions, m \in Messages : Begin(t, s, m)
           \/ \E t \in Threads : Handle(t)
           \/ Restart
           \/ /\ UNCHANGED <<pc, turn, pending, history, loaded, restarts, ghosts>>
              /\ \A s \in idleRows' \ idleRows :
                    \A t \in Threads : Busy(t) => turn[t].session # s
  BY DEF Next, RowAges, vars, store, ghosts

-------------------------------------------------------------------------------
(* A handler that came to the LLM, a free Tool or the question itself found    *)
(* its Session without a request, and the Session stays so until it asks.      *)
FreshOK == \A t \in Threads : pc[t] \in {"respond", "call", "explain", "ask"} =>
              pending[turn[t].session] = NoCall

LEMMA FreshStep ==
    ASSUME TypeOK, SerialOK, Serial, FreshOK, [Next]_vars
    PROVE  FreshOK'
<1>1. ASSUME NEW t \in Threads, NEW s \in Sessions, NEW m \in Messages, BeginsOnly(t, s, m)
      PROVE  FreshOK'
  BY <1>1 DEF BeginsOnly, OthersKeep, FreshOK
<1>2. ASSUME NEW t \in Threads, Handle(t) PROVE FreshOK'
  <2>1. RowWrites(t) /\ OthersKeep(t) /\ Busy(t)
    BY <1>2, HandleRows, WorkMoves, LeaveLeaves DEF Handle, LeavesOnly
  <2>2. ASSUME NEW u \in Threads \ {t}, pc'[u] \in {"respond", "call", "explain", "ask"}
        PROVE  pending'[turn'[u].session] = NoCall
    <3>1. turn'[u] = turn[u] /\ pc[u] \in {"respond", "call", "explain", "ask"}
      BY <2>1, <2>2 DEF OthersKeep
    <3>2. turn[u].session \in Sessions \ {turn[t].session}
      BY <2>1, <3>1, BusyTurn DEF SerialOK, Busy
    <3>3. pending[turn[u].session] = NoCall
      BY <3>1 DEF FreshOK
    <3> QED BY <2>1, <3>1, <3>2, <3>3 DEF RowWrites, Swept
  <2>3. ASSUME pc'[t] \in {"respond", "call", "explain", "ask"}
        PROVE  pending'[turn'[t].session] = NoCall
    <3>1. Work(t) /\ turn'[t].session = turn[t].session
      BY <1>2, <2>3, LeaveLeaves, WorkMoves DEF Handle, LeavesOnly, KeepsTurn, Busy
    <3>2. pc[t] \in {"pending", "respond", "call"}
      BY <2>3, <3>1, WorkMoves
    <3>3. pending'[turn[t].session] = pending[turn[t].session]
      BY <2>1, <3>2 DEF RowWrites, OwnRequest
    <3>4. CASE pc[t] = "pending"
      <4>1. ReadPending(t) /\ pc'[t] = "respond"
        BY <2>3, <3>1, <3>4, WorkMoves DEF Work, InputRailAllows, InputRailBlocks, RunConfirmed,
           ContinueConfirmed, ClearConfirmed, CancelPending, RespondText, RespondCall,
           RunAllowed, ContinueAllowed, AskConfirmation, OutputRailAllows, OutputRailBlocks,
           AppendUser
      <4>2. pending[turn[t].session] = NoCall
        BY <4>1 DEF ReadPending, Say, Goto, TypeOK
      <4> QED BY <3>1, <3>3, <4>2
    <3>5. CASE pc[t] \in {"respond", "call"}
      BY <3>1, <3>3, <3>5 DEF FreshOK
    <3> QED BY <3>2, <3>4, <3>5
  <2> QED BY <2>2, <2>3 DEF FreshOK
<1>3. CASE Restart
  BY <1>3 DEF Restart, FreshOK
<1>4. CASE UNCHANGED <<pc, turn, pending, history, loaded, restarts, ghosts>>
  BY <1>4 DEF FreshOK
<1> QED BY <1>1, <1>2, <1>3, <1>4, NextKinds, BeginBegins

(* One handler of a Session at a time: the one that goes on to ask for a       *)
(* confirmation found no request pending and still finds none                  *)
(* (conversation.py:106-110, 189-213), so no request replaces another.          *)
THEOREM FreshInvariant == ASSUME Serial PROVE Spec => []FreshOK
<1>1. Init => FreshOK
  BY DEF Init, FreshOK
<1>2. Inv /\ SerialOK /\ FreshOK /\ [Next]_vars => FreshOK'
  BY FreshStep DEF Inv
<1> QED BY <1>1, <1>2, Invariant, SerialInvariant, PTL DEF Spec

(* A request leaves its Session only by the answer to that very request or by *)
(* the idle sweep (conversation.py:118-214): the handler that answers holds   *)
(* the pending one, and one that asks found none.                             *)
THEOREM RequestsLeaveByTheirAnswer == ASSUME Serial PROVE Spec => RequestsAreSettled
<1> DEFINE Settled ==
      \A s \in Sessions :
          pending[s] # NoCall /\ pending'[s] # pending[s] =>
             /\ pending'[s] = NoCall
             /\ \/ s \in idleRows
                \/ \E t \in Threads : /\ pc[t] \in {"clear", "cancel"}
                                      /\ turn[t].session = s /\ turn[t].call = pending[s]
<1>1. Inv /\ SerialOK /\ FreshOK /\ [Next]_vars => Settled
  <2> SUFFICES ASSUME Inv, SerialOK, FreshOK, [Next]_vars PROVE Settled
    OBVIOUS
  <2>1. ASSUME NEW t \in Threads, Handle(t) PROVE Settled
    <3>1. RowWrites(t) /\ Busy(t)
      BY <2>1, HandleRows, WorkMoves, LeaveLeaves DEF Handle, LeavesOnly, Inv
    <3>2. \A s \in Sessions \ {turn[t].session} :
             pending'[s] # pending[s] => pending'[s] = NoCall /\ s \in idleRows
      BY <3>1 DEF RowWrites, Swept
    <3>3. pc[t] \in {"clear", "cancel"} => pending[turn[t].session] \in {turn[t].call, NoCall}
      BY DEF SerialOK, Confirmed
    <3>4. pc[t] = "ask" => pending[turn[t].session] = NoCall
      BY DEF FreshOK
    <3> QED BY <3>1, <3>2, <3>3, <3>4 DEF RowWrites, OwnRequest
  <2>2. CASE UNCHANGED pending
    BY <2>2
  <2> HIDE DEF Settled
  <2> QED BY <2>1, <2>2, NextKinds DEF Begin, Restart, store, Inv
<1>2. Inv /\ SerialOK /\ FreshOK /\ [Next]_vars => [Settled]_vars
  BY <1>1
<1> QED BY <1>2, Invariant, SerialInvariant, FreshInvariant, PTL DEF Spec, RequestsAreSettled

-------------------------------------------------------------------------------
(* The refinement: the requests ConfirmationGate speaks of.  A Session waits on *)
(* the call its handler took out to answer, or else on what is pending, but for *)
(* a confirmed call that has run and is yet to be cleared.                      *)
Held(s) == \E t \in Threads : HeldBy(t, s)
IsOpen(s, c) == \/ \E t \in Threads : HeldBy(t, s) /\ c = turn[t].call
                \/ /\ ~Held(s)
                   /\ c = IF pending[s] \in RanAfterAsking THEN NoCall ELSE pending[s]

(* With one handler per Session, it is what the mapping says. *)
OpenIsOpen == \A s \in Sessions : IsOpen(s, OpenRequest[s]) /\
                                  \A c : IsOpen(s, c) => c = OpenRequest[s]
LEMMA OpenRead == ASSUME TypeOK, SerialOK PROVE OpenIsOpen
<1> SUFFICES ASSUME NEW s \in Sessions
             PROVE  IsOpen(s, OpenRequest[s]) /\ \A c : IsOpen(s, c) => c = OpenRequest[s]
  BY DEF OpenIsOpen
<1>1. CASE Held(s)
  <2>1. PICK t \in Threads : HeldBy(t, s)
    BY <1>1 DEF Held
  <2>2. \A u \in Threads : HeldBy(u, s) => u = t
    BY <2>1 DEF HeldBy, SerialOK, Busy
  <2>3. (CHOOSE u \in Threads : HeldBy(u, s)) = t
    BY <2>1, <2>2
  <2>4. OpenRequest[s] = turn[t].call
    BY <1>1, <2>3 DEF OpenRequest, Held
  <2> QED BY <1>1, <2>1, <2>2, <2>4 DEF IsOpen
<1>2. CASE ~Held(s)
  <2>1. OpenRequest[s] = IF pending[s] \in RanAfterAsking THEN NoCall ELSE pending[s]
    BY <1>2 DEF OpenRequest, Held
  <2> QED BY <1>2, <2>1 DEF IsOpen, Held
<1> QED BY <1>1, <1>2

(* A step that opens nothing, and only forgets, is a step of the gate.       *)
LEMMA GateForgets ==
    ASSUME UNCHANGED <<{a[2] : a \in asked}, RanAfterAsking, CancelledCalls>>,
           \A s \in Sessions : OpenRequest'[s] \in {OpenRequest[s], NoCall}
    PROVE  [Gate!Next]_(Gate!vars)
<1>1. /\ OpenRequest = [s \in Sessions |-> OpenRequest[s]]
      /\ OpenRequest' = [s \in Sessions |-> OpenRequest'[s]]
  BY DEF OpenRequest
<1>2. CASE \A s \in Sessions : OpenRequest'[s] = OpenRequest[s]
  BY <1>1, <1>2 DEF Gate!vars
<1>3. CASE \E s \in Sessions : OpenRequest'[s] # OpenRequest[s]
  <2>1. PICK s \in Sessions : OpenRequest'[s] # OpenRequest[s]
    BY <1>3
  <2> DEFINE S == {x \in Sessions \ {s} : OpenRequest'[x] # OpenRequest[x]}
  <2>2. OpenRequest' = [x \in Sessions |-> IF x = s THEN NoCall
                                           ELSE IF x \in S THEN NoCall ELSE OpenRequest[x]]
    BY <1>1, <2>1
  <2>3. Gate!Settle(s, NoCall)
    BY <2>2 DEF Gate!Settle
  <2> QED BY <2>3 DEF Gate!Expire, Gate!Next
<1> QED BY <1>2, <1>3

(* Elsewhere a handler's step opens nothing: the sweep may forget a request.  *)
LEMMA OpenElsewhere ==
    ASSUME TypeOK, OpenIsOpen, OpenIsOpen', NEW t \in Threads, Busy(t), OthersKeep(t),
           Busy(t)' => turn'[t].session = turn[t].session,
           NEW x \in Sessions \ {turn[t].session}, pending'[x] \in {pending[x], NoCall},
           RanAfterAsking \subseteq RanAfterAsking',
           pending[x] \in RanAfterAsking' => pending[x] \in RanAfterAsking \union {NoCall}
    PROVE  OpenRequest'[x] \in {OpenRequest[x], NoCall}
<1>1. \A u \in Threads : HeldBy(u, x)' <=> HeldBy(u, x)
  BY DEF HeldBy, OthersKeep, Busy
<1>2. \A u \in Threads : HeldBy(u, x) => turn'[u] = turn[u]
  BY DEF HeldBy, OthersKeep
<1>3. CASE Held(x)
  <2>1. PICK u \in Threads : HeldBy(u, x)
    BY <1>3 DEF Held
  <2>2. IsOpen(x, turn[u].call)' /\ IsOpen(x, turn[u].call)
    BY <1>1, <1>2, <2>1 DEF IsOpen
  <2>3. OpenRequest[x] = turn[u].call
    BY <2>2 DEF OpenIsOpen
  <2>4. OpenRequest'[x] = turn'[u].call
    BY <2>2 DEF OpenIsOpen
  <2> QED BY <1>2, <2>1, <2>3, <2>4
<1>4. CASE ~Held(x)
  <2>1. ~Held(x)'
    BY <1>1, <1>4 DEF Held
  <2>2. OpenRequest[x] = IF pending[x] \in RanAfterAsking THEN NoCall ELSE pending[x]
    BY <1>4 DEF OpenIsOpen, IsOpen
  <2>3. OpenRequest'[x] = IF pending'[x] \in RanAfterAsking' THEN NoCall ELSE pending'[x]
    BY <2>1 DEF OpenIsOpen, IsOpen
  <2> QED BY <2>2, <2>3
<1> QED BY <1>3, <1>4

(* Only the "yes" that ran a call adds to the calls that ran after asking.    *)
LEMMA RanAdds ==
    ASSUME TypeOK, GateOK, NEW t \in Threads, Handle(t)
    PROVE  RanAfterAsking' = IF RunConfirmed(t) THEN RanAfterAsking \union {turn[t].call}
                             ELSE RanAfterAsking
<1> DEFINE new == [call |-> turn[t].call, turn |-> turn[t].id,
                   mode |-> loaded[turn[t].call.name]]
<1>1. new.call = turn[t].call /\ new.turn = turn[t].id
  OBVIOUS
<1>2. CASE RunConfirmed(t)
  <2>1. executed' = executed \union {new} /\ turn[t].call.id # turn[t].id
    BY <1>2 DEF RunConfirmed, Execute, GateOK
  <2> HIDE DEF new
  <2> QED BY <1>1, <1>2, <2>1 DEF RanAfterAsking
<1>3. CASE RunAllowed(t)
  <2>1. executed' = executed \union {new} /\ turn[t].call.id = turn[t].id
    BY <1>3 DEF RunAllowed, Execute, GateOK
  <2>2. ~RunConfirmed(t)
    BY <1>3 DEF RunAllowed, RunConfirmed
  <2> HIDE DEF new
  <2> QED BY <1>1, <2>1, <2>2 DEF RanAfterAsking
<1>4. CASE ~RunConfirmed(t) /\ ~RunAllowed(t)
  <2>1. executed' = executed
    BY <1>4 DEF Handle, Work, InputRailAllows, InputRailBlocks, ReadPending, ContinueConfirmed,
       ClearConfirmed, CancelPending, RespondText, RespondCall, ContinueAllowed,
       AskConfirmation, OutputRailAllows, OutputRailBlocks, AppendUser, AppendAssistant, Raise,
       ghosts
  <2> QED BY <1>4, <2>1 DEF RanAfterAsking
<1> QED BY <1>2, <1>3, <1>4

(* What is open in the handler's own Session, before and after its step.     *)
LEMMA OpenHere ==
    ASSUME TypeOK, SerialOK, OpenIsOpen, OpenIsOpen', NEW t \in Threads, Busy(t), OthersKeep(t),
           Busy(t)' => turn'[t].session = turn[t].session
    PROVE  LET s == turn[t].session IN
           /\ OpenRequest[s] = IF pc[t] \in {"run", "cancel"} THEN turn[t].call
                               ELSE IF pending[s] \in RanAfterAsking THEN NoCall ELSE pending[s]
           /\ OpenRequest'[s] = IF pc'[t] \in {"run", "cancel"} THEN turn'[t].call
                                ELSE IF pending'[s] \in RanAfterAsking' THEN NoCall ELSE pending'[s]
<1>1. PICK s \in Sessions : s = turn[t].session
  BY BusyTurn
<1>2. /\ \A u \in Threads : HeldBy(u, s) => u = t
      /\ \A u \in Threads : HeldBy(u, s)' => u = t
  BY <1>1 DEF HeldBy, SerialOK, OthersKeep, Busy
<1>3. /\ HeldBy(t, s) <=> pc[t] \in {"run", "cancel"}
      /\ HeldBy(t, s)' <=> pc'[t] \in {"run", "cancel"}
  BY <1>1 DEF HeldBy, Busy
<1>4. /\ Held(s) <=> pc[t] \in {"run", "cancel"}
      /\ Held(s)' <=> pc'[t] \in {"run", "cancel"}
  BY <1>2, <1>3 DEF Held
<1>5. OpenRequest[s] = IF pc[t] \in {"run", "cancel"} THEN turn[t].call
                       ELSE IF pending[s] \in RanAfterAsking THEN NoCall ELSE pending[s]
  <2>1. IsOpen(s, OpenRequest[s])
    BY <1>1 DEF OpenIsOpen
  <2> QED BY <1>2, <1>4, <2>1 DEF IsOpen, Held
<1>6. OpenRequest'[s] = IF pc'[t] \in {"run", "cancel"} THEN turn'[t].call
                        ELSE IF pending'[s] \in RanAfterAsking' THEN NoCall ELSE pending'[s]
  <2>1. IsOpen(s, OpenRequest[s])'
    BY <1>1 DEF OpenIsOpen
  <2> QED BY <1>2, <1>4, <2>1 DEF IsOpen, Held
<1> QED BY <1>1, <1>5, <1>6

LEMMA GateHandles ==
    ASSUME TypeOK, TurnsOK, GateOK, SerialOK, FreshOK, OpenIsOpen, OpenIsOpen',
           NEW t \in Threads, Handle(t)
    PROVE  [Gate!Next]_(Gate!vars)
<1>0. PICK s \in Sessions, call \in Calls \union {NoCall} : s = turn[t].session /\ call = turn[t].call
  <2>1. Busy(t)
    BY WorkMoves, LeaveLeaves DEF Handle, LeavesOnly
  <2> QED BY <2>1, BusyTurn
<1> USE <1>0
<1>1. /\ Busy(t) /\ OthersKeep(t) /\ RowWrites(t) /\ s \in Sessions
      /\ Busy(t)' => turn'[t].session = turn[t].session
  <2>1. Busy(t) /\ OthersKeep(t) /\ (Busy(t)' => turn'[t].session = turn[t].session)
    BY WorkMoves, LeaveLeaves DEF Handle, LeavesOnly, KeepsTurn
  <2> QED BY <2>1, HandleRows, BusyTurn
<1>2. /\ OpenRequest[s] = IF pc[t] \in {"run", "cancel"} THEN call
                          ELSE IF pending[s] \in RanAfterAsking THEN NoCall ELSE pending[s]
      /\ OpenRequest'[s] = IF pc'[t] \in {"run", "cancel"} THEN turn'[t].call
                           ELSE IF pending'[s] \in RanAfterAsking' THEN NoCall ELSE pending'[s]
  BY <1>1, OpenHere
<1>3. /\ RanAfterAsking' = IF RunConfirmed(t) THEN RanAfterAsking \union {call} ELSE RanAfterAsking
      /\ RanAfterAsking \subseteq Ran /\ NoCall \notin RanAfterAsking
      /\ pc[t] \in {"run", "cancel", "ask"} => call \in Calls /\ call # NoCall
  BY <1>1, RanAdds, BusyTurn, NullsAssumption DEF TypeOK, Executions, Ran, RanAfterAsking, UsesCall
<1>4. \A x \in Sessions \ {s} : OpenRequest'[x] \in {OpenRequest[x], NoCall}
  <2> SUFFICES ASSUME NEW x \in Sessions \ {s} PROVE OpenRequest'[x] \in {OpenRequest[x], NoCall}
    OBVIOUS
  <2>1. pending'[x] \in {pending[x], NoCall}
    BY <1>1 DEF RowWrites, Swept
  <2>2. RunConfirmed(t) /\ pending[x] # NoCall => pending[x] # call
    <3> SUFFICES ASSUME RunConfirmed(t), pending[x] # NoCall PROVE pending[x] # call
      OBVIOUS
    <3>1. <<x, pending[x]>> \in asked /\ <<s, call>> \in asked
      BY DEF GateOK, SerialOK, RunConfirmed
    <3>2. \A a, b \in asked : a[2] = b[2] => a = b
      BY DEF SerialOK
    <3> QED BY <3>1, <3>2
  <2>3. RanAfterAsking \subseteq RanAfterAsking'
        /\ (pending[x] \in RanAfterAsking' => pending[x] \in RanAfterAsking \union {NoCall})
    BY <1>3, <2>2
  <2> QED BY <1>1, <2>1, <2>3, OpenElsewhere
<1>5. /\ OpenRequest = [x \in Sessions |-> OpenRequest[x]]
      /\ OpenRequest' = [x \in Sessions |-> OpenRequest'[x]]
  BY DEF OpenRequest
<1> DEFINE S == {x \in Sessions \ {s} : OpenRequest'[x] # OpenRequest[x]}
<1>6. ASSUME NEW v, OpenRequest'[s] = v PROVE Gate!Settle(s, v)
  <2>1. OpenRequest' = [x \in Sessions |-> IF x = s THEN v
                                           ELSE IF x \in S THEN NoCall ELSE OpenRequest[x]]
    BY <1>1, <1>4, <1>5, <1>6
  <2> QED BY <2>1 DEF Gate!Settle
<1>7. CASE RunConfirmed(t)
  <2>1. /\ pc[t] = "run" /\ pc'[t] = "continue" /\ UNCHANGED <<pending, asked, CancelledCalls>>
        /\ RanAfterAsking' = RanAfterAsking \union {call} /\ OpenRequest[s] = call
    BY <1>2, <1>3, <1>7, CancelAdds DEF RunConfirmed, Goto, store, TypeOK
  <2>2. OpenRequest'[s] = NoCall
    <3>1. pending[s] \in {call, NoCall}
      BY <2>1 DEF SerialOK
    <3> QED BY <1>2, <2>1, <3>1
  <2>3. \A x \in Sessions \ {s} : OpenRequest'[x] = OpenRequest[x]
    <3> SUFFICES ASSUME NEW x \in Sessions \ {s} PROVE OpenRequest'[x] = OpenRequest[x]
      OBVIOUS
    <3>1. \A u \in Threads : HeldBy(u, x)' <=> HeldBy(u, x)
      BY <1>1 DEF HeldBy, OthersKeep, Busy
    <3>2. \A u \in Threads : HeldBy(u, x) => turn'[u] = turn[u]
      BY <1>1 DEF HeldBy, OthersKeep
    <3>3. pending[x] # NoCall => pending[x] # call
      <4> SUFFICES ASSUME pending[x] # NoCall PROVE pending[x] # call
        OBVIOUS
      <4>1. <<x, pending[x]>> \in asked /\ <<s, call>> \in asked
        BY <2>1 DEF GateOK, SerialOK
      <4>2. \A a, b \in asked : a[2] = b[2] => a = b
        BY DEF SerialOK
      <4> QED BY <4>1, <4>2
    <3>4. IsOpen(x, OpenRequest[x])
      BY DEF OpenIsOpen
    <3>5. IsOpen(x, OpenRequest'[x])
      <4>1. IsOpen(x, OpenRequest[x])'
        BY DEF OpenIsOpen
      <4> QED BY <1>3, <2>1, <3>1, <3>2, <3>3, <4>1 DEF IsOpen, Held
    <3> QED BY <3>5 DEF OpenIsOpen
  <2>4. OpenRequest' = [OpenRequest EXCEPT ![s] = NoCall]
    BY <1>1, <1>5, <2>2, <2>3
  <2>5. Gate!Run(s)
    BY <1>3, <2>1, <2>4 DEF Gate!Run
  <2> QED BY <1>1, <2>5 DEF Gate!Next
<1>8. CASE CancelPending(t)
  <2>1. /\ pc[t] = "cancel" /\ pc'[t] = "output" /\ UNCHANGED <<asked, executed>>
        /\ CancelledCalls' = CancelledCalls \union {call} /\ OpenRequest[s] = call
    BY <1>1, <1>2, <1>8, CancelAdds DEF CancelPending, Say, Goto, TypeOK
  <2>2. RanAfterAsking' = RanAfterAsking
    BY <2>1 DEF RanAfterAsking
  <2>3. pending'[s] = NoCall
    BY <1>1, <1>8, UpsertRows DEF CancelPending, SetPending
  <2>4. OpenRequest'[s] = NoCall
    BY <1>2, <2>1, <2>3
  <2>5. Gate!Settle(s, NoCall)
    BY <1>6, <2>4
  <2>6. Gate!Cancel(s)
    BY <1>3, <2>1, <2>2, <2>5 DEF Gate!Cancel
  <2> QED BY <1>1, <2>6 DEF Gate!Next
<1>9. CASE AskConfirmation(t)
  <2>1. /\ pc[t] = "ask" /\ pc'[t] = "output" /\ UNCHANGED <<CancelledCalls, executed>>
        /\ asked' = asked \union {<<s, call>>}
    BY <1>9, CancelAdds DEF AskConfirmation, Say, Goto, TypeOK
  <2>2. RanAfterAsking' = RanAfterAsking
    BY <2>1 DEF RanAfterAsking
  <2>3. pending'[s] = call
    BY <1>1, <1>9, UpsertRows DEF AskConfirmation, SetPending
  <2>4. call \notin Ran /\ \A a \in asked : a[2] # call
    BY <2>1, FreshCall
  <2>5. pending[s] = NoCall
    BY <2>1 DEF FreshOK
  <2>6. OpenRequest[s] = NoCall /\ OpenRequest'[s] = call
    BY <1>2, <1>3, <2>1, <2>2, <2>3, <2>4, <2>5
  <2>7. Gate!Settle(s, call)
    BY <1>6, <2>6
  <2>8. {a[2] : a \in asked'} = {a[2] : a \in asked} \union {call}
    <3>1. <<s, call>>[2] = call
      OBVIOUS
    <3> QED BY <2>1, <3>1
  <2>9. call \in Calls \ {a[2] : a \in asked}
    BY <1>3, <2>1, <2>4
  <2>10. Gate!Ask(s)
    <3> QED BY <2>1, <2>2, <2>6, <2>7, <2>8, <2>9 DEF Gate!Ask
  <2> QED BY <2>10 DEF Gate!Next
<1>10. CASE ~RunConfirmed(t) /\ ~CancelPending(t) /\ ~AskConfirmation(t)
  <2>1. UNCHANGED <<asked, CancelledCalls>> /\ RanAfterAsking' = RanAfterAsking
    BY <1>3, <1>10, CancelAdds DEF Handle, Work, InputRailAllows, InputRailBlocks, ReadPending,
       RunAllowed, ContinueConfirmed, ClearConfirmed, RespondText, RespondCall, ContinueAllowed,
       OutputRailAllows, OutputRailBlocks, AppendUser, AppendAssistant, Raise, ghosts
  <2>2. OpenRequest'[s] \in {OpenRequest[s], NoCall}
    <3>1. CASE Raise(t)
      <4>1. pc'[t] = "idle" /\ pending' = pending
        BY <3>1 DEF Raise, Goto, store, TypeOK
      <4>2. pc[t] \in {"run", "cancel"} => pending[s] \in {call, NoCall}
        BY DEF SerialOK
      <4> QED BY <1>2, <2>1, <4>1, <4>2
    <3>2. CASE ReadPending(t) /\ pc'[t] \in {"run", "cancel"}
      <4>1. pc[t] = "pending" /\ pending[s] # NoCall /\ turn'[t].call = pending[s]
        BY <3>2, WorkMoves DEF Work, ReadPending
      <4>2. pending[s] \notin Ran
        <5>1. ~\E u \in Threads : Clearing(u, s)
          BY <1>1, <4>1 DEF Clearing, Confirmed, SerialOK, Busy
        <5> QED BY <1>1, <4>1, <5>1 DEF SerialOK
      <4> QED BY <1>2, <1>3, <3>2, <4>1, <4>2
    <3>3. CASE ~Raise(t) /\ ~(ReadPending(t) /\ pc'[t] \in {"run", "cancel"})
      <4>1. pc[t] \notin {"run", "cancel", "ask"} /\ pc'[t] \notin {"run", "cancel"}
        BY <1>1, <1>10, <3>3 DEF Handle, Work, InputRailAllows, InputRailBlocks, ReadPending,
           RunAllowed, ContinueConfirmed, ClearConfirmed, RespondText, RespondCall,
           ContinueAllowed, OutputRailAllows, OutputRailBlocks, AppendUser, AppendAssistant,
           Say, Goto, TypeOK
      <4>2. pending'[s] \in {pending[s], NoCall}
        BY <1>1, <4>1 DEF RowWrites, OwnRequest
      <4> QED BY <1>2, <2>1, <4>1, <4>2
    <3> QED BY <3>1, <3>2, <3>3
  <2> QED BY <1>4, <2>1, <2>2, GateForgets
<1> QED BY <1>7, <1>8, <1>9, <1>10

(* The other steps move no handler that answers, and no request. *)
LEMMA GateStutters ==
    ASSUME OpenIsOpen, OpenIsOpen', UNCHANGED <<pending, asked, executed, cancelled>>,
           \A t \in Threads, s \in Sessions : HeldBy(t, s)' <=> HeldBy(t, s),
           \A t \in Threads, s \in Sessions : HeldBy(t, s) => turn'[t] = turn[t]
    PROVE  [Gate!Next]_(Gate!vars)
<1>1. RanAfterAsking' = RanAfterAsking
  BY DEF RanAfterAsking
<1>2. \A s \in Sessions : OpenRequest'[s] = OpenRequest[s]
  <2> SUFFICES ASSUME NEW s \in Sessions PROVE OpenRequest'[s] = OpenRequest[s]
    OBVIOUS
  <2>1. IsOpen(s, OpenRequest[s])'
    BY DEF OpenIsOpen
  <2>2. IsOpen(s, OpenRequest'[s])
    BY <1>1, <2>1 DEF IsOpen, Held
  <2> QED BY <2>2 DEF OpenIsOpen
<1>3. CancelledCalls' = CancelledCalls
  BY DEF CancelledCalls
<1> QED BY <1>1, <1>2, <1>3, GateForgets

(* The runtime implements the abstract gate of ConfirmationGate: in each       *)
(* Session at most one request is open, its call runs at most once and only    *)
(* while it is open, and what was cancelled never ran and never will           *)
(* (conversation.py:118-214).  Reading the request out moves nothing: the      *)
(* handler's locals hold it then.  Everything that is not a question, a run or *)
(* a cancellation at most forgets requests.                                    *)
THEOREM ImplementsTheGate == ASSUME Serial PROVE Spec => GateSpec
<1>1. Init => Gate!Init
  <2> SUFFICES ASSUME Init PROVE Gate!Init
    OBVIOUS
  <2>1. RanAfterAsking = {} /\ asked = {} /\ CancelledCalls = {}
    BY DEF Init, RanAfterAsking, CancelledCalls
  <2>2. OpenRequest = [s \in Sessions |-> NoCall]
    BY <2>1 DEF Init, OpenRequest, HeldBy
  <2> QED BY <2>1, <2>2 DEF Gate!Init
<1>2. TypeOK /\ SerialOK => OpenIsOpen
  BY OpenRead
<1>3. Inv /\ SerialOK /\ FreshOK /\ OpenIsOpen /\ OpenIsOpen' /\ [Next]_vars
        => [Gate!Next]_(Gate!vars)
  <2> SUFFICES ASSUME Inv, SerialOK, FreshOK, OpenIsOpen, OpenIsOpen', [Next]_vars
               PROVE  [Gate!Next]_(Gate!vars)
    OBVIOUS
  <2>1. CASE \E t \in Threads : Handle(t)
    BY <2>1, GateHandles DEF Inv
  <2>2. ASSUME NEW t \in Threads, NEW s \in Sessions, NEW m \in Messages, Begin(t, s, m)
        PROVE  [Gate!Next]_(Gate!vars)
    <3>1. BeginsOnly(t, s, m) /\ cancelled' = cancelled
      BY <2>2, BeginBegins DEF Begin, Inv
    <3>2. \A u \in Threads, x \in Sessions :
             /\ HeldBy(u, x)' <=> HeldBy(u, x)
             /\ HeldBy(u, x) => turn'[u] = turn[u]
      BY <3>1 DEF BeginsOnly, OthersKeep, HeldBy, Busy
    <3> QED BY <3>1, <3>2, GateStutters DEF BeginsOnly
  <2>3. CASE Restart
    <3>1. \A u \in Threads, x \in Sessions : ~HeldBy(u, x)' /\ ~HeldBy(u, x)
      BY <2>3 DEF Restart, Serial, Busy, HeldBy
    <3> QED BY <2>3, <3>1, GateStutters DEF Restart, ghosts
  <2>4. CASE UNCHANGED <<pc, turn, pending, history, loaded, restarts, ghosts>>
    <3>1. \A u \in Threads, x \in Sessions : HeldBy(u, x)' <=> HeldBy(u, x)
      BY <2>4 DEF HeldBy
    <3> QED BY <2>4, <3>1, GateStutters DEF ghosts
  <2> QED BY <2>1, <2>2, <2>3, <2>4, NextKinds DEF Inv
<1> QED BY <1>1, <1>2, <1>3, Invariant, SerialInvariant, FreshInvariant, PTL
        DEF Spec, Inv, GateSpec, Gate!Spec

-------------------------------------------------------------------------------
(* What the Customer was answered before a confirmation runs: every call asked *)
(* of a Session is the subject of a turn of that Session, answered or still on  *)
(* its way through the Output Rail and the two appends, with its prompt or,     *)
(* where there is an Output Rail, with what that put in its place.              *)
Answers == {"prompt"} \union {k \in {"replaced"} : OutputEnabled}
Answered(c) == \E r \in replies : r.turn = c.id /\ r.kind \in Answers
Answering(t, c) ==
    /\ turn[t].id = c.id /\ pc[t] \in {"output", "user", "assistant"}
    /\ turn[t].kind = "prompt" \/ (turn[t].kind \in Answers /\ pc[t] # "output")
AnsweredOnce ==
    /\ \A a \in asked : /\ log[a[2].id].session = a[1]
                        /\ Answered(a[2]) \/ \E t \in Threads : Answering(t, a[2])
    /\ \A c \in RanAfterAsking : Answered(c)

(* Nothing fails between keeping a request and replying with its prompt. *)
Prompted == Serial /\ Faults \intersect {"output", "user", "assistant"} = {}

LEMMA AnsweringGoesOn ==
    ASSUME TypeOK, Prompted, NEW t \in Threads, Handle(t), NEW c, Answering(t, c)
    PROVE  Answered(c)' \/ Answering(t, c)'
<1>1. turn[t] \in Turns /\ Busy(t) /\ pc[t] \in {"output", "user", "assistant"}
      /\ pc \in [Threads -> Steps] /\ turn \in [Threads -> Turns \union {NoTurn}]
  BY BusyTurn DEF Answering, Busy, TypeOK
<1>2. CASE OutputRailAllows(t)
  <2>1. /\ pc[t] = "output" /\ pc'[t] = "user"
        /\ turn'[t] = IF OutputEnabled THEN [turn[t] EXCEPT !.gate = "output"] ELSE turn[t]
    BY <1>1, <1>2 DEF OutputRailAllows, Goto
  <2>2. turn'[t].id = turn[t].id /\ turn'[t].kind = turn[t].kind
    BY <1>1, <2>1, ExceptGate DEF Gates
  <2> QED BY <2>1, <2>2 DEF Answering
<1>3. CASE OutputRailBlocks(t)
  <2>1. /\ pc'[t] = "user"
        /\ turn'[t] = [turn[t] EXCEPT !.kind = "replaced", !.gate = "output"]
    BY <1>1, <1>3 DEF OutputRailBlocks, Goto
  <2>2. turn'[t].id = turn[t].id /\ turn'[t].kind = "replaced"
    BY <1>1, <2>1, ExceptKindGate DEF Kinds, Gates
  <2>3. "replaced" \in Answers
    BY <1>3 DEF OutputRailBlocks, Answers
  <2> QED BY <2>1, <2>2, <2>3 DEF Answering
<1>4. CASE AppendUser(t)
  BY <1>1, <1>4 DEF AppendUser, Goto, Answering
<1>5. CASE AppendAssistant(t)
  <2> DEFINE reply == [turn |-> turn[t].id, kind |-> turn[t].kind, gate |-> turn[t].gate]
  <2>1. reply.turn = turn[t].id /\ reply.kind = turn[t].kind /\ reply.gate = turn[t].gate
    OBVIOUS
  <2>2. reply \in replies'
    BY <1>5 DEF AppendAssistant
  <2> HIDE DEF reply
  <2> QED BY <2>1, <2>2 DEF Answered, Answering, Answers
<1>6. pc[t] \notin Faults
  BY <1>1 DEF Prompted
<1> QED BY <1>1, <1>2, <1>3, <1>4, <1>5, <1>6 DEF Handle, Work, InputRailAllows,
       InputRailBlocks, ReadPending, RunConfirmed, ContinueConfirmed, ClearConfirmed,
       CancelPending, RespondText, RespondCall, RunAllowed, ContinueAllowed, AskConfirmation,
       Raise

LEMMA AnsweredStep ==
    ASSUME TypeOK, TurnsOK, GateOK, SerialOK, AnsweredOnce, Prompted, [Next]_vars
    PROVE  AnsweredOnce'
<1>1. ASSUME NEW t \in Threads, NEW s \in Sessions, NEW m \in Messages, BeginsOnly(t, s, m)
      PROVE  AnsweredOnce'
  <2>1. \A a \in asked : log'[a[2].id] = log[a[2].id]
    BY <1>1 DEF BeginsOnly, TurnsOK
  <2>2. \A u \in Threads : \A c : Answering(u, c) => Answering(u, c)'
    BY <1>1 DEF BeginsOnly, OthersKeep, Answering, Busy
  <2>3. UNCHANGED <<asked, executed, replies>>
    BY <1>1 DEF BeginsOnly
  <2>4. \A c : Answered(c)' <=> Answered(c)
    BY <2>3 DEF Answered
  <2>5. RanAfterAsking' = RanAfterAsking
    BY <2>3 DEF RanAfterAsking
  <2> QED BY <2>1, <2>2, <2>3, <2>4, <2>5 DEF AnsweredOnce
<1>2. ASSUME NEW t \in Threads, Handle(t) PROVE AnsweredOnce'
  <2>1. /\ Busy(t) /\ OthersKeep(t) /\ log' = log /\ replies \subseteq replies'
        /\ turn[t].session \in Sessions
    <3>1. Busy(t) /\ OthersKeep(t) /\ log' = log /\ replies \subseteq replies'
      BY <1>2, WorkMoves, LeaveLeaves DEF Handle, LeavesOnly
    <3> QED BY <3>1, BusyTurn
  <2>2. \A c : Answered(c) => Answered(c)'
    BY <2>1 DEF Answered
  <2>3. \A c : (\E u \in Threads : Answering(u, c)) => Answered(c)' \/ \E u \in Threads : Answering(u, c)'
    <3> SUFFICES ASSUME NEW c, NEW u \in Threads, Answering(u, c)
                 PROVE  Answered(c)' \/ Answering(u, c)'
      OBVIOUS
    <3>1. CASE u = t
      BY <1>2, <3>1, AnsweringGoesOn
    <3>2. CASE u # t
      BY <2>1, <3>2 DEF OthersKeep, Answering
    <3> QED BY <3>1, <3>2
  <2>4. \A a \in asked' : /\ log'[a[2].id].session = a[1]
                          /\ Answered(a[2])' \/ \E u \in Threads : Answering(u, a[2])'
    <3>1. CASE AskConfirmation(t)
      <4>1. PICK new : /\ new[1] = turn[t].session /\ new[2] = turn[t].call
                       /\ asked' = asked \union {new}
        BY <3>1 DEF AskConfirmation
      <4>2. turn[t].call.id = turn[t].id /\ log[turn[t].id].session = turn[t].session
        BY <2>1, <3>1 DEF AskConfirmation, GateOK, TurnsOK
      <4>3. pc'[t] = "output" /\ turn'[t].kind = "prompt" /\ turn'[t].id = turn[t].id
        <5>1. Work(t) /\ pc[t] = "ask"
          BY <3>1 DEF Work, AskConfirmation
        <5> QED BY <5>1, WorkMoves DEF KeepsTurn
      <4>4. Answering(t, new[2])'
        BY <4>1, <4>2, <4>3 DEF Answering
      <4> QED BY <2>1, <2>2, <2>3, <4>1, <4>2, <4>4 DEF AnsweredOnce
    <3>2. CASE ~AskConfirmation(t)
      <4>1. asked' = asked
        BY <1>2, <3>2 DEF Handle, Work, InputRailAllows, InputRailBlocks, ReadPending,
           RunConfirmed, ContinueConfirmed, ClearConfirmed, CancelPending, RespondText,
           RespondCall, RunAllowed, ContinueAllowed, OutputRailAllows, OutputRailBlocks,
           AppendUser, AppendAssistant, Raise, ghosts
      <4> QED BY <2>1, <2>2, <2>3, <4>1 DEF AnsweredOnce
    <3> QED BY <3>1, <3>2
  <2>5. \A c \in RanAfterAsking' : Answered(c)'
    <3>1. CASE RunConfirmed(t)
      <4> DEFINE new == [call |-> turn[t].call, turn |-> turn[t].id,
                         mode |-> loaded[turn[t].call.name]]
      <4>1. new.call = turn[t].call /\ executed' = executed \union {new}
        BY <3>1 DEF RunConfirmed, Execute
      <4>2. <<turn[t].session, turn[t].call>> \in asked /\ turn[t].call.id # turn[t].id
        BY <3>1 DEF RunConfirmed, GateOK
      <4>3. ~\E u \in Threads : Answering(u, turn[t].call)
        <5> SUFFICES ASSUME NEW u \in Threads, Answering(u, turn[t].call) PROVE FALSE
          OBVIOUS
        <5>1. Busy(u) /\ turn[u].id = turn[t].call.id
          BY DEF Answering, Busy
        <5>2. log[turn[t].call.id].session = turn[t].session
          BY <4>2 DEF AnsweredOnce
        <5>3. turn[u].session = turn[t].session
          BY <5>1, <5>2 DEF TurnsOK
        <5> QED BY <2>1, <4>2, <5>1, <5>3 DEF SerialOK
      <4>4. Answered(turn[t].call)
        BY <4>2, <4>3 DEF AnsweredOnce
      <4> HIDE DEF new
      <4> QED BY <2>2, <4>1, <4>4 DEF AnsweredOnce, RanAfterAsking
    <3>2. CASE RunAllowed(t)
      <4> DEFINE new == [call |-> turn[t].call, turn |-> turn[t].id,
                         mode |-> loaded[turn[t].call.name]]
      <4>1. /\ new.call = turn[t].call /\ new.turn = turn[t].id
            /\ executed' = executed \union {new} /\ turn[t].call.id = turn[t].id
        BY <3>2 DEF RunAllowed, Execute, GateOK
      <4> HIDE DEF new
      <4> QED BY <2>2, <4>1 DEF AnsweredOnce, RanAfterAsking
    <3>3. CASE ~RunConfirmed(t) /\ ~RunAllowed(t)
      <4>1. executed' = executed
        BY <1>2, <3>3 DEF Handle, Work, InputRailAllows, InputRailBlocks, ReadPending,
           ContinueConfirmed, ClearConfirmed, CancelPending, RespondText, RespondCall,
           ContinueAllowed, AskConfirmation, OutputRailAllows, OutputRailBlocks, AppendUser,
           AppendAssistant, Raise, ghosts
      <4> QED BY <2>2, <4>1 DEF AnsweredOnce, RanAfterAsking
    <3> QED BY <3>1, <3>2, <3>3
  <2> QED BY <2>4, <2>5 DEF AnsweredOnce
<1>3. CASE Restart
  <2>1. \A u \in Threads : \A c : ~Answering(u, c)
    BY <1>3 DEF Restart, Prompted, Serial, Busy, Answering
  <2>2. UNCHANGED <<log, asked, executed, replies>>
    BY <1>3 DEF Restart, ghosts
  <2>3. \A c : Answered(c)' <=> Answered(c)
    BY <2>2 DEF Answered
  <2>4. RanAfterAsking' = RanAfterAsking
    BY <2>2 DEF RanAfterAsking
  <2> QED BY <2>1, <2>2, <2>3, <2>4 DEF AnsweredOnce
<1>4. CASE UNCHANGED <<pc, turn, pending, history, loaded, restarts, ghosts>>
  BY <1>4 DEF AnsweredOnce, RanAfterAsking, Answered, Answering, ghosts
<1> QED BY <1>1, <1>2, <1>3, <1>4, NextKinds, BeginBegins

LEMMA AnsweredInvariant == ASSUME Prompted PROVE Spec => []AnsweredOnce
<1>0. Serial
  BY DEF Prompted
<1>1. Init => AnsweredOnce
  BY DEF Init, AnsweredOnce, RanAfterAsking
<1>2. Inv /\ SerialOK /\ AnsweredOnce /\ [Next]_vars => AnsweredOnce'
  BY AnsweredStep DEF Inv
<1> QED BY <1>0, <1>1, <1>2, Invariant, SerialInvariant, PTL DEF Spec

(* The turn that asked for a call a confirmation ran was answered in full: with *)
(* the call's prompt, or with what the Output Rail put in its place             *)
(* (conversation.py:112, 206-223).  That the Customer saw the call is more, and *)
(* false with an Output Rail: the run conv_unseen_yes.                          *)
THEOREM ConfirmsWhatWasAnswered == ASSUME Prompted PROVE Spec => []ConfirmedWasAnswered
<1>1. AnsweredOnce => ConfirmedWasAnswered
  BY DEF AnsweredOnce, Answered, Answers, ConfirmedWasAnswered, AnsweredWith
<1> QED BY <1>1, AnsweredInvariant, PTL

(* Without an Output Rail no confirmation runs a call whose prompt its Customer *)
(* was not shown (conversation.py:226-237).                                     *)
THEOREM ConfirmsWhatWasShown ==
    ASSUME Prompted, ~OutputEnabled PROVE Spec => []ConfirmedWasShown
<1>1. AnsweredOnce => ConfirmedWasShown
  BY DEF AnsweredOnce, Answered, Answers, ConfirmedWasShown, AnsweredWith
<1> QED BY <1>1, AnsweredInvariant, PTL

-------------------------------------------------------------------------------
(* What a Session keeps of its turns.  This needs less than the requests do: a *)
(* handler at a time, and nothing that stops one between its two appends.      *)
Orderly == ~Overlap /\ ~CrashAnywhere /\ "assistant" \notin Faults

WholeTurns(h) ==
    \A i \in 1..Len(h) :
        IF i % 2 = 1 THEN h[i].role = "user" /\ (i > 1 => h[i - 1].turn < h[i].turn)
        ELSE h[i].role = "assistant" /\ h[i].turn = h[i - 1].turn

LEMMA AppendsUser ==
    ASSUME NEW h \in History, NEW id \in TurnIds, WholeTurns(h), Len(h) % 2 = 0,
           \A i \in 1..Len(h) : h[i].turn < id
    PROVE  LET g == Append(h, [role |-> "user", turn |-> id]) IN
           /\ WholeTurns(g) /\ Len(g) % 2 = 1 /\ g[Len(g)].turn = id
           /\ \A i \in 1..Len(g) : g[i].turn = id \/ \E j \in 1..Len(h) : g[i].turn = h[j].turn
<1> DEFINE entry == [role |-> "user", turn |-> id]
           g == Append(h, entry)
<1>1. entry.role = "user" /\ entry.turn = id /\ entry \in [role : Roles, turn : TurnIds]
  BY DEF Roles
<1> HIDE DEF entry
<1>2. /\ Len(h) \in Nat /\ Len(g) = Len(h) + 1
      /\ \A i \in 1..Len(h) : g[i] = h[i]
      /\ g[Len(h) + 1] = entry
  BY <1>1 DEF History
<1> HIDE DEF g
<1>3. WholeTurns(g)
  <2> SUFFICES ASSUME NEW i \in 1..Len(g)
               PROVE  IF i % 2 = 1 THEN g[i].role = "user" /\ (i > 1 => g[i - 1].turn < g[i].turn)
                      ELSE g[i].role = "assistant" /\ g[i].turn = g[i - 1].turn
    BY DEF WholeTurns
  <2>1. CASE i = Len(h) + 1
    BY <1>1, <1>2, <2>1
  <2>2. CASE i # Len(h) + 1
    <3>1. i \in 1..Len(h) /\ g[i] = h[i] /\ (i > 1 => g[i - 1] = h[i - 1])
      BY <1>2, <2>2
    <3>2. i % 2 # 1 => i > 1
      BY <3>1
    <3> QED BY <3>1, <3>2 DEF WholeTurns
  <2> QED BY <2>1, <2>2
<1>4. Len(g) % 2 = 1 /\ g[Len(g)].turn = id
  BY <1>1, <1>2
<1>5. \A i \in 1..Len(g) : g[i].turn = id \/ \E j \in 1..Len(h) : g[i].turn = h[j].turn
  BY <1>1, <1>2
<1> QED BY <1>3, <1>4, <1>5 DEF g, entry

LEMMA AppendsAssistant ==
    ASSUME NEW h \in History, NEW id \in TurnIds, WholeTurns(h), Len(h) % 2 = 1,
           h[Len(h)].turn = id
    PROVE  LET g == Append(h, [role |-> "assistant", turn |-> id]) IN
           /\ WholeTurns(g) /\ Len(g) % 2 = 0
           /\ \A i \in 1..Len(g) : \E j \in 1..Len(h) : g[i].turn = h[j].turn
<1> DEFINE entry == [role |-> "assistant", turn |-> id]
           g == Append(h, entry)
<1>1. entry.role = "assistant" /\ entry.turn = id /\ entry \in [role : Roles, turn : TurnIds]
  BY DEF Roles
<1> HIDE DEF entry
<1>2. /\ Len(h) \in Nat /\ Len(g) = Len(h) + 1
      /\ \A i \in 1..Len(h) : g[i] = h[i]
      /\ g[Len(h) + 1] = entry
  BY <1>1 DEF History
<1> HIDE DEF g
<1>3. WholeTurns(g)
  <2> SUFFICES ASSUME NEW i \in 1..Len(g)
               PROVE  IF i % 2 = 1 THEN g[i].role = "user" /\ (i > 1 => g[i - 1].turn < g[i].turn)
                      ELSE g[i].role = "assistant" /\ g[i].turn = g[i - 1].turn
    BY DEF WholeTurns
  <2>1. CASE i = Len(h) + 1
    BY <1>1, <1>2, <2>1
  <2>2. CASE i # Len(h) + 1
    <3>1. i \in 1..Len(h) /\ g[i] = h[i] /\ (i > 1 => g[i - 1] = h[i - 1])
      BY <1>2, <2>2
    <3>2. i % 2 # 1 => i > 1
      BY <3>1
    <3> QED BY <3>1, <3>2 DEF WholeTurns
  <2> QED BY <2>1, <2>2
<1>4. Len(g) % 2 = 0
  BY <1>2
<1>5. \A i \in 1..Len(g) : \E j \in 1..Len(h) : g[i].turn = h[j].turn
  <2>1. Len(h) \in 1..Len(h)
    BY <1>2
  <2> QED BY <1>1, <1>2, <2>1
<1> QED BY <1>3, <1>4, <1>5 DEF g, entry

(* Between its two appends a handler's row is odd, ends with its turn, and is  *)
(* not idle; at any other time the row is even and older than who handles it.  *)
Between(t, s) == pc[t] = "assistant" /\ turn[t].session = s
RowOK(s) ==
    /\ \A i \in 1..Len(history[s]) : history[s][i].turn \in Handled
    /\ \A t \in Threads : Busy(t) /\ turn[t].session = s /\ pc[t] # "assistant" =>
          \A i \in 1..Len(history[s]) : history[s][i].turn < turn[t].id
    /\ \A t \in Threads : Between(t, s) =>
          /\ s \notin idleRows /\ Len(history[s]) % 2 = 1
          /\ history[s][Len(history[s])].turn = turn[t].id
    /\ (\A t \in Threads : ~Between(t, s)) => Len(history[s]) % 2 = 0
    /\ WholeTurns(history[s])
OneEach == \A t, u \in Threads :
              Busy(t) /\ Busy(u) /\ turn[t].session = turn[u].session => t = u
HistoryOK == OneEach /\ \A s \in Sessions : RowOK(s)

LEMMA HistoryHandles ==
    ASSUME TypeOK, TurnsOK, HistoryOK, Orderly, NEW t \in Threads, Handle(t)
    PROVE  HistoryOK'
<1>1. /\ Busy(t) /\ OthersKeep(t) /\ RowWrites(t) /\ log' = log
      /\ \A u \in Threads : Busy(u)' => /\ Busy(u) /\ turn'[u].id = turn[u].id
                                        /\ turn'[u].session = turn[u].session
  <2>1. /\ Busy(t) /\ OthersKeep(t) /\ log' = log
        /\ Busy(t)' => turn'[t].id = turn[t].id /\ turn'[t].session = turn[t].session
    BY WorkMoves, LeaveLeaves DEF Handle, LeavesOnly, KeepsTurn
  <2> QED BY <2>1, HandleRows DEF OthersKeep, Busy
<1>2. Handled' = Handled /\ turn[t].session \in Sessions /\ turn[t].id \in TurnIds
  BY <1>1, BusyTurn DEF Handled
<1>3. OneEach'
  BY <1>1 DEF HistoryOK, OneEach
<1>4. ASSUME NEW s \in Sessions \ {turn[t].session} PROVE RowOK(s)'
  <2>1. \A u \in Threads : Between(u, s)' <=> Between(u, s)
    BY <1>1, <1>4 DEF Between, OthersKeep, Busy
  <2>2. \A u \in Threads : Busy(u)' /\ turn'[u].session = s =>
           Busy(u) /\ turn[u].session = s /\ turn'[u].id = turn[u].id /\ pc'[u] = pc[u]
    BY <1>1, <1>4 DEF OthersKeep
  <2>3. RowOK(s)
    BY DEF HistoryOK
  <2>4. CASE Swept(s)
    <3>1. \A u \in Threads : ~Between(u, s)'
      BY <2>1, <2>3, <2>4 DEF RowOK, Swept
    <3>2. history'[s] = <<>> /\ Len(<<>>) = 0 /\ 1..0 = {}
      BY <2>4 DEF Swept
    <3> QED BY <3>1, <3>2 DEF RowOK, WholeTurns
  <2>5. CASE history'[s] = history[s]
    <3>1. s \in idleRows' => s \in idleRows
      BY <1>1 DEF RowWrites
    <3>2. \A u \in Threads : Between(u, s) => turn'[u].id = turn[u].id
      BY <1>1, <1>4 DEF Between, OthersKeep, Busy
    <3>3. WholeTurns(history[s])'
      BY <2>3, <2>5 DEF RowOK, WholeTurns
    <3>4. \A u \in Threads : Busy(u)' /\ turn'[u].session = s /\ pc'[u] # "assistant" =>
             \A i \in 1..Len(history'[s]) : history'[s][i].turn < turn'[u].id
      BY <2>2, <2>3, <2>5 DEF RowOK
    <3> QED BY <1>2, <2>1, <2>3, <2>5, <3>1, <3>2, <3>3, <3>4 DEF RowOK
  <2> QED BY <1>1, <1>4, <2>4, <2>5 DEF RowWrites
<1>5. ASSUME NEW s \in Sessions, s = turn[t].session PROVE RowOK(s)'
  <2>1. /\ \A u \in Threads : Busy(u) /\ turn[u].session = s => u = t
        /\ \A u \in Threads : Busy(u)' /\ turn'[u].session = s => u = t
    BY <1>1, <1>5 DEF HistoryOK, OneEach
  <2>2. /\ \A u \in Threads : Between(u, s) => u = t
        /\ \A u \in Threads : Between(u, s)' => u = t
    BY <2>1 DEF Between, Busy
  <2>3. RowOK(s) /\ history[s] \in History
    BY DEF HistoryOK, TypeOK, History
  <2>4. turn[t].id \in Handled /\ Handled \subseteq Nat
    BY <1>1 DEF TurnsOK, Handled
  <2>5. CASE pc[t] = "user" /\ pc'[t] = "assistant" /\ s \notin idleRows' /\
             history'[s] = Append(history[s], [role |-> "user", turn |-> turn[t].id])
    <3>1. /\ Len(history[s]) % 2 = 0 /\ \A i \in 1..Len(history[s]) : history[s][i].turn < turn[t].id
      BY <1>1, <1>5, <2>2, <2>3, <2>5 DEF RowOK, Between
    <3>2. /\ WholeTurns(history'[s]) /\ Len(history'[s]) % 2 = 1
          /\ history'[s][Len(history'[s])].turn = turn[t].id
          /\ \A i \in 1..Len(history'[s]) : \/ history'[s][i].turn = turn[t].id
                                            \/ \E j \in 1..Len(history[s]) :
                                                  history'[s][i].turn = history[s][j].turn
      <4>1. PICK h \in History, id \in TurnIds : h = history[s] /\ id = turn[t].id
        BY <1>2, <2>3
      <4>2. WholeTurns(h) /\ Len(h) % 2 = 0 /\ \A i \in 1..Len(h) : h[i].turn < id
        BY <2>3, <3>1, <4>1 DEF RowOK
      <4>3. PICK g : g = Append(h, [role |-> "user", turn |-> id])
        OBVIOUS
      <4>4. /\ WholeTurns(g) /\ Len(g) % 2 = 1 /\ g[Len(g)].turn = id
            /\ \A i \in 1..Len(g) : g[i].turn = id \/ \E j \in 1..Len(h) : g[i].turn = h[j].turn
        BY <4>2, <4>3, AppendsUser
      <4>5. history'[s] = g
        BY <2>5, <4>1, <4>3
      <4> QED BY <4>1, <4>4, <4>5
    <3>3. /\ Between(t, s)' /\ turn'[t].id = turn[t].id /\ pc'[t] = "assistant"
      BY <1>1, <1>5, <2>5 DEF Between, Busy
    <3>4. \A i \in 1..Len(history'[s]) : history'[s][i].turn \in Handled'
      BY <1>2, <2>3, <2>4, <3>2 DEF RowOK
    <3>5. WholeTurns(history[s])'
      BY <3>2 DEF WholeTurns
    <3> QED BY <2>1, <2>2, <2>5, <3>2, <3>3, <3>4, <3>5 DEF RowOK
  <2>6. CASE pc[t] = "assistant" /\ pc'[t] = "idle" /\
             history'[s] = Append(history[s], [role |-> "assistant", turn |-> turn[t].id])
    <3>1. /\ Len(history[s]) % 2 = 1 /\ history[s][Len(history[s])].turn = turn[t].id
      BY <1>5, <2>3, <2>6 DEF RowOK, Between
    <3>2. /\ WholeTurns(history'[s]) /\ Len(history'[s]) % 2 = 0
          /\ \A i \in 1..Len(history'[s]) : \E j \in 1..Len(history[s]) :
                history'[s][i].turn = history[s][j].turn
      <4>1. PICK h \in History, id \in TurnIds : h = history[s] /\ id = turn[t].id
        BY <1>2, <2>3
      <4>2. WholeTurns(h) /\ Len(h) % 2 = 1 /\ h[Len(h)].turn = id
        BY <2>3, <3>1, <4>1 DEF RowOK
      <4>3. PICK g : g = Append(h, [role |-> "assistant", turn |-> id])
        OBVIOUS
      <4>4. /\ WholeTurns(g) /\ Len(g) % 2 = 0
            /\ \A i \in 1..Len(g) : \E j \in 1..Len(h) : g[i].turn = h[j].turn
        BY <4>2, <4>3, AppendsAssistant
      <4>5. history'[s] = g
        BY <2>6, <4>1, <4>3
      <4> QED BY <4>1, <4>4, <4>5
    <3>3. /\ \A u \in Threads : ~Between(u, s)'
          /\ \A u \in Threads : ~(Busy(u)' /\ turn'[u].session = s)
      BY <2>1, <2>2, <2>6 DEF Between, Busy
    <3>4. \A i \in 1..Len(history'[s]) : history'[s][i].turn \in Handled'
      BY <1>2, <2>3, <3>2 DEF RowOK
    <3>5. WholeTurns(history[s])'
      BY <3>2 DEF WholeTurns
    <3> QED BY <3>2, <3>3, <3>4, <3>5 DEF RowOK
  <2>7. CASE pc'[t] # "assistant" /\ history'[s] = history[s] /\ pc[t] # "assistant"
    <3>1. /\ \A u \in Threads : ~Between(u, s)'
          /\ \A u \in Threads : ~Between(u, s)
      BY <2>2, <2>7 DEF Between
    <3> QED BY <1>1, <1>2, <2>1, <2>3, <2>7, <3>1 DEF RowOK, WholeTurns
  <2> QED BY <1>1, <1>5, <2>5, <2>6, <2>7 DEF RowWrites, OwnHistory, Orderly
<1> QED BY <1>3, <1>4, <1>5 DEF HistoryOK

LEMMA HistoryStep ==
    ASSUME TypeOK, TurnsOK, HistoryOK, Orderly, [Next]_vars
    PROVE  HistoryOK'
<1>1. ASSUME NEW t \in Threads, NEW s \in Sessions, NEW m \in Messages, Begin(t, s, m)
      PROVE  HistoryOK'
  <2>1. BeginsOnly(t, s, m) /\ UNCHANGED <<history, idleRows>>
        /\ \A u \in Threads : Busy(u) => turn[u].session # s
    BY <1>1, BeginBegins DEF Begin, store, Orderly
  <2>2. /\ ~Busy(t) /\ pc'[t] = "input" /\ turn'[t].session = s
        /\ \A u \in Threads \ {t} : turn'[u] = turn[u] /\ pc'[u] = pc[u]
        /\ Len(log) \in Nat /\ Len(log') = Len(log) + 1 /\ turn'[t].id = Len(log) + 1
    BY <2>1 DEF BeginsOnly, OthersKeep, TypeOK
  <2>3. OneEach'
    BY <2>1, <2>2 DEF HistoryOK, OneEach, Busy
  <2>4. ASSUME NEW x \in Sessions PROVE RowOK(x)'
    <3>1. RowOK(x)
      BY DEF HistoryOK
    <3>2. \A u \in Threads : /\ Between(u, x)' <=> Between(u, x)
                             /\ Between(u, x) => turn'[u] = turn[u]
      BY <2>2 DEF Between, Busy
    <3>3. \A i \in 1..Len(history[x]) : /\ history[x][i].turn \in Handled'
                                        /\ history[x][i].turn < Len(log) + 1
      BY <2>2, <3>1 DEF RowOK, Handled
    <3> QED BY <2>1, <2>2, <3>1, <3>2, <3>3 DEF RowOK, WholeTurns, Busy
  <2> QED BY <2>3, <2>4 DEF HistoryOK
<1>2. CASE Restart
  <2>1. \A t \in Threads : ~Busy(t) /\ ~Busy(t)'
    BY <1>2 DEF Restart, Orderly, Busy
  <2>2. \A t \in Threads, s \in Sessions : ~Between(t, s) /\ ~Between(t, s)'
    BY <2>1 DEF Between, Busy
  <2>3. UNCHANGED <<history, log>>
    BY <1>2 DEF Restart, ghosts
  <2>4. ASSUME NEW s \in Sessions PROVE RowOK(s)'
    <3>1. RowOK(s)
      BY DEF HistoryOK
    <3> QED BY <2>1, <2>2, <2>3, <3>1 DEF RowOK, WholeTurns, Handled
  <2> QED BY <2>1, <2>4 DEF HistoryOK, OneEach
<1>3. CASE /\ UNCHANGED <<pc, turn, pending, history, loaded, restarts, ghosts>>
           /\ \A s \in idleRows' \ idleRows :
                 \A t \in Threads : Busy(t) => turn[t].session # s
  <2>1. UNCHANGED <<pc, turn, history, log>>
    BY <1>3 DEF ghosts
  <2>2. ASSUME NEW s \in Sessions PROVE RowOK(s)'
    <3>1. RowOK(s)
      BY DEF HistoryOK
    <3>2. \A t \in Threads : Between(t, s) => s \notin idleRows'
      BY <1>3, <3>1 DEF RowOK, Between, Busy
    <3> QED BY <2>1, <3>1, <3>2 DEF RowOK, WholeTurns, Handled, Between, Busy
  <2> QED BY <2>1, <2>2 DEF HistoryOK, OneEach, Busy
<1> QED BY <1>1, <1>2, <1>3, HistoryHandles, NextKinds

(* A Session's row is whole turns of handlers before the present one, but for  *)
(* the handler between its two appends (conversation.py:114-115), whose turn   *)
(* ends the row and keeps it from the sweep.                                   *)
THEOREM HistoryInvariant == ASSUME Orderly PROVE Spec => []HistoryOK
<1>1. Init => HistoryOK
  <2> SUFFICES ASSUME Init PROVE HistoryOK
    OBVIOUS
  <2>1. Len(<<>>) = 0 /\ 1..0 = {} /\ 0 % 2 = 0
    OBVIOUS
  <2> QED BY <2>1 DEF Init, HistoryOK, OneEach, RowOK, Between, WholeTurns, Busy
<1>2. Inv /\ HistoryOK /\ [Next]_vars => HistoryOK'
  BY HistoryStep DEF Inv
<1> QED BY <1>1, <1>2, Invariant, PTL DEF Spec

(* Where a Session's messages are handled one after the other and a reply's    *)
(* own append does not fail, the history it keeps is whole turns in order of   *)
(* arrival, whatever else raises, is swept or restarts                        *)
(* (conversation.py:114-115).                                                  *)
THEOREM KeepsWholeTurns == ASSUME Orderly PROVE Spec => []HistoryIsWholeTurns
<1>1. HistoryOK => HistoryIsWholeTurns
  BY DEF HistoryOK, RowOK, WholeTurns, HistoryIsWholeTurns
<1> QED BY <1>1, HistoryInvariant, PTL

-------------------------------------------------------------------------------
(* Transcript: what a handler sends is the plain turns of a whole history, the *)
(* message itself, and perhaps one call and its result.                        *)
TextMessage(m, r) == m.role = r /\ m.calls = <<>>
CallMessage(m, c) == m.role = "assistant" /\ m.calls = <<c>> /\ m.calls[1] = c
ResultMessage(m, c) == m.role = "tool" /\ m.calls = <<>> /\ m.answers = c.id
Sends(m, n, k, c) ==
    /\ n \in Nat /\ n % 2 = 0 /\ k \in {n + 1, n + 3} /\ DOMAIN m = 1..k
    /\ \A i \in 1..(n + 1) : TextMessage(m[i], IF i % 2 = 1 THEN "user" ELSE "assistant")
    /\ k = n + 3 => CallMessage(m[n + 2], c) /\ ResultMessage(m[n + 3], c)

(* The length of what is built entry by entry. *)
LEMMA LenOfMap == ASSUME NEW k \in Nat, NEW f, f = [i \in 1..k |-> f[i]] PROVE Len(f) = k
<1> DEFINE S == {f[i] : i \in 1..k}
<1>1. f \in Seq(S)
  BY SeqDef
<1> QED BY <1>1

LEMMA NamesOfTheCall ==
    ASSUME NEW m, NEW n, NEW k, NEW c, Sends(m, n, k, c), k = n + 3
    PROVE  NamesFor(m, c.id) = {c.name}
<1>1. CallsIn(m) \subseteq {c}
  <2> SUFFICES ASSUME NEW i \in DOMAIN m, m[i].role = "assistant", NEW j \in DOMAIN m[i].calls
               PROVE  m[i].calls[j] = c
    BY DEF CallsIn
  <2>1. DOMAIN <<>> = {} /\ DOMAIN <<c>> = {1}
    OBVIOUS
  <2>2. CASE i \in 1..(n + 1)
    BY <2>1, <2>2 DEF Sends, TextMessage
  <2>3. CASE i = n + 2
    BY <2>1, <2>3 DEF Sends, CallMessage
  <2>4. CASE i = n + 3
    BY <2>4 DEF Sends, ResultMessage
  <2> QED BY <2>2, <2>3, <2>4 DEF Sends
<1>2. c \in CallsIn(m)
  <2>1. n + 2 \in DOMAIN m /\ m[n + 2].role = "assistant"
    BY DEF Sends, CallMessage
  <2>2. 1 \in DOMAIN m[n + 2].calls /\ m[n + 2].calls[1] = c
    BY DEF Sends, CallMessage
  <2> QED BY <2>1, <2>2 DEF CallsIn
<1> QED BY <1>1, <1>2 DEF NamesFor

LEMMA GeminiTakes ==
    ASSUME NEW m, NEW n, NEW k, NEW c, Sends(m, n, k, c)
    PROVE  GeminiAccepts(NativeContents(m))
<1> DEFINE g == NativeContents(m)
<1>1. k \in Nat /\ g = [i \in 1..k |-> NativeContent(m[i], m)]
  BY DEF Sends, NativeContents
<1>2. \A i \in 1..k : g[i] = NativeContent(m[i], m)
  BY <1>1
<1> HIDE DEF g
<1>3. Len(g) = k
  <2>1. g = [i \in 1..k |-> g[i]]
    BY <1>1
  <2> QED BY <1>1, <2>1, LenOfMap
<1>4. \A i \in 1..(n + 1) :
         /\ g[i].role = IF i % 2 = 1 THEN "user" ELSE "model"
         /\ g[i].part = "text"
  <2> SUFFICES ASSUME NEW i \in 1..(n + 1)
               PROVE  /\ g[i].role = IF i % 2 = 1 THEN "user" ELSE "model"
                      /\ g[i].part = "text"
    OBVIOUS
  <2>1. TextMessage(m[i], IF i % 2 = 1 THEN "user" ELSE "assistant") /\ i \in 1..k
    BY DEF Sends
  <2>2. g[i] = NativeContent(m[i], m)
    BY <1>2, <2>1
  <2>3. g[i] = [role |-> IF m[i].role = "user" THEN "user" ELSE "model", part |-> "text",
                id |-> NoCall, names |-> {}]
    BY <2>1, <2>2 DEF TextMessage, NativeContent
  <2> QED BY <2>1, <2>3 DEF TextMessage
<1>5. k = n + 3 =>
         /\ g[n + 2].role = "model" /\ g[n + 2].part = "call"
         /\ g[n + 2].id = c.id /\ g[n + 2].names = {c.name}
         /\ g[n + 3].role = "user" /\ g[n + 3].part = "response"
         /\ g[n + 3].id = c.id /\ g[n + 3].names = {c.name}
  <2> SUFFICES ASSUME k = n + 3
               PROVE  /\ g[n + 2].role = "model" /\ g[n + 2].part = "call"
                      /\ g[n + 2].id = c.id /\ g[n + 2].names = {c.name}
                      /\ g[n + 3].role = "user" /\ g[n + 3].part = "response"
                      /\ g[n + 3].id = c.id /\ g[n + 3].names = {c.name}
    OBVIOUS
  <2>1. n + 2 \in 1..k /\ n + 3 \in 1..k
    BY DEF Sends
  <2>2. CallMessage(m[n + 2], c) /\ ResultMessage(m[n + 3], c)
    BY DEF Sends
  <2>3. g[n + 2] = [role |-> "model", part |-> "call", id |-> c.id, names |-> {c.name}]
    <3>1. <<c>> # <<>>
      OBVIOUS
    <3> QED BY <1>2, <2>1, <2>2, <3>1 DEF CallMessage, NativeContent
  <2>4. g[n + 3] = [role |-> "user", part |-> "response", id |-> c.id, names |-> {c.name}]
    <3>1. g[n + 3] = [role |-> "user", part |-> "response", id |-> m[n + 3].answers,
                      names |-> NamesFor(m, m[n + 3].answers)]
      BY <1>2, <2>1, <2>2 DEF ResultMessage, NativeContent
    <3>2. m[n + 3].answers = c.id /\ NamesFor(m, c.id) = {c.name}
      BY <2>2, NamesOfTheCall DEF ResultMessage
    <3> QED BY <3>1, <3>2
  <2> QED BY <2>3, <2>4
<1>6. n \in Nat /\ n % 2 = 0 /\ k \in {n + 1, n + 3}
  BY DEF Sends
<1>7. Alternates(g, "model")
  BY <1>3, <1>4, <1>5, <1>6 DEF Alternates
<1>8. ASSUME NEW i \in 1..Len(g), g[i].part = "call" PROVE i > 1 /\ g[i - 1].part # "call"
  BY <1>3, <1>4, <1>5, <1>6, <1>8
<1>9. ASSUME NEW i \in 1..Len(g), g[i].part = "response"
      PROVE  /\ i > 1 /\ g[i - 1].part = "call"
             /\ g[i - 1].id = g[i].id /\ g[i - 1].names = g[i].names
  <2>1. i \notin 1..(n + 1)
    BY <1>4, <1>9
  <2>2. k = n + 3 /\ i \in {n + 2, n + 3}
    BY <1>3, <1>6, <2>1
  <2>3. i # n + 2
    BY <1>5, <1>9, <2>2
  <2>4. i = n + 3 /\ i - 1 = n + 2
    BY <1>6, <2>2, <2>3
  <2> QED BY <1>5, <1>6, <2>2, <2>4
<1> QED BY <1>7, <1>8, <1>9 DEF GeminiAccepts, g

LEMMA AnthropicTakes ==
    ASSUME NEW m, NEW n, NEW k, NEW c, Sends(m, n, k, c)
    PROVE  AnthropicAccepts([i \in DOMAIN m |-> NativeMessage(m[i])])
<1> DEFINE g == [i \in DOMAIN m |-> NativeMessage(m[i])]
<1>1. k \in Nat /\ g = [i \in 1..k |-> NativeMessage(m[i])]
  BY DEF Sends
<1>2. \A i \in 1..k : g[i] = NativeMessage(m[i])
  BY <1>1
<1> HIDE DEF g
<1>3. Len(g) = k
  <2>1. g = [i \in 1..k |-> g[i]]
    BY <1>1
  <2> QED BY <1>1, <2>1, LenOfMap
<1>4. \A i \in 1..(n + 1) :
         /\ g[i].role = IF i % 2 = 1 THEN "user" ELSE "assistant"
         /\ g[i].block = "text"
  <2> SUFFICES ASSUME NEW i \in 1..(n + 1)
               PROVE  /\ g[i].role = IF i % 2 = 1 THEN "user" ELSE "assistant"
                      /\ g[i].block = "text"
    OBVIOUS
  <2>1. TextMessage(m[i], IF i % 2 = 1 THEN "user" ELSE "assistant") /\ i \in 1..k
    BY DEF Sends
  <2>2. g[i] = [role |-> m[i].role, block |-> "text", id |-> NoCall]
    BY <1>2, <2>1 DEF TextMessage, NativeMessage
  <2> QED BY <2>1, <2>2 DEF TextMessage
<1>5. k = n + 3 =>
         /\ g[n + 2].role = "assistant" /\ g[n + 2].block = "tool_use" /\ g[n + 2].id = c.id
         /\ g[n + 3].role = "user" /\ g[n + 3].block = "tool_result" /\ g[n + 3].id = c.id
  <2> SUFFICES ASSUME k = n + 3
               PROVE  /\ g[n + 2].role = "assistant" /\ g[n + 2].block = "tool_use"
                      /\ g[n + 2].id = c.id
                      /\ g[n + 3].role = "user" /\ g[n + 3].block = "tool_result"
                      /\ g[n + 3].id = c.id
    OBVIOUS
  <2>1. n + 2 \in 1..k /\ n + 3 \in 1..k
    BY DEF Sends
  <2>2. CallMessage(m[n + 2], c) /\ ResultMessage(m[n + 3], c)
    BY DEF Sends
  <2>3. g[n + 2] = [role |-> "assistant", block |-> "tool_use", id |-> c.id]
    <3>1. <<c>> # <<>>
      OBVIOUS
    <3> QED BY <1>2, <2>1, <2>2, <3>1 DEF CallMessage, NativeMessage
  <2>4. g[n + 3] = [role |-> "user", block |-> "tool_result", id |-> c.id]
    BY <1>2, <2>1, <2>2 DEF ResultMessage, NativeMessage
  <2> QED BY <2>3, <2>4
<1>6. n \in Nat /\ n % 2 = 0 /\ k \in {n + 1, n + 3}
  BY DEF Sends
<1>7. Alternates(g, "assistant")
  BY <1>3, <1>4, <1>5, <1>6 DEF Alternates
<1>8. ASSUME NEW i \in 1..Len(g), g[i].block = "tool_result"
      PROVE  i > 1 /\ g[i - 1].block = "tool_use" /\ g[i - 1].id = g[i].id
  <2>1. i \notin 1..(n + 1)
    BY <1>4, <1>8
  <2>2. k = n + 3 /\ i \in {n + 2, n + 3}
    BY <1>3, <1>6, <2>1
  <2>3. i # n + 2
    BY <1>5, <1>8, <2>2
  <2>4. i = n + 3 /\ i - 1 = n + 2
    BY <1>6, <2>2, <2>3
  <2> QED BY <1>5, <1>6, <2>2, <2>4
<1> QED BY <1>7, <1>8 DEF AnthropicAccepts, g

(* A handler that sends anything sends such a transcript: its Session's        *)
(* history is whole, for nobody is between two appends there.                  *)
LEMMA SentIsWhole ==
    ASSUME TypeOK, HistoryOK, NEW t \in Threads, pc[t] \in {"respond", "call", "run"}
    PROVE  \E n, k : Sends(Sent(t), n, k, turn[t].call)
<1> DEFINE s == turn[t].session
           c == turn[t].call
           n == Len(history[s])
           texts == Append(Stored(s), TextOf("user"))
<1>1. Busy(t) /\ s \in Sessions /\ history[s] \in History /\ n \in Nat
  <2>1. Busy(t) /\ s \in Sessions
    BY BusyTurn DEF Busy
  <2>2. history[s] \in History
    BY <2>1 DEF TypeOK, History
  <2>3. n \in Nat
    BY <2>2 DEF History
  <2> QED BY <2>1, <2>2, <2>3
<1>2. WholeTurns(history[s]) /\ n % 2 = 0
  <2>1. \A u \in Threads : ~Between(u, s)
    BY <1>1 DEF Between, HistoryOK, OneEach, Busy
  <2> QED BY <1>1, <2>1 DEF HistoryOK, RowOK
<1>3. \A r : TextMessage(TextOf(r), r)
  BY DEF TextOf, TextMessage
<1>4. /\ texts \in Seq({TextOf("user"), TextOf("assistant")}) /\ Len(texts) = n + 1
      /\ \A i \in 1..(n + 1) : texts[i] = TextOf(IF i % 2 = 1 THEN "user" ELSE "assistant")
  <2> DEFINE f == Stored(s)
             S == {TextOf("user"), TextOf("assistant")}
  <2>1. f = [i \in 1..n |-> TextOf(history[s][i].role)]
    BY DEF Stored
  <2>2. \A i \in 1..n : f[i] = TextOf(IF i % 2 = 1 THEN "user" ELSE "assistant")
    BY <1>2, <2>1 DEF WholeTurns
  <2> HIDE DEF f, S, n
  <2>3. f \in Seq(S) /\ Len(f) = n
    <3>1. \A i \in 1..n : f[i] \in S
      BY <1>1, <2>2 DEF S
    <3>2. f \in [1..n -> S]
      BY <2>1, <3>1
    <3>3. f \in Seq(S)
      BY <1>1, <3>2, SeqDef
    <3>4. f = [i \in 1..n |-> f[i]]
      BY <2>1
    <3> QED BY <1>1, <3>3, <3>4, LenOfMap
  <2>4. TextOf("user") \in S
    BY DEF S
  <2>5. /\ Append(f, TextOf("user")) \in Seq(S) /\ Len(Append(f, TextOf("user"))) = n + 1
        /\ \A i \in 1..n : Append(f, TextOf("user"))[i] = f[i]
        /\ Append(f, TextOf("user"))[n + 1] = TextOf("user")
    <3>1. PICK u : u = TextOf("user")
      OBVIOUS
    <3>2. /\ Append(f, u) \in Seq(S) /\ Len(Append(f, u)) = Len(f) + 1
          /\ \A i \in 1..Len(f) : Append(f, u)[i] = f[i]
          /\ Append(f, u)[Len(f) + 1] = u
      BY <2>3, <2>4, <3>1, AppendProperties
    <3> QED BY <2>3, <3>1, <3>2
  <2>6. (n + 1) % 2 = 1
    BY <1>1, <1>2
  <2> QED BY <1>1, <2>2, <2>5, <2>6 DEF f, S
<1> HIDE DEF texts, s, n
<1>5. CASE pc[t] = "respond"
  <2>1. Sent(t) = texts
    BY <1>5 DEF Sent, texts, s
  <2>2. Sends(texts, n, n + 1, c)
    BY <1>1, <1>2, <1>3, <1>4 DEF Sends
  <2> QED BY <2>1, <2>2
<1>6. CASE pc[t] \in {"call", "run"}
  <2> DEFINE two == <<CallTurn(c), ResultTurn(c)>>
             m == texts \o two
  <2>1. Sent(t) = m
    BY <1>6 DEF Sent, Spliced, WithResult, texts, s
  <2>2. CallMessage(CallTurn(c), c) /\ ResultMessage(ResultTurn(c), c)
    BY DEF CallMessage, CallTurn, ResultMessage, ResultTurn
  <2>3. /\ two \in Seq({CallTurn(c), ResultTurn(c)}) /\ Len(two) = 2
        /\ two[1] = CallTurn(c) /\ two[2] = ResultTurn(c)
    OBVIOUS
  <2> DEFINE All == {TextOf("user"), TextOf("assistant"), CallTurn(c), ResultTurn(c)}
  <2>4. texts \in Seq(All) /\ two \in Seq(All)
    BY <1>4
  <2> HIDE DEF two, All
  <2>5. /\ DOMAIN m = 1..(n + 3)
        /\ \A i \in 1..(n + 1) : m[i] = texts[i]
        /\ m[n + 2] = CallTurn(c) /\ m[n + 3] = ResultTurn(c)
    <3>1. /\ m \in Seq(All) /\ Len(m) = Len(texts) + Len(two)
          /\ \A i \in 1..(Len(texts) + Len(two)) :
                m[i] = IF i <= Len(texts) THEN texts[i] ELSE two[i - Len(texts)]
      BY <2>4, ConcatProperties
    <3> HIDE DEF m
    <3>2. DOMAIN m = 1..Len(m)
      BY <3>1
    <3>3. (n + 2) - (n + 1) = 1 /\ (n + 3) - (n + 1) = 2 /\ n + 1 + 2 = n + 3
      BY <1>1
    <3>4. /\ DOMAIN m = 1..(n + 3)
          /\ \A i \in 1..(n + 3) : m[i] = IF i <= n + 1 THEN texts[i] ELSE two[i - (n + 1)]
      BY <1>4, <2>3, <3>1, <3>2, <3>3
    <3> QED BY <1>1, <2>3, <3>3, <3>4
  <2> HIDE DEF m, c
  <2>6. Sends(m, n, n + 3, c)
    BY <1>1, <1>2, <1>3, <1>4, <2>2, <2>5 DEF Sends
  <2> QED BY <2>1, <2>6 DEF c
<1> QED BY <1>5, <1>6

(* "The reconstructed transcript is valid for every provider, not just the     *)
(* lenient ones" (conversation.py:124-132), whatever was stored, confirmed,    *)
(* nudged or swept before: for any number of turns, and for Gemini's and       *)
(* Anthropic's rules alike.                                                    *)
THEOREM TranscriptsAreAccepted == ASSUME Orderly PROVE Spec => []TranscriptsAreValid
<1>1. TypeOK /\ HistoryOK => TranscriptsAreValid
  <2> SUFFICES ASSUME TypeOK, HistoryOK, NEW t \in Threads, pc[t] \in {"respond", "call", "run"}
               PROVE  LET sent == Sent(t) IN
                      /\ GeminiAccepts(NativeContents(sent))
                      /\ AnthropicAccepts([i \in DOMAIN sent |-> NativeMessage(sent[i])])
    BY DEF TranscriptsAreValid
  <2>1. PICK n, k : Sends(Sent(t), n, k, turn[t].call)
    BY SentIsWhole
  <2> QED BY <2>1, GeminiTakes, AnthropicTakes
<1> QED BY <1>1, TypeCorrect, HistoryInvariant, PTL
===============================================================================
