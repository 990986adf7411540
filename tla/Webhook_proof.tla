----------------------------- MODULE Webhook_proof -----------------------------
(***************************************************************************)
(* Proofs about Webhook, for every number of threads, Sessions and         *)
(* messages, whatever Meta posts again, raises or restarts: the webhook    *)
(* drives the conversation as Conversation allows, no process handles a    *)
(* message twice while it knows its id, a call runs under the policy it    *)
(* was judged by, and, when nothing fails, no delivery is swallowed.       *)
(***************************************************************************)
EXTENDS Webhook, Conversation_proof

Metas == [session : Sessions, msg : Texts, state : {"due", "open", "done"}]
Sent(id) == meta[id].state # "unsent"

(* Each turn's record names a sent message, and so does each POST. *)
WebOK ==
    /\ WebTypeOK
    /\ origin \in Seq([id : Ids, life : 0..MaxRestarts])
    /\ \A i \in 1..Len(origin) : Sent(origin[i].id)
    /\ \A t \in Threads : job[t] # NoJob => Sent(job[t].id)

-------------------------------------------------------------------------------
(* Meta's records.                                                           *)

(* A message that was sent has its Session and its text for good, and none   *)
(* becomes done but one answered with a 200.                                 *)
KeepsMeta ==
    /\ meta' \in [Ids -> Metas \union {Unsent}]
    /\ \A x \in Ids : Sent(x) =>
          Sent(x)' /\ meta'[x].session = meta[x].session /\ meta'[x].msg = meta[x].msg

LEMMA MetaOf ==
    ASSUME WebTypeOK, NEW id \in Ids
    PROVE  /\ meta[id] \in Metas \union {Unsent}
           /\ Sent(id) <=> meta[id] \in Metas
           /\ Sent(id) => meta[id].session \in Sessions /\ meta[id].msg \in Texts
  BY DEF WebTypeOK, Metas, Sent, Unsent

(* The state of one sent message changes, and nothing else of it. *)
LEMMA StateChanges ==
    ASSUME WebTypeOK, NEW id \in Ids, Sent(id), NEW st \in {"due", "open", "done"},
           meta' = [meta EXCEPT ![id].state = st]
    PROVE  KeepsMeta /\ meta'[id].state = st /\ \A x \in Ids \ {id} : meta'[x] = meta[x]
<1>1. meta[id] \in Metas /\ meta \in [Ids -> Metas \union {Unsent}]
  BY MetaOf DEF WebTypeOK, Metas
<1> DEFINE m == [meta[id] EXCEPT !.state = st]
<1>2. /\ m \in Metas /\ m.state = st
      /\ m.session = meta[id].session /\ m.msg = meta[id].msg
  BY <1>1 DEF Metas
<1>3. meta' = [meta EXCEPT ![id] = m]
  OBVIOUS
<1> HIDE DEF m
<1>4. meta'[id] = m /\ \A x \in Ids \ {id} : meta'[x] = meta[x]
  BY <1>1, <1>3
<1>5. meta' \in [Ids -> Metas \union {Unsent}]
  BY <1>1, <1>2, <1>3
<1>6. m.state # "unsent"
  BY <1>2
<1> QED BY <1>2, <1>4, <1>5, <1>6 DEF KeepsMeta, Sent

LEMMA Responded ==
    ASSUME WebTypeOK, NEW id \in Ids, Sent(id), NEW status \in {200, 500}, Respond(id, status)
    PROVE  /\ KeepsMeta /\ \A x \in Ids \ {id} : meta'[x] = meta[x]
           /\ meta'[id].state = "done" => status = 200 \/ meta[id].state = "done"
<1>1. CASE status = 200 \/ meta[id].state = "done"
  <2>1. meta' = [meta EXCEPT ![id].state = "done"]
    BY <1>1 DEF Respond
  <2> QED BY <1>1, <2>1, StateChanges
<1>2. CASE ~(status = 200 \/ meta[id].state = "done")
  <2>1. meta' = [meta EXCEPT ![id].state = "due"]
    BY <1>2 DEF Respond
  <2>2. KeepsMeta /\ meta'[id].state = "due" /\ \A x \in Ids \ {id} : meta'[x] = meta[x]
    BY <2>1, StateChanges
  <2> QED BY <2>2
<1> QED BY <1>1, <1>2

(* Every step keeps Meta's records of what was sent. *)
LEMMA MetaStep == ASSUME WebOK, [WebNext]_webVars PROVE KeepsMeta
<1>1. ASSUME NEW id \in Ids, Post(id) PROVE KeepsMeta
  <2>1. meta[id].state \in {"due", "open"} /\ Sent(id)
    BY <1>1 DEF Post, PostTooLong, PostDuplicate, PostRefused, PostUnknown, PostAccepted, Sent
  <2>2. CASE \E status \in {200, 500} : Respond(id, status)
    BY <2>1, <2>2, Responded DEF WebOK
  <2>3. CASE meta' = [meta EXCEPT ![id].state = "open"]
    BY <2>1, <2>3, StateChanges DEF WebOK
  <2> QED BY <1>1, <2>2, <2>3
      DEF Post, PostTooLong, PostDuplicate, PostRefused, PostUnknown, PostAccepted
<1>2. ASSUME NEW id \in Ids, NEW s \in Sessions, NEW x \in Texts, CustomerWrites(id, s, x)
      PROVE  KeepsMeta
  <2>1. meta' = [meta EXCEPT ![id] = [session |-> s, msg |-> x, state |-> "due"]] /\ ~Sent(id)
    BY <1>2 DEF CustomerWrites, Sent
  <2>2. [session |-> s, msg |-> x, state |-> "due"] \in Metas
    BY DEF Metas
  <2>3. meta \in [Ids -> Metas \union {Unsent}]
    BY DEF WebOK, WebTypeOK, Metas
  <2> QED BY <2>1, <2>2, <2>3 DEF KeepsMeta, Sent
<1>3. ASSUME NEW t \in Threads, Worker(t) PROVE KeepsMeta
  <2>1. CASE HandlerWorks(t) \/ HandlerReturns(t) \/ ReadAwaiting(t)
    BY <2>1 DEF HandlerWorks, HandlerReturns, ReadAwaiting, web, KeepsMeta, Sent, WebOK,
       WebTypeOK, Metas
  <2>2. CASE HandlerRaises(t) \/ SendReply(t) \/ SendRaises(t)
    <3>1. job[t] # NoJob
      BY <2>2, ConstantsAssumption
        DEF HandlerRaises, Raise, Busy, SendReply, SendRaises, WebOK, WebTypeOK
    <3>2. PICK id \in Ids : id = job[t].id
      BY <3>1 DEF WebOK, WebTypeOK, Jobs
    <3>3. Sent(id)
      BY <3>1, <3>2 DEF WebOK
    <3>4. \E status \in {200, 500} : Respond(id, status)
      BY <2>2, <3>2 DEF HandlerRaises, SendReply, SendRaises
    <3> QED BY <3>3, <3>4, Responded DEF WebOK
  <2> QED BY <1>3, <2>1, <2>2 DEF Worker
<1>4. CASE ProcessRestarts
  <2>1. meta \in [Ids -> Metas \union {Unsent}]
    BY DEF WebOK, WebTypeOK, Metas
  <2>2. \A x \in Ids : /\ meta'[x] \in Metas \union {Unsent}
                       /\ meta'[x].session = meta[x].session /\ meta'[x].msg = meta[x].msg
                       /\ meta[x].state # "unsent" => meta'[x].state # "unsent"
    <3> TAKE x \in Ids
    <3>1. meta'[x] = IF meta[x].state = "open" THEN [meta[x] EXCEPT !.state = "due"] ELSE meta[x]
      BY <1>4 DEF ProcessRestarts
    <3>2. CASE meta[x].state = "open"
      <4>1. meta[x] \in Metas
        BY <2>1, <3>2 DEF Unsent
      <4> QED BY <3>1, <3>2, <4>1 DEF Metas
    <3>3. CASE meta[x].state # "open"
      BY <2>1, <3>1, <3>3
    <3> QED BY <3>2, <3>3
  <2> QED BY <1>4, <2>2 DEF ProcessRestarts, KeepsMeta, Sent
<1>5. CASE UNCHANGED meta
  BY <1>5 DEF KeepsMeta, Sent, WebOK, WebTypeOK, Metas
<1> QED BY <1>1, <1>2, <1>3, <1>4, <1>5 DEF WebNext, Forget, webVars, web, RegistryLoads

-------------------------------------------------------------------------------
(* The webhook drives the conversation.                                      *)

(* What every step of the webhook is to the conversation: a step of its own  *)
(* or none.                                                                  *)
LEMMA WebStepIsStep == ASSUME WebOK, [WebNext]_webVars PROVE [Next]_vars
<1>1. ASSUME NEW id \in Ids, Post(id) PROVE [Next]_vars
  <2>1. ASSUME NEW t \in Threads, PostAccepted(t, id) PROVE Next
    <3>1. Sent(id) /\ meta[id].msg # "long"
      BY <2>1 DEF PostAccepted, Sent
    <3>2. PICK s \in Sessions, m \in Messages : s = meta[id].session /\ m = meta[id].msg
      BY <3>1, MetaOf DEF WebOK, Texts
    <3>3. Begin(t, s, m)
      BY <2>1, <3>2 DEF PostAccepted
    <3> QED BY <3>3 DEF Next
  <2> QED BY <1>1, <2>1 DEF Post, PostTooLong, PostDuplicate, PostRefused, PostUnknown
<1>2. ASSUME NEW t \in Threads, Worker(t) PROVE [Next]_vars
  BY <1>2 DEF Worker, HandlerWorks, HandlerReturns, HandlerRaises, ReadAwaiting, SendReply,
     SendRaises, Next, Handle
<1>3. CASE (\E s \in Sessions : RowAges(s)) \/ ProcessRestarts
  BY <1>3 DEF ProcessRestarts, Next
<1> QED BY <1>1, <1>2, <1>3 DEF WebNext, Forget, CustomerWrites, RegistryLoads, webVars

-------------------------------------------------------------------------------
(* The threads.                                                              *)

(* What a step makes of the POST a thread holds: it takes one, carries it on, *)
(* or is given back; and a thread is in the handler while its POST is.        *)
JobsMove ==
    /\ job' \in [Threads -> Jobs \union {NoJob}]
    /\ \A t \in Threads : Busy(t)' <=> job'[t] # NoJob /\ job'[t].stage = "handling"
    /\ \A t \in Threads : job'[t] # NoJob =>
          \/ job[t] # NoJob /\ job'[t].id = job[t].id
          \/ Sent(job'[t].id)
    /\ \A t \in Threads : job[t] # NoJob =>
          \/ job'[t] # NoJob /\ job'[t].id = job[t].id
          \/ SendReply(t) \/ SendRaises(t) \/ HandlerRaises(t) \/ ProcessRestarts

LEMMA JobWaits ==
    ASSUME NEW j \in Jobs, NEW k \in Kinds
    PROVE  LET q == [j EXCEPT !.stage = "awaiting", !.kind = k] IN
           q \in Jobs /\ q.id = j.id /\ q.stage = "awaiting"
  BY DEF Jobs

LEMMA JobSends ==
    ASSUME NEW j \in Jobs, NEW b \in BOOLEAN
    PROVE  LET q == [j EXCEPT !.stage = "sending", !.buttons = b] IN
           q \in Jobs /\ q.id = j.id /\ q.stage = "sending"
  BY DEF Jobs

LEMMA JobStep == ASSUME TypeOK, WebOK, [WebNext]_webVars PROVE JobsMove
<1> USE WebhookAssumption
<1>0. /\ job \in [Threads -> Jobs \union {NoJob}]
      /\ \A t \in Threads : Busy(t) <=> job[t] # NoJob /\ job[t].stage = "handling"
  BY DEF WebOK, WebTypeOK
<1>1. ASSUME NEW id \in Ids, NEW t \in Threads, PostAccepted(t, id) PROVE JobsMove
  <2>1. PICK j \in Jobs : j = [id |-> id, stage |-> "handling", kind |-> "none", buttons |-> FALSE]
    BY DEF Jobs, Kinds
  <2>2. j # NoJob /\ j.stage = "handling" /\ j.id = id
    BY <2>1
  <2>3. /\ job' = [job EXCEPT ![t] = j] /\ pc' = [pc EXCEPT ![t] = "input"] /\ Sent(id)
        /\ job[t] = NoJob
    BY <1>1, <2>1 DEF PostAccepted, Begin, Goto, Sent, Free
  <2>4. \A u \in Threads \ {t} : pc'[u] = pc[u] /\ job'[u] = job[u]
    BY <1>0, <2>3 DEF TypeOK
  <2>5. pc'[t] = "input" /\ job'[t] = j
    BY <1>0, <2>3 DEF TypeOK
  <2> QED BY <1>0, <2>2, <2>3, <2>4, <2>5 DEF JobsMove, Busy
<1>2. ASSUME NEW t \in Threads, HandlerWorks(t) PROVE JobsMove
  <2>1. Busy(t) /\ OthersKeep(t) /\ job' = job /\ Busy(t)'
    <3>1. Work(t) /\ job' = job
      BY <1>2 DEF HandlerWorks, web
    <3>2. Busy(t) /\ OthersKeep(t) /\ pc'[t] # "idle"
      BY <3>1, WorkMoves
    <3> QED BY <3>1, <3>2 DEF Busy
  <2> QED BY <1>0, <2>1 DEF JobsMove, OthersKeep, Busy
<1>3. ASSUME NEW t \in Threads, HandlerReturns(t) PROVE JobsMove
  <2>1. Busy(t) /\ ~Busy(t)' /\ OthersKeep(t)
    BY <1>3, LeaveLeaves DEF HandlerReturns, LeavesOnly
  <2>2. PICK j \in Jobs : j = job[t]
    BY <1>0, <2>1
  <2>3. PICK k \in Kinds : k = turn[t].kind
    BY <2>1, BusyTurn
  <2>4. PICK q \in Jobs : /\ q = [j EXCEPT !.stage = "awaiting", !.kind = k]
                          /\ q.id = j.id /\ q.stage = "awaiting"
    BY JobWaits
  <2>5. q.id = j.id /\ q.stage = "awaiting" /\ q # NoJob
    BY <2>4
  <2>6. job' = [job EXCEPT ![t] = q]
    BY <1>3, <2>2, <2>3, <2>4 DEF HandlerReturns
  <2>7. job'[t] = q /\ \A u \in Threads \ {t} : job'[u] = job[u]
    BY <1>0, <2>6
  <2> QED BY <1>0, <2>1, <2>2, <2>5, <2>6, <2>7 DEF JobsMove, OthersKeep, Busy
<1>4. ASSUME NEW t \in Threads, HandlerRaises(t) PROVE JobsMove
  <2>1. Busy(t) /\ ~Busy(t)' /\ OthersKeep(t) /\ job' = [job EXCEPT ![t] = NoJob]
    BY <1>4, LeaveLeaves DEF HandlerRaises, LeavesOnly
  <2> QED BY <1>0, <1>4, <2>1 DEF JobsMove, OthersKeep, Busy
<1>5. ASSUME NEW t \in Threads, ReadAwaiting(t) PROVE JobsMove
  <2>1. job[t] # NoJob /\ job[t].stage = "awaiting" /\ pc' = pc
    BY <1>5 DEF ReadAwaiting, vars
  <2>2. PICK j \in Jobs : j = job[t]
    BY <1>0, <2>1
  <2>3. PICK b \in BOOLEAN : b = (pending[meta[j.id].session] # NoCall)
    OBVIOUS
  <2>4. PICK q \in Jobs : /\ q = [j EXCEPT !.stage = "sending", !.buttons = b]
                          /\ q.id = j.id /\ q.stage = "sending"
    BY JobSends
  <2>5. q.id = j.id /\ q.stage = "sending" /\ q # NoJob
    BY <2>4
  <2>6. job' = [job EXCEPT ![t] = q]
    BY <1>5, <2>2, <2>3, <2>4 DEF ReadAwaiting
  <2>7. job'[t] = q /\ \A u \in Threads \ {t} : job'[u] = job[u]
    BY <1>0, <2>6
  <2> QED BY <1>0, <2>1, <2>2, <2>5, <2>6, <2>7 DEF JobsMove, Busy
<1>6. ASSUME NEW t \in Threads, SendReply(t) \/ SendRaises(t) PROVE JobsMove
  <2>1. /\ job[t] # NoJob /\ job[t].stage = "sending" /\ pc' = pc
        /\ job' = [job EXCEPT ![t] = NoJob]
    BY <1>6 DEF SendReply, SendRaises, vars
  <2> QED BY <1>0, <1>6, <2>1 DEF JobsMove, Busy
<1>7. CASE ProcessRestarts
  BY <1>7 DEF ProcessRestarts, Restart, JobsMove, Busy
<1>8. CASE pc' = pc /\ job' = job
  BY <1>0, <1>8 DEF JobsMove, Busy
<1>9. ASSUME NEW id \in Ids, Post(id) PROVE JobsMove
  <2>1. CASE \E t \in Threads : PostAccepted(t, id)
    BY <1>1, <2>1
  <2>2. CASE ~\E t \in Threads : PostAccepted(t, id)
    BY <1>8, <1>9, <2>2 DEF Post, PostTooLong, PostDuplicate, PostRefused, PostUnknown, vars
  <2> QED BY <2>1, <2>2
<1>10. ASSUME NEW t \in Threads, Worker(t) PROVE JobsMove
  BY <1>2, <1>3, <1>4, <1>5, <1>6, <1>10 DEF Worker
<1>11. CASE \/ \E id \in Ids, s \in Sessions, x \in Texts : CustomerWrites(id, s, x)
            \/ RegistryLoads \/ UNCHANGED webVars \/ (\E id \in Ids : Forget(id))
            \/ (\E s \in Sessions : RowAges(s)) /\ UNCHANGED web
  BY <1>8, <1>11 DEF Forget, CustomerWrites, RegistryLoads, webVars, web, vars, RowAges
<1> QED BY <1>7, <1>9, <1>10, <1>11 DEF WebNext

-------------------------------------------------------------------------------
(* The record of which message each turn came from.                          *)
Origins == [id : Ids, life : 0..MaxRestarts]

(* An accepted POST opens the next turn, of its message, in this process. *)
Opens(id) ==
    /\ origin' \in Seq(Origins) /\ Len(origin') = Len(log) + 1 /\ Len(log') = Len(log) + 1
    /\ \A i \in 1..Len(log) : origin'[i] = origin[i] /\ log'[i] = log[i]
    /\ origin'[Len(log) + 1].id = id /\ origin'[Len(log) + 1].life = restarts
    /\ log'[Len(log) + 1] = [session |-> meta[id].session, msg |-> meta[id].msg]

LEMMA AcceptedOpens ==
    ASSUME TypeOK, WebOK, NEW t \in Threads, NEW id \in Ids, PostAccepted(t, id)
    PROVE  Opens(id)
<1>1. /\ origin \in Seq(Origins) /\ Len(origin) = Len(log) /\ Len(log) \in Nat
      /\ log \in Seq([session : Sessions, msg : Messages])
  BY DEF TypeOK, WebOK, WebTypeOK, Origins
<1>2. PICK o \in Origins : o = [id |-> id, life |-> restarts]
  BY DEF TypeOK, Origins
<1>3. o.id = id /\ o.life = restarts
  BY <1>2
<1>4. PICK e \in [session : Sessions, msg : Messages] :
        e = [session |-> meta[id].session, msg |-> meta[id].msg]
  <2>1. Sent(id) /\ meta[id].msg # "long"
    BY DEF PostAccepted, Sent
  <2> QED BY <2>1, MetaOf DEF WebOK, Texts
<1>5. origin' = Append(origin, o) /\ log' = Append(log, e)
  BY <1>2, <1>4 DEF PostAccepted, Begin
<1>6. /\ Len(origin') = Len(origin) + 1 /\ origin'[Len(origin) + 1] = o
      /\ \A i \in 1..Len(origin) : origin'[i] = origin[i]
      /\ origin' \in Seq(Origins)
  BY <1>1, <1>5
<1>7. /\ Len(log') = Len(log) + 1 /\ log'[Len(log) + 1] = e
      /\ \A i \in 1..Len(log) : log'[i] = log[i]
  BY <1>1, <1>5
<1> QED BY <1>1, <1>3, <1>4, <1>6, <1>7 DEF Opens

(* No other step touches the record or the log. *)
LEMMA OriginStep ==
    ASSUME TypeOK, WebOK, [WebNext]_webVars
    PROVE  \/ \E id \in Ids, t \in Threads : PostAccepted(t, id)
           \/ origin' = origin /\ log' = log
<1>1. ASSUME NEW t \in Threads, Worker(t) PROVE origin' = origin /\ log' = log
  <2>1. CASE HandlerWorks(t)
    BY <2>1, WorkMoves DEF HandlerWorks, web
  <2>2. CASE HandlerReturns(t) \/ HandlerRaises(t)
    BY <2>2, LeaveLeaves DEF HandlerReturns, HandlerRaises, LeavesOnly
  <2>3. CASE ReadAwaiting(t) \/ SendReply(t) \/ SendRaises(t)
    BY <2>3 DEF ReadAwaiting, SendReply, SendRaises, vars, ghosts
  <2> QED BY <1>1, <2>1, <2>2, <2>3 DEF Worker
<1>2. ASSUME NEW id \in Ids, Post(id), ~\E t \in Threads : PostAccepted(t, id)
      PROVE  origin' = origin /\ log' = log
  BY <1>2 DEF Post, PostTooLong, PostDuplicate, PostRefused, PostUnknown, vars, ghosts
<1>3. CASE \/ \E id \in Ids, s \in Sessions, x \in Texts : CustomerWrites(id, s, x)
           \/ RegistryLoads \/ UNCHANGED webVars \/ ProcessRestarts
           \/ (\E id \in Ids : Forget(id))
           \/ (\E s \in Sessions : RowAges(s)) /\ UNCHANGED web
  BY <1>3 DEF Forget, CustomerWrites, RegistryLoads, ProcessRestarts, Restart, webVars, web, vars,
     ghosts, RowAges
<1> QED BY <1>1, <1>2, <1>3 DEF WebNext

(* The turns whose id is forgotten are on record, and no other id of a turn of *)
(* this process is.                                                           *)
Remembers ==
    /\ outlived \subseteq outlived' /\ outlived' \subseteq outlived \union 1..Len(origin)
    /\ \A i \in 1..Len(origin) :
          origin[i].life = restarts /\ i \notin outlived' /\ origin[i].id \in seen
          => origin[i].id \in seen'

(* The store learns an id of a message that was sent, forgets one whose turns  *)
(* are on record, or forgets all at once.                                      *)
LEMMA SeenStep ==
    ASSUME WebOK, [WebNext]_webVars
    PROVE  /\ \/ ProcessRestarts
              \/ /\ Remembers /\ restarts' = restarts
                 /\ \A x \in seen' : x \in seen \/ (x \in Ids /\ Sent(x))
           /\ outlived \subseteq outlived' /\ outlived' \subseteq outlived \union 1..Len(origin)
<1>1. ASSUME NEW t \in Threads, Worker(t)
      PROVE  seen' = seen /\ restarts' = restarts /\ outlived' = outlived
  BY <1>1 DEF Worker, HandlerWorks, HandlerReturns, HandlerRaises, ReadAwaiting, SendReply,
     SendRaises, web, vars, Work, Raise, AppendAssistant, InputRailAllows, InputRailBlocks,
     ReadPending, RunConfirmed, ContinueConfirmed, ClearConfirmed, CancelPending, RespondText,
     RespondCall, RunAllowed, ContinueAllowed, AskConfirmation, OutputRailAllows,
     OutputRailBlocks, AppendUser
<1>2. ASSUME NEW id \in Ids, Post(id)
      PROVE  /\ restarts' = restarts /\ seen' \in {seen, seen \union {id}} /\ Sent(id)
             /\ outlived' = outlived
  BY <1>2 DEF Post, PostTooLong, PostDuplicate, PostRefused, PostUnknown, PostAccepted, Begin,
     vars, Sent
<1>3. ASSUME NEW id \in Ids, Forget(id)
      PROVE  Remembers /\ restarts' = restarts /\ seen' \subseteq seen
  <2> DEFINE out == {i \in 1..Len(origin) : origin[i].id = id /\ origin[i].life = restarts}
  <2>1. /\ seen' = seen \ {id} /\ outlived' = outlived \union out /\ restarts' = restarts
        /\ out \subseteq 1..Len(origin)
    BY <1>3 DEF Forget, vars
  <2>2. \A i \in 1..Len(origin) :
          origin[i].life = restarts /\ i \notin outlived' => origin[i].id # id
    BY <2>1
  <2> HIDE DEF out
  <2> QED BY <2>1, <2>2 DEF Remembers
<1>4. CASE \/ \E id \in Ids, s \in Sessions, x \in Texts : CustomerWrites(id, s, x)
           \/ RegistryLoads \/ UNCHANGED webVars
           \/ (\E s \in Sessions : RowAges(s)) /\ UNCHANGED web
  BY <1>4 DEF CustomerWrites, RegistryLoads, webVars, web, vars, RowAges, Remembers
<1>5. CASE ProcessRestarts
  BY <1>5 DEF ProcessRestarts
<1>6. CASE \E id \in Ids : Post(id)
  BY <1>2, <1>6 DEF Remembers
<1>7. CASE \E t \in Threads : Worker(t)
  BY <1>1, <1>7 DEF Remembers
<1>8. CASE \E id \in Ids : Forget(id)
  BY <1>3, <1>8 DEF Remembers
<1> QED BY <1>4, <1>5, <1>6, <1>7, <1>8 DEF WebNext

LEMMA WebOKStep == ASSUME TypeOK, WebOK, [WebNext]_webVars PROVE WebOK'
<1>0. /\ origin \in Seq(Origins) /\ Len(origin) = Len(log) /\ Len(log) \in Nat
      /\ KeepsMeta /\ JobsMove
  <2>1. KeepsMeta /\ JobsMove
    BY MetaStep, JobStep
  <2> QED BY <2>1 DEF TypeOK, WebOK, WebTypeOK, Origins
<1>1. seen' \subseteq {id \in Ids : meta'[id].state # "unsent"}
  <2>1. \A x \in seen : x \in Ids /\ Sent(x)
    BY DEF WebOK, WebTypeOK, Sent
  <2>2. \A x \in seen' : x \in Ids /\ Sent(x)
    <3>1. CASE ProcessRestarts
      BY <3>1 DEF ProcessRestarts
    <3> QED BY <2>1, <3>1, SeenStep
  <2>3. \A x \in Ids : meta[x].state # "unsent" => meta'[x].state # "unsent"
    BY <1>0 DEF KeepsMeta, Sent
  <2> QED BY <2>2, <2>3 DEF Sent
<1>2. \A t \in Threads : job'[t] # NoJob => meta'[job'[t].id].state # "unsent"
  <2>1. \A j \in Jobs : j.id \in Ids
    BY DEF Jobs
  <2>2. \A t \in Threads : job'[t] # NoJob => job'[t].id \in Ids /\ Sent(job'[t].id)
    <3> TAKE t \in Threads
    <3> HAVE job'[t] # NoJob
    <3>1. job'[t].id \in Ids
      BY <1>0, <2>1 DEF JobsMove
    <3>2. Sent(job'[t].id)
      BY <1>0 DEF JobsMove, WebOK
    <3> QED BY <3>1, <3>2
  <2>3. \A x \in Ids : meta[x].state # "unsent" => meta'[x].state # "unsent"
    BY <1>0 DEF KeepsMeta, Sent
  <2> QED BY <2>2, <2>3 DEF Sent
<1>3. /\ origin' \in Seq(Origins) /\ Len(origin') = Len(log')
      /\ \A i \in 1..Len(origin') : meta'[origin'[i].id].state # "unsent"
      /\ \A i \in 1..Len(log') : log'[i] = [session |-> meta'[origin'[i].id].session,
                                            msg |-> meta'[origin'[i].id].msg]
  <2>0. \A i \in 1..Len(log) : /\ origin[i].id \in Ids /\ Sent(origin[i].id)
                               /\ log[i] = [session |-> meta[origin[i].id].session,
                                            msg |-> meta[origin[i].id].msg]
    <3>1. \A o \in Origins : o.id \in Ids
      BY DEF Origins
    <3>2. \A i \in 1..Len(log) : origin[i] \in Origins
      BY <1>0
    <3> QED BY <1>0, <3>1, <3>2 DEF WebOK, WebTypeOK
  <2>1. CASE origin' = origin /\ log' = log
    BY <1>0, <2>0, <2>1 DEF KeepsMeta, Sent
  <2>2. ASSUME NEW id \in Ids, NEW t \in Threads, PostAccepted(t, id)
        PROVE  /\ origin' \in Seq(Origins) /\ Len(origin') = Len(log')
               /\ \A i \in 1..Len(origin') : meta'[origin'[i].id].state # "unsent"
               /\ \A i \in 1..Len(log') : log'[i] = [session |-> meta'[origin'[i].id].session,
                                                     msg |-> meta'[origin'[i].id].msg]
    <3>1. Opens(id) /\ Sent(id)
      BY <2>2, AcceptedOpens DEF PostAccepted, Sent
    <3>2. /\ meta'[id].state # "unsent"
          /\ log'[Len(log) + 1] = [session |-> meta'[id].session, msg |-> meta'[id].msg]
      BY <1>0, <3>1 DEF Opens, KeepsMeta, Sent
    <3>3. \A i \in 1..Len(log) : /\ meta'[origin[i].id].state # "unsent"
                                 /\ log[i] = [session |-> meta'[origin[i].id].session,
                                              msg |-> meta'[origin[i].id].msg]
      BY <1>0, <2>0 DEF KeepsMeta, Sent
    <3>4. /\ origin' \in Seq(Origins) /\ Len(origin') = Len(log) + 1 /\ Len(log') = Len(log) + 1
          /\ \A i \in 1..Len(log) : origin'[i] = origin[i] /\ log'[i] = log[i]
          /\ origin'[Len(log) + 1].id = id
      BY <3>1 DEF Opens
    <3>5. \A i \in 1..Len(log') : i \in 1..Len(log) \/ i = Len(log) + 1
      BY <1>0, <3>4
    <3>6. \A i \in 1..Len(log') : meta'[origin'[i].id].state # "unsent"
      BY <3>2, <3>3, <3>4, <3>5
    <3>7. \A i \in 1..Len(log') : log'[i] = [session |-> meta'[origin'[i].id].session,
                                            msg |-> meta'[origin'[i].id].msg]
      BY <3>2, <3>3, <3>4, <3>5
    <3> QED BY <3>4, <3>6, <3>7
  <2> QED BY <2>1, <2>2, OriginStep
<1>4. outlived' \subseteq 1..Len(log')
  <2>1. outlived' \subseteq 1..Len(log)
    BY <1>0, SeenStep DEF WebOK, WebTypeOK
  <2>2. CASE origin' = origin /\ log' = log
    BY <2>1, <2>2
  <2>3. ASSUME NEW id \in Ids, NEW t \in Threads, PostAccepted(t, id)
        PROVE  outlived' \subseteq 1..Len(log')
    <3>1. Len(log') = Len(log) + 1
      BY <2>3, AcceptedOpens DEF Opens
    <3> QED BY <1>0, <2>1, <3>1
  <2> QED BY <2>2, <2>3, OriginStep
<1>5. WebTypeOK'
  BY <1>0, <1>1, <1>3, <1>4 DEF WebTypeOK, KeepsMeta, JobsMove, Metas
<1> QED BY <1>2, <1>3, <1>5 DEF WebOK, Origins, Sent

(* The steps of the webhook, as the proofs below tell them apart: a message is *)
(* accepted, the process restarts, or a handler goes on or none does.          *)
GoesOn ==
    /\ origin' = origin /\ log' = log /\ restarts' = restarts /\ Remembers
    /\ \/ \E t \in Threads : Work(t)
       \/ \E t \in Threads : LeavesOnly(t)
       \/ Still

LEMMA WebKinds ==
    ASSUME TypeOK, WebOK, [WebNext]_webVars
    PROVE  \/ \E id \in Ids, t \in Threads : PostAccepted(t, id)
           \/ ProcessRestarts
           \/ GoesOn
<1> SUFFICES ASSUME ~ProcessRestarts, ~\E id \in Ids, t \in Threads : PostAccepted(t, id)
             PROVE  GoesOn
  OBVIOUS
<1>1. origin' = origin /\ log' = log /\ restarts' = restarts /\ Remembers
  BY OriginStep, SeenStep
<1>2. UNCHANGED vars \/ (\E s \in Sessions : RowAges(s)) => Still
  BY StillSteps
<1>3. ASSUME NEW t \in Threads, Worker(t)
      PROVE  Work(t) \/ LeavesOnly(t) \/ UNCHANGED vars
  BY <1>3, LeaveLeaves DEF Worker, HandlerWorks, HandlerReturns, HandlerRaises, ReadAwaiting,
     SendReply, SendRaises
<1>4. ASSUME NEW id \in Ids, Post(id) PROVE UNCHANGED vars
  BY <1>4 DEF Post, PostTooLong, PostDuplicate, PostRefused, PostUnknown
<1> QED BY <1>1, <1>2, <1>3, <1>4 DEF GoesOn, WebNext, Forget, CustomerWrites, RegistryLoads, webVars

(* A handler that goes on stays with its turn. *)
LEMMA GoesOnStays ==
    ASSUME TypeOK, GoesOn
    PROVE  \A t \in Threads : Busy(t)' => Busy(t) /\ turn'[t].id = turn[t].id
<1>1. ASSUME NEW t \in Threads, Work(t)
      PROVE  \A u \in Threads : Busy(u)' => Busy(u) /\ turn'[u].id = turn[u].id
  BY <1>1, WorkMoves DEF OthersKeep, KeepsTurn, Busy
<1>2. ASSUME NEW t \in Threads, LeavesOnly(t)
      PROVE  \A u \in Threads : Busy(u)' => Busy(u) /\ turn'[u].id = turn[u].id
  BY <1>2 DEF LeavesOnly, OthersKeep, Busy
<1>3. Still => \A u \in Threads : Busy(u)' => Busy(u) /\ turn'[u].id = turn[u].id
  BY DEF Still, Busy
<1> QED BY <1>1, <1>2, <1>3 DEF GoesOn

-------------------------------------------------------------------------------
(* One turn per message in a process: the store has the id of every turn this  *)
(* process took, unless it has forgotten it since, and a handler works on a    *)
(* turn of this process.                                                       *)
LivesOK ==
    /\ \A i \in 1..Len(origin) : origin[i].life <= restarts
    /\ \A i \in 1..Len(origin) :
          origin[i].life = restarts /\ i \notin outlived => origin[i].id \in seen
    /\ \A t \in Threads : Busy(t) => origin[turn[t].id].life = restarts
    /\ OneTurnPerMessage

LEMMA LivesStep == ASSUME Inv, WebOK, LivesOK, [WebNext]_webVars PROVE LivesOK'
<1>0. /\ TypeOK /\ TurnsOK /\ Len(origin) = Len(log) /\ Len(log) \in Nat /\ restarts \in Nat
      /\ \A i \in 1..Len(log) : origin[i] \in Origins /\ origin[i].life \in Nat
  <2>1. \A o \in Origins : o.life \in Nat
    BY DEF Origins
  <2>2. origin \in Seq(Origins) /\ Len(origin) = Len(log)
    BY DEF WebOK, WebTypeOK, Origins
  <2>3. TypeOK /\ TurnsOK
    BY DEF Inv
  <2>4. restarts \in Nat /\ Len(log) \in Nat
    BY <2>3, ConstantsAssumption DEF TypeOK
  <2>5. \A i \in 1..Len(log) : origin[i] \in Origins
    BY <2>2
  <2> QED BY <2>1, <2>2, <2>3, <2>4, <2>5
<1>1. ASSUME NEW id \in Ids, NEW t \in Threads, PostAccepted(t, id) PROVE LivesOK'
  <2>1. /\ Opens(id) /\ id \notin seen /\ seen' = seen \union {id} /\ restarts' = restarts
        /\ outlived' = outlived
    BY <1>0, <1>1, AcceptedOpens DEF PostAccepted, Begin
  <2>2. PICK s \in Sessions, m \in Messages : BeginsOnly(t, s, m)
    <3>1. Sent(id) /\ meta[id].msg # "long"
      BY <1>1 DEF PostAccepted, Sent
    <3>2. PICK s \in Sessions, m \in Messages : s = meta[id].session /\ m = meta[id].msg
      BY <3>1, MetaOf DEF WebOK, Texts
    <3>3. Begin(t, s, m)
      BY <1>1, <3>2 DEF PostAccepted
    <3> QED BY <1>0, <3>3, BeginBegins
  <2>3. /\ Len(origin') = Len(log) + 1
        /\ \A i \in 1..Len(log) : origin'[i] = origin[i]
        /\ origin'[Len(log) + 1].id = id /\ origin'[Len(log) + 1].life = restarts
        /\ \A i \in 1..Len(origin') : i \in 1..Len(log) \/ i = Len(log) + 1
    BY <1>0, <2>1 DEF Opens
  <2>4. \A i \in 1..Len(origin') :
          /\ origin'[i].life <= restarts
          /\ origin'[i].life = restarts /\ i \notin outlived' => origin'[i].id \in seen'
    BY <1>0, <2>1, <2>3 DEF LivesOK
  <2>5. \A u \in Threads : Busy(u)' => origin'[turn'[u].id].life = restarts
    BY <1>0, <2>2, <2>3 DEF BeginsOnly, OthersKeep, LivesOK, TurnsOK, Handled, Busy
  <2>6. \A i \in 1..Len(log) : origin'[i] = origin'[Len(log) + 1] => i \in outlived'
    BY <1>0, <2>1, <2>3 DEF LivesOK
  <2>7. OneTurnPerMessage'
    <3> SUFFICES ASSUME NEW i \in 1..Len(origin'), NEW j \in 1..Len(origin'), i < j,
                        origin'[i] = origin'[j]
                 PROVE  i \in outlived'
      BY DEF OneTurnPerMessage
    <3>1. i \in 1..Len(log) /\ (j \in 1..Len(log) \/ j = Len(log) + 1)
      BY <1>0, <2>3
    <3>2. CASE j \in 1..Len(log)
      <4>1. origin[i] = origin[j]
        BY <2>3, <3>1, <3>2
      <4> QED BY <1>0, <2>1, <3>1, <3>2, <4>1 DEF OneTurnPerMessage, LivesOK
    <3>3. CASE j = Len(log) + 1
      BY <2>6, <3>1, <3>3
    <3> QED BY <3>1, <3>2, <3>3
  <2> QED BY <2>1, <2>4, <2>5, <2>7 DEF LivesOK
<1>2. CASE ProcessRestarts
  <2>1. /\ restarts' = restarts + 1 /\ origin' = origin /\ outlived' = outlived
        /\ \A t \in Threads : ~Busy(t)'
    BY <1>2 DEF ProcessRestarts, Restart, Busy
  <2>2. \A i \in 1..Len(origin) : origin[i].life <= restarts /\ origin[i].life # restarts + 1
    BY <1>0 DEF LivesOK
  <2> QED BY <1>0, <2>1, <2>2 DEF LivesOK, OneTurnPerMessage
<1>3. CASE GoesOn
  BY <1>0, <1>3, GoesOnStays DEF GoesOn, Remembers, LivesOK, OneTurnPerMessage
<1> QED BY <1>0, <1>1, <1>2, <1>3, WebKinds

-------------------------------------------------------------------------------
(* A call is asked about only where the policy binds it to a yes, and the      *)
(* policy changes with the process alone: what this process asked about is     *)
(* bound to a yes while it lives.                                              *)
JudgedOK ==
    /\ \A t \in Threads : pc[t] = "ask" => loaded[turn[t].call.name] = "confirm"
    /\ \A a \in asked : origin[a[2].id].life = restarts => loaded[a[2].name] = "confirm"
    /\ JudgedAsRun

(* A handler comes to its question from decide() alone. *)
LEMMA AsksBound ==
    ASSUME TypeOK, NEW t \in Threads, Work(t), pc'[t] = "ask"
    PROVE  loaded[turn'[t].call.name] = "confirm"
<1>1. pc[t] = "respond" /\ Busy(t)
  BY WorkMoves
<1>2. turn[t] \in Turns /\ turn[t].id \in TurnIds
  BY <1>1, BusyTurn
<1>3. PICK n \in Tools : RespondCall(t, n)
  BY <1>1 DEF Work, TypeOK, Goto, InputRailAllows, InputRailBlocks, ReadPending, RunConfirmed,
     ContinueConfirmed, ClearConfirmed, CancelPending, RespondText, Say, RunAllowed,
     ContinueAllowed, AskConfirmation, OutputRailAllows, OutputRailBlocks, AppendUser
<1>4. PICK c \in Calls : c = [id |-> turn[t].id, name |-> n]
  BY <1>2 DEF Calls
<1>5. loaded[n] = "confirm" /\ turn' = [turn EXCEPT ![t] = [turn[t] EXCEPT !.call = c]]
  BY <1>3, <1>4 DEF RespondCall, TypeOK, Goto, Say
<1>6. turn'[t].call = c /\ c.name = n
  BY <1>2, <1>4, <1>5, ExceptCall DEF TypeOK
<1> QED BY <1>5, <1>6

LEMMA JudgedStep == ASSUME Inv, WebOK, LivesOK, JudgedOK, [WebNext]_webVars PROVE JudgedOK'
<1>0. /\ TypeOK /\ TurnsOK /\ GateOK /\ Len(origin) = Len(log) /\ Len(log) \in Nat
      /\ restarts \in Nat
      /\ \A i \in Handled : origin[i].life \in Nat /\ origin[i].life <= restarts
  <2>1. \A o \in Origins : o.life \in Nat
    BY DEF Origins
  <2>2. origin \in Seq(Origins) /\ Len(origin) = Len(log)
    BY DEF WebOK, WebTypeOK, Origins
  <2>3. TypeOK /\ TurnsOK /\ GateOK
    BY DEF Inv
  <2>4. restarts \in Nat /\ Len(log) \in Nat
    BY <2>3, ConstantsAssumption DEF TypeOK
  <2>5. \A i \in Handled : origin[i] \in Origins
    BY <2>2 DEF Handled
  <2>6. \A i \in Handled : origin[i].life <= restarts
    BY <2>2 DEF Handled, LivesOK
  <2> QED BY <2>1, <2>2, <2>3, <2>4, <2>5, <2>6
<1>1. \A a \in asked : a[2].id \in Handled
  BY <1>0 DEF TurnsOK
<1>2. \A e \in executed : e.turn \in Handled /\ e.call.id \in Handled
  <2>1. \A e \in executed : e.turn = e.call.id \/ <<log[e.turn].session, e.call>> \in asked
    BY <1>0 DEF GateOK, RunsOnlyWhenAllowed
  <2> QED BY <1>0, <1>1, <2>1 DEF TurnsOK
<1>3. ASSUME NEW id \in Ids, NEW t \in Threads, PostAccepted(t, id) PROVE JudgedOK'
  <2>1. \A i \in Handled : origin'[i] = origin[i]
    BY <1>0, <1>3, AcceptedOpens DEF Opens, Handled
  <2>2. /\ UNCHANGED <<loaded, asked, executed, restarts>>
        /\ pc' = [pc EXCEPT ![t] = "input"] /\ \A u \in Threads \ {t} : turn'[u] = turn[u]
    BY <1>0, <1>3 DEF PostAccepted, Begin, Goto, TypeOK
  <2>3. \A u \in Threads : pc'[u] = "ask" => loaded[turn'[u].call.name] = "confirm"
    BY <1>0, <2>2 DEF TypeOK, JudgedOK
  <2>4. JudgedAsRun'
    BY <1>2, <2>1, <2>2 DEF JudgedAsRun, JudgedOK
  <2> QED BY <1>1, <2>1, <2>2, <2>3, <2>4 DEF JudgedOK
<1>4. CASE ProcessRestarts
  <2>1. /\ restarts' = restarts + 1 /\ UNCHANGED <<origin, asked, executed>>
        /\ \A t \in Threads : pc'[t] = "idle"
    BY <1>4 DEF ProcessRestarts, Restart, ghosts
  <2>2. \A a \in asked : origin[a[2].id].life # restarts + 1
    BY <1>0, <1>1
  <2> QED BY <2>1, <2>2 DEF JudgedOK, JudgedAsRun
<1>5. CASE GoesOn
  <2>1. origin' = origin /\ restarts' = restarts
    BY <1>5 DEF GoesOn
  <2>2. ASSUME NEW t \in Threads, Work(t) PROVE JudgedOK'
    <3>1. /\ WorkWrites(t) /\ OthersKeep(t) /\ loaded' = loaded /\ Busy(t)
          /\ turn[t].id \in Handled /\ origin[turn[t].id].life = restarts
      BY <1>0, <2>2, WorkMoves, WorkWritesOnly DEF TurnsOK, LivesOK
    <3>2. \A u \in Threads : pc'[u] = "ask" => loaded[turn'[u].call.name] = "confirm"
      BY <1>0, <2>2, <3>1, AsksBound DEF OthersKeep, JudgedOK
    <3>3. \A a \in asked' : origin[a[2].id].life = restarts => loaded[a[2].name] = "confirm"
      BY <3>1 DEF WorkWrites, JudgedOK
    <3>4. ASSUME NEW e \in executed', origin[e.turn].life = origin[e.call.id].life
          PROVE  e.mode = IF e.turn = e.call.id THEN "free" ELSE "confirm"
      <4>1. CASE e \in executed
        BY <3>4, <4>1 DEF JudgedOK, JudgedAsRun
      <4>2. CASE e \notin executed
        <5>1. /\ pc[t] \in {"run", "call"} /\ e.call = turn[t].call /\ e.turn = turn[t].id
              /\ e.mode = loaded[turn[t].call.name]
          BY <3>1, <4>2 DEF WorkWrites
        <5>2. CASE pc[t] = "call"
          BY <1>0, <5>1, <5>2 DEF GateOK
        <5>3. CASE pc[t] = "run"
          BY <1>0, <3>1, <3>4, <5>1, <5>3 DEF GateOK, JudgedOK
        <5> QED BY <5>1, <5>2, <5>3
      <4> QED BY <4>1, <4>2
    <3> QED BY <2>1, <3>1, <3>2, <3>3, <3>4 DEF JudgedOK, JudgedAsRun
  <2>3. ASSUME NEW t \in Threads, LeavesOnly(t) PROVE JudgedOK'
    <3>1. \A u \in Threads : pc'[u] = "ask" => pc[u] = "ask" /\ turn'[u] = turn[u]
      BY <2>3 DEF LeavesOnly, OthersKeep, Busy
    <3> QED BY <2>1, <2>3, <3>1 DEF LeavesOnly, JudgedOK, JudgedAsRun
  <2>4. CASE Still
    BY <2>1, <2>4 DEF Still, JudgedOK, JudgedAsRun
  <2> QED BY <1>5, <2>2, <2>3, <2>4 DEF GoesOn
<1> QED BY <1>0, <1>3, <1>4, <1>5, WebKinds

-------------------------------------------------------------------------------
WebInv == Inv /\ WebOK /\ LivesOK /\ JudgedOK

LEMMA WebInitial == WebInit => WebInv
<1> SUFFICES ASSUME WebInit PROVE WebInv
  OBVIOUS
<1>1. Init
  BY DEF WebInit
<1>2. Inv
  <2>1. TurnsOK /\ GateOK /\ RefusalOK /\ CheckedOK
    BY <1>1 DEF Init, TurnsOK, GateOK, RefusalOK, CheckedOK, Busy, Handled,
       RunsOnlyWhenAllowed, BlockedIsInert, NothingLeavesUnchecked
  <2> QED BY <1>1, <2>1, TypeInit DEF Inv
<1>3. /\ job \in [Threads -> Jobs \union {NoJob}] /\ \A t \in Threads : job[t] = NoJob
      /\ meta \in [Ids -> Metas \union {Unsent}]
      /\ \A t \in Threads : ~Busy(t)
      /\ log = <<>> /\ origin = <<>> /\ seen = {} /\ asked = {} /\ executed = {} /\ outlived = {}
      /\ \A t \in Threads : pc[t] = "idle"
  BY DEF WebInit, Init, Busy
<1>4. WebOK
  BY <1>3 DEF WebOK, WebTypeOK, Metas
<1>5. LivesOK /\ JudgedOK
  BY <1>3 DEF LivesOK, JudgedOK, JudgedAsRun, OneTurnPerMessage
<1> QED BY <1>2, <1>4, <1>5 DEF WebInv

LEMMA WebStep == WebInv /\ [WebNext]_webVars => WebInv' /\ [Next]_vars
<1> SUFFICES ASSUME WebInv, [WebNext]_webVars PROVE WebInv' /\ [Next]_vars
  OBVIOUS
<1>1. Inv /\ TypeOK /\ WebOK /\ LivesOK /\ JudgedOK
  BY DEF WebInv, Inv
<1>2. [Next]_vars
  BY <1>1, WebStepIsStep
<1>3. Inv'
  BY <1>1, <1>2, TypeStep, TurnsStep, GateStep, RefusalStep, CheckedStep DEF Inv
<1> QED BY <1>1, <1>2, <1>3, WebOKStep, LivesStep, JudgedStep DEF WebInv

(* The inductive invariant holds in every state of the webhook                *)
(* (router.py:51-109, service.py:26-45).                                      *)
THEOREM WebInvariant == WebSpec => []WebInv
  BY WebInitial, WebStep, PTL DEF WebSpec

(* The webhook over the conversation runtime only does what the runtime does: *)
(* whatever is proved of Conversation's Spec holds behind the webhook too,    *)
(* however Meta posts, the limiter refuses or the Graph API raises            *)
(* (service.py:26-45).                                                        *)
THEOREM WebhookConverses == WebSpec => Spec
<1>1. WebInit => Init
  BY DEF WebInit
<1> QED BY <1>1, WebInvariant, WebStep, PTL DEF WebSpec, Spec

(* A worker thread is in the handler exactly while its POST is, every turn    *)
(* is about the message it came from, and the dedupe store knows messages     *)
(* that were sent (router.py:73-109, service.py:26-45).                       *)
THEOREM WebTypes == WebSpec => []WebTypeOK
<1>1. WebInv => WebTypeOK
  BY DEF WebInv, WebOK
<1> QED BY <1>1, WebInvariant, PTL

(* One process handles a message in one turn while the dedupe store keeps the *)
(* id, for any number of deliveries, threads, failures and restarts: a later  *)
(* turn of the message is another process's, or the store has forgotten every *)
(* earlier turn's id (service.py:4-6, 26-45; dedupe.py:39-45).                *)
THEOREM HandlesOnce == WebSpec => []OneTurnPerMessage
<1>1. WebInv => OneTurnPerMessage
  BY DEF WebInv, LivesOK
<1> QED BY <1>1, WebInvariant, PTL

(* A call that runs in the process that judged it runs under the policy it    *)
(* was judged by (conversation.py:118-214, schema.py:64-68).                  *)
THEOREM RunsAsJudged == WebSpec => []JudgedAsRun
<1>1. WebInv => JudgedAsRun
  BY DEF WebInv, JudgedOK
<1> QED BY <1>1, WebInvariant, PTL

-------------------------------------------------------------------------------
(* No delivery is swallowed when nothing raises and the process stops only     *)
(* between messages: an id the store knows, or one Meta was told is done, has  *)
(* its answer, its thread or its refusal.                                      *)
NothingFails == Faults = {} /\ ~SendFaults /\ ~CrashAnywhere

Answered(id) ==
    \/ \E d \in delivered : d.id = id
    \/ \E t \in Threads : job[t] # NoJob /\ job[t].id = id
    \/ \E why \in {"limit", "unknown"} : <<id, why>> \in turnedAway

AnsweredOK == \A id \in Ids : id \in seen \/ meta[id].state = "done" => Answered(id)

(* A thread that gives its POST back has answered it, and nothing else takes a *)
(* message's answer away.                                                      *)
LEMMA AnswersStay ==
    ASSUME NothingFails, TypeOK, WebOK, [WebNext]_webVars, ~ProcessRestarts,
           NEW id \in Ids, Answered(id)
    PROVE  Answered(id)'
<1> USE WebhookAssumption
<1>0. delivered \subseteq delivered' /\ turnedAway \subseteq turnedAway'
  BY DEF WebNext, Post, PostTooLong, PostDuplicate, PostRefused, PostUnknown, PostAccepted,
     CustomerWrites, Forget, Worker, HandlerWorks, HandlerReturns, HandlerRaises, ReadAwaiting,
     SendReply, SendRaises, RegistryLoads, webVars, web
<1>1. CASE (\E d \in delivered : d.id = id) \/ \E why \in {"limit", "unknown"} : <<id, why>> \in turnedAway
  BY <1>0, <1>1 DEF Answered
<1>2. ASSUME NEW t \in Threads, job[t] # NoJob, job[t].id = id PROVE Answered(id)'
  <2>1. \/ job'[t] # NoJob /\ job'[t].id = id
        \/ SendReply(t) \/ SendRaises(t) \/ HandlerRaises(t)
    BY <1>2, JobStep DEF JobsMove
  <2>2. ~HandlerRaises(t) /\ ~SendRaises(t)
    BY DEF NothingFails, HandlerRaises, Raise, SendRaises
  <2>3. CASE SendReply(t)
    <3>1. [id |-> id, kind |-> job[t].kind, buttons |-> job[t].buttons] \in delivered'
      BY <1>2, <2>3 DEF SendReply
    <3>2. \E d \in delivered' : d.id = id
      BY <3>1
    <3> QED BY <3>2 DEF Answered
  <2> QED BY <2>1, <2>2, <2>3 DEF Answered
<1> QED BY <1>1, <1>2 DEF Answered

LEMMA AnsweredStep ==
    ASSUME NothingFails, TypeOK, WebOK, AnsweredOK, [WebNext]_webVars PROVE AnsweredOK'
<1> SUFFICES ASSUME NEW id \in Ids, (id \in seen \/ meta[id].state = "done")' PROVE Answered(id)'
  BY DEF AnsweredOK
<1>1. CASE ProcessRestarts
  <2>1. /\ seen' = {} /\ delivered' = delivered /\ turnedAway' = turnedAway
        /\ \A t \in Threads : job[t] = NoJob
    BY <1>1 DEF ProcessRestarts, NothingFails
  <2>2. meta[id].state = "done"
    <3>1. meta'[id] = IF meta[id].state = "open" THEN [meta[id] EXCEPT !.state = "due"] ELSE meta[id]
      BY <1>1 DEF ProcessRestarts
    <3>2. meta[id] \in Metas \union {Unsent}
      BY MetaOf DEF WebOK
    <3>3. CASE meta[id].state = "open"
      <4>1. meta[id] \in Metas
        BY <3>2, <3>3 DEF Unsent
      <4>2. meta'[id].state = "due"
        BY <3>1, <3>3, <4>1 DEF Metas
      <4> QED BY <2>1, <4>2
    <3> QED BY <2>1, <3>1, <3>3
  <2> QED BY <2>1, <2>2 DEF Answered, AnsweredOK
<1>2. CASE ~ProcessRestarts /\ (id \in seen \/ meta[id].state = "done")
  BY <1>2, AnswersStay DEF AnsweredOK
<1>3. CASE id \notin seen /\ meta[id].state # "done" /\ ~ProcessRestarts
  <2>1. Sent(id) => meta[id] \in Metas
    BY MetaOf DEF WebOK
  <2>2. ASSUME NEW x \in Ids, Post(x) PROVE Answered(id)'
    <3>1. Sent(x)
      BY <2>2 DEF Post, PostTooLong, PostDuplicate, PostRefused, PostUnknown, PostAccepted, Sent
    <3>2. seen' \subseteq seen \union {x}
      BY <2>2 DEF Post, PostTooLong, PostDuplicate, PostRefused, PostUnknown, PostAccepted
    <3>3. \A y \in Ids \ {x} : meta'[y] = meta[y]
      <4>1. CASE \E status \in {200, 500} : Respond(x, status)
        BY <3>1, <4>1, Responded DEF WebOK
      <4>2. CASE meta' = [meta EXCEPT ![x].state = "open"]
        BY <3>1, <4>2, StateChanges DEF WebOK
      <4> QED BY <2>2, <4>1, <4>2
          DEF Post, PostTooLong, PostDuplicate, PostRefused, PostUnknown, PostAccepted
    <3>4. x = id
      BY <1>3, <3>2, <3>3
    <3>5. CASE PostTooLong(id)
      <4>1. [id |-> id, kind |-> "too long", buttons |-> FALSE] \in delivered'
        BY <3>5 DEF PostTooLong, NothingFails
      <4>2. \E d \in delivered' : d.id = id
        BY <4>1
      <4> QED BY <4>2 DEF Answered
    <3>6. CASE PostRefused(id) \/ PostUnknown(id)
      BY <3>6 DEF PostRefused, PostUnknown, Answered
    <3>7. ASSUME NEW t \in Threads, PostAccepted(t, id) PROVE Answered(id)'
      <4>1. PICK j \in Jobs : j = [id |-> id, stage |-> "handling", kind |-> "none", buttons |-> FALSE]
        BY DEF Jobs, Kinds
      <4>2. job'[t] = j /\ j # NoJob /\ j.id = id
        BY <3>7, <4>1, WebhookAssumption DEF PostAccepted, WebOK, WebTypeOK
      <4> QED BY <4>2 DEF Answered
    <3>8. ~PostDuplicate(id)
      BY <1>3 DEF PostDuplicate
    <3> QED BY <2>2, <3>4, <3>5, <3>6, <3>7, <3>8 DEF Post
  <2>3. ASSUME NEW t \in Threads, Worker(t) PROVE Answered(id)'
    <3>1. seen' = seen
      BY <2>3 DEF Worker, HandlerWorks, HandlerReturns, HandlerRaises, ReadAwaiting, SendReply,
         SendRaises, web
    <3>2. meta' # meta => SendReply(t)
      BY <2>3 DEF Worker, HandlerWorks, HandlerReturns, HandlerRaises, ReadAwaiting, SendRaises,
         Raise, NothingFails, web
    <3>3. SendReply(t)
      BY <1>3, <3>1, <3>2
    <3>4. job[t] \in Jobs /\ job[t].id \in Ids /\ Sent(job[t].id)
      BY <3>3 DEF SendReply, WebOK, WebTypeOK, Jobs
    <3>5. Respond(job[t].id, 200)
      BY <3>3 DEF SendReply
    <3>6. PICK x \in Ids : x = job[t].id
      BY <3>4
    <3>7. \A y \in Ids \ {x} : meta'[y] = meta[y]
      BY <3>4, <3>5, <3>6, Responded DEF WebOK
    <3>8. id = x
      BY <1>3, <3>1, <3>7
    <3>9. [id |-> id, kind |-> job[t].kind, buttons |-> job[t].buttons] \in delivered'
      BY <3>3, <3>6, <3>8 DEF SendReply
    <3>10. \E d \in delivered' : d.id = id
      BY <3>9
    <3> QED BY <3>10 DEF Answered
  <2>4. ASSUME NEW x \in Ids, NEW s \in Sessions, NEW m \in Texts, CustomerWrites(x, s, m)
        PROVE  FALSE
    <3>1. /\ seen' = seen
          /\ meta' = [meta EXCEPT ![x] = [session |-> s, msg |-> m, state |-> "due"]]
      BY <2>4 DEF CustomerWrites
    <3>2. \A y \in Ids : meta'[y] = meta[y] \/ meta'[y].state = "due"
      BY <3>1 DEF WebOK, WebTypeOK
    <3> QED BY <1>3, <3>1, <3>2
  <2>5. CASE seen' \subseteq seen /\ meta' = meta
    BY <1>3, <2>5
  <2> QED BY <1>3, <2>2, <2>3, <2>4, <2>5 DEF WebNext, Forget, RegistryLoads, webVars, web
<1> QED BY <1>1, <1>2, <1>3

(* When nothing raises and the process stops only between messages, every     *)
(* message Meta was told is done was answered, is being handled, or was       *)
(* turned away: no 200 swallows a delivery (service.py:26-45,                 *)
(* router.py:90-109).                                                         *)
THEOREM NothingIsSwallowed == NothingFails /\ WebSpec => []DoneIsAnswered
<1>1. WebInit => AnsweredOK
  BY DEF WebInit, AnsweredOK, Unsent
<1>2. NothingFails /\ WebInv /\ AnsweredOK /\ [WebNext]_webVars => AnsweredOK'
  BY AnsweredStep DEF WebInv, Inv
<1>3. AnsweredOK => DoneIsAnswered
  BY DEF AnsweredOK, Answered, DoneIsAnswered
<1> QED
  <2>1. CASE ~NothingFails
    BY <2>1
  <2>2. CASE NothingFails
    <3>1. WebInv /\ AnsweredOK /\ [WebNext]_webVars => AnsweredOK'
      BY <1>2, <2>2
    <3> QED BY <1>1, <1>3, <3>1, WebInvariant, PTL DEF WebSpec
  <2> QED BY <2>1, <2>2
===============================================================================
