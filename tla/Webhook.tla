-------------------------------- MODULE Webhook --------------------------------
(***************************************************************************)
(* The WhatsApp webhook (interfaces/whatsapp/router.py) over InterfaceLayer*)
(* .process (interface_layer/service.py) over handle_message: one POST per *)
(* delivery, each processed on a worker thread, answered to Meta by a      *)
(* status and to the Customer by a message of its own.                     *)
(*                                                                         *)
(* Meta (external, as the router and the dedupe store describe it) posts a *)
(* message until it gets a 200: again after a 5xx, after a dropped         *)
(* connection, and whenever it is tired of waiting.                        *)
(***************************************************************************)
EXTENDS Conversation

CONSTANTS
    Ids,         \* message ids
    MayRefuse,   \* may the rate limiter refuse a call
    SendFaults,  \* may the Graph API call raise
    NoJob        \* no POST on this thread

(* What a POST's thread holds: the message, how far it got, the reply. *)
Jobs == [id : Ids, stage : {"handling", "awaiting", "sending"}, kind : Kinds, buttons : BOOLEAN]

ASSUME WebhookAssumption ==
    MayRefuse \in BOOLEAN /\ SendFaults \in BOOLEAN /\ NoJob \notin Jobs

(* A message is one handle_message can be given, or too long for InboundRequest. *)
Texts == Messages \union {"long"}
Unsent == [session |-> NoCall, msg |-> "long", state |-> "unsent"]

VARIABLES
    meta,        \* Meta's record of each message: due, open (posted, no response), done
    seen,        \* InMemoryDedupeStore's ids within their TTL: memory only
    ready,       \* has _populate_business_registry finished
    job,         \* the POST each worker thread is processing
    origin,      \* history: the message id of each turn, and the process that took it
    delivered,   \* history: the messages sent to Customers
    turnedAway,  \* history: messages refused by the limiter, or for want of a runtime
    outlived     \* history: the turns whose id the store has since forgotten

web == <<meta, seen, ready, job, origin, delivered, turnedAway, outlived>>
webVars == <<vars, web>>

Free(t) == job[t] = NoJob /\ ~Busy(t)
Serves(t, s) == job[t] # NoJob /\ meta[job[t].id].session = s

(* The response of a POST reaches Meta. *)
Respond(id, status) ==
    /\ meta' = [meta EXCEPT ![id].state =
                  IF status = 200 \/ meta[id].state = "done" THEN "done" ELSE "due"]

CustomerWrites(id, s, text) ==
    /\ meta[id].state = "unsent"
    /\ meta' = [meta EXCEPT ![id] = [session |-> s, msg |-> text, state |-> "due"]]
    /\ UNCHANGED <<vars, seen, ready, job, origin, delivered, turnedAway, outlived>>

(* InboundRequest refuses the text: the Customer is told, before any dedupe. *)
PostTooLong(id) ==
    /\ meta[id].state = "due" /\ meta[id].msg = "long"
    /\ \/ /\ delivered' = delivered \union {[id |-> id, kind |-> "too long", buttons |-> FALSE]}
          /\ Respond(id, 200)
       \/ /\ SendFaults
          /\ Respond(id, 500)
          /\ UNCHANGED delivered
    /\ UNCHANGED <<vars, seen, ready, job, origin, turnedAway, outlived>>

(* A delivery whose id was seen: 200 and nothing else. *)
PostDuplicate(id) ==
    /\ meta[id].state \in {"due", "open"} /\ meta[id].msg # "long"
    /\ id \in seen
    /\ Respond(id, 200)
    /\ UNCHANGED <<vars, seen, ready, job, origin, delivered, turnedAway, outlived>>

(* The TTL of an id passes, and _evict_expired_locked takes it at the next     *)
(* call: it counts as forgotten from here on (Dedupe says when).  What becomes *)
(* of an id that is not posted again shows nowhere, and none is forgotten under *)
(* its handler: the clients of a handler time out in seconds, a TTL is a day.  *)
(* Bound: another turn may still begin.                                        *)
Forget(id) ==
    /\ meta[id].state = "due" /\ id \in seen /\ Len(log) < MaxTurns
    /\ seen' = seen \ {id}
    /\ outlived' = outlived \union
           {i \in 1..Len(origin) : origin[i].id = id /\ origin[i].life = restarts}
    /\ UNCHANGED <<vars, meta, ready, job, origin, delivered, turnedAway>>

(* allow() says no, after is_duplicate has marked the id. *)
PostRefused(id) ==
    /\ MayRefuse
    /\ meta[id].state = "due" /\ meta[id].msg # "long" /\ id \notin seen
    /\ seen' = seen \union {id}
    /\ turnedAway' = turnedAway \union {<<id, "limit">>}
    /\ Respond(id, 200)
    /\ UNCHANGED <<vars, ready, job, origin, delivered, outlived>>

(* No runtime for this phone number, or none yet: 200 and nothing else. *)
PostUnknown(id) ==
    /\ meta[id].state = "due" /\ meta[id].msg # "long" /\ id \notin seen
    /\ ~ready
    /\ seen' = seen \union {id}
    /\ turnedAway' = turnedAway \union {<<id, "unknown">>}
    /\ Respond(id, 200)
    /\ UNCHANGED <<vars, ready, job, origin, delivered, outlived>>

(* Mutant: the id is looked up but not kept. *)
PostAcceptedUnmarked(t, id) ==
    /\ meta[id].state = "due" /\ meta[id].msg # "long" /\ id \notin seen
    /\ ready /\ Free(t)
    /\ Overlap \/ \A u \in Threads : ~Serves(u, meta[id].session)
    /\ Begin(t, meta[id].session, meta[id].msg)
    /\ job' = [job EXCEPT ![t] = [id |-> id, stage |-> "handling",
                                  kind |-> "none", buttons |-> FALSE]]
    /\ origin' = Append(origin, [id |-> id, life |-> restarts])
    /\ meta' = [meta EXCEPT ![id].state = "open"]
    /\ UNCHANGED <<seen, ready, delivered, turnedAway, outlived>>

(* New, within the limit and known: handle_message begins on a worker thread. *)
PostAccepted(t, id) ==
    /\ meta[id].state = "due" /\ meta[id].msg # "long" /\ id \notin seen
    /\ ready /\ Free(t)
    /\ Overlap \/ \A u \in Threads : ~Serves(u, meta[id].session)
    /\ Begin(t, meta[id].session, meta[id].msg)
    /\ seen' = seen \union {id}
    /\ job' = [job EXCEPT ![t] = [id |-> id, stage |-> "handling",
                                  kind |-> "none", buttons |-> FALSE]]
    /\ origin' = Append(origin, [id |-> id, life |-> restarts])
    /\ meta' = [meta EXCEPT ![id].state = "open"]
    /\ UNCHANGED <<ready, delivered, turnedAway, outlived>>

HandlerWorks(t) == Work(t) /\ UNCHANGED web

HandlerReturns(t) ==
    /\ AppendAssistant(t)
    /\ job' = [job EXCEPT ![t].stage = "awaiting", ![t].kind = turn[t].kind]
    /\ UNCHANGED <<meta, seen, ready, origin, delivered, turnedAway, outlived>>

(* Mutant: the thread is not given back after an exception. *)
HandlerRaisesKeepsThread(t) ==
    /\ Raise(t)
    /\ Respond(job[t].id, 500)
    /\ UNCHANGED <<job, seen, ready, origin, delivered, turnedAway, outlived>>

(* An exception leaves process and the route: Starlette answers 500. *)
HandlerRaises(t) ==
    /\ Raise(t)
    /\ Respond(job[t].id, 500)
    /\ job' = [job EXCEPT ![t] = NoJob]
    /\ UNCHANGED <<seen, ready, origin, delivered, turnedAway, outlived>>

(* awaiting_confirmation: process reads the pending request once more. *)
ReadAwaiting(t) ==
    /\ job[t] # NoJob /\ job[t].stage = "awaiting"
    /\ job' = [job EXCEPT ![t].stage = "sending",
                          ![t].buttons = pending[meta[job[t].id].session] # NoCall]
    /\ UNCHANGED <<vars, meta, seen, ready, origin, delivered, turnedAway, outlived>>

(* Mutant: only a reply with buttons is sent. *)
SendReplyButtonsOnly(t) ==
    /\ job[t] # NoJob /\ job[t].stage = "sending"
    /\ delivered' = IF job[t].buttons
                    THEN delivered \union {[id |-> job[t].id, kind |-> job[t].kind,
                                            buttons |-> TRUE]}
                    ELSE delivered
    /\ Respond(job[t].id, 200)
    /\ job' = [job EXCEPT ![t] = NoJob]
    /\ UNCHANGED <<vars, seen, ready, origin, turnedAway, outlived>>

(* send_confirmation_buttons or send_text_message, then 200. *)
SendReply(t) ==
    /\ job[t] # NoJob /\ job[t].stage = "sending"
    /\ delivered' = delivered \union {[id |-> job[t].id, kind |-> job[t].kind,
                                       buttons |-> job[t].buttons]}
    /\ Respond(job[t].id, 200)
    /\ job' = [job EXCEPT ![t] = NoJob]
    /\ UNCHANGED <<vars, seen, ready, origin, turnedAway, outlived>>

(* raise_for_status or the connection raises: 500. *)
SendRaises(t) ==
    /\ SendFaults
    /\ job[t] # NoJob /\ job[t].stage = "sending"
    /\ Respond(job[t].id, 500)
    /\ job' = [job EXCEPT ![t] = NoJob]
    /\ UNCHANGED <<vars, seen, ready, origin, delivered, turnedAway, outlived>>

(* The process stops and starts: memory is gone, the registry is empty until *)
(* the background load ends, and Meta's open deliveries fall due again.      *)
ProcessRestarts ==
    /\ Restart
    /\ CrashAnywhere \/ \A t \in Threads : job[t] = NoJob
    /\ seen' = {} /\ ready' = FALSE
    /\ job' = [t \in Threads |-> NoJob]
    /\ meta' = [id \in Ids |-> IF meta[id].state = "open"
                               THEN [meta[id] EXCEPT !.state = "due"] ELSE meta[id]]
    /\ UNCHANGED <<origin, delivered, turnedAway, outlived>>

RegistryLoads ==
    /\ ~ready /\ ready' = TRUE
    /\ UNCHANGED <<vars, meta, seen, job, origin, delivered, turnedAway, outlived>>

WebInit ==
    /\ Init
    /\ meta = [id \in Ids |-> Unsent]
    /\ seen = {} /\ ready = FALSE
    /\ job = [t \in Threads |-> NoJob]
    /\ origin = <<>> /\ delivered = {} /\ turnedAway = {} /\ outlived = {}

Post(id) ==
    \/ PostTooLong(id) \/ PostDuplicate(id) \/ PostRefused(id) \/ PostUnknown(id)
    \/ \E t \in Threads : PostAccepted(t, id)

Worker(t) ==
    \/ HandlerWorks(t) \/ HandlerReturns(t) \/ HandlerRaises(t)
    \/ ReadAwaiting(t) \/ SendReply(t) \/ SendRaises(t)

WebNext ==
    \/ \E id \in Ids : \/ Post(id) \/ Forget(id)
                       \/ \E s \in Sessions, x \in Texts : CustomerWrites(id, s, x)
    \/ \E t \in Threads : Worker(t)
    \/ (\E s \in Sessions : RowAges(s)) /\ UNCHANGED web
    \/ ProcessRestarts \/ RegistryLoads

WebSpec == WebInit /\ [][WebNext]_webVars

(* Meta keeps posting what is due, and a handler's next call returns: every  *)
(* client it uses has a timeout of its own.                                  *)
FairWebSpec ==
    /\ WebSpec
    /\ \A id \in Ids : WF_webVars(Post(id))
    /\ \A t \in Threads : WF_webVars(Worker(t))

-------------------------------------------------------------------------------
(* A thread is in the handler exactly while its POST is, every turn has the    *)
(* message it came from, and a message the store knows was sent.               *)
WebTypeOK ==
    /\ job \in [Threads -> Jobs \union {NoJob}]
    /\ meta \in [Ids -> [session : Sessions, msg : Texts, state : {"due", "open", "done"}]
                          \union {Unsent}]
    /\ \A t \in Threads : Busy(t) <=> job[t] # NoJob /\ job[t].stage = "handling"
    /\ Len(origin) = Len(log)
    /\ \A i \in 1..Len(log) : log[i] = [session |-> meta[origin[i].id].session,
                                        msg |-> meta[origin[i].id].msg]
    /\ outlived \subseteq 1..Len(log)
    /\ seen \subseteq {id \in Ids : meta[id].state # "unsent"}

(* "No write Tool ever fires twice" for a delivery posted twice                *)
(* (service.py:4-6, dedupe.py:4-5): one process handles a message in one turn   *)
(* for as long as its id is kept, however often it is posted, answered with a  *)
(* 500 or posted again while open.  Another turn of the same message is the    *)
(* work of a restarted process, or comes after the store has forgotten the id  *)
(* of the first.                                                               *)
OneTurnPerMessage ==
    \A i, j \in 1..Len(origin) : i < j /\ origin[i] = origin[j] => i \in outlived

(* A disabled Tool is "denied by the Tool Rail if the LLM calls it anyway"     *)
(* (business_config/schema.py:64-68), and a yes needs a Tool that asks for     *)
(* one: a call that runs in the process that judged it runs under the very    *)
(* policy it was judged by.  Only a restart in between lets an answer run a    *)
(* Tool the owner has disabled since (conversation.py:137).                   *)
JudgedAsRun ==
    \A e \in executed :
        origin[e.turn].life = origin[e.call.id].life =>
            e.mode = IF e.turn = e.call.id THEN "free" ELSE "confirm"

(* A message Meta was told is done has been answered, or is being handled:    *)
(* no delivery is swallowed (service.py:26-45, router.py:90-109).             *)
DoneIsAnswered ==
    \A id \in Ids : meta[id].state = "done" =>
        \/ \E d \in delivered : d.id = id
        \/ \E t \in Threads : job[t] # NoJob /\ job[t].id = id
        \/ \E why \in {"limit", "unknown"} : <<id, why>> \in turnedAway

(* With the registry loaded, every message a Customer writes is answered in   *)
(* the end (router.py:51-109): no delivery waits on another for ever.         *)
EveryMessageIsAnswered ==
    \A id \in Ids :
        ready /\ meta[id].state = "due" ~> \E d \in delivered : d.id = id
===============================================================================
