----------------------------- MODULE Conversation -----------------------------
(***************************************************************************)
(* ConversationRuntime.handle_message (conversation.py) over the           *)
(* SqliteSessionStore: the four Rails, the Agent Core and the pending      *)
(* Confirmation Request of each Session.                                   *)
(*                                                                         *)
(* A handler runs on a worker thread.  Its lock sections on the Session    *)
(* Store and its calls to the Rail Checker, the LLM and the Tools are the  *)
(* atomic steps; a pc names the next one.  Handlers of one Session overlap *)
(* under a webhook (one thread per delivery) and never do under the CLI.   *)
(* The file behind the store survives a restart, the threads do not.       *)
(***************************************************************************)
EXTENDS Integers, Sequences, FiniteSets

CONSTANTS
    Threads,        \* worker threads that run handle_message
    Sessions,       \* session keys
    Customers,      \* the part of a session key after its frontend
    CustomerOf,     \* [Sessions -> Customers]
    Tools,          \* tool names the LLM may utter, configured or not
    Configs,        \* the tool policies the Business Config file may hold
    InputEnabled,   \* rails.input_enabled
    OutputEnabled,  \* rails.output_enabled
    Overlap,        \* may two handlers of one Session be in flight
    Faults,         \* the steps whose dependency may raise
    CrashAnywhere,  \* may the process die while a handler is running
    SweepInterval,  \* _SWEEP_INTERVAL
    MaxTurns,       \* bound: messages handled
    MaxRestarts,    \* bound: restarts
    NoCall,         \* no tool call
    NoTurn          \* an idle thread has no locals

(* A tool's entry in the Business Config, as decide() tells entries apart. *)
Modes == {"absent", "disabled", "confirm", "free"}
Messages == {"yes", "no", "other"}
Roles == {"user", "assistant"}
Kinds == {"none", "answer", "prompt", "cancelled", "nudge", "deny", "replaced", "refusal"}
Gates == {"unchecked", "output", "input"}
Steps == {"idle", "input", "pending", "run", "continue", "clear", "cancel", "respond",
          "call", "explain", "ask", "output", "user", "assistant"}

ASSUME ConstantsAssumption ==
    /\ CustomerOf \in [Sessions -> Customers]
    /\ Configs \subseteq [Tools -> Modes]
    /\ InputEnabled \in BOOLEAN /\ OutputEnabled \in BOOLEAN
    /\ Overlap \in BOOLEAN /\ CrashAnywhere \in BOOLEAN
    /\ Faults \subseteq Steps \ {"idle"}
    /\ SweepInterval \in Nat \ {0} /\ MaxTurns \in Nat /\ MaxRestarts \in Nat

TurnIds == 1..MaxTurns
(* tool_call.id: fresh for every call the LLM makes, so the turn that made it. *)
Calls == [id : TurnIds, name : Tools]

Turns == [id : TurnIds, session : Sessions, msg : Messages, call : Calls \union {NoCall},
          kind : Kinds, gate : Gates]
Executions == [call : Calls, turn : TurnIds, mode : Modes]
Cancellations == [call : Calls, turn : TurnIds]

ASSUME NullsAssumption == NoCall \notin Calls /\ NoTurn \notin Turns

VARIABLES
    loaded,      \* the tool policy the running process read at start
    pending,     \* pending_confirmation_json of each Session's row
    history,     \* history_json of each Session's row
    idleRows,    \* Sessions whose row is older than idle_ttl_seconds
    writes,      \* _write_count % SweepInterval
    customers,   \* customers record_visit has stored
    pc,          \* the next step of each thread
    turn,        \* the locals of handle_message on each thread
    restarts,    \* restarts so far
    log,         \* history: the messages handled, in order of arrival
    asked,       \* history: <<session, call>> of every set_pending(call)
    executed,    \* history: every tool_provider.call that took effect
    cancelled,   \* history: every "no" answered _CANCELLATION_TEXT, and the call it was to
    blocked,     \* history: turns the Input Rail refused
    replies      \* history: what handle_message returned, per turn

store == <<pending, history, idleRows, writes>>
ghosts == <<log, asked, executed, cancelled, blocked, replies>>
vars == <<loaded, store, customers, pc, turn, restarts, ghosts>>

Busy(t) == pc[t] # "idle"
UsesCall == {"run", "continue", "clear", "cancel", "call", "explain", "ask"}
Goto(t, step) == pc' = [pc EXCEPT ![t] = step]

(* A handler leaves one step for the next with a text to return. *)
Say(t, kind, step) ==
    /\ turn' = [turn EXCEPT ![t].kind = kind]
    /\ Goto(t, step)

-------------------------------------------------------------------------------
(* SqliteSessionStore                                                      *)

(* append and set_pending_confirmation: read the row, write it back with one *)
(* field changed, and on every SweepInterval-th write delete the idle rows.  *)
Upsert(s, newPending, newHistory) ==
    LET count == (writes + 1) % SweepInterval
        swept == IF count = 0 THEN idleRows \ {s} ELSE {}
    IN  /\ writes' = count
        /\ idleRows' = idleRows \ (swept \union {s})
        /\ pending' = [x \in Sessions |-> IF x = s THEN newPending
                                          ELSE IF x \in swept THEN NoCall ELSE pending[x]]
        /\ history' = [x \in Sessions |-> IF x = s THEN newHistory
                                          ELSE IF x \in swept THEN <<>> ELSE history[x]]

SetPending(s, call) == Upsert(s, call, history[s])

AppendTurn(s, role, id) ==
    Upsert(s, pending[s], Append(history[s], [role |-> role, turn |-> id]))

-------------------------------------------------------------------------------
(* handle_message                                                          *)

(* A message arrives; record_visit commits before anything else. *)
Begin(t, s, m) ==
    /\ ~Busy(t) /\ Len(log) < MaxTurns
    /\ Overlap \/ \A u \in Threads : Busy(u) => turn[u].session # s
    /\ customers' = customers \union {CustomerOf[s]}
    /\ log' = Append(log, [session |-> s, msg |-> m])
    /\ turn' = [turn EXCEPT ![t] = [id |-> Len(log) + 1, session |-> s, msg |-> m,
                                    call |-> NoCall, kind |-> "none", gate |-> "unchecked"]]
    /\ Goto(t, "input")
    /\ UNCHANGED <<loaded, store, restarts, asked, executed, cancelled, blocked, replies>>

InputRailAllows(t) ==
    /\ pc[t] = "input"
    /\ Goto(t, "pending")
    /\ UNCHANGED <<loaded, store, customers, turn, restarts, ghosts>>

(* Mutant: no early return after a refusal. *)
InputRailBlocksThenGoesOn(t) ==
    /\ pc[t] = "input" /\ InputEnabled
    /\ blocked' = blocked \union {turn[t].id}
    /\ Goto(t, "pending")
    /\ UNCHANGED <<loaded, store, customers, turn, restarts, log, asked, executed, cancelled, replies>>

(* The refusal is what the Input Rail decided to show: it skips the Output Rail. *)
InputRailBlocks(t) ==
    /\ pc[t] = "input" /\ InputEnabled
    /\ blocked' = blocked \union {turn[t].id}
    /\ turn' = [turn EXCEPT ![t].kind = "refusal", ![t].gate = "input"]
    /\ Goto(t, "user")
    /\ UNCHANGED <<loaded, store, customers, restarts, log, asked, executed, cancelled, replies>>

(* Mutant: the request found pending is not handed on to its branch. *)
ReadPendingDropsCall(t) ==
    /\ pc[t] = "pending"
    /\ LET p == pending[turn[t].session] IN
       \/ p = NoCall /\ Goto(t, "respond") /\ UNCHANGED turn
       \/ /\ p # NoCall /\ turn[t].msg \in {"yes", "no"}
          /\ Goto(t, IF turn[t].msg = "yes" THEN "run" ELSE "cancel") /\ UNCHANGED turn
       \/ p # NoCall /\ turn[t].msg = "other" /\ Say(t, "nudge", "output")
    /\ UNCHANGED <<loaded, store, customers, restarts, ghosts>>

(* Mutant: every reply but a "no" confirms. *)
ReadPendingLax(t) ==
    /\ pc[t] = "pending"
    /\ LET p == pending[turn[t].session] IN
       \/ p = NoCall /\ Goto(t, "respond") /\ UNCHANGED turn
       \/ /\ p # NoCall
          /\ turn' = [turn EXCEPT ![t].call = p]
          /\ Goto(t, IF turn[t].msg # "no" THEN "run" ELSE "cancel")
    /\ UNCHANGED <<loaded, store, customers, restarts, ghosts>>

(* Mutant: a reply that is neither yes nor no falls through to a fresh turn. *)
ReadPendingFallsThrough(t) ==
    /\ pc[t] = "pending"
    /\ LET p == pending[turn[t].session] IN
       \/ (p = NoCall \/ turn[t].msg = "other") /\ Goto(t, "respond") /\ UNCHANGED turn
       \/ /\ p # NoCall /\ turn[t].msg # "other"
          /\ turn' = [turn EXCEPT ![t].call = p]
          /\ Goto(t, IF turn[t].msg = "yes" THEN "run" ELSE "cancel")
    /\ UNCHANGED <<loaded, store, customers, restarts, ghosts>>

(* get_pending_confirmation, and the branch of _resolve_confirmation it leads to. *)
ReadPending(t) ==
    /\ pc[t] = "pending"
    /\ LET p == pending[turn[t].session] IN
       \/ /\ p = NoCall
          /\ Goto(t, "respond") /\ UNCHANGED turn
       \/ /\ p # NoCall /\ turn[t].msg \in {"yes", "no"}
          /\ turn' = [turn EXCEPT ![t].call = p]
          /\ Goto(t, IF turn[t].msg = "yes" THEN "run" ELSE "cancel")
       \/ /\ p # NoCall /\ turn[t].msg = "other"
          /\ Say(t, "nudge", "output")
    /\ UNCHANGED <<loaded, store, customers, restarts, ghosts>>

(* tool_provider.call takes effect. *)
Execute(t) ==
    executed' = executed \union {[call |-> turn[t].call, turn |-> turn[t].id,
                                  mode |-> loaded[turn[t].call.name]]}

RunConfirmed(t) ==
    /\ pc[t] = "run"
    /\ Execute(t)
    /\ Goto(t, "continue")
    /\ UNCHANGED <<loaded, store, customers, turn, restarts,
                   log, asked, cancelled, blocked, replies>>

(* continue_with_tool_result: the LLM words the reply. *)
ContinueConfirmed(t) ==
    /\ pc[t] = "continue"
    /\ Say(t, "answer", "clear")
    /\ UNCHANGED <<loaded, store, customers, restarts, ghosts>>

(* Mutant: the request stays pending after its call has run. *)
ClearConfirmedForgets(t) ==
    /\ pc[t] = "clear"
    /\ Goto(t, "output")
    /\ UNCHANGED <<loaded, store, customers, turn, restarts, ghosts>>

ClearConfirmed(t) ==
    /\ pc[t] = "clear"
    /\ SetPending(turn[t].session, NoCall)
    /\ Goto(t, "output")
    /\ UNCHANGED <<loaded, customers, turn, restarts, ghosts>>

(* The Customer is told that the call was cancelled. *)
Cancel(t) == cancelled' = cancelled \union {[call |-> turn[t].call, turn |-> turn[t].id]}

(* Mutant: "cancelled" is said and the request stays pending. *)
CancelPendingForgets(t) ==
    /\ pc[t] = "cancel"
    /\ Cancel(t)
    /\ Say(t, "cancelled", "output")
    /\ UNCHANGED <<loaded, store, customers, restarts, log, asked, executed, blocked, replies>>

CancelPending(t) ==
    /\ pc[t] = "cancel"
    /\ SetPending(turn[t].session, NoCall)
    /\ Cancel(t)
    /\ Say(t, "cancelled", "output")
    /\ UNCHANGED <<loaded, customers, restarts, log, asked, executed, blocked, replies>>

(* _fresh_turn: the LLM answers in words ... *)
RespondText(t) ==
    /\ pc[t] = "respond"
    /\ Say(t, "answer", "output")
    /\ UNCHANGED <<loaded, store, customers, restarts, ghosts>>

(* Mutant: decide() looks at requires_confirmation alone. *)
RespondCallAsksDisabled(t, name) ==
    /\ pc[t] = "respond"
    /\ \E n \in Tools : loaded[n] # "absent"
    /\ LET call == [id |-> turn[t].id, name |-> name] IN
       \/ /\ loaded[name] = "free"
          /\ turn' = [turn EXCEPT ![t].call = call] /\ Goto(t, "call")
       \/ /\ loaded[name] \in {"confirm", "disabled"}
          /\ turn' = [turn EXCEPT ![t].call = call] /\ Goto(t, "ask")
       \/ /\ loaded[name] = "absent"
          /\ Say(t, "deny", "output")
    /\ UNCHANGED <<loaded, store, customers, restarts, ghosts>>

(* ... or with a tool call, of any name it likes, which decide() judges. *)
RespondCall(t, name) ==
    /\ pc[t] = "respond"
    /\ \E n \in Tools : loaded[n] # "absent"
    /\ LET call == [id |-> turn[t].id, name |-> name] IN
       \/ /\ loaded[name] = "free"
          /\ turn' = [turn EXCEPT ![t].call = call] /\ Goto(t, "call")
       \/ /\ loaded[name] = "confirm"
          /\ turn' = [turn EXCEPT ![t].call = call] /\ Goto(t, "ask")
       \/ /\ loaded[name] \in {"absent", "disabled"}
          /\ Say(t, "deny", "output")
    /\ UNCHANGED <<loaded, store, customers, restarts, ghosts>>

RunAllowed(t) ==
    /\ pc[t] = "call"
    /\ Execute(t)
    /\ Goto(t, "explain")
    /\ UNCHANGED <<loaded, store, customers, turn, restarts,
                   log, asked, cancelled, blocked, replies>>

(* Mutant: the reply to a free call skips the Output Rail. *)
ContinueAllowedUnchecked(t) ==
    /\ pc[t] = "explain"
    /\ Say(t, "answer", "user")
    /\ UNCHANGED <<loaded, store, customers, restarts, ghosts>>

ContinueAllowed(t) ==
    /\ pc[t] = "explain"
    /\ Say(t, "answer", "output")
    /\ UNCHANGED <<loaded, store, customers, restarts, ghosts>>

(* Mutant: the LLM's own words are returned in place of the prompt. *)
AskConfirmationInOtherWords(t) ==
    /\ pc[t] = "ask"
    /\ SetPending(turn[t].session, turn[t].call)
    /\ asked' = asked \union {<<turn[t].session, turn[t].call>>}
    /\ Say(t, "answer", "output")
    /\ UNCHANGED <<loaded, customers, restarts, log, executed, cancelled, blocked, replies>>

AskConfirmation(t) ==
    /\ pc[t] = "ask"
    /\ SetPending(turn[t].session, turn[t].call)
    /\ asked' = asked \union {<<turn[t].session, turn[t].call>>}
    /\ Say(t, "prompt", "output")
    /\ UNCHANGED <<loaded, customers, restarts, log, executed, cancelled, blocked, replies>>

OutputRailAllows(t) ==
    /\ pc[t] = "output"
    /\ turn' = IF OutputEnabled THEN [turn EXCEPT ![t].gate = "output"] ELSE turn
    /\ Goto(t, "user")
    /\ UNCHANGED <<loaded, store, customers, restarts, ghosts>>

OutputRailBlocks(t) ==
    /\ pc[t] = "output" /\ OutputEnabled
    /\ turn' = [turn EXCEPT ![t].kind = "replaced", ![t].gate = "output"]
    /\ Goto(t, "user")
    /\ UNCHANGED <<loaded, store, customers, restarts, ghosts>>

(* Mutant: the user's entry is not kept. *)
AppendUserForgets(t) ==
    /\ pc[t] = "user"
    /\ Goto(t, "assistant")
    /\ UNCHANGED <<loaded, store, customers, turn, restarts, ghosts>>

AppendUser(t) ==
    /\ pc[t] = "user"
    /\ AppendTurn(turn[t].session, "user", turn[t].id)
    /\ Goto(t, "assistant")
    /\ UNCHANGED <<loaded, customers, turn, restarts, ghosts>>

(* The last append, and handle_message returns its text. *)
AppendAssistant(t) ==
    /\ pc[t] = "assistant"
    /\ AppendTurn(turn[t].session, "assistant", turn[t].id)
    /\ replies' = replies \union {[turn |-> turn[t].id, kind |-> turn[t].kind,
                                   gate |-> turn[t].gate]}
    /\ turn' = [turn EXCEPT ![t] = NoTurn]
    /\ Goto(t, "idle")
    /\ UNCHANGED <<loaded, customers, restarts, log, asked, executed, cancelled, blocked>>

(* A Rail check, the LLM, a Tool or the store raises: nothing in              *)
(* handle_message catches it, and what was already written stays written.     *)
Raise(t) ==
    /\ pc[t] \in Faults
    /\ turn' = [turn EXCEPT ![t] = NoTurn]
    /\ Goto(t, "idle")
    /\ UNCHANGED <<loaded, store, customers, restarts, ghosts>>

-------------------------------------------------------------------------------
(* The environment                                                         *)

(* idle_ttl_seconds pass without a write to the row.  A handler lasts less   *)
(* than that, so none that has written is still running.                     *)
RowAges(s) ==
    /\ s \notin idleRows /\ (history[s] # <<>> \/ pending[s] # NoCall)
    /\ \A t \in Threads : Busy(t) => turn[t].session # s
    /\ idleRows' = idleRows \union {s}
    /\ UNCHANGED <<loaded, pending, history, writes, customers, pc, turn, restarts, ghosts>>

(* The process stops and load_conversation_runtime reads the file again. *)
Restart ==
    /\ restarts < MaxRestarts
    /\ CrashAnywhere \/ \A t \in Threads : ~Busy(t)
    /\ restarts' = restarts + 1
    /\ loaded' \in Configs
    /\ pc' = [t \in Threads |-> "idle"]
    /\ turn' = [t \in Threads |-> NoTurn]
    /\ writes' = 0
    /\ UNCHANGED <<pending, history, idleRows, customers, ghosts>>

-------------------------------------------------------------------------------
Init ==
    /\ loaded \in Configs
    /\ pending = [s \in Sessions |-> NoCall]
    /\ history = [s \in Sessions |-> <<>>]
    /\ idleRows = {} /\ writes = 0 /\ customers = {}
    /\ pc = [t \in Threads |-> "idle"]
    /\ turn = [t \in Threads |-> NoTurn]
    /\ restarts = 0
    /\ log = <<>> /\ asked = {} /\ executed = {} /\ cancelled = {}
    /\ blocked = {} /\ replies = {}

(* One step of the handler running on thread t, short of its return. *)
Work(t) ==
    \/ InputRailAllows(t) \/ InputRailBlocks(t) \/ ReadPending(t)
    \/ RunConfirmed(t) \/ ContinueConfirmed(t) \/ ClearConfirmed(t) \/ CancelPending(t)
    \/ RespondText(t) \/ \E n \in Tools : RespondCall(t, n)
    \/ RunAllowed(t) \/ ContinueAllowed(t) \/ AskConfirmation(t)
    \/ OutputRailAllows(t) \/ OutputRailBlocks(t)
    \/ AppendUser(t)

Handle(t) == Work(t) \/ AppendAssistant(t) \/ Raise(t)

Next ==
    \/ \E t \in Threads : \/ \E s \in Sessions, m \in Messages : Begin(t, s, m)
                          \/ Handle(t)
    \/ \E s \in Sessions : RowAges(s)
    \/ Restart

Spec == Init /\ [][Next]_vars

-------------------------------------------------------------------------------
(* Properties that hold however handlers overlap, fail and restart          *)

LocalsOK == \A t \in Threads : /\ Busy(t) => turn[t] \in Turns
                               /\ pc[t] \in UsesCall => turn[t].call # NoCall

(* Every variable has its type, a busy thread has locals, and it holds a call *)
(* at every step that uses one.                                               *)
TypeOK ==
    /\ loaded \in [Tools -> Modes]
    /\ pending \in [Sessions -> Calls \union {NoCall}]
    /\ history \in [Sessions -> Seq([role : Roles, turn : TurnIds])]
    /\ idleRows \subseteq Sessions /\ writes \in 0..(SweepInterval - 1)
    /\ customers \subseteq Customers
    /\ pc \in [Threads -> Steps]
    /\ turn \in [Threads -> Turns \union {NoTurn}]
    /\ LocalsOK
    /\ restarts \in 0..MaxRestarts
    /\ log \in Seq([session : Sessions, msg : Messages]) /\ Len(log) <= MaxTurns
    /\ asked \subseteq Sessions \X Calls /\ executed \subseteq Executions
    /\ cancelled \subseteq Cancellations /\ blocked \subseteq TurnIds
    /\ replies \subseteq [turn : TurnIds, kind : Kinds, gate : Gates]

(* The Tool Rail's gate (conversation.py:118-214): a tool call runs either in  *)
(* the turn that made it, under a policy that lets it run freely, or in        *)
(* another turn of the very Session it was asked in, whose message was "yes".  *)
RunsOnlyWhenAllowed ==
    \A e \in executed :
        \/ e.turn = e.call.id /\ e.mode = "free"
        \/ /\ e.turn # e.call.id
           /\ log[e.turn].msg = "yes"
           /\ <<log[e.turn].session, e.call>> \in asked

(* A message the Input Rail refused (conversation.py:99-104) makes no tool     *)
(* run, opens and cancels no request, and is answered with the refusal alone.  *)
BlockedIsInert ==
    /\ \A e \in executed : e.turn \notin blocked /\ e.call.id \notin blocked
    /\ \A a \in asked : a[2].id \notin blocked
    /\ \A c \in cancelled : c.turn \notin blocked
    /\ \A r \in replies : r.turn \in blocked <=> r.kind = "refusal"

(* "Nothing leaves unchecked" (conversation.py:91-98,112): with the Output     *)
(* Rail on, a reply passed it unless it is the Input Rail's own refusal.       *)
NothingLeavesUnchecked ==
    OutputEnabled => \A r \in replies : r.gate = "output" \/ r.turn \in blocked

-------------------------------------------------------------------------------
(* Properties of handlers of one Session that run one after the other        *)

(* "No write Tool ever fires twice" (interface_layer/service.py:4-6): a tool  *)
(* call the LLM made once is run by at most one turn.                         *)
AtMostOnce == \A e, f \in executed : e.call = f.call => e = f

CancelledCalls == {c.call : c \in cancelled}

(* "Cancelled, nothing was done" (conversation.py:40) is the truth.           *)
CancelledNeverRan == \A e \in executed : e.call \notin CancelledCalls

(* The calls a confirmation ran: those another turn asked for. *)
RanAfterAsking == {e.call : e \in {x \in executed : x.turn # x.call.id}}
AnsweredWith(call, kind) == \E r \in replies : r.turn = call.id /\ r.kind = kind

(* "A safety-critical 'are you sure?' should state exactly what's about to     *)
(* happen" (conversation.py:227-229): the Customer was shown the prompt of     *)
(* every call that a yes of theirs ran.                                        *)
ConfirmedWasShown == \A call \in RanAfterAsking : AnsweredWith(call, "prompt")

(* The turn that asked for a call a confirmation ran was answered in full, with *)
(* the call's prompt or with what the Output Rail put in its place              *)
(* (conversation.py:112, 206-223); what the Customer read need not be the call. *)
ConfirmedWasAnswered ==
    \A call \in RanAfterAsking : AnsweredWith(call, "prompt") \/ AnsweredWith(call, "replaced")

(* The history a Session keeps is whole turns in order of arrival, a user's   *)
(* entry directly before the assistant's (conversation.py:114-115).           *)
HistoryIsWholeTurns ==
    \A s \in Sessions : \A i \in 1..Len(history[s]) :
        LET h == history[s] IN
        IF i % 2 = 1
        THEN h[i].role = "user" /\ (i > 1 => h[i - 1].turn < h[i].turn)
        ELSE h[i].role = "assistant" /\ h[i].turn = h[i - 1].turn

(* A request leaves its Session only by the answer to that very request or by *)
(* the idle sweep: no newer request replaces it, no other answer clears it.   *)
RequestsAreSettled ==
    [][\A s \in Sessions :
          pending[s] # NoCall /\ pending'[s] # pending[s] =>
             /\ pending'[s] = NoCall
             /\ \/ s \in idleRows
                \/ \E t \in Threads : /\ pc[t] \in {"clear", "cancel"}
                                      /\ turn[t].session = s /\ turn[t].call = pending[s]]_vars

(* The runtime implements the abstract gate: a request stays open from         *)
(* set_pending until its "yes" or "no" takes effect.                           *)
HeldBy(t, s) == pc[t] \in {"run", "cancel"} /\ turn[t].session = s
OpenRequest ==
    [s \in Sessions |->
        IF \E t \in Threads : HeldBy(t, s)
        THEN turn[CHOOSE t \in Threads : HeldBy(t, s)].call
        ELSE IF pending[s] \in RanAfterAsking THEN NoCall ELSE pending[s]]

Gate == INSTANCE ConfirmationGate WITH
            open <- OpenRequest, ran <- RanAfterAsking,
            asked <- {a[2] : a \in asked}, cancelled <- CancelledCalls

GateSpec == Gate!Spec
===============================================================================
