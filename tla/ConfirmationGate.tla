--------------------------- MODULE ConfirmationGate ---------------------------
(***************************************************************************)
(* What the Tool Rail and its Confirmation Requests promise a Customer, in *)
(* the abstract: each Session has at most one open request; the call it    *)
(* stands for runs at most once, and only while it is open; a request that *)
(* was answered "cancelled, nothing was done" never ran and never will.    *)
(***************************************************************************)
CONSTANTS
    Sessions,   \* the Sessions of one Business
    Calls,      \* the Tool calls the Agent Core may ask confirmation for
    NoCall      \* no open request

VARIABLES
    open,       \* the request each Session is waiting on
    asked,      \* every call a request was ever opened for
    ran,        \* calls that have run after a confirmation
    cancelled   \* calls the Customer was told were cancelled

vars == <<open, asked, ran, cancelled>>

Init == /\ open = [s \in Sessions |-> NoCall]
        /\ asked = {} /\ ran = {} /\ cancelled = {}

(* Session s comes to hold v; the idle sweep of the same write may forget     *)
(* other Sessions, and with each the request it was waiting on.               *)
Settle(s, v) ==
    \E S \in SUBSET (Sessions \ {s}) :
        open' = [x \in Sessions |-> IF x = s THEN v ELSE IF x \in S THEN NoCall ELSE open[x]]

(* A new request opens only where none is open: it replaces nothing. *)
Ask(s) == \E c \in Calls \ asked :
             /\ asked' = asked \union {c}
             /\ open[s] = NoCall /\ Settle(s, c)
             /\ UNCHANGED <<ran, cancelled>>

Run(s) == /\ UNCHANGED <<asked, cancelled>>
          /\ open[s] # NoCall
          /\ ran' = ran \union {open[s]}
          /\ open' = [open EXCEPT ![s] = NoCall]

Cancel(s) == /\ UNCHANGED <<asked, ran>>
             /\ open[s] # NoCall
             /\ cancelled' = cancelled \union {open[s]}
             /\ Settle(s, NoCall)

Expire(s) == /\ UNCHANGED <<asked, ran, cancelled>>
             /\ Settle(s, NoCall)

Next == \E s \in Sessions : Ask(s) \/ Run(s) \/ Cancel(s) \/ Expire(s)

Spec == Init /\ [][Next]_vars

(* Nothing the Customer was told is cancelled has run. *)
HonestCancellation == ran \intersect cancelled = {}
===============================================================================
