---------------------------- MODULE MCConversation ----------------------------
(* Small instances of Conversation and Transcript for TLC. *)
EXTENDS Transcript, TLC

CONSTANTS t1, t2, s1, s2, ama, book

(* Two Sessions of one Customer would differ in their frontend only. *)
OneCustomer == [s \in Sessions |-> ama]

OnlyWrite == {book :> "confirm"}
(* The owner may have made the Tool free to run, or bound it to a yes. *)
Changing == {book :> m : m \in {"confirm", "free"}}

(* The first process has the Tool bound to a yes; a restart, which may come    *)
(* first of all, loads either policy.                                         *)
BoundInit == Init /\ loaded \in OnlyWrite
BoundAtFirst == BoundInit /\ [][Next]_vars

(* What may raise in a turn before it has changed anything: the LLM's first  *)
(* answer and the Tool calls, and the store before a request is kept or       *)
(* cancelled.                                                                 *)
BeforeEffects == {"run", "cancel", "respond", "ask", "call"}

Symmetry == Permutations(Threads) \union Permutations(Sessions)
===============================================================================
