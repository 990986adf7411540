------------------------------- MODULE MCWebhook -------------------------------
(* Small instances of Webhook for TLC. *)
EXTENDS Webhook, TLC

CONSTANTS t1, t2, s1, s2, ama, book, m1, m2

OneCustomer == [s \in Sessions |-> ama]
OnlyWrite == {book :> "confirm"}
(* The owner may have made the Tool free to run, bound it to a yes, or disabled it. *)
Changing == {book :> m : m \in {"confirm", "free", "disabled"}}
(* The first process has the Tool bound to a yes; a restart, which may come    *)
(* first of all, loads any policy.                                            *)
BoundInit == WebInit /\ loaded \in OnlyWrite
BoundAtFirst == BoundInit /\ [][WebNext]_webVars
Anywhere == Steps \ {"idle"}

Symmetry == Permutations(Threads) \union Permutations(Sessions) \union Permutations(Ids)
===============================================================================
