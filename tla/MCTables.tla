------------------------------- MODULE MCTables -------------------------------
(* Small instances of Tables for TLC. *)
EXTENDS Tables, TLC

CONSTANTS t1, t2

Symmetry == Permutations(Threads)

(* Bound: once the process has been restarted, requests come one at a time.   *)
AloneAfterACrash == crashes' = 0 \/ \A t, u \in Threads : Busy(t)' /\ Busy(u)' => t = u
BoundedSpec == Init /\ [][Next /\ AloneAfterACrash]_vars
===============================================================================
