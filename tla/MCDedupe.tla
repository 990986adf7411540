------------------------------- MODULE MCDedupe -------------------------------
(* Small instances of Dedupe for TLC. *)
EXTENDS Dedupe, TLC
Symmetry == Permutations(Threads) \union Permutations(Ids)
===============================================================================
