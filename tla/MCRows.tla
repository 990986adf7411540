------------------------------- MODULE MCRows -------------------------------
(* Small instances of Rows for TLC. *)
EXTENDS Rows, TLC

CONSTANTS t1, t2

Symmetry == Permutations(Threads)
===============================================================================
