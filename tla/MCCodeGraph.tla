---------------------------- MODULE MCCodeGraph -----------------------------
EXTENDS CodeGraph, TLC

(* No instance names a call. *)
Symmetry == Permutations(Calls)
=============================================================================
