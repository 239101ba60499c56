---------------------------- MODULE MCRunMerge ----------------------------
(* Two users, two estimates and runs of up to three requests: every order  *)
(* of a quick, a describing and an automatic request, with a restart       *)
(* between any two of them.                                                *)
EXTENDS RunMerge, TLC

People == Permutations(Users)
=============================================================================
