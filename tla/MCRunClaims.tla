---------------------------- MODULE MCRunClaims ----------------------------
(* Small instances of RunClaims: an old project and one that is imported   *)
(* into the same org.                                                      *)
EXTENDS RunClaims

CONSTANTS p1, p2, acme

OneOrg == [p \in Projects |-> acme]
=============================================================================
