------------------------------- MODULE Mutex --------------------------------
(***************************************************************************)
(* What a lock promises: one of its users is inside at a time, somebody    *)
(* else comes in only after it has left, and it does leave.                *)
(***************************************************************************)
CONSTANT Users
VARIABLE inside  \* the users who hold the lock

Init == inside = {}
Enter(u) == inside = {} /\ inside' = {u}
Leave == inside # {} /\ inside' = {}
Next == Leave \/ \E u \in Users : Enter(u)

Spec == Init /\ [][Next]_inside /\ WF_inside(Leave)

=============================================================================
