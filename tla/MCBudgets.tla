----------------------------- MODULE MCBudgets ------------------------------
EXTENDS Budgets, TLC

(* No budget, a hard stop for the organization, and one with a project's. *)
MCInitial ==
  LET Hard(i, n) == [id |-> i, amount |-> n, hard |-> TRUE]
  IN  {NoBudgets, [NoBudgets EXCEPT !["org"] = Hard(1, 1)],
       [NoBudgets EXCEPT !["org"] = Hard(1, 2), !["project"] = Hard(2, 1)]}

(* No instance names a thread. *)
Symmetry == Permutations(Callers) \cup Permutations(Requests)
=============================================================================
