----------------------------- MODULE RunLedger ------------------------------
(***************************************************************************)
(* What a caller of ScanRunner may rely on, and nothing else.  A run is    *)
(* queued, runs and is over, in this order, whatever fails or restarts;    *)
(* the steps it will do cover, at every moment, the steps its callers were *)
(* told it owes; what it does is settled once it runs; and two runs of a   *)
(* project never run together.  ScanQueue implements it.                   *)
(***************************************************************************)
CONSTANTS Runs, Projects, Steps

VARIABLES
  state,    \* "none", "queued", "running" or "over"
  project,  \* whose run it is
  does,     \* the steps the run would do
  owes      \* the steps its callers were told it does

ledger == <<state, project, does, owes>>

Init == /\ state = [r \in Runs |-> "none"]
        /\ owes = [r \in Runs |-> {}]

Open(r) == state[r] = "none" /\ state'[r] = "queued"

(* Only a queued run's work changes: merges, a failed merge forgotten by a *)
(* crash, a restart's hand-over.                                           *)
Stay(r) == state'[r] = state[r] /\ (state[r] = "running" => does'[r] = does[r])

Start(r) == state[r] = "queued" /\ state'[r] = "running" /\ does'[r] = does[r]

(* Done, failed, cancelled or interrupted. *)
Finish(r) == state[r] \in {"queued", "running"} /\ state'[r] = "over"

RunStep(r) ==
  /\ Stay(r) \/ Open(r) \/ Start(r) \/ Finish(r)
  /\ state[r] # "none" => project'[r] = project[r]

Kept == \A r \in Runs :
  state[r] \in {"queued", "running"} => owes[r] \subseteq does[r]

Alone == \A r, q \in Runs :
  state[r] = "running" /\ state[q] = "running" /\ project[r] = project[q] => r = q

Next == (\A r \in Runs : RunStep(r)) /\ Kept' /\ Alone'

Spec == Init /\ [][Next]_ledger

=============================================================================
