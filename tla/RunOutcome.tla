----------------------------- MODULE RunOutcome -----------------------------
(***************************************************************************)
(* How a job's end is recorded (ScanRunner._execute), from how its thread  *)
(* ended and from the job's flags.                                         *)
(***************************************************************************)

Final == {"ok", "failed", "interrupted", "cancelled"}

Outcome(inner, cancelled, interrupted) ==
  IF cancelled /\ inner # "ok" THEN "cancelled"
  ELSE IF interrupted /\ inner # "cancelled" THEN "interrupted"
  ELSE inner

=============================================================================
