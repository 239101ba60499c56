----------------------------- MODULE ScanPolicy -----------------------------
(***************************************************************************)
(* The pure decisions of the scan runner: what a request asks for, what a  *)
(* run of given trigger does, and how two requests become one run.  Every  *)
(* operator is a translation of a function of src/whygraph/portal/runner.py*)
(* (and of the scan child it starts).                                      *)
(*                                                                         *)
(* A request, a pending job and a queued row all carry the same fields:    *)
(*    kind     "scan", or "sync" (fetch first, then perhaps scan)          *)
(*    trigger  who asked (TriggerPrecedence, lowest first)                 *)
(*    analyze  whether commits are described by the LLM                    *)
(*    by       the requesting user, or NoUser                              *)
(*    scan     scan_requested: scan even when HEAD did not move            *)
(*    est      the describe estimate the requester saw, or NoEstimate      *)
(***************************************************************************)
EXTENDS Integers, RunOutcome

CONSTANTS Users, NoUser,         \* users.id, and None
          Estimates, NoEstimate  \* compact describe estimates, and None

ASSUME NullAssumption == NoUser \notin Users /\ NoEstimate \notin Estimates

Triggers == {"forge", "hook", "poll", "reconcile", "push", "sync", "initial",
             "manual", "describe"}

Explicit == {"manual", "describe"}

Sources == {"local", "platform", "github"}

(* The rank of a trigger: the merged run records the highest one. *)
Rank == [forge |-> 0, hook |-> 1, poll |-> 2, reconcile |-> 3, push |-> 4,
         sync |-> 5, initial |-> 6, manual |-> 7, describe |-> 8]

(* Mutant: the lowest trigger wins. *)
MergeTriggerLowest(a, b) == IF Rank[a] >= Rank[b] THEN b ELSE a

MergeTrigger(a, b) == IF Rank[a] >= Rank[b] THEN a ELSE b

Job == [kind: {"scan", "sync"}, trigger: Triggers, analyze: BOOLEAN,
        by: Users \cup {NoUser}, scan: BOOLEAN,
        est: Estimates \cup {NoEstimate}]

(***************************************************************************)
(* Requests                                                                *)
(***************************************************************************)

(* Only "manual" (unless analyze was declined) and "describe" spend; a     *)
(* linked project is described on the platform, never here.                *)
ResolveAnalyze(trigger, declined, source) ==
  /\ source # "platform"
  /\ \/ trigger = "describe"
     \/ trigger = "manual" /\ ~declined

(* Mutant: a first run may describe. *)
GrantedAsAsked(req, hasOkScan) ==
  [req EXCEPT !.trigger = IF hasOkScan THEN req.trigger ELSE "initial"]

(* A project with no completed scan gets a structure-only first run. *)
Granted(req, hasOkScan) ==
  LET analyze == hasOkScan /\ req.analyze
  IN  [req EXCEPT !.trigger = IF hasOkScan THEN req.trigger ELSE "initial",
                  !.analyze = analyze,
                  !.est = IF analyze THEN req.est ELSE NoEstimate]

(***************************************************************************)
(* What may be requested of a project, as _request hands it to             *)
(* _request_claimed.                                                       *)
(***************************************************************************)
ByPeople(s) ==
  {r \in Job :
     /\ r.trigger \in Explicit /\ r.by \in Users /\ r.scan
     /\ s = "platform" => r.trigger = "manual"
     /\ \E declined \in BOOLEAN :
          r.analyze = ResolveAnalyze(r.trigger, declined, s)
     /\ r.kind = (IF s = "github" THEN "sync" ELSE "scan")
     /\ ~r.analyze => r.est = NoEstimate}

ByHooks ==
  {r \in Job : /\ r.trigger = "hook" /\ r.kind = "scan" /\ r.scan
               /\ ~r.analyze /\ r.by = NoUser /\ r.est = NoEstimate}

ByGitHub ==
  {r \in Job : /\ r.kind = "sync" /\ ~r.analyze /\ r.est = NoEstimate
               /\ \/ /\ r.trigger \in {"push", "reconcile", "sync"}
                     /\ r.by = NoUser
                  \/ r.trigger = "forge" /\ r.by = NoUser /\ r.scan
                  \/ r.trigger = "initial" /\ r.by \in Users /\ r.scan}

Requests(s) == ByPeople(s) \cup (IF s = "github" THEN ByGitHub ELSE ByHooks)

(***************************************************************************)
(* What a run does: the crawlers its child starts, and a sync's fetch.     *)
(***************************************************************************)
Structural == {"tags", "commits", "authors", "codegraph"}
Remote == {"forge", "prOrigins"}
Steps == Structural \cup Remote \cup {"fetch", "describe"}

ChildSteps(trigger, analyze, source) ==
  IF source = "platform" THEN {"codegraph"}
  ELSE IF trigger = "forge" THEN {"forge", "tags"}
  ELSE IF trigger = "hook" THEN Structural
  ELSE Structural \cup Remote
         \cup (IF trigger \in Explicit /\ analyze THEN {"describe"} ELSE {})

(* moved: HEAD differs from last_scanned_head once the sync is done. *)
Work(job, source, moved) ==
  (IF job.kind = "sync" THEN {"fetch"} ELSE {})
    \cup (IF job.kind = "scan" \/ job.scan \/ moved
          THEN ChildSteps(job.trigger, job.analyze, source) ELSE {})

(***************************************************************************)
(* _Pending.merge: the union of work, one estimate per run, and            *)
(* attribution that follows the spend.                                     *)
(***************************************************************************)
(* Mutant: the last request decides about the analysis. *)
MergeJobsLastWins(job, req) ==
  [kind    |-> IF req.kind = "sync" THEN "sync" ELSE job.kind,
   trigger |-> MergeTrigger(job.trigger, req.trigger),
   analyze |-> req.analyze,
   by      |-> IF job.by = NoUser THEN req.by ELSE job.by,
   scan    |-> job.scan \/ req.scan,
   est     |-> IF req.analyze THEN req.est ELSE job.est]

(* Mutant: the first person keeps the run, whoever asks for the analysis. *)
MergeJobsFirstPerson(job, req) ==
  [kind    |-> IF req.kind = "sync" THEN "sync" ELSE job.kind,
   trigger |-> MergeTrigger(job.trigger, req.trigger),
   analyze |-> job.analyze \/ req.analyze,
   by      |-> IF job.by = NoUser THEN req.by ELSE job.by,
   scan    |-> job.scan \/ req.scan,
   est     |-> IF req.analyze THEN req.est ELSE job.est]

MergeJobs(job, req) ==
  [kind    |-> IF req.kind = "sync" THEN "sync" ELSE job.kind,
   trigger |-> MergeTrigger(job.trigger, req.trigger),
   analyze |-> job.analyze \/ req.analyze,
   by      |-> IF req.analyze /\ ~job.analyze /\ req.by # NoUser THEN req.by
               ELSE IF job.by = NoUser THEN req.by ELSE job.by,
   scan    |-> job.scan \/ req.scan,
   est     |-> IF req.analyze /\ (~job.analyze \/ job.est = NoEstimate)
               THEN req.est ELSE job.est]

(***************************************************************************)
(* The queued row: _insert_run / _update_queued write it, _recover_queued  *)
(* reads it.  kind, trigger, analyze and requested_by are columns; the     *)
(* scan flag and the estimate are keys of the JSON summary, left out when  *)
(* they carry nothing.                                                     *)
(***************************************************************************)
Row(job) ==
  [kind |-> job.kind, trigger |-> job.trigger, analyze |-> job.analyze,
   by |-> job.by,
   summary |-> [scanFlag |-> job.kind = "sync" /\ job.scan, est |-> job.est]]

Recovered(row) ==
  [kind |-> row.kind, trigger |-> row.trigger, analyze |-> row.analyze,
   by |-> row.by,
   scan |-> \/ row.summary.scanFlag
            \/ row.kind = "scan"
            \/ row.trigger \in {"manual", "describe", "hook"},
   est |-> IF row.analyze THEN row.summary.est ELSE NoEstimate]

=============================================================================
