-------------------------- MODULE ScanPolicyProofs --------------------------
(***************************************************************************)
(* What the requests, pending jobs and queued rows of a project have in    *)
(* common, and what follows from it: merging two of them loses no work,    *)
(* and a queued row is a lossless copy.                                    *)
(***************************************************************************)
EXTENDS ScanPolicy, TLAPS

(* What the mode's sources allow: only a GitHub project syncs and is       *)
(* never hooked; analysis comes with an explicit trigger; what the row's   *)
(* reader infers about the scan flag is already true.                      *)
Coherent(job, s) ==
  /\ job \in Job
  /\ job.analyze => job.trigger \in Explicit /\ job.by \in Users
  /\ ~job.analyze => job.est = NoEstimate
  /\ s = "github" => job.trigger # "hook" /\ job.kind = "sync"
  /\ s # "github" => job.trigger # "forge" /\ job.kind = "scan"
  /\ job.kind = "scan" => job.scan
  /\ job.trigger \in {"manual", "describe", "hook"} => job.scan

-----------------------------------------------------------------------------

(* Whatever a project may be asked, granted or forced to a first run, is coherent. *)
LEMMA GrantedCoherent ==
  ASSUME NEW s \in Sources, NEW r \in Requests(s), NEW ok \in BOOLEAN
  PROVE  Coherent(Granted(r, ok), s)
BY DEF Coherent, Granted, Requests, ByPeople, ByHooks, ByGitHub, Job, Triggers,
       Explicit, Sources, ResolveAnalyze

(* Merging keeps coherence. *)
LEMMA MergeCoherent ==
  ASSUME NEW s \in Sources, NEW a, NEW b, Coherent(a, s), Coherent(b, s)
  PROVE  Coherent(MergeJobs(a, b), s)
<1>1. MergeTrigger(a.trigger, b.trigger) \in {a.trigger, b.trigger}
  BY DEF MergeTrigger
<1>2. a.trigger \in Explicit \/ b.trigger \in Explicit
        => MergeTrigger(a.trigger, b.trigger) \in Explicit
  BY DEF MergeTrigger, Rank, Explicit, Coherent, Job, Triggers
<1>3. MergeJobs(a, b) \in Job
  BY <1>1 DEF MergeJobs, Coherent, Job
<1> QED
  BY <1>1, <1>2, <1>3 DEF Coherent, MergeJobs, Job

(* Merging loses no work of either side. *)
LEMMA MergeKeepsWork ==
  ASSUME NEW s \in Sources, NEW a, NEW b, Coherent(a, s), Coherent(b, s),
         NEW moved \in BOOLEAN
  PROVE  /\ Work(a, s, moved) \subseteq Work(MergeJobs(a, b), s, moved)
         /\ Work(b, s, moved) \subseteq Work(MergeJobs(a, b), s, moved)
<1> DEFINE m == MergeJobs(a, b)
<1>1. /\ m.kind = IF b.kind = "sync" THEN "sync" ELSE a.kind
      /\ m.trigger = MergeTrigger(a.trigger, b.trigger)
      /\ m.analyze = (a.analyze \/ b.analyze)
      /\ m.scan = (a.scan \/ b.scan)
  BY DEF MergeJobs
<1>2. /\ a.kind = "sync" \/ b.kind = "sync" => m.kind = "sync"
      /\ a.scan \/ b.scan => m.scan
  BY <1>1 DEF Coherent, Job
<1>3. /\ a.kind = "scan" => m.kind = "scan"
      /\ b.kind = "scan" => m.kind = "scan"
  BY <1>1 DEF Coherent, Job, Sources
<1>4. ASSUME NEW x \in {a, b}
      PROVE  ChildSteps(x.trigger, x.analyze, s)
               \subseteq ChildSteps(m.trigger, m.analyze, s)
  BY <1>1, <1>4 DEF ChildSteps, MergeTrigger, Rank, Explicit, Coherent, Job, Triggers,
     Sources, Structural, Remote
<1> QED
  BY <1>2, <1>3, <1>4 DEF Work, Coherent, Job

(* The queued row is a lossless copy of the pending job. *)
LEMMA RowLossless ==
  ASSUME NEW s \in Sources, NEW a, Coherent(a, s)
  PROVE  Recovered(Row(a)) = a
BY DEF Coherent, Recovered, Row, Job

=============================================================================
