----------------------------- MODULE GitHubSync -----------------------------
(***************************************************************************)
(* How one GitHub project of a production portal follows its repository:   *)
(* the webhook's deliveries (portal/webhook.py), the sync runs they queue  *)
(* and the reconcile pass under them (portal/runner.py), and the mark that *)
(* says access was lost.  The queue itself is ScanQueue's: here a project  *)
(* has at most one pending run and one job.                                *)
(*                                                                         *)
(* Deliveries may be lost (nothing makes them arrive), reordered and sent  *)
(* again; GitHub's answers, the marks made from them and the database      *)
(* reads they rest on are steps of their own.                              *)
(***************************************************************************)
EXTENDS Naturals, Sequences, SequencesExt

CONSTANTS
  Commits,        \* what the default branch may be at
  First,          \* the commit scanned before the model begins
  Tracking,       \* commits that track WhyGraph's own state
  DeliveryIdsMax, \* DELIVERY_IDS_MAX
  MaxEvents,      \* bound: what happens on GitHub
  MaxFaults       \* bound: restarts, failures, cancels, redeliveries

ASSUME GitHubAssumption ==
  /\ Tracking \subseteq Commits /\ First \in Commits \ Tracking
  /\ DeliveryIdsMax \in Nat \ {0} /\ MaxEvents \in Nat /\ MaxFaults \in Nat

VARIABLES
  github,   \* the repository: its head, whether it exists, the installation
            \* that covers it and whether that one works
  sent,     \* deliveries on their way
  seen,     \* webhook_deliveries, oldest first
  work,     \* accepted deliveries whose background task has not ended
  project,  \* its row: installation, access-loss reason, last_scanned_head
  stored,   \* ghost: the commit the last full scan read
  pending,  \* the queued run
  job,      \* the running one
  pass,     \* the reconcile pass
  events, faults \* how many there were

syncVars == <<github, sent, seen, work, project, stored, pending, job, pass,
          events, faults>>

Installations == 1..MaxEvents + 1

NoRun == [trigger |-> "none", scan |-> FALSE]
NoJob == [at |-> "idle", trigger |-> "none", scan |-> FALSE, inst |-> 1,
          last |-> First, answer |-> "none", head |-> First]
Asleep == [at |-> "sleep", lost |-> FALSE, inst |-> 1, last |-> First,
           answer |-> "none"]

SyncInit ==
  /\ github = [head |-> First, exists |-> TRUE, inst |-> 1, works |-> TRUE]
  /\ sent = {} /\ seen = <<>> /\ work = {}
  /\ project = [inst |-> 1, lost |-> "no", scanned |-> First]
  /\ stored = First
  /\ pending = NoRun /\ job = NoJob /\ pass = Asleep
  /\ events = 0 /\ faults = 0

Fault == faults < MaxFaults /\ faults' = faults + 1

-----------------------------------------------------------------------------
(* GitHub *)

Happens(kind) ==
  /\ events < MaxEvents /\ events' = events + 1
  /\ sent' = IF kind = "restored" THEN sent
             ELSE sent \cup {[id |-> events, kind |-> kind, inst |-> github'.inst]}
  /\ UNCHANGED <<seen, work, project, stored, pending, job, pass, faults>>

(* Any other commit: a branch may also be forced back. *)
Push == /\ github.exists
        /\ \E c \in Commits \ {github.head} : github' = [github EXCEPT !.head = c]
        /\ Happens("push")

(* A pull request, a review, an issue, a milestone, a tag. *)
ForgeChange == /\ github.exists
               /\ UNCHANGED github
               /\ Happens("forge")

(* The app is uninstalled or suspended, or loses this repository. *)
Uninstall == /\ github.works
             /\ github' = [github EXCEPT !.works = FALSE]
             /\ Happens("gone")

Unsuspend == /\ ~github.works
             /\ github' = [github EXCEPT !.works = TRUE]
             /\ Happens("unsuspend")

(* A re-install gets a new id. *)
Reinstall == /\ ~github.works
             /\ github' = [github EXCEPT !.works = TRUE, !.inst = @ + 1]
             /\ Happens("created")

Delete == /\ github.exists
          /\ github' = [github EXCEPT !.exists = FALSE]
          /\ Happens("deleted")

(* Nothing is delivered for it. *)
Undelete == /\ ~github.exists
            /\ github' = [github EXCEPT !.exists = TRUE]
            /\ Happens("restored")

Covers(inst) == github.exists /\ github.works /\ github.inst = inst

Mint(inst) == IF Covers(inst) THEN "granted" ELSE "refused"

-----------------------------------------------------------------------------
(* The access-loss mark: _mark_access_lost, _clear_access_lost *)

Lost(reason) == reason \notin {"no", "tracked_state"}

(* A refused mint is what a deleted repository looks like. *)
Mark(reason) ==
  project' = [project EXCEPT !.lost =
                IF @ = "repo_deleted" /\ reason = "no_access" THEN @ ELSE reason]

ClearKeepingTracked ==
  project' = [project EXCEPT !.lost = IF @ = "tracked_state" THEN @ ELSE "no"]

(* Mutant: a granted token leaves the mark to the next sync. *)
NoteMintMarksOnly(answer) ==
  CASE answer = "granted" -> UNCHANGED project
    [] answer = "refused" -> Mark("no_access")
    [] answer = "down" -> UNCHANGED project

(* _mint, once GitHub has answered. *)
NoteMint(answer) ==
  CASE answer = "granted" -> ClearKeepingTracked
    [] answer = "refused" -> Mark("no_access")
    [] answer = "down" -> UNCHANGED project

(* request_sync, coalesced as ScanPolicy says: a push outranks a forge run, *)
(* which always scans.                                                      *)
Merge(trigger) ==
  [trigger |-> IF pending.trigger = "push" THEN "push" ELSE trigger,
   scan |-> pending.scan \/ trigger = "forge"]

RequestSync(trigger) ==
  pending' = IF Lost(project.lost) THEN pending ELSE Merge(trigger)

-----------------------------------------------------------------------------
(* The webhook *)

(* DeliveryIds.add: the oldest id is dropped. *)
Remember(id) ==
  seen' = LET all == Append(seen, id)
          IN  IF Len(all) > DeliveryIdsMax THEN Tail(all) ELSE all

(* github_webhook: the id is remembered, the work goes to the background.  *)
(* GitHub may send it again.                                               *)
Receive(d) ==
  /\ \/ sent' = sent \ {d} /\ UNCHANGED faults
     \/ Fault /\ UNCHANGED sent
  /\ IF d.id \in Range(seen) THEN UNCHANGED <<seen, work>>
     ELSE /\ Remember(d.id)
          /\ work' = work \cup {[delivery |-> d, picked |-> FALSE]}
  /\ UNCHANGED <<github, project, stored, pending, job, pass, events>>

Rest == <<github, sent, seen, stored, job, pass, events>>

(* A handler keeps what its first step picked, whatever happens meanwhile. *)
Pick(w) == work' = (work \ {w}) \cup {[w EXCEPT !.picked = TRUE]}
Done(w) == work' = work \ {w}

(* _on_push, _on_forge: a project being removed, say, refuses the request. *)
HandleWork(w) ==
  /\ w.delivery.kind \in {"push", "forge"}
  /\ \/ RequestSync(w.delivery.kind) /\ UNCHANGED faults
     \/ Fault /\ UNCHANGED pending
  /\ Done(w)
  /\ UNCHANGED <<Rest, project>>

(* _on_installation, _on_installation_repositories: the projects are read, *)
(* then marked one by one.                                                 *)
HandleGone(w) ==
  /\ w.delivery.kind = "gone"
  /\ \/ ~w.picked /\ project.inst = w.delivery.inst /\ Pick(w) /\ UNCHANGED project
     \/ ~w.picked /\ project.inst # w.delivery.inst /\ Done(w) /\ UNCHANGED project
     \/ w.picked /\ Mark("no_access") /\ Done(w)
  /\ UNCHANGED <<Rest, pending, faults>>

Adopt(inst) == project' = [project EXCEPT !.inst = inst]

Restorable == {"no_access", "git_denied"}

HandleBack(w) ==
  /\ w.delivery.kind \in {"created", "unsuspend"}
  /\ \/ /\ ~w.picked
        /\ IF w.delivery.kind = "created" THEN Adopt(w.delivery.inst)
           ELSE UNCHANGED project
        /\ IF project'.lost \in Restorable /\ project'.inst = w.delivery.inst
           THEN Pick(w) ELSE Done(w)
     \/ w.picked /\ ClearKeepingTracked /\ Done(w)
  /\ UNCHANGED <<Rest, pending, faults>>

HandleDeleted(w) ==
  /\ w.delivery.kind = "deleted"
  /\ Mark("repo_deleted") /\ Done(w)
  /\ UNCHANGED <<Rest, pending, faults>>

-----------------------------------------------------------------------------
(* A sync run: _execute_inner, _github_sync *)

JobRest == <<github, sent, seen, work, pass, events>>

Step(at, answer) == job' = [job EXCEPT !.at = at, !.answer = answer]

StartJob ==
  /\ pending # NoRun /\ job = NoJob
  /\ pending' = NoRun
  /\ job' = IF Lost(project.lost) THEN NoJob
            ELSE [NoJob EXCEPT !.at = "mint", !.trigger = pending.trigger,
                               !.scan = pending.scan, !.inst = project.inst,
                               !.last = project.scanned]
  /\ UNCHANGED <<JobRest, project, stored, faults>>

JobMints ==
  /\ job.at = "mint"
  /\ Step("minted", Mint(job.inst))
  /\ UNCHANGED <<JobRest, project, stored, pending, faults>>

JobMinted ==
  /\ job.at = "minted"
  /\ NoteMint(job.answer)
  /\ IF job.answer = "granted" THEN Step("fetch", "none") ELSE job' = NoJob
  /\ UNCHANGED <<JobRest, stored, pending, faults>>

(* The repository is asked for and fetched with the token. *)
JobFetches ==
  /\ job.at = "fetch"
  /\ IF Covers(job.inst)
     THEN job' = [job EXCEPT !.at = "fetched", !.head = github.head]
     ELSE \E reason \in {"no_access", "git_denied"} : Step("denied", reason)
  /\ UNCHANGED <<JobRest, project, stored, pending, faults>>

JobDenied ==
  /\ job.at = "denied"
  /\ Mark(job.answer)
  /\ job' = NoJob
  /\ UNCHANGED <<JobRest, stored, pending, faults>>

(* Mutant: every sync scans. *)
AlwaysScans == TRUE

(* Not when the commit was scanned and nobody asked for more. *)
NeedsScan == job.scan \/ job.head # job.last

(* The tree moves to the fetched commit, unless it tracks WhyGraph's state. *)
JobChecksOut ==
  /\ job.at = "fetched"
  /\ IF job.head \in Tracking THEN Mark("tracked_state") /\ job' = NoJob
     ELSE /\ project' = [project EXCEPT !.lost = "no"]
          /\ IF NeedsScan THEN Step("scan", "none") ELSE job' = NoJob
  /\ UNCHANGED <<JobRest, stored, pending, faults>>

(* A forge run scanned neither the commits nor the code index. *)
RecordsHead(trigger) == trigger # "forge"

(* _finish_run *)
JobScanned ==
  /\ job.at = "scan"
  /\ project' = IF RecordsHead(job.trigger)
                THEN [project EXCEPT !.scanned = job.head] ELSE project
  /\ stored' = IF job.trigger = "forge" THEN stored ELSE job.head
  /\ job' = NoJob
  /\ UNCHANGED <<JobRest, pending, faults>>

(* GitHub or git does not answer, a user cancels, the scan fails. *)
JobFails ==
  /\ job # NoJob /\ Fault
  /\ job' = NoJob
  /\ UNCHANGED <<JobRest, project, stored, pending>>

-----------------------------------------------------------------------------
(* reconcile, check_access, _remote_head *)

PassRest == <<github, sent, seen, work, stored, job, events>>

GoTo(at, answer) == pass' = [pass EXCEPT !.at = at, !.answer = answer]

(* _reconcile_targets: the rows are read once for the whole pass. *)
PassReads ==
  /\ pass.at = "sleep"
  /\ pass' = [Asleep EXCEPT !.at = "check", !.lost = Lost(project.lost),
                            !.inst = project.inst, !.last = project.scanned]
  /\ UNCHANGED <<PassRest, project, pending, faults>>

(* check_access reads the row again. *)
PassChecks ==
  /\ pass.at = "check"
  /\ IF pending # NoRun \/ job # NoJob THEN pass' = Asleep
     ELSE pass' = [pass EXCEPT !.at = "mint",
                               !.inst = IF pass.lost THEN project.inst ELSE @]
  /\ UNCHANGED <<PassRest, project, pending, faults>>

(* Mutant: a cached token is good enough. *)
PassMintsCached ==
  /\ pass.at = "mint"
  /\ GoTo("minted", "granted")
  /\ UNCHANGED <<PassRest, project, pending, faults>>

(* Forced: a cached token outlives an uninstall. *)
PassMints ==
  /\ pass.at = "mint"
  /\ \/ GoTo("minted", Mint(pass.inst)) /\ UNCHANGED faults
     \/ Fault /\ GoTo("minted", "down")
  /\ UNCHANGED <<PassRest, project, pending>>

PassMinted ==
  /\ pass.at = "minted"
  /\ NoteMint(pass.answer)
  /\ IF pass.answer = "granted" /\ ~pass.lost THEN GoTo("list", "none")
     ELSE pass' = Asleep
  /\ UNCHANGED <<PassRest, pending, faults>>

(* git ls-remote, compared with what the pass read at its start. *)
PassLists ==
  /\ pass.at = "list"
  /\ IF Covers(pass.inst) /\ github.head # pass.last THEN GoTo("ask", "none")
     ELSE pass' = Asleep
  /\ UNCHANGED <<PassRest, project, pending, faults>>

PassAsks ==
  /\ pass.at = "ask"
  /\ RequestSync("push")
  /\ pass' = Asleep
  /\ UNCHANGED <<PassRest, project, faults>>

-----------------------------------------------------------------------------

(* A stop, or a crash: the queued run is queued again at the start (ScanQueue). *)
Restart ==
  /\ Fault
  /\ seen' = <<>> /\ work' = {}
  /\ job' = NoJob /\ pass' = Asleep
  /\ UNCHANGED <<github, sent, project, stored, pending, events>>

Sync == StartJob \/ JobMints \/ JobMinted \/ JobFetches \/ JobDenied
        \/ JobChecksOut \/ JobScanned

Reconcile == PassReads \/ PassChecks \/ PassMints \/ PassMinted \/ PassLists
             \/ PassAsks

SyncNext ==
  \/ Push \/ ForgeChange \/ Uninstall \/ Unsuspend \/ Reinstall \/ Delete \/ Undelete
  \/ \E d \in sent : Receive(d)
  \/ \E w \in work : HandleWork(w) \/ HandleGone(w) \/ HandleBack(w) \/ HandleDeleted(w)
  \/ Sync \/ JobFails
  \/ Reconcile
  \/ Restart

SyncSpec == SyncInit /\ [][SyncNext]_syncVars

(* A run that can go on goes on; the pass comes again and again. *)
SyncFairSpec == SyncSpec /\ WF_syncVars(Sync) /\ WF_syncVars(Reconcile)

-----------------------------------------------------------------------------

SyncTypeOK ==
  LET Reasons == {"no", "no_access", "git_denied", "repo_deleted", "tracked_state"}
      Kinds == {"push", "forge", "gone", "created", "unsuspend", "deleted"}
      Deliveries == [id : 0..MaxEvents - 1, kind : Kinds, inst : Installations]
  IN  /\ github \in [head : Commits, exists : BOOLEAN, inst : Installations,
                     works : BOOLEAN]
      /\ sent \subseteq Deliveries
      /\ Range(seen) \subseteq 0..MaxEvents - 1 /\ Len(seen) <= DeliveryIdsMax
      /\ work \subseteq [delivery : Deliveries, picked : BOOLEAN]
      /\ project \in [inst : Installations, lost : Reasons, scanned : Commits]
      /\ stored \in Commits
      /\ pending \in [trigger : {"none", "push", "forge"}, scan : BOOLEAN]
      /\ job \in [at : {"idle", "mint", "minted", "fetch", "fetched", "denied", "scan"},
                  trigger : {"none", "push", "forge"}, scan : BOOLEAN,
                  inst : Installations, last : Commits, head : Commits,
                  answer : {"none", "granted", "refused"} \cup Reasons]
      /\ pass \in [at : {"sleep", "check", "mint", "minted", "list", "ask"},
                   lost : BOOLEAN, inst : Installations, last : Commits,
                   answer : {"none", "granted", "refused", "down"}]
      /\ events \in 0..MaxEvents /\ faults \in 0..MaxFaults

(***************************************************************************)
(* Whatever is lost, late, repeated or interrupted: a repository that      *)
(* stays reachable ends up scanned at its head, not marked as lost, and    *)
(* stays so (webhook and reconcile together).  The tracked_state mark may  *)
(* stay: a branch forced back to the scanned commit moves no head for the  *)
(* reconcile, and its delivery may be lost.                                *)
(***************************************************************************)
Reachable == Covers(project.inst) /\ github.head \notin Tracking

CatchesUp == <>[]Reachable => <>[](stored = github.head /\ ~Lost(project.lost))

(***************************************************************************)
(* A repository the app cannot reach any more ends up marked, also when    *)
(* no delivery said so and a cached token still works.                     *)
(***************************************************************************)
LossIsNoticed == <>[]~Covers(project.inst) => <>[]Lost(project.lost)

(***************************************************************************)
(* Every variable keeps its type, and deliveries that come again or late,  *)
(* and passes that act on old rows, scan nothing twice: a scan reads a     *)
(* commit not scanned yet, or was asked for by a change of the forge data. *)
(***************************************************************************)
NothingScannedTwice ==
  /\ []SyncTypeOK
  /\ [][job.at # "scan" /\ job'.at = "scan" => job'.scan \/ job'.head # stored]_syncVars

=============================================================================
