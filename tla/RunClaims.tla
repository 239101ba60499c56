------------------------------ MODULE RunClaims ------------------------------
(***************************************************************************)
(* What keeps a run, or other work on a project, apart from the project's  *)
(* removal and its org's deletion: the claims of ScanRunner                *)
(* (_claim_request, _claim_org, claim_project), reserve_removal and        *)
(* reserve_projects, with their callers, the routes delete_project and     *)
(* delete_org, the import that adds a project, a purpose generation and a  *)
(* transfer.                                                               *)
(*                                                                         *)
(* The claims are guarded by a thread lock, so each of its blocks is one   *)
(* step; between two of them, and at every await or transaction, the       *)
(* others go on.  The queue itself is ScanQueue's subject: here a pending  *)
(* run may start whenever its project has no job.                          *)
(***************************************************************************)
EXTENDS Naturals, FiniteSets

None == 0

CONSTANTS
  Projects, Orgs, OrgOf, \* ids, and projects.org_id
  Imported,  \* the projects that are not there yet: an import adds them
  Actors     \* handlers, hooks and loops

ASSUME ClaimsAssumption ==
  /\ OrgOf \in [Projects -> Orgs]
  /\ Imported \subseteq Projects
  /\ IsFiniteSet(Actors)
  /\ None \notin Orgs \cup Actors \cup Projects

VARIABLES
  (* the runner *)
  requesting,   \* _requesting: claims in flight per project
  orgRequests,  \* _org_requests: requests past the org check
  removing,     \* _removing
  deleting,     \* _deleting_orgs
  pend, jobs,   \* the projects with a pending run, with a job not yet done
  lock,         \* the runner's lock
  call,         \* the callers' frames
  (* the database and the disk *)
  project,      \* projects rows: "new" before the import, "here", "gone"
  initialized,  \* projects.initialized_at is set
  org,          \* organizations rows
  rows,         \* the project's queued and running scan_runs rows: of the
                \* pending run, of the job, of a run popped by a cancel
  folder        \* the project's directory under the data directory

claims == <<requesting, orgRequests, removing, deleting>>
queue == <<pend, jobs>>
disk == <<project, initialized, org, rows, folder>>
vars == <<claims, queue, lock, call, disk>>

RequestPcs == {"gate", "org", "lock", "insert", "register"}
DeletionPcs == {"ids", "reserve", "wait", "cancel", "drop", "jobs", "rows", "clean"}

Frame == [pc : {"idle", "bound", "reread", "work", "mark", "check", "remove", "files"}
                 \cup RequestPcs \cup DeletionPcs,
          project : Projects \cup {None}, org : Orgs \cup {None},
          ids : SUBSET Projects,  \* what a deletion reserved
          todo : SUBSET Projects] \* what it still drops, awaits or cleans up

NoCall == [pc |-> "idle", project |-> None, org |-> None, ids |-> {}, todo |-> {}]

At(a, pc) == call[a].pc = pc
Goto(a, pc) == call' = [call EXCEPT ![a].pc = pc]
Ends(a) == call' = [call EXCEPT ![a] = NoCall]

OfOrg(o) == {p \in Projects : OrgOf[p] = o}
Here == {p \in Projects : project[p] = "here"}

(* is_busy *)
Busy(p) == rows[p] # {}

-----------------------------------------------------------------------------
(* The claims *)

(* Mutant: the claim ignores a removal. *)
ClaimAlways(a, p) ==
  requesting' = [requesting EXCEPT ![p] = @ + 1]

(* _claim_request: refused while the project is removed. *)
Claim(a, p) ==
  /\ p \notin removing
  /\ requesting' = [requesting EXCEPT ![p] = @ + 1]

Unclaim(p) == requesting' = [requesting EXCEPT ![p] = @ - 1]

(* Mutant: the org's count is kept. *)
EndRequestKeepsOrg(a) ==
  /\ Unclaim(call[a].project)
  /\ UNCHANGED orgRequests
  /\ Ends(a)

(* A request ends, whatever came of it: both claims are released. *)
EndRequest(a) ==
  /\ Unclaim(call[a].project)
  /\ orgRequests' = IF call[a].org = None THEN orgRequests
                    ELSE [orgRequests EXCEPT ![call[a].org] = @ - 1]
  /\ Ends(a)

-----------------------------------------------------------------------------
(* Requests *)

(* A caller knows the project's id, perhaps of a project gone since. *)
Request(a, p) ==
  /\ At(a, "idle") /\ project[p] # "new"
  /\ Claim(a, p)
  /\ call' = [call EXCEPT ![a] = [NoCall EXCEPT !.pc = "gate", !.project = p]]
  /\ UNCHANGED <<orgRequests, removing, deleting, queue, lock, disk>>

(* _project_gate, in a worker thread. *)
ReadGate(a) ==
  /\ At(a, "gate")
  /\ call' = [call EXCEPT ![a] =
       [@ EXCEPT !.pc = "org",
                 !.org = IF call[a].project \in Here
                         THEN OrgOf[call[a].project] ELSE None]]
  /\ UNCHANGED <<claims, queue, lock, disk>>

(* _claim_org *)
ClaimOrg(a) ==
  /\ At(a, "org") /\ call[a].org \notin deleting
  /\ orgRequests' = IF call[a].org = None THEN orgRequests
                    ELSE [orgRequests EXCEPT ![call[a].org] = @ + 1]
  /\ Goto(a, "lock")
  /\ UNCHANGED <<requesting, removing, deleting, queue, lock, disk>>

OrgRefused(a) ==
  /\ At(a, "org") /\ call[a].org \in deleting
  /\ Unclaim(call[a].project)
  /\ Ends(a)
  /\ UNCHANGED <<orgRequests, removing, deleting, queue, lock, disk>>

(* Access lost, the source policy: refused before the lock. *)
Refused(a) ==
  /\ At(a, "lock")
  /\ EndRequest(a)
  /\ UNCHANGED <<removing, deleting, queue, lock, disk>>

Acquire(a) ==
  /\ At(a, "lock") /\ lock = None
  /\ lock' = a
  /\ Goto(a, "insert")
  /\ UNCHANGED <<claims, queue, disk>>

(* The run merges into the pending one, or is not granted. *)
Merge(a) ==
  /\ At(a, "insert")
  /\ EndRequest(a)
  /\ lock' = None
  /\ UNCHANGED <<removing, deleting, queue, disk>>

(* _insert_run: without its project's row the insert fails. *)
Insert(a) ==
  LET p == call[a].project
  IN  /\ At(a, "insert") /\ p \notin pend /\ p \in Here
      /\ rows' = [rows EXCEPT ![p] = @ \cup {"pend"}]
      /\ Goto(a, "register")
      /\ UNCHANGED <<claims, queue, lock, project, initialized, org, folder>>

Register(a) ==
  /\ At(a, "register")
  /\ pend' = pend \cup {call[a].project}
  /\ EndRequest(a)
  /\ lock' = None
  /\ UNCHANGED <<removing, deleting, jobs, disk>>

(* A user cancels the queued run. *)
Cancel(a, p) ==
  /\ At(a, "idle") /\ lock = None /\ p \in pend
  /\ lock' = a
  /\ pend' = pend \ {p}
  /\ rows' = [rows EXCEPT ![p] = (@ \ {"pend"}) \cup {"popped"}]
  /\ call' = [call EXCEPT ![a] = [NoCall EXCEPT !.pc = "mark", !.project = p]]
  /\ UNCHANGED <<claims, jobs, project, initialized, org, folder>>

(* The transaction may fail: the row stays queued. *)
MarkCancelled(a) ==
  /\ At(a, "mark")
  /\ \/ rows' = [rows EXCEPT ![call[a].project] = @ \ {"popped"}]
     \/ rows' = rows
  /\ lock' = None
  /\ Ends(a)
  /\ UNCHANGED <<claims, queue, project, initialized, org, folder>>

-----------------------------------------------------------------------------
(* Jobs *)

Dispatch(p) ==
  /\ p \in pend \ jobs
  /\ pend' = pend \ {p}
  /\ jobs' = jobs \cup {p}
  /\ rows' = [rows EXCEPT ![p] = (@ \ {"pend"}) \cup {"job"}]
  /\ UNCHANGED <<claims, lock, call, project, initialized, org, folder>>

(* The job's last transaction (which may fail), then its done event.  A job *)
(* of an imported project may have cloned and initialized it.               *)
Finish(p) ==
  /\ p \in jobs
  /\ jobs' = jobs \ {p}
  /\ \/ rows' = [rows EXCEPT ![p] = @ \ {"job"}]
     \/ rows' = rows
  /\ folder' = [folder EXCEPT ![p] = TRUE]
  /\ initialized' \in {initialized, [initialized EXCEPT ![p] = TRUE]}
  /\ UNCHANGED <<claims, pend, lock, call, project, org>>

-----------------------------------------------------------------------------
(* Work in the portal's own process *)

(* The route binds the project: it is there and initialized. *)
Bind(a, p) ==
  /\ At(a, "idle") /\ p \in Here /\ initialized[p]
  /\ call' = [call EXCEPT ![a] = [NoCall EXCEPT !.pc = "bound", !.project = p]]
  /\ UNCHANGED <<claims, queue, lock, disk>>

(* generate_purpose, once it has its slot: claim_project, then the call. *)
ClaimPurpose(a) ==
  /\ At(a, "bound")
  /\ Claim(a, call[a].project)
  /\ Goto(a, "work")
  /\ UNCHANGED <<orgRequests, removing, deleting, queue, lock, disk>>

(* export and import claim, then read the row again. *)
ClaimTransfer(a) ==
  /\ At(a, "bound")
  /\ Claim(a, call[a].project)
  /\ Goto(a, "reread")
  /\ UNCHANGED <<orgRequests, removing, deleting, queue, lock, disk>>

Reread(a) ==
  /\ At(a, "reread") /\ call[a].project \in Here
  /\ Goto(a, "work")
  /\ UNCHANGED <<claims, queue, lock, disk>>

(* The work writes the project's database: its engine makes the directory. *)
Work(a) ==
  /\ At(a, "work")
  /\ folder' = [folder EXCEPT ![call[a].project] = TRUE]
  /\ Unclaim(call[a].project)
  /\ Ends(a)
  /\ UNCHANGED <<orgRequests, removing, deleting, queue, lock, project,
                 initialized, org, rows>>

(* 404 after the claim. *)
Missing(a) ==
  /\ At(a, "reread") /\ call[a].project \notin Here
  /\ Unclaim(call[a].project)
  /\ Ends(a)
  /\ UNCHANGED <<orgRequests, removing, deleting, queue, lock, disk>>

(* No slot in time, or the project is being removed. *)
GiveUpWork(a) ==
  /\ At(a, "bound")
  /\ Ends(a)
  /\ UNCHANGED <<claims, queue, lock, disk>>

-----------------------------------------------------------------------------
(* Removal of a project: delete_project under reserve_removal *)

(* Mutant: requests in flight are not looked at. *)
ReservableAnyway(p) == p \notin removing

Reservable(p) == p \notin removing /\ requesting[p] = 0

(* The route has bound the project, perhaps before another removal. *)
Reserve(a, p) ==
  /\ At(a, "idle") /\ project[p] # "new"
  /\ Reservable(p)
  /\ removing' = removing \cup {p}
  /\ call' = [call EXCEPT ![a] = [NoCall EXCEPT !.pc = "check", !.project = p]]
  /\ UNCHANGED <<requesting, orgRequests, deleting, queue, lock, disk>>

CheckBusy(a) ==
  /\ At(a, "check") /\ ~Busy(call[a].project)
  /\ Goto(a, "remove")
  /\ UNCHANGED <<claims, queue, lock, disk>>

RemovalRefused(a) ==
  /\ At(a, "check") /\ Busy(call[a].project)
  /\ removing' = removing \ {call[a].project}
  /\ Ends(a)
  /\ UNCHANGED <<requesting, orgRequests, deleting, queue, lock, disk>>

RemoveRow(a) ==
  LET p == call[a].project
  IN  /\ At(a, "remove")
      /\ project' = [project EXCEPT ![p] = "gone"]
      /\ rows' = [rows EXCEPT ![p] = {}]
      /\ Goto(a, "files")
      /\ UNCHANGED <<claims, queue, lock, initialized, org, folder>>

RemoveFiles(a) ==
  /\ At(a, "files")
  /\ folder' = [folder EXCEPT ![call[a].project] = FALSE]
  /\ removing' = removing \ {call[a].project}
  /\ Ends(a)
  /\ UNCHANGED <<requesting, orgRequests, deleting, queue, lock, project,
                 initialized, org, rows>>

-----------------------------------------------------------------------------
(* Deletion of an org: delete_org under reserve_projects *)

(* Its route, too, may have read the org before another deletion. *)
MarkOrg(a, o) ==
  /\ At(a, "idle") /\ o \notin deleting
  /\ deleting' = deleting \cup {o}
  /\ call' = [call EXCEPT ![a] = [NoCall EXCEPT !.pc = "ids", !.org = o]]
  /\ UNCHANGED <<requesting, orgRequests, removing, queue, lock, disk>>

ReadIds(a) ==
  /\ At(a, "ids")
  /\ call' = [call EXCEPT ![a] = [@ EXCEPT !.pc = "reserve",
                                           !.todo = Here \cap OfOrg(call[a].org)]]
  /\ UNCHANGED <<claims, queue, lock, disk>>

ReserveAll(a) ==
  /\ At(a, "reserve") /\ call[a].todo \cap removing = {}
  /\ removing' = removing \cup call[a].todo
  /\ call' = [call EXCEPT ![a] = [@ EXCEPT !.pc = "wait", !.ids = call[a].todo,
                                           !.todo = {}]]
  /\ UNCHANGED <<requesting, orgRequests, deleting, queue, lock, disk>>

(* Everything is released, however the deletion ends. *)
ReleaseOrg(a) ==
  /\ deleting' = deleting \ {call[a].org}
  /\ removing' = removing \ call[a].ids
  /\ Ends(a)

(* A project is being removed; or the deadline passed. *)
DeletionRefused(a) ==
  /\ \/ At(a, "reserve") /\ call[a].todo \cap removing # {}
     \/ At(a, "wait") \/ At(a, "jobs")
  /\ ReleaseOrg(a)
  /\ UNCHANGED <<requesting, orgRequests, queue, lock, disk>>

(* _org_idle *)
OrgIdle(o, ids) == orgRequests[o] = 0 /\ \A p \in ids : requesting[p] = 0

Idle(a) ==
  /\ At(a, "wait") /\ OrgIdle(call[a].org, call[a].ids)
  /\ Goto(a, "cancel")
  /\ UNCHANGED <<claims, queue, lock, disk>>

(* _cancel_projects: pops and cancels in one stretch, under the lock. *)
CancelAll(a) ==
  LET dropped == pend \cap call[a].ids
  IN  /\ At(a, "cancel") /\ lock = None
      /\ lock' = a
      /\ pend' = pend \ dropped
      /\ rows' = [p \in Projects |->
           IF p \in dropped THEN (rows[p] \ {"pend"}) \cup {"popped"} ELSE rows[p]]
      /\ call' = [call EXCEPT ![a] = [@ EXCEPT !.pc = "drop", !.todo = dropped]]
      /\ UNCHANGED <<claims, jobs, project, initialized, org, folder>>

DropOne(a) ==
  /\ At(a, "drop")
  /\ \E p \in call[a].todo :
       /\ rows' = [rows EXCEPT ![p] = @ \ {"popped"}]
       /\ call' = [call EXCEPT ![a].todo = @ \ {p}]
  /\ UNCHANGED <<claims, queue, lock, project, initialized, org, folder>>

DropFails(a) ==
  /\ At(a, "drop") /\ call[a].todo # {}
  /\ lock' = None
  /\ ReleaseOrg(a)
  /\ UNCHANGED <<requesting, orgRequests, queue, disk>>

Dropped(a) ==
  /\ At(a, "drop") /\ call[a].todo = {}
  /\ lock' = None
  /\ Goto(a, "jobs")
  /\ UNCHANGED <<claims, queue, disk>>

(* Mutant: the cancelled jobs are not waited for. *)
JobsEndedAnyway(ids) == TRUE

JobsEnded(ids) == jobs \cap ids = {}

AwaitJobs(a) ==
  /\ At(a, "jobs") /\ JobsEnded(call[a].ids)
  /\ Goto(a, "rows")
  /\ UNCHANGED <<claims, queue, lock, disk>>

(* _delete_rows, by org: a project imported meanwhile goes too. *)
DeleteRows(a) ==
  LET o == call[a].org
      going == Here \cap OfOrg(o)
  IN  /\ At(a, "rows") /\ org[o]
      /\ org' = [org EXCEPT ![o] = FALSE]
      /\ project' = [p \in Projects |-> IF p \in going THEN "gone" ELSE project[p]]
      /\ rows' = [p \in Projects |-> IF p \in going THEN {} ELSE rows[p]]
      /\ call' = [call EXCEPT ![a] = [@ EXCEPT !.pc = "clean", !.todo = going]]
      /\ UNCHANGED <<claims, queue, lock, initialized, folder>>

(* 404: another deletion was first. *)
OrgGone(a) ==
  /\ At(a, "rows") /\ ~org[call[a].org]
  /\ ReleaseOrg(a)
  /\ UNCHANGED <<requesting, orgRequests, queue, lock, disk>>

CleanUp(a) ==
  /\ At(a, "clean")
  /\ folder' = [p \in Projects |-> folder[p] /\ p \notin call[a].todo]
  /\ ReleaseOrg(a)
  /\ UNCHANGED <<requesting, orgRequests, queue, lock, project, initialized,
                 org, rows>>

(* An import inserts its row while its org is there, its folder reserved. *)
Import(p) ==
  /\ project[p] = "new" /\ org[OrgOf[p]]
  /\ project' = [project EXCEPT ![p] = "here"]
  /\ folder' = [folder EXCEPT ![p] = TRUE]
  /\ UNCHANGED <<claims, queue, lock, call, initialized, org, rows>>

-----------------------------------------------------------------------------

Init ==
  /\ requesting = [p \in Projects |-> 0]
  /\ orgRequests = [o \in Orgs |-> 0]
  /\ removing = {} /\ deleting = {}
  /\ pend = {} /\ jobs = {}
  /\ lock = None
  /\ call = [a \in Actors |-> NoCall]
  /\ project = [p \in Projects |-> IF p \in Imported THEN "new" ELSE "here"]
  /\ initialized = [p \in Projects |-> p \notin Imported]
  /\ org = [o \in Orgs |-> TRUE]
  /\ rows = [p \in Projects |-> {}]
  /\ folder = [p \in Projects |-> p \notin Imported]

(* What an actor begins, and what it then goes on with. *)
Begin(a) ==
  \/ \E p \in Projects : Request(a, p) \/ Cancel(a, p) \/ Bind(a, p) \/ Reserve(a, p)
  \/ \E o \in Orgs : MarkOrg(a, o)

RequestStep(a) ==
  \/ ReadGate(a) \/ ClaimOrg(a) \/ OrgRefused(a) \/ Refused(a) \/ Acquire(a)
  \/ Merge(a) \/ Insert(a) \/ Register(a) \/ MarkCancelled(a)

WorkStep(a) ==
  \/ ClaimPurpose(a) \/ ClaimTransfer(a) \/ Reread(a) \/ Missing(a) \/ Work(a)
  \/ GiveUpWork(a)

RemovalStep(a) ==
  CheckBusy(a) \/ RemovalRefused(a) \/ RemoveRow(a) \/ RemoveFiles(a)

DeletionStep(a) ==
  \/ ReadIds(a) \/ ReserveAll(a) \/ DeletionRefused(a) \/ Idle(a) \/ CancelAll(a)
  \/ DropOne(a) \/ DropFails(a) \/ Dropped(a) \/ AwaitJobs(a) \/ DeleteRows(a) \/ OrgGone(a)
  \/ CleanUp(a)

Next ==
  \/ \E a \in Actors : \/ Begin(a) \/ RequestStep(a) \/ WorkStep(a)
                       \/ RemovalStep(a) \/ DeletionStep(a)
  \/ \E p \in Projects : Dispatch(p) \/ Finish(p) \/ Import(p)

Spec == Init /\ [][Next]_vars

(* Requests and work end; the lock is first come, first served. *)
Fairness ==
  \A a \in Actors :
    /\ WF_vars(RequestStep(a)) /\ SF_vars(Acquire(a)) /\ WF_vars(WorkStep(a))
    /\ WF_vars(Idle(a)) /\ WF_vars(DropOne(a)) /\ WF_vars(Dropped(a))

FairSpec == Spec /\ Fairness

-----------------------------------------------------------------------------

TypeOK ==
  /\ requesting \in [Projects -> Nat] /\ orgRequests \in [Orgs -> Nat]
  /\ removing \subseteq Projects /\ deleting \subseteq Orgs
  /\ pend \subseteq Projects /\ jobs \subseteq Projects
  /\ lock \in Actors \cup {None}
  /\ call \in [Actors -> Frame]
  /\ project \in [Projects -> {"new", "here", "gone"}]
  /\ initialized \in [Projects -> BOOLEAN] /\ org \in [Orgs -> BOOLEAN]
  /\ rows \in [Projects -> SUBSET {"pend", "job", "popped"}]
  /\ folder \in [Projects -> BOOLEAN]

Claimants(p) ==
  {a \in Actors : call[a].project = p /\ call[a].pc \in RequestPcs \cup {"reread", "work"}}

OrgClaimants(o) ==
  {a \in Actors : call[a].org = o /\ call[a].pc \in {"lock", "insert", "register"}}

(***************************************************************************)
(* No claim is leaked or released twice: the counts are those of the       *)
(* callers inside.  A leaked claim would refuse every later removal.       *)
(***************************************************************************)
ClaimsCounted ==
  /\ \A p \in Projects : requesting[p] = Cardinality(Claimants(p))
  /\ \A o \in Orgs : orgRequests[o] = Cardinality(OrgClaimants(o))

(* The project is quiet: no run of it waits, runs or may be inserted, and   *)
(* nobody works on it.                                                      *)
Quiet(p) ==
  /\ p \notin pend \cup jobs
  /\ \A a \in Actors : call[a].project = p =>
       /\ call[a].pc \notin {"register", "mark", "work"}
       /\ call[a].pc = "insert" => p \notin Here

(***************************************************************************)
(* While rows and files are deleted, nothing else touches the project: not *)
(* a run that was requested before, during or after the reservation, not   *)
(* a purpose generation, a transfer or another removal.  For an org, also  *)
(* the projects imported while the deletion waited.                        *)
(***************************************************************************)
RemovalsAlone ==
  \A a \in Actors :
    /\ call[a].pc \in {"remove", "files"} => Quiet(call[a].project)
    /\ call[a].pc = "rows" =>
         \A p \in call[a].ids \cup (Here \cap OfOrg(call[a].org)) : Quiet(p)
    /\ call[a].pc = "clean" => \A p \in call[a].todo : Quiet(p)
    /\ \A b \in Actors \ {a} :
         call[a].pc \in {"remove", "files"} /\ call[b].pc \in {"rows", "clean"} =>
           call[a].project \notin call[b].ids

(* A project that is gone has no run left, and never gets one. *)
GoneHasNoRuns ==
  \A p \in Projects : project[p] = "gone" => p \notin pend \cup jobs /\ ~Busy(p)

(***************************************************************************)
(* An org deletion that has reserved its projects is not starved by new    *)
(* requests: without its deadline it would still get past the wait.        *)
(***************************************************************************)
DeletionGoesOn ==
  \A a \in Actors : At(a, "wait") ~> ~At(a, "wait")

=============================================================================
