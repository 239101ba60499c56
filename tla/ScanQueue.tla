----------------------------- MODULE ScanQueue ------------------------------
(***************************************************************************)
(* The scan queue of the portal (ScanRunner, src/whygraph/portal/runner.py)*)
(* with its scan_runs rows: requests that insert or merge a pending run,   *)
(* cancels, the dispatch of pending runs to jobs, the jobs' steps, stop,   *)
(* crash and restart.                                                      *)
(*                                                                         *)
(* The queue lives on one event loop.  A step of this module is a stretch  *)
(* between two awaits, or one database transaction of a worker thread, so  *)
(* whatever may run between two such stretches interleaves here.  Requests *)
(* and cancels serialise on the runner's lock; a job that ends does not    *)
(* take it.                                                                *)
(***************************************************************************)
EXTENDS ScanPolicy, FiniteSets

CONSTANTS
  Projects, Orgs, OrgOf,  \* projects.id, organizations.id, and projects.org_id
  Importing,     \* the projects not initialized at first: their run clones
  Source,        \* the projects' source (one portal mode)
  Asks,          \* requests: a Job, and whether the caller may spend on it
  Callers,       \* handlers, hooks and loops that call the runner
  MaxConcurrent, \* running jobs across projects
  MaxRuns,       \* bound: rows ever inserted
  MaxFaults,     \* bound: database transactions that fail
  MaxStops       \* bound: stops and crashes

ASSUME QueueAssumption ==
  /\ Source \in Sources
  /\ OrgOf \in [Projects -> Orgs]
  /\ Importing \subseteq Projects /\ (Source # "github" => Importing = {})
  /\ Asks \subseteq [job : Requests(Source), maySpend : BOOLEAN]
  /\ IsFiniteSet(Projects) /\ Asks # {}
  /\ 0 \notin Projects \cup Callers  \* 0 is None
  /\ MaxConcurrent \in Nat \ {0}
  /\ MaxRuns \in Nat /\ MaxFaults \in Nat /\ MaxStops \in Nat

RunIds == 1..MaxRuns
None == 0

VARIABLES
  (* the process: gone after a crash *)
  mode,       \* "down", "starting", "up", "stopping" or "stopped"
  pend,       \* _pending: a project's pending run, or None
  busy,       \* _running: a project's running job, or None
  spec,       \* the _Pending objects by run id; a job shares its run's
  job,        \* the _Job objects by run id
  recent,     \* projects whose forge-only run started less than a debounce ago
  lock,       \* the runner's lock: its holder, or None
  call,       \* the callers' frames
  cursor,     \* the last row _recover_queued has read
  (* the database *)
  row,        \* scan_runs by id
  scanned,    \* projects.last_scan_at is set
  initialized,\* projects.initialized_at is set
  (* bookkeeping *)
  promised,   \* history: the granted requests answered with the id of a run
              \* that has not ended
  faults, stops

process == <<mode, pend, busy, spec, job, recent, lock, call, cursor>>
database == <<row, scanned, initialized>>
bounds == <<faults, stops>>
vars == <<process, database, promised, bounds>>

PendingSpec == [job : Job, importing : BOOLEAN, held : BOOLEAN]

Phases == {"idle", "start", "prep", "child", "ending", "done"}

JobState == [phase : Phases, end : Final, ran : BOOLEAN, who : Users \cup {NoUser},
             cancelled : BOOLEAN, interrupted : BOOLEAN]

NoJob == [phase |-> "idle", end |-> "failed", ran |-> FALSE, who |-> NoUser,
          cancelled |-> FALSE, interrupted |-> FALSE]

NewJob == [NoJob EXCEPT !.phase = "start"]

Columns == [kind : {"scan", "sync"}, trigger : Triggers, analyze : BOOLEAN,
            by : Users \cup {NoUser},
            summary : [scanFlag : BOOLEAN, est : Estimates \cup {NoEstimate}]]

ScanRun == [status : {"none", "queued", "running"} \cup Final,
            project : Projects \cup {None}, queued : Columns, outcome : BOOLEAN]

AnyJob == [kind |-> "scan", trigger |-> "hook", analyze |-> FALSE, by |-> NoUser,
           scan |-> TRUE, est |-> NoEstimate]

NoSpec == [job |-> AnyJob, importing |-> FALSE, held |-> FALSE]

NoSummary == [scanFlag |-> FALSE, est |-> NoEstimate]

NoRow == [status |-> "none", project |-> None,
           queued |-> Row(AnyJob), outcome |-> FALSE]

Frame == [pc : {"idle", "wait", "decide", "insert", "register", "update",
                "return", "mark"},
          project : Projects \cup {None}, ask : Asks,
          importing : BOOLEAN, hasOk : BOOLEAN, run : RunIds \cup {None}]

NoCall == [pc |-> "idle", project |-> None,
           ask |-> CHOOSE a \in Asks : TRUE,
           importing |-> FALSE, hasOk |-> FALSE, run |-> None]

ProjectOf(r) == row[r].project

(* Writes of a row: what the queue asks of it, and its end. *)
Queued(r, j) == [status |-> row[r].status, project |-> ProjectOf(r),
                 queued |-> Row(j), outcome |-> FALSE]

Ended(r, status) ==
  [status |-> status, project |-> ProjectOf(r),
   queued |-> [row[r].queued EXCEPT !.summary = NoSummary], outcome |-> TRUE]

Live(r) == job[r].phase # "idle"
Created == {r \in RunIds : row[r].status # "none"}

(***************************************************************************)
(* _dispatch: start pending runs, oldest first, while under the cap.  A    *)
(* project that runs, an import whose org is cloning and a debounced forge *)
(* run wait.  pd, bz, jb and sp are the pending and running maps, the jobs *)
(* and the specs it finds.                                                 *)
(***************************************************************************)
Running(bz) == {p \in Projects : bz[p] # None}

(* Mutant: imports are not told apart. *)
CloningNothing(bz, sp) == {}

Cloning(bz, sp) == {OrgOf[p] : p \in {q \in Running(bz) : sp[bz[q]].importing}}

(* Mutant: the project's own running job is not looked at. *)
WaitingThoughRunning(pd, bz, sp) ==
  {p \in Projects : pd[p] # None /\ ~(sp[pd[p]].held /\ p \in recent)}

Waiting(pd, bz, sp) ==
  {p \in Projects : /\ pd[p] # None
                    /\ bz[p] = None
                    /\ ~(sp[pd[p]].importing /\ OrgOf[p] \in Cloning(bz, sp))
                    /\ ~(sp[pd[p]].held /\ p \in recent)}

(* Of an org's waiting imports only the oldest may start. *)
Eligible(pd, bz, sp) ==
  {p \in Waiting(pd, bz, sp) :
     sp[pd[p]].importing =>
       \A q \in Waiting(pd, bz, sp) :
         sp[pd[q]].importing /\ OrgOf[q] = OrgOf[p] => pd[p] <= pd[q]}

AtCap(n) == n >= MaxConcurrent

Start(pd, bz, jb, sp) ==
  \E D \in SUBSET Eligible(pd, bz, sp) :
    /\ D # {} => ~AtCap(Cardinality(Running(bz) \cup D) - 1)
    /\ D = Eligible(pd, bz, sp) \/ AtCap(Cardinality(Running(bz) \cup D))
    /\ \A p \in D, q \in Eligible(pd, bz, sp) \ D : pd[p] < pd[q]
    /\ pend' = [p \in Projects |-> IF p \in D THEN None ELSE pd[p]]
    /\ busy' = [p \in Projects |-> IF p \in D THEN pd[p] ELSE bz[p]]
    /\ job' = [r \in RunIds |-> IF \E p \in D : pd[p] = r
                                THEN NewJob ELSE jb[r]]
    /\ recent' = recent \cup {p \in D : sp[pd[p]].job.trigger = "forge"}

Dispatch(pd, bz, jb, sp) ==
  IF mode = "up" THEN Start(pd, bz, jb, sp)
  ELSE pend' = pd /\ busy' = bz /\ job' = jb /\ recent' = recent

-----------------------------------------------------------------------------
(***************************************************************************)
(* Requests: request_scan, request_sync and request_import all end in      *)
(* _request and _request_claimed.                                          *)
(***************************************************************************)

Goto(c, pc, run) ==
  [pc |-> pc, project |-> call[c].project, ask |-> call[c].ask,
   importing |-> call[c].importing, hasOk |-> call[c].hasOk, run |-> run]

(* _request: refused once the runner stops; reads the project's gate. *)
Request(c, p, ask) ==
  /\ call[c].pc = "idle"
  /\ mode = "up"
  /\ call' = [call EXCEPT ![c] = [pc |-> "wait", project |-> p, ask |-> ask,
                                  importing |-> ~initialized[p],
                                  hasOk |-> FALSE, run |-> None]]
  /\ UNCHANGED <<mode, pend, busy, spec, job, recent, lock, cursor, database,
                 promised, bounds>>

(* The lock, then _has_ok_scan in a worker thread. *)
Acquire(c) ==
  /\ call[c].pc = "wait" /\ lock = None
  /\ lock' = c
  /\ call' = [call EXCEPT ![c] = [Goto(c, "decide", None) EXCEPT
                                   !.hasOk = scanned[call[c].project]]]
  /\ UNCHANGED <<mode, pend, busy, spec, job, recent, cursor, database,
                 promised, bounds>>

Granting(c) == Granted(call[c].ask.job, call[c].hasOk)

(* ScanForbidden, or a spent budget (whose state is not modelled here). *)
Refuse(c) ==
  /\ call[c].pc = "decide"
  /\ Granting(c).analyze
  /\ call' = [call EXCEPT ![c] = NoCall]
  /\ lock' = None
  /\ UNCHANGED <<mode, pend, busy, spec, job, recent, cursor, database,
                 promised, bounds>>

MayProceed(c) ==
  call[c].pc = "decide" /\ (Granting(c).analyze => call[c].ask.maySpend)

(* No pending run: a row is inserted, then registered. *)
DecideNew(c) ==
  /\ MayProceed(c)
  /\ pend[call[c].project] = None
  /\ call' = [call EXCEPT ![c] = Goto(c, "insert", None)]
  /\ UNCHANGED <<mode, pend, busy, spec, job, recent, lock, cursor, database,
                 promised, bounds>>

Insert(c) ==
  /\ call[c].pc = "insert"
  /\ \E r \in RunIds :
       /\ row[r].status = "none"
       /\ \A q \in RunIds : row[q].status = "none" => r <= q
       /\ row' = [row EXCEPT ![r] = [status |-> "queued",
                                     project |-> call[c].project,
                                     queued |-> Row(Granting(c)),
                                     outcome |-> FALSE]]
       /\ call' = [call EXCEPT ![c] = Goto(c, "register", r)]
  /\ UNCHANGED <<mode, pend, busy, spec, job, recent, lock, cursor, scanned,
                 initialized, promised, bounds>>

(* The insert fails; at the bound MaxRuns it always does. *)
InsertFails(c) ==
  /\ call[c].pc = "insert"
  /\ faults < MaxFaults \/ Created = RunIds
  /\ faults' = IF Created = RunIds THEN faults ELSE faults + 1
  /\ call' = [call EXCEPT ![c] = NoCall]
  /\ lock' = None
  /\ UNCHANGED <<mode, pend, busy, spec, job, recent, cursor, database,
                 promised, stops>>

(* The run becomes pending (a forge run soon after another is held), pending *)
(* runs are dispatched and the caller gets the run's id.                     *)
Register(c) ==
  LET p == call[c].project
      r == call[c].run
      new == [job |-> Granting(c), importing |-> call[c].importing,
              held |-> Granting(c).trigger = "forge" /\ p \in recent]
      sp == [spec EXCEPT ![r] = new]
  IN  /\ call[c].pc = "register"
      /\ spec' = sp
      /\ Dispatch([pend EXCEPT ![p] = r], busy, job, sp)
      /\ promised' = [promised EXCEPT ![r] = @ \cup {Granting(c)}]
      /\ call' = [call EXCEPT ![c] = NoCall]
      /\ lock' = None
      /\ UNCHANGED <<mode, cursor, database, bounds>>

(* Mutant: a request also merges into the run that has started. *)
DecideMergeLate(c) ==
  LET p == call[c].project
      r == IF pend[p] # None THEN pend[p] ELSE busy[p]
  IN  /\ MayProceed(c)
      /\ r # None
      /\ spec' = [spec EXCEPT ![r].job = MergeJobs(@, Granting(c))]
      /\ call' = [call EXCEPT ![c] = Goto(c, "update", r)]
      /\ UNCHANGED <<mode, pend, busy, job, recent, lock, cursor, database,
                     promised, bounds>>

(* A pending run: merged in memory, then in its row. *)
DecideMerge(c) ==
  LET r == pend[call[c].project]
      merged == MergeJobs(spec[r].job, Granting(c))
  IN  /\ MayProceed(c)
      /\ r # None
      /\ spec' = [spec EXCEPT ![r] =
           [job |-> merged,
            importing |-> spec[r].importing \/ call[c].importing,
            held |-> spec[r].held /\ merged.trigger = "forge"]]
      /\ call' = [call EXCEPT ![c] = Goto(c, "update", r)]
      /\ UNCHANGED <<mode, pend, busy, job, recent, lock, cursor, database,
                     promised, bounds>>

(* Mutant: the merge is never written. *)
UpdateForgotten(c) ==
  /\ call[c].pc = "update"
  /\ call' = [call EXCEPT ![c] = Goto(c, "return", call[c].run)]
  /\ UNCHANGED <<mode, pend, busy, spec, job, recent, lock, cursor, database,
                 promised, bounds>>

(* _update_queued writes the columns and the summary, whatever the status. *)
Update(c) ==
  /\ call[c].pc = "update"
  /\ row' = [row EXCEPT ![call[c].run] = Queued(call[c].run, spec[call[c].run].job)]
  /\ call' = [call EXCEPT ![c] = Goto(c, "return", call[c].run)]
  /\ UNCHANGED <<mode, pend, busy, spec, job, recent, lock, cursor, scanned,
                 initialized, promised, bounds>>

UpdateFails(c) ==
  /\ call[c].pc = "update"
  /\ faults < MaxFaults /\ faults' = faults + 1
  /\ call' = [call EXCEPT ![c] = NoCall]
  /\ lock' = None
  /\ UNCHANGED <<mode, pend, busy, spec, job, recent, cursor, database,
                 promised, stops>>

Return(c) ==
  /\ call[c].pc = "return"
  /\ Dispatch(pend, busy, job, spec)
  /\ promised' = [promised EXCEPT ![call[c].run] = @ \cup {Granting(c)}]
  /\ call' = [call EXCEPT ![c] = NoCall]
  /\ lock' = None
  /\ UNCHANGED <<mode, spec, cursor, database, bounds>>

(***************************************************************************)
(* cancel                                                                  *)
(***************************************************************************)

(* Mutant: the run's row is marked, but it stays in the queue. *)
CancelQueuedKeepsIt(c, p, mayCancelFull) ==
  /\ call[c].pc = "idle" /\ lock = None /\ mode = "up"
  /\ pend[p] # None
  /\ spec[pend[p]].job.analyze => mayCancelFull
  /\ lock' = c
  /\ call' = [call EXCEPT ![c] = [Goto(c, "mark", pend[p]) EXCEPT !.project = p]]
  /\ UNCHANGED <<mode, pend, busy, spec, job, recent, cursor, database, promised,
                 bounds>>

(* A queued run leaves the queue, then its row says so. *)
CancelQueued(c, p, mayCancelFull) ==
  /\ call[c].pc = "idle" /\ lock = None /\ mode = "up"
  /\ pend[p] # None
  /\ spec[pend[p]].job.analyze => mayCancelFull
  /\ lock' = c
  /\ call' = [call EXCEPT ![c] = [Goto(c, "mark", pend[p]) EXCEPT !.project = p]]
  /\ pend' = [pend EXCEPT ![p] = None]
  /\ UNCHANGED <<mode, busy, spec, job, recent, cursor, database, promised,
                 bounds>>

MarkCancelled(c) ==
  LET r == call[c].run
  IN  /\ call[c].pc = "mark"
      /\ row' = IF row[r].status = "queued"
                THEN [row EXCEPT ![r] = Ended(r, "cancelled")] ELSE row
      /\ call' = [call EXCEPT ![c] = NoCall]
      /\ lock' = None
      /\ promised' = [promised EXCEPT ![r] = {}]
      /\ UNCHANGED <<mode, pend, busy, spec, job, recent, cursor, scanned,
                     initialized, bounds>>

MarkCancelledFails(c) ==
  /\ call[c].pc = "mark"
  /\ faults < MaxFaults /\ faults' = faults + 1
  /\ call' = [call EXCEPT ![c] = NoCall]
  /\ lock' = None
  /\ UNCHANGED <<mode, pend, busy, spec, job, recent, cursor, database,
                 promised, stops>>

(* A running one is signalled (_Job.cancel sets both flags). *)
CancelRunning(c, p, mayCancelFull) ==
  /\ call[c].pc = "idle" /\ lock = None /\ mode = "up"
  /\ busy[p] # None
  /\ spec[busy[p]].job.analyze => mayCancelFull
  /\ job' = [job EXCEPT ![busy[p]] = [@ EXCEPT !.cancelled = TRUE,
                                              !.interrupted = TRUE]]
  /\ UNCHANGED <<mode, pend, busy, spec, recent, lock, call, cursor, database,
                 promised, bounds>>

(* What the holder of the lock does next. *)
Holding(c) ==
  \/ Refuse(c) \/ DecideNew(c) \/ DecideMerge(c)
  \/ Insert(c) \/ InsertFails(c) \/ Register(c)
  \/ Update(c) \/ UpdateFails(c) \/ Return(c)
  \/ MarkCancelled(c) \/ MarkCancelledFails(c)

-----------------------------------------------------------------------------
(***************************************************************************)
(* A job: _run_job on the loop, _execute and _execute_inner in its thread. *)
(***************************************************************************)

(* The first transaction: who pays is read from the row; the row runs. *)
Begin(r) ==
  /\ job[r].phase = "start"
  /\ row' = [row EXCEPT ![r] =
       [status |-> "running", project |-> ProjectOf(r), outcome |-> @.outcome,
        queued |-> [Row(spec[r].job) EXCEPT !.by = row[r].queued.by,
                                            !.summary = row[r].queued.summary]]]
  /\ job' = [job EXCEPT ![r] = [@ EXCEPT
       !.phase = "prep",
       !.who = IF spec[r].job.analyze THEN row[r].queued.by ELSE NoUser]]
  /\ UNCHANGED <<mode, pend, busy, spec, recent, lock, call, cursor, scanned,
                 initialized, promised, bounds>>

End(r, how) == [job EXCEPT ![r] = [@ EXCEPT !.phase = "ending", !.end = how]]

JobOnly == UNCHANGED <<mode, pend, busy, spec, recent, lock, call, cursor,
                       database, promised, bounds>>

(* The access was lost, the source dropped, the root missing, a fetch failed. *)
FailsEarly(r) ==
  /\ job[r].phase \in {"start", "prep"}
  /\ job' = End(r, "failed")
  /\ JobOnly

(* A sync notices a cancel after its fetch (or its clone). *)
SyncGivesUp(r) ==
  /\ job[r].phase = "prep" /\ spec[r].job.kind = "sync" /\ job[r].cancelled
  /\ job' = End(r, "cancelled")
  /\ JobOnly

(* An import's clone is in place and initialized (a cancel or a stop that  *)
(* comes after git clone returned does not undo it).                       *)
CloneDone(r) ==
  /\ job[r].phase = "prep" /\ spec[r].job.kind = "sync"
  /\ ~initialized[ProjectOf(r)]
  /\ initialized' = [initialized EXCEPT ![ProjectOf(r)] = TRUE]
  /\ UNCHANGED <<process, row, scanned, promised, bounds>>

(* HEAD is the scanned one and nobody asked for a scan. *)
NothingToScan(r) ==
  /\ job[r].phase = "prep" /\ spec[r].job.kind = "sync" /\ ~spec[r].job.scan
  /\ initialized[ProjectOf(r)] /\ scanned[ProjectOf(r)]
  /\ job' = End(r, "ok")
  /\ JobOnly

StopsBeforeChild(r) ==
  /\ job[r].phase = "prep" /\ job[r].interrupted
  /\ job' = End(r, "interrupted")
  /\ JobOnly

Spawn(r) ==
  /\ job[r].phase = "prep" /\ ~job[r].interrupted
  /\ initialized[ProjectOf(r)]
  /\ job' = [job EXCEPT ![r] = [@ EXCEPT !.phase = "child", !.ran = TRUE]]
  /\ JobOnly

(* A signalled child may still have finished its work. *)
ChildExits(r) ==
  /\ job[r].phase = "child"
  /\ \E how \in {"ok", "failed"} : job' = End(r, how)
  /\ JobOnly

(* _finish_run, with the outcome _execute decides. *)
FinishRun(r) ==
  LET status == Outcome(job[r].end, job[r].cancelled, job[r].interrupted)
  IN  /\ job[r].phase = "ending"
      /\ row' = [row EXCEPT ![r] = Ended(r, status)]
      /\ scanned' = [scanned EXCEPT ![ProjectOf(r)] =
                       @ \/ (status = "ok" /\ job[r].ran)]
      /\ job' = [job EXCEPT ![r].phase = "done"]
      /\ promised' = [promised EXCEPT ![r] = {}]
      /\ UNCHANGED <<mode, pend, busy, spec, recent, lock, call, cursor,
                     initialized, bounds>>

FinishRunFails(r) ==
  /\ job[r].phase = "ending"
  /\ faults < MaxFaults /\ faults' = faults + 1
  /\ job' = [job EXCEPT ![r].phase = "done"]
  /\ UNCHANGED <<mode, pend, busy, spec, recent, lock, call, cursor, database,
                 promised, stops>>

(* Mutant: the slot is freed but nobody looks for waiting runs. *)
RetireSilently(r) ==
  /\ job[r].phase = "done"
  /\ busy' = [busy EXCEPT ![ProjectOf(r)] = None]
  /\ job' = [job EXCEPT ![r] = NoJob]
  /\ UNCHANGED <<mode, pend, spec, recent, lock, call, cursor, database,
                 promised, bounds>>

(* Back on the loop: the project's slot is free; no lock is taken. *)
Retire(r) ==
  /\ job[r].phase = "done"
  /\ Dispatch(pend, [busy EXCEPT ![ProjectOf(r)] = None],
              [job EXCEPT ![r] = NoJob], spec)
  /\ UNCHANGED <<mode, spec, lock, call, cursor, database, promised, bounds>>

(***************************************************************************)
(* The forge debounce: time passes, then _dispatch_at wakes up.            *)
(***************************************************************************)
DebounceEnds(p) ==
  /\ p \in recent
  /\ recent' = recent \ {p}
  /\ UNCHANGED <<mode, pend, busy, spec, job, lock, call, cursor, database,
                 promised, bounds>>

WakeUp(p) ==
  LET sp == [spec EXCEPT ![pend[p]].held = FALSE]
  IN  /\ pend[p] # None /\ spec[pend[p]].held /\ p \notin recent
      /\ mode = "up"
      /\ spec' = sp
      /\ Dispatch(pend, busy, job, sp)
      /\ UNCHANGED <<mode, lock, call, cursor, database, promised, bounds>>

-----------------------------------------------------------------------------
(***************************************************************************)
(* Stop, crash and restart                                                 *)
(***************************************************************************)

(* shutdown: no more dispatch, every child is signalled. *)
Shutdown ==
  /\ mode = "up" /\ stops < MaxStops
  /\ stops' = stops + 1
  /\ mode' = "stopping"
  /\ job' = [r \in RunIds |-> IF job[r].phase = "idle" THEN job[r]
                              ELSE [job[r] EXCEPT !.interrupted = TRUE]]
  /\ UNCHANGED <<pend, busy, spec, recent, lock, call, cursor, database,
                 promised, faults>>

(* The jobs that did not end in time are recorded (their threads live on). *)
MarkLeftover ==
  /\ mode = "stopping"
  /\ mode' = "stopped"
  /\ row' = [r \in RunIds |->
       IF job[r].phase \notin {"idle", "done"}
          /\ row[r].status \in {"queued", "running"}
       THEN [row[r] EXCEPT !.status = "interrupted"] ELSE row[r]]
  /\ promised' = [r \in RunIds |->
       IF row'[r].status = "interrupted" THEN {} ELSE promised[r]]
  /\ UNCHANGED <<pend, busy, spec, job, recent, lock, call, cursor, scanned,
                 initialized, bounds>>

(* That write fails: the next start finds the rows. *)
MarkLeftoverFails ==
  /\ mode = "stopping"
  /\ faults < MaxFaults /\ faults' = faults + 1
  /\ mode' = "stopped"
  /\ UNCHANGED <<pend, busy, spec, job, recent, lock, call, cursor, database,
                 promised, stops>>

(* The process is gone, and its memory with it. *)
Forget ==
  /\ mode' = "down"
  /\ pend' = [p \in Projects |-> None]
  /\ busy' = [p \in Projects |-> None]
  /\ spec' = [r \in RunIds |-> NoSpec]
  /\ job' = [r \in RunIds |-> NoJob]
  /\ recent' = {}
  /\ lock' = None
  /\ call' = [c \in Callers |-> NoCall]
  /\ cursor' = 0
  /\ UNCHANGED <<database, promised, faults>>

Exit == mode = "stopped" /\ Forget /\ UNCHANGED stops

Crash ==
  /\ mode \notin {"down", "stopped"} /\ stops < MaxStops
  /\ stops' = stops + 1
  /\ Forget

(* Mutant: a start recovers no queued row. *)
RequeueNothing ==
  /\ mode = "starting"
  /\ mode' = "up"
  /\ Start([p \in Projects |-> None], busy, job, spec)
  /\ UNCHANGED <<spec, lock, call, cursor, database, promised, bounds>>

(* Mutant: stale rows stay as they are. *)
MarkStaleNone ==
  /\ mode = "down"
  /\ mode' = "starting"
  /\ UNCHANGED <<pend, busy, spec, job, recent, lock, call, cursor, database,
                 promised, bounds>>

(* The lifespan: a row still running belongs to a process that is gone. *)
MarkStale ==
  /\ mode = "down"
  /\ mode' = "starting"
  /\ row' = [r \in RunIds |-> IF row[r].status = "running"
                              THEN [row[r] EXCEPT !.status = "interrupted"]
                              ELSE row[r]]
  /\ promised' = [r \in RunIds |->
       IF row'[r].status = "interrupted" THEN {} ELSE promised[r]]
  /\ UNCHANGED <<pend, busy, spec, job, recent, lock, call, cursor, scanned,
                 initialized, bounds>>

(* _recover_queued reads the queued rows in order: a project's first one is *)
(* kept and the others merge into it.                                       *)
RecoverRow(r) ==
  LET p == ProjectOf(r)
      found == Recovered(row[r].queued)
  IN  /\ mode = "starting"
      /\ row[r].status = "queued" /\ r > cursor
      /\ \A q \in RunIds : row[q].status = "queued" /\ q > cursor => r <= q
      /\ cursor' = r
      /\ IF pend[p] = None
         THEN /\ pend' = [pend EXCEPT ![p] = r]
              /\ spec' = [spec EXCEPT ![r] = [job |-> found, held |-> FALSE,
                                              importing |-> ~initialized[p]]]
         ELSE /\ spec' = [spec EXCEPT ![pend[p]].job = MergeJobs(@, found)]
              /\ UNCHANGED pend
      /\ UNCHANGED <<mode, busy, job, recent, lock, call, database, promised,
                     bounds>>

(* The transaction commits: the kept rows carry the merged job, the others, *)
(* and those of a project whose root is gone (an import has none yet), are  *)
(* cancelled.  Then _requeue dispatches.                                    *)
Requeue ==
  \E gone \in SUBSET {p \in Projects : initialized[p]} :
    LET pd == [p \in Projects |-> IF p \in gone THEN None ELSE pend[p]]
        queued == {r \in RunIds : row[r].status = "queued"}
        kept == {r \in queued : pd[ProjectOf(r)] = r}
    IN  /\ mode = "starting"
        /\ \A r \in queued : r <= cursor
        /\ mode' = "up"
        /\ row' = [r \in RunIds |->
             IF r \in kept THEN [row[r] EXCEPT !.queued = Row(spec[r].job)]
             ELSE IF r \in queued THEN Ended(r, "cancelled")
             ELSE row[r]]
        /\ promised' = [r \in RunIds |->
             IF r \in kept
             THEN UNION {promised[q] : q \in
                           {x \in queued : ProjectOf(x) = ProjectOf(r)}}
             ELSE IF r \in queued THEN {} ELSE promised[r]]
        /\ Start(pd, busy, job, spec)
        /\ UNCHANGED <<spec, lock, call, cursor, scanned, initialized, bounds>>

-----------------------------------------------------------------------------

Init ==
  /\ mode = "up"
  /\ pend = [p \in Projects |-> None]
  /\ busy = [p \in Projects |-> None]
  /\ spec = [r \in RunIds |-> NoSpec]
  /\ job = [r \in RunIds |-> NoJob]
  /\ recent = {}
  /\ lock = None
  /\ call = [c \in Callers |-> NoCall]
  /\ cursor = 0
  /\ row = [r \in RunIds |-> NoRow]
  /\ scanned \in {f \in [Projects -> BOOLEAN] : \A p \in Importing : ~f[p]}
  /\ initialized = [p \in Projects |-> p \notin Importing]
  /\ promised = [r \in RunIds |-> {}]
  /\ faults = 0
  /\ stops = 0

CallerStep(c) ==
  \/ \E p \in Projects, ask \in Asks : Request(c, p, ask)
  \/ \E p \in Projects, may \in BOOLEAN :
       CancelQueued(c, p, may) \/ CancelRunning(c, p, may)
  \/ Acquire(c)
  \/ Holding(c)

JobStep(r) ==
  \/ Begin(r) \/ FailsEarly(r) \/ SyncGivesUp(r) \/ CloneDone(r)
  \/ NothingToScan(r) \/ StopsBeforeChild(r) \/ Spawn(r) \/ ChildExits(r)
  \/ FinishRun(r) \/ FinishRunFails(r) \/ Retire(r)

Next ==
  \/ \E c \in Callers : CallerStep(c)
  \/ \E r \in RunIds : JobStep(r) \/ RecoverRow(r)
  \/ \E p \in Projects : DebounceEnds(p) \/ WakeUp(p)
  \/ Shutdown \/ MarkLeftover \/ MarkLeftoverFails \/ Exit \/ Crash
  \/ MarkStale \/ Requeue

Spec == Init /\ [][Next]_vars

(***************************************************************************)
(* Fairness: a handler that waits gets the lock (anyio.Lock is first come, *)
(* first served) and one that holds it goes on; a job's thread, its child  *)
(* and the timers make progress; a portal that is down is started again.   *)
(***************************************************************************)
Fairness ==
  /\ \A c \in Callers : SF_vars(Acquire(c)) /\ WF_vars(Holding(c))
  /\ \A r \in RunIds : WF_vars(JobStep(r)) /\ WF_vars(RecoverRow(r))
  /\ \A p \in Projects : WF_vars(DebounceEnds(p)) /\ WF_vars(WakeUp(p))
  /\ WF_vars(MarkLeftover) /\ WF_vars(Exit) /\ WF_vars(MarkStale)
  /\ WF_vars(Requeue)

FairSpec == Spec /\ Fairness

-----------------------------------------------------------------------------

TypeOK ==
  /\ mode \in {"down", "starting", "up", "stopping", "stopped"}
  /\ pend \in [Projects -> RunIds \cup {None}]
  /\ busy \in [Projects -> RunIds \cup {None}]
  /\ spec \in [RunIds -> PendingSpec]
  /\ job \in [RunIds -> JobState]
  /\ recent \subseteq Projects
  /\ lock \in Callers \cup {None}
  /\ call \in [Callers -> Frame]
  /\ cursor \in RunIds \cup {0}
  /\ row \in [RunIds -> ScanRun]
  /\ scanned \in [Projects -> BOOLEAN]
  /\ initialized \in [Projects -> BOOLEAN]
  /\ promised \in [RunIds -> SUBSET Job]
  /\ faults \in 0..MaxFaults
  /\ stops \in 0..MaxStops

(***************************************************************************)
(* A checkout never moves the tree under a running crawl: of two jobs of a *)
(* project at most one is between its first and its last transaction, and  *)
(* no more jobs than the cap run at all (ScanRunner's first promises).     *)
(***************************************************************************)
SingleFlight ==
  \A r, q \in RunIds : Live(r) /\ Live(q) /\ ProjectOf(r) = ProjectOf(q) => r = q

CapRespected == Cardinality({r \in RunIds : Live(r)}) <= MaxConcurrent

(* Both, under every interleaving of requests, cancels and jobs that end.  *)
JobsAreLimited == SingleFlight /\ CapRespected

(***************************************************************************)
(* What a caller was told is queued is not lost: the row of a run that has *)
(* not ended carries the work of every request answered with its id, even  *)
(* while the portal is down, and so does the job in memory.                *)
(***************************************************************************)
Covers(j, r) ==
  \A g \in promised[r], moved \in BOOLEAN :
    Work(g, Source, moved) \subseteq Work(j, Source, moved)

AnsweredWorkKept ==
  \A r \in RunIds :
    /\ row[r].status \in {"queued", "running"} => Covers(Recovered(row[r].queued), r)
    /\ Live(r) \/ r \in {pend[p] : p \in Projects} => Covers(spec[r].job, r)

(***************************************************************************)
(* While the portal serves, a row that says queued or running has a        *)
(* pending run, a job, or a handler about to make or end it: is_busy never *)
(* reports a project busy (and a removal never waits) for nothing.         *)
(***************************************************************************)
RowsMatch ==
  \A r \in RunIds :
    /\ row[r].status = "queued" =>
         \/ pend[ProjectOf(r)] = r
         \/ busy[ProjectOf(r)] = r
         \/ \E c \in Callers : call[c].run = r /\ call[c].pc \in {"register", "mark"}
    /\ row[r].status = "running" => busy[ProjectOf(r)] = r

RowsMatchQueue == mode = "up" /\ faults = 0 => RowsMatch

(***************************************************************************)
(* A transaction that failed may have left a row queued or running with    *)
(* nothing behind it.  It stays so until the portal starts again, and no   *)
(* longer: whatever failed and however the portal stopped, a start leaves  *)
(* every such row ended, or with its run pending or started.               *)
(***************************************************************************)
StartRepairs == [][mode = "starting" /\ mode' = "up" => RowsMatch']_vars

(***************************************************************************)
(* No LLM money without a right to spend it and a completed first scan: a  *)
(* job that describes was asked to by a caller that may spend, and its     *)
(* project was scanned before (a first run is structure-only).             *)
(***************************************************************************)
SpendingIsGranted ==
  \A r \in RunIds :
    Live(r) /\ spec[r].job.analyze =>
      /\ scanned[ProjectOf(r)]
      /\ \E a \in Asks : a.maySpend /\ a.job.analyze /\ a.job.by = spec[r].job.by

(* One org's imports clone one at a time. *)
OneImportPerOrg ==
  \A r, q \in RunIds :
    /\ Live(r) /\ Live(q) /\ spec[r].importing /\ spec[q].importing
    /\ OrgOf[ProjectOf(r)] = OrgOf[ProjectOf(q)]
    => r = q

(***************************************************************************)
(* A run that ended ok, failed or cancelled stays so, whatever thread,     *)
(* late update or restart still touches its row.  (interrupted may be      *)
(* overwritten: a thread that outlives the stop's deadline still records   *)
(* what it did.)                                                           *)
(***************************************************************************)
EndedStaysEnded ==
  [][\A r \in RunIds :
       row[r].status \in {"ok", "failed", "cancelled"} =>
         row'[r].status = row[r].status]_vars

(* Every queued run ends. *)
QueuedRunsEnd ==
  \A r \in RunIds : row[r].status = "queued" ~> row[r].status \in Final

(***************************************************************************)
(* The queue keeps the promises of RunLedger to its callers: see there.  A *)
(* run's state is its row's, except that a row which says running, and no  *)
(* job for it, is that of a run whose end could not be recorded; what it   *)
(* does is in memory while it is pending or has a job.                     *)
(***************************************************************************)
LedgerState ==
  [r \in RunIds |->
     IF row[r].status \in {"none", "queued"} THEN row[r].status
     ELSE IF job[r].phase \notin {"idle", "done"} THEN "running" ELSE "over"]

StepsOf == [j \in Job |->
  {ms \in BOOLEAN \X Steps : ms[2] \in Work(j, Source, ms[1])}]

LedgerDoes ==
  [r \in RunIds |->
     StepsOf[IF Live(r) \/ r \in {pend[p] : p \in Projects} THEN spec[r].job
             ELSE Recovered(row[r].queued)]]

Ledger == INSTANCE RunLedger
  WITH Runs <- RunIds, Steps <- BOOLEAN \X Steps, state <- LedgerState,
       project <- [r \in RunIds |-> ProjectOf(r)], does <- LedgerDoes,
       owes <- [r \in RunIds |-> UNION {StepsOf[g] : g \in promised[r]}]

KeepsPromises == Ledger!Spec

=============================================================================
