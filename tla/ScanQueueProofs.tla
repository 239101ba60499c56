-------------------------- MODULE ScanQueueProofs ---------------------------
(***************************************************************************)
(* For any number of projects, callers, rows, faults and restarts: one job *)
(* per project, never more jobs than the cap, one clone per org at a time, *)
(* rows that ended stay so, nobody spends without the right to, the rows   *)
(* agree with the queue, and what a caller was told is queued is not lost. *)
(*                                                                         *)
(* There are three inductions, each on top of the one before it: what the  *)
(* three places a run lives in (its row, _pending, _running) say of each   *)
(* other; who is behind every row that has not ended; and what work a row  *)
(* and a run in memory owe to those who were promised it.                  *)
(***************************************************************************)
EXTENDS ScanQueue, ScanPolicyProofs, FiniteSetTheorems, TLAPS

(***************************************************************************)
(* The first induction ties the three places a run lives in to each other  *)
(* and to the frame of the handler that holds the runner's lock.           *)
(***************************************************************************)
(* Every row has its project. *)
RowsOK(rw) == \A r \in RunIds : rw[r].status # "none" => rw[r].project \in Projects

(* A pending run is a queued row of its project without a job. *)
PendOK(rw, pd, jb) ==
  \A p \in Projects : pd[p] # None =>
    /\ rw[pd[p]].status = "queued"
    /\ rw[pd[p]].project = p
    /\ jb[pd[p]].phase = "idle"

(* A job holds its project's slot, and until it ends its row is not final *)
(* (a stop may have recorded it interrupted).                             *)
JobsOK(rw, bz, jb) ==
  \A r \in RunIds : jb[r].phase # "idle" =>
    /\ rw[r].project \in Projects
    /\ bz[rw[r].project] = r
    /\ rw[r].status # "none"
    /\ jb[r].phase # "done" => rw[r].status \in {"queued", "running", "interrupted"}

(* A taken slot has its job. *)
SlotsOK(rw, bz, jb) ==
  \A p \in Projects : bz[p] # None =>
    rw[bz[p]].project = p /\ jb[bz[p]].phase # "idle"

CapOK(bz) == Cardinality(Running(bz)) <= MaxConcurrent

ImportsOK(bz, sp) ==
  \A p, q \in Projects :
    /\ bz[p] # None /\ bz[q] # None
    /\ sp[bz[p]].importing /\ sp[bz[q]].importing
    /\ OrgOf[p] = OrgOf[q]
    => p = q

(* Only the holder of the lock is past it; the run it is about to register *)
(* or to mark cancelled belongs to it alone.                               *)
FramesOK(rw, pd, jb, lk, cl) ==
  \A c \in Callers :
    /\ cl[c].pc # "idle" => cl[c].project \in Projects
    /\ cl[c].pc \notin {"idle", "wait"} => lk = c
    /\ cl[c].pc \in {"update", "return", "register", "mark"} => cl[c].run \in RunIds
    /\ cl[c].pc \in {"register", "mark"} =>
         /\ rw[cl[c].run].status = "queued"
         /\ jb[cl[c].run].phase = "idle"
         /\ \A p \in Projects : pd[p] # cl[c].run
    /\ cl[c].pc = "register" => rw[cl[c].run].project = cl[c].project

(* A portal that does not serve yet has no job and no handler. *)
DownOK(md, pd, jb, cl) ==
  /\ md \in {"down", "starting"} =>
       /\ \A r \in RunIds : jb[r].phase = "idle"
       /\ \A c \in Callers : cl[c].pc = "idle"
  /\ md = "down" => \A p \in Projects : pd[p] = None

QueueOK(rw, pd, bz, jb, sp) ==
  /\ RowsOK(rw)
  /\ PendOK(rw, pd, jb)
  /\ JobsOK(rw, bz, jb)
  /\ SlotsOK(rw, bz, jb)
  /\ CapOK(bz)
  /\ ImportsOK(bz, sp)

IInv ==
  /\ TypeOK
  /\ QueueOK(row, pend, busy, job, spec)
  /\ FramesOK(row, pend, job, lock, call)
  /\ DownOK(mode, pend, job, call)

-----------------------------------------------------------------------------

(* What is asked is a job, and who asks for an analysis is a person. *)
LEMMA AskedJobs ==
  \A a \in Asks : /\ a.job \in Job
                  /\ a.job.analyze => a.job.by \in Users
BY QueueAssumption DEF Requests, ByPeople, ByHooks, ByGitHub, ResolveAnalyze, Explicit

(* The types are those of the model's records. *)
LEMMA JobStateTyped ==
  /\ NoJob \in JobState /\ NoJob.phase = "idle"
  /\ NewJob \in JobState /\ NewJob.phase = "start"
BY DEF NoJob, NewJob, JobState, Phases, Final

(* A dispatch starts runs that were pending, on slots that were free, and  *)
(* stops at the cap and at an org's clone.                                 *)
LEMMA DispatchKeeps ==
  ASSUME TypeOK,
         NEW rw \in [RunIds -> ScanRun],
         NEW pd \in [Projects -> RunIds \cup {None}],
         NEW bz \in [Projects -> RunIds \cup {None}],
         NEW jb \in [RunIds -> JobState],
         NEW sp \in [RunIds -> PendingSpec],
         QueueOK(rw, pd, bz, jb, sp),
         Dispatch(pd, bz, jb, sp) \/ Start(pd, bz, jb, sp)
  PROVE  /\ pend' \in [Projects -> RunIds \cup {None}]
         /\ busy' \in [Projects -> RunIds \cup {None}]
         /\ job' \in [RunIds -> JobState]
         /\ recent' \subseteq Projects
         /\ QueueOK(rw, pend', busy', job', sp)
         /\ \A p \in Projects : pend'[p] \in {None, pd[p]}
         /\ \A r \in RunIds :
              job'[r] # jb[r] => \E p \in Projects : pd[p] = r
<1> USE DEF QueueOK
<1>1. CASE pend' = pd /\ busy' = bz /\ job' = jb /\ recent' = recent
  BY <1>1 DEF TypeOK
<1>2. CASE Start(pd, bz, jb, sp)
  <2>1. PICK D \in SUBSET Eligible(pd, bz, sp) :
          /\ D # {} => ~AtCap(Cardinality(Running(bz) \cup D) - 1)
          /\ \A p \in D, q \in Eligible(pd, bz, sp) \ D : pd[p] < pd[q]
          /\ pend' = [p \in Projects |-> IF p \in D THEN None ELSE pd[p]]
          /\ busy' = [p \in Projects |-> IF p \in D THEN pd[p] ELSE bz[p]]
          /\ job' = [r \in RunIds |-> IF \E p \in D : pd[p] = r
                                      THEN NewJob ELSE jb[r]]
          /\ recent' = recent \cup {p \in D : sp[pd[p]].job.trigger = "forge"}
    BY <1>2 DEF Start
  <2>2. \A p \in D : p \in Projects /\ pd[p] \in RunIds /\ pd[p] # None /\ bz[p] = None
    BY DEF Eligible, Waiting, None
  <2>3. \A p \in D : rw[pd[p]].status = "queued" /\ rw[pd[p]].project = p
                     /\ jb[pd[p]].phase = "idle"
    BY <2>2 DEF PendOK
  <2>4. /\ pend' \in [Projects -> RunIds \cup {None}]
        /\ busy' \in [Projects -> RunIds \cup {None}]
        /\ job' \in [RunIds -> JobState]
        /\ recent' \subseteq Projects
    BY <2>1, <2>2, JobStateTyped DEF TypeOK
  <2>5. PendOK(rw, pend', job')
    BY <2>1, <2>2, <2>3 DEF PendOK
  <2>6. \A r \in RunIds :
          IF \E p \in D : pd[p] = r
          THEN job'[r].phase = "start" ELSE job'[r] = jb[r]
    BY <2>1, <2>4, JobStateTyped
  <2>7. JobsOK(rw, busy', job')
    <3> SUFFICES ASSUME NEW r \in RunIds, job'[r].phase # "idle"
                 PROVE  /\ rw[r].project \in Projects
                        /\ busy'[rw[r].project] = r
                        /\ rw[r].status # "none"
                        /\ job'[r].phase # "done" =>
                             rw[r].status \in {"queued", "running", "interrupted"}
      BY DEF JobsOK
    <3>1. CASE \E p \in D : pd[p] = r
      BY <3>1, <2>1, <2>2, <2>3
    <3>2. CASE ~\E p \in D : pd[p] = r
      <4>1. jb[r].phase # "idle" /\ job'[r] = jb[r]
        BY <3>2, <2>6
      <4>2. rw[r].project \notin D
        BY <4>1, <2>2 DEF JobsOK, None, RunIds
      <4> QED BY <4>1, <4>2, <2>1 DEF JobsOK
    <3> QED BY <3>1, <3>2
  <2>8. SlotsOK(rw, busy', job')
    BY <2>1, <2>2, <2>3, <2>6 DEF SlotsOK, None, RunIds
  <2>9. CapOK(busy')
    <3>1. Running(busy') = Running(bz) \cup D
      BY <2>1, <2>2 DEF Running
    <3>2. CASE D = {}
      BY <3>1, <3>2 DEF CapOK
    <3>3. CASE D # {}
      <4>1. IsFiniteSet(Running(bz) \cup D)
        BY <2>2, QueueAssumption, FS_Subset DEF Running
      <4>2. Cardinality(Running(bz) \cup D) \in Nat
        BY <4>1, FS_CardinalityType
      <4> QED BY <3>1, <3>3, <4>2, <2>1, QueueAssumption DEF CapOK, AtCap
    <3> QED BY <3>2, <3>3
  <2>10. ImportsOK(busy', sp)
    <3> SUFFICES ASSUME NEW p \in Projects, NEW q \in Projects,
                        busy'[p] # None, busy'[q] # None,
                        sp[busy'[p]].importing, sp[busy'[q]].importing,
                        OrgOf[p] = OrgOf[q]
                 PROVE  p = q
      BY DEF ImportsOK
    <3>1. ASSUME NEW x \in D, NEW y \in Projects, sp[pd[x]].importing,
                 bz[y] # None, sp[bz[y]].importing, OrgOf[x] = OrgOf[y]
          PROVE  FALSE
      BY <3>1 DEF Eligible, Waiting, Cloning, Running
    <3>2. ASSUME NEW x \in D, NEW y \in D, sp[pd[x]].importing,
                 sp[pd[y]].importing, OrgOf[x] = OrgOf[y]
          PROVE  x = y
      <4>1. pd[x] <= pd[y] /\ pd[y] <= pd[x]
        BY <3>2 DEF Eligible
      <4>2. pd[x] = pd[y]
        BY <4>1, <2>2 DEF RunIds
      <4> QED BY <4>2, <2>3
    <3>3. CASE p \in D /\ q \in D
      BY <3>2, <3>3, <2>1
    <3>4. CASE p \in D /\ q \notin D
      BY <3>1, <3>4, <2>1
    <3>5. CASE p \notin D /\ q \in D
      BY <3>1, <3>5, <2>1
    <3>6. CASE p \notin D /\ q \notin D
      BY <3>6, <2>1 DEF ImportsOK
    <3> QED BY <3>3, <3>4, <3>5, <3>6
  <2> QED BY <2>1, <2>2, <2>4, <2>5, <2>6, <2>7, <2>8, <2>9, <2>10
<1> QED BY <1>1, <1>2 DEF Dispatch

(* The initial states. *)
LEMMA InitInv == Init => IInv
<1> SUFFICES ASSUME Init PROVE IInv
  OBVIOUS
<1>1. NoCall \in Frame /\ NoCall.pc = "idle"
  BY QueueAssumption DEF NoCall, Frame
<1>2. NoRow \in ScanRun
  <2>1. AnyJob \in Job
    BY DEF AnyJob, Job, Triggers
  <2>2. Row(AnyJob) \in Columns
    BY <2>1 DEF Row, Job, Columns
  <2> QED BY <2>2 DEF NoRow, ScanRun
<1>3. NoSpec \in PendingSpec
  BY DEF NoSpec, PendingSpec, AnyJob, Job, Triggers
<1>4. TypeOK
  BY <1>1, <1>2, <1>3, JobStateTyped, QueueAssumption DEF Init, TypeOK
<1>8. RowsOK(row)
  BY DEF Init, RowsOK, NoRow
<1>5. PendOK(row, pend, job) /\ JobsOK(row, busy, job) /\ SlotsOK(row, busy, job)
  BY JobStateTyped DEF Init, PendOK, JobsOK, SlotsOK
<1>6. CapOK(busy) /\ ImportsOK(busy, spec)
  <2>1. Running(busy) = {}
    BY DEF Init, Running
  <2> QED BY <2>1, FS_EmptySet, QueueAssumption, SMTT(30) DEF Init, CapOK, ImportsOK
<1>7. FramesOK(row, pend, job, lock, call) /\ DownOK(mode, pend, job, call)
  BY <1>1, JobStateTyped DEF Init, FramesOK, DownOK
<1> QED BY <1>4, <1>5, <1>6, <1>7, <1>8 DEF IInv, QueueOK

(* The induction step.  First what every step that is no dispatch leaves   *)
(* of the queue, then of the frames it does not touch or ends.             *)
LEMMA QueueStays ==
  ASSUME IInv, TypeOK', UNCHANGED <<pend, busy>>,
         \A r \in RunIds :
           /\ row'[r].project = row[r].project
           /\ job'[r].phase = "idle" <=> job[r].phase = "idle"
           /\ row'[r].status = "none" <=> row[r].status = "none"
           /\ job'[r].phase \notin {"idle", "done"} =>
                row'[r].status \in {"queued", "running", "interrupted"}
           /\ job[r].phase # "idle" => spec'[r].importing = spec[r].importing,
         \A p \in Projects : pend[p] # None => row'[pend[p]].status = "queued"
  PROVE  QueueOK(row, pend, busy, job, spec)'
<1>1. PendOK(row, pend, job)'
  BY DEF IInv, TypeOK, QueueOK, PendOK, None
<1>4. JobsOK(row, busy, job)'
  <2> SUFFICES ASSUME NEW r \in RunIds, job'[r].phase # "idle"
               PROVE  /\ row'[r].project \in Projects
                      /\ busy'[row'[r].project] = r
                      /\ row'[r].status # "none"
    BY DEF JobsOK
  <2>1. row'[r].project = row[r].project /\ job[r].phase # "idle"
    OBVIOUS
  <2> QED BY <2>1 DEF IInv, QueueOK, JobsOK
<1>5. SlotsOK(row, busy, job)'
  <2> SUFFICES ASSUME NEW p \in Projects, busy[p] # None
               PROVE  /\ row'[busy[p]].project = p
                      /\ job'[busy[p]].phase # "idle"
    BY DEF SlotsOK
  <2>1. busy[p] \in RunIds
    BY DEF IInv, TypeOK, None
  <2> QED BY <2>1 DEF IInv, QueueOK, SlotsOK
<1>2. CapOK(busy)'
  BY DEF IInv, QueueOK, CapOK, Running
<1>3. ImportsOK(busy, spec)'
  BY DEF IInv, TypeOK, QueueOK, ImportsOK, SlotsOK, None
<1>6. RowsOK(row)'
  BY DEF IInv, QueueOK, RowsOK
<1> QED BY <1>1, <1>2, <1>3, <1>4, <1>5, <1>6 DEF QueueOK

(* A step that leaves the rows, the queue and the jobs alone keeps the queue. *)
LEMMA QueueUnchanged ==
  ASSUME IInv, TypeOK', UNCHANGED <<row, pend, busy, job, spec>>
  PROVE  QueueOK(row, pend, busy, job, spec)'
<1>1. \A r \in RunIds : job[r].phase \notin {"idle", "done"} =>
        row[r].status \in {"queued", "running", "interrupted"}
  BY DEF IInv, QueueOK, JobsOK
<1>2. \A p \in Projects : pend[p] # None => row[pend[p]].status = "queued"
  BY DEF IInv, QueueOK, PendOK
<1> QED BY <1>1, <1>2, QueueStays

(* A step that moves no handler past the lock keeps the frames. *)
LEMMA FramesStay ==
  ASSUME IInv, UNCHANGED <<lock, call>>,
         \A r \in RunIds :
           /\ row'[r].project = row[r].project
           /\ row[r].status = "queued" /\ job[r].phase = "idle"
                /\ (\A p \in Projects : pend[p] # r) =>
                /\ row'[r].status = "queued"
                /\ job'[r].phase = "idle"
                /\ \A p \in Projects : pend'[p] # r
  PROVE  FramesOK(row, pend, job, lock, call)'
BY DEF IInv, FramesOK

(* A frame that ends: no other one is past the lock. *)
LEMMA FrameEnds ==
  ASSUME IInv, NEW c \in Callers, call[c].pc \notin {"idle", "wait"},
         call' = [call EXCEPT ![c] = NoCall]
  PROVE  /\ call' \in [Callers -> Frame]
         /\ FramesOK(row, pend, job, lock, call)'
         /\ \A d \in Callers : call[d].pc = "idle" => call'[d].pc = "idle"
<1>1. NoCall \in Frame /\ NoCall.pc = "idle"
  BY QueueAssumption DEF NoCall, Frame
<1>2. \A d \in Callers : call'[d] = IF d = c THEN NoCall ELSE call[d]
  BY DEF IInv, TypeOK
<1>3. \A d \in Callers \ {c} : call[d].pc \in {"idle", "wait"}
  BY DEF IInv, FramesOK
<1> QED BY <1>1, <1>2, <1>3 DEF IInv, TypeOK, FramesOK

-----------------------------------------------------------------------------

(* A request that enters, and one that gets the lock. *)
LEMMA RequestInv ==
  ASSUME IInv, NEW c \in Callers, NEW p \in Projects, NEW ask \in Asks,
         Request(c, p, ask)
  PROVE  IInv'
<1>1. TypeOK'
  BY DEF IInv, TypeOK, Request, database, bounds, Frame
<1>2. QueueOK(row, pend, busy, job, spec)'
  BY <1>1, QueueUnchanged DEF Request, database
<1>3. FramesOK(row, pend, job, lock, call)'
  BY DEF IInv, TypeOK, Request, database, FramesOK
<1>4. DownOK(mode, pend, job, call)'
  BY DEF IInv, Request, DownOK
<1> QED BY <1>1, <1>2, <1>3, <1>4 DEF IInv

(* The lock goes to one handler only. *)
LEMMA AcquireInv ==
  ASSUME IInv, NEW c \in Callers, Acquire(c)
  PROVE  IInv'
<1> DEFINE f == [Goto(c, "decide", None) EXCEPT !.hasOk = scanned[call[c].project]]
<1>1. call[c] \in Frame /\ call[c].project \in Projects
      /\ scanned[call[c].project] \in BOOLEAN
  BY DEF IInv, TypeOK, FramesOK, Acquire
<1>2. f \in Frame /\ f.pc = "decide" /\ f.project = call[c].project
  BY <1>1 DEF Goto, Frame
<1>3. /\ call' \in [Callers -> Frame]
      /\ \A d \in Callers : call'[d] = IF d = c THEN f ELSE call[d]
  BY <1>2 DEF IInv, TypeOK, Acquire
<1>4. TypeOK'
  BY <1>3 DEF IInv, TypeOK, Acquire, database, bounds
<1>5. QueueOK(row, pend, busy, job, spec)'
  BY <1>4, QueueUnchanged DEF Acquire, database
<1>6. \A d \in Callers : call[d].pc \in {"idle", "wait"}
  BY QueueAssumption DEF IInv, TypeOK, FramesOK, Acquire, None, Frame
<1>7. FramesOK(row, pend, job, lock, call)'
  BY <1>1, <1>2, <1>3, <1>6 DEF IInv, FramesOK, Acquire
<1>8. DownOK(mode, pend, job, call)'
  BY DEF IInv, Acquire, DownOK
<1> QED BY <1>4, <1>5, <1>7, <1>8 DEF IInv

(* A handler that gives up: refused, or its transaction failed. *)
LEMMA GivesUpInv ==
  ASSUME IInv, NEW c \in Callers,
         Refuse(c) \/ InsertFails(c) \/ UpdateFails(c) \/ MarkCancelledFails(c)
  PROVE  IInv'
<1>1. /\ call[c].pc \notin {"idle", "wait"}
      /\ call' = [call EXCEPT ![c] = NoCall]
      /\ lock' = None
      /\ UNCHANGED <<mode, pend, busy, spec, job, recent, cursor, database, promised,
                     stops>>
      /\ faults' \in 0..MaxFaults
  BY QueueAssumption DEF IInv, TypeOK, Refuse, InsertFails, UpdateFails,
     MarkCancelledFails, bounds
<1>2. TypeOK'
  BY <1>1, FrameEnds DEF IInv, TypeOK, database
<1>3. QueueOK(row, pend, busy, job, spec)'
  BY <1>1, <1>2, QueueUnchanged DEF database
<1>4. DownOK(mode, pend, job, call)'
  BY <1>1, FrameEnds DEF IInv, DownOK
<1> QED BY <1>1, <1>2, <1>3, <1>4, FrameEnds DEF IInv

(* A handler that will insert keeps the lock and owns no run yet. *)
LEMMA DecideNewInv ==
  ASSUME IInv, NEW c \in Callers, DecideNew(c)
  PROVE  IInv'
<1>1. TypeOK'
  BY DEF IInv, TypeOK, DecideNew, Goto, database, bounds, Frame, FramesOK
<1>2. QueueOK(row, pend, busy, job, spec)'
  BY <1>1, QueueUnchanged DEF DecideNew, database, bounds
<1>3. FramesOK(row, pend, job, lock, call)'
  BY DEF IInv, TypeOK, DecideNew, MayProceed, Goto, database, FramesOK, Frame
<1>4. DownOK(mode, pend, job, call)'
  BY DEF IInv, TypeOK, DecideNew, MayProceed, Goto, DownOK
<1> QED BY <1>1, <1>2, <1>3, <1>4 DEF IInv

(* What is granted of a request is a job again. *)
LEMMA GrantedJob ==
  ASSUME TypeOK, NEW c \in Callers
  PROVE  Granting(c) \in Job
<1>1. call[c].ask.job \in Job /\ call[c].hasOk \in BOOLEAN
  BY AskedJobs DEF TypeOK, Frame
<1> QED BY <1>1 DEF Granting, Granted, Job, Triggers

(* A job's row has the columns' types. *)
LEMMA RowTyped ==
  ASSUME NEW j \in Job
  PROVE  Row(j) \in Columns
BY DEF Row, Job, Columns

(* Two jobs merge into a job. *)
LEMMA MergedJob ==
  ASSUME NEW a \in Job, NEW b \in Job
  PROVE  MergeJobs(a, b) \in Job
BY DEF MergeJobs, MergeTrigger, Job

(* A new row belongs to nobody but the handler that inserted it. *)
LEMMA InsertInv ==
  ASSUME IInv, NEW c \in Callers, Insert(c)
  PROVE  IInv'
<1>1. PICK r \in RunIds :
        /\ row[r].status = "none"
        /\ row' = [row EXCEPT ![r] = [status |-> "queued",
                                      project |-> call[c].project,
                                      queued |-> Row(Granting(c)),
                                      outcome |-> FALSE]]
        /\ call' = [call EXCEPT ![c] = Goto(c, "register", r)]
  BY DEF Insert
<1> DEFINE new == [status |-> "queued", project |-> call[c].project,
                   queued |-> Row(Granting(c)), outcome |-> FALSE]
<1>2. call[c].pc = "insert" /\ call[c].project \in Projects /\ lock = c
  BY DEF Insert, IInv, FramesOK
<1>3. new \in ScanRun
  BY <1>2, GrantedJob, RowTyped DEF IInv, TypeOK, ScanRun
<1>4. /\ job[r].phase = "idle"
      /\ \A p \in Projects : pend[p] # r /\ busy[p] # r
  BY <1>1 DEF IInv, TypeOK, QueueOK, JobsOK, PendOK, SlotsOK, None, RunIds
<1>5. /\ row' \in [RunIds -> ScanRun]
      /\ row'[r].status = "queued" /\ row'[r].project = call[c].project
      /\ \A q \in RunIds \ {r} : row'[q] = row[q]
  BY <1>1, <1>3 DEF IInv, TypeOK
<1>6. TypeOK'
  BY <1>1, <1>5 DEF IInv, TypeOK, Insert, Goto, bounds, Frame
<1>7. QueueOK(row, pend, busy, job, spec)'
  <2>1. PendOK(row, pend, job)'
    BY <1>4, <1>5 DEF IInv, TypeOK, QueueOK, PendOK, Insert, None
  <2>2. JobsOK(row, busy, job)'
    BY <1>4, <1>5 DEF IInv, QueueOK, JobsOK, Insert
  <2>3. SlotsOK(row, busy, job)'
    BY <1>4, <1>5 DEF IInv, TypeOK, QueueOK, SlotsOK, Insert, None
  <2>4. CapOK(busy)' /\ ImportsOK(busy, spec)'
    BY DEF IInv, QueueOK, CapOK, ImportsOK, Running, Insert
  <2>5. RowsOK(row)'
    BY <1>2, <1>5 DEF IInv, QueueOK, RowsOK
  <2> QED BY <2>1, <2>2, <2>3, <2>4, <2>5 DEF QueueOK
<1>8. FramesOK(row, pend, job, lock, call)'
  <2>1. \A d \in Callers \ {c} : call'[d] = call[d] /\ call[d].pc \in {"idle", "wait"}
    BY <1>1, <1>2 DEF IInv, TypeOK, FramesOK
  <2>2. /\ call'[c].pc = "register" /\ call'[c].run = r
        /\ call'[c].project = call[c].project
    BY <1>1 DEF IInv, TypeOK, Goto
  <2> QED BY <2>1, <2>2, <1>2, <1>4, <1>5 DEF IInv, FramesOK, Insert
<1>9. DownOK(mode, pend, job, call)'
  BY <1>2 DEF IInv, DownOK, Insert
<1> QED BY <1>6, <1>7, <1>8, <1>9 DEF IInv

(* The registered run is queued, pending nowhere else and has no job. *)
LEMMA RegisterInv ==
  ASSUME IInv, NEW c \in Callers, Register(c)
  PROVE  IInv'
<1> DEFINE p == call[c].project
           r == call[c].run
           new == [job |-> Granting(c), importing |-> call[c].importing,
                   held |-> Granting(c).trigger = "forge" /\ p \in recent]
           sp == [spec EXCEPT ![r] = new]
           pd == [pend EXCEPT ![p] = r]
<1>1. /\ call[c].pc = "register" /\ lock = c /\ p \in Projects /\ r \in RunIds
      /\ row[r].status = "queued" /\ row[r].project = p /\ job[r].phase = "idle"
      /\ \A q \in Projects : pend[q] # r
  BY DEF IInv, FramesOK, Register
<1>2. new \in PendingSpec
  BY GrantedJob DEF IInv, TypeOK, PendingSpec, Frame
<1>3. sp \in [RunIds -> PendingSpec] /\ pd \in [Projects -> RunIds \cup {None}]
  BY <1>1, <1>2 DEF IInv, TypeOK
<1>4. QueueOK(row, pd, busy, job, sp)
  <2>1. PendOK(row, pd, job)
    BY <1>1 DEF IInv, TypeOK, QueueOK, PendOK
  <2>2. \A q \in Projects : busy[q] # r
    BY <1>1 DEF IInv, QueueOK, SlotsOK, None, RunIds
  <2>3. ImportsOK(busy, sp)
    BY <2>2 DEF IInv, TypeOK, QueueOK, ImportsOK, None
  <2> QED BY <2>1, <2>3 DEF IInv, QueueOK
<1>5. Dispatch(pd, busy, job, sp) /\ spec' = sp /\ call' = [call EXCEPT ![c] = NoCall]
      /\ lock' = None /\ UNCHANGED <<mode, cursor, database, bounds>>
      /\ promised' = [promised EXCEPT ![r] = @ \cup {Granting(c)}]
  BY DEF Register
<1>6. /\ pend' \in [Projects -> RunIds \cup {None}]
      /\ busy' \in [Projects -> RunIds \cup {None}]
      /\ job' \in [RunIds -> JobState]
      /\ recent' \subseteq Projects
      /\ QueueOK(row, pend', busy', job', sp)
  <2>1. /\ TypeOK /\ row \in [RunIds -> ScanRun]
        /\ busy \in [Projects -> RunIds \cup {None}]
        /\ job \in [RunIds -> JobState]
    BY DEF IInv, TypeOK
  <2> HIDE DEF pd, sp
  <2> QED BY <2>1, <1>3, <1>4, <1>5, DispatchKeeps
<1>7. TypeOK'
  <2>1. Granting(c) \in Job
    BY GrantedJob DEF IInv
  <2>2. promised' \in [RunIds -> SUBSET Job]
    BY <2>1, <1>1, <1>5 DEF IInv, TypeOK
  <2>3. call' \in [Callers -> Frame]
    BY <1>1, <1>5, FrameEnds
  <2> HIDE DEF sp
  <2> QED BY <2>2, <2>3, <1>3, <1>5, <1>6 DEF IInv, TypeOK, database, bounds
<1>8. QueueOK(row, pend, busy, job, spec)'
  BY <1>5, <1>6 DEF QueueOK, RowsOK, PendOK, JobsOK, SlotsOK, CapOK, ImportsOK, Running, database
<1>9. DownOK(mode, pend, job, call)'
  BY <1>1, <1>5 DEF IInv, DownOK
<1> QED BY <1>1, <1>5, <1>7, <1>8, <1>9, FrameEnds DEF IInv

(* A merge changes a pending run, which no job shares yet. *)
LEMMA DecideMergeInv ==
  ASSUME IInv, NEW c \in Callers, DecideMerge(c)
  PROVE  IInv'
<1> DEFINE r == pend[call[c].project]
           merged == MergeJobs(spec[r].job, Granting(c))
           new == [job |-> merged,
                   importing |-> spec[r].importing \/ call[c].importing,
                   held |-> spec[r].held /\ merged.trigger = "forge"]
<1>1. /\ call[c].pc = "decide" /\ call[c].project \in Projects /\ lock = c
      /\ r \in RunIds /\ job[r].phase = "idle"
  BY DEF IInv, TypeOK, FramesOK, DecideMerge, MayProceed, QueueOK, PendOK, None
<1>2. /\ spec' = [spec EXCEPT ![r] = new]
      /\ call' = [call EXCEPT ![c] = Goto(c, "update", r)]
      /\ UNCHANGED <<mode, pend, busy, job, recent, lock, cursor, database,
                     promised, bounds>>
  BY DEF DecideMerge
<1>3. merged \in Job
  BY <1>1, MergedJob, GrantedJob DEF IInv, TypeOK, PendingSpec
<1>4. new \in PendingSpec
  BY <1>1, <1>3 DEF IInv, TypeOK, PendingSpec, Frame
<1>5. /\ Goto(c, "update", r) \in Frame
      /\ Goto(c, "update", r).pc = "update"
      /\ Goto(c, "update", r).project = call[c].project
      /\ Goto(c, "update", r).run = r
  BY <1>1 DEF IInv, TypeOK, Goto, Frame
<1> HIDE DEF new, r
<1>6. TypeOK'
  BY <1>1, <1>2, <1>4, <1>5 DEF IInv, TypeOK, database, bounds
<1>7. \A q \in RunIds : job[q].phase # "idle" => spec'[q] = spec[q]
  BY <1>1, <1>2 DEF IInv, TypeOK
<1>8. QueueOK(row, pend, busy, job, spec)'
  <2>1. \A q \in RunIds : job[q].phase \notin {"idle", "done"} =>
          row[q].status \in {"queued", "running", "interrupted"}
    BY DEF IInv, QueueOK, JobsOK
  <2>2. \A p \in Projects : pend[p] # None => row[pend[p]].status = "queued"
    BY DEF IInv, QueueOK, PendOK
  <2> QED BY <1>2, <1>6, <1>7, <2>1, <2>2, QueueStays DEF database
<1>9. FramesOK(row, pend, job, lock, call)'
  BY <1>1, <1>2, <1>5 DEF IInv, TypeOK, FramesOK, database
<1>10. DownOK(mode, pend, job, call)'
  BY <1>1, <1>2 DEF IInv, DownOK
<1> QED BY <1>6, <1>8, <1>9, <1>10 DEF IInv

(* The late write of a merge keeps the row's status and project. *)
LEMMA UpdateInv ==
  ASSUME IInv, NEW c \in Callers, Update(c)
  PROVE  IInv'
<1> DEFINE r == call[c].run
           new == Queued(r, spec[r].job)
<1>1. /\ call[c].pc = "update" /\ call[c].project \in Projects /\ lock = c
      /\ r \in RunIds
  BY DEF IInv, TypeOK, FramesOK, Update
<1>2. /\ row' = [row EXCEPT ![r] = new]
      /\ call' = [call EXCEPT ![c] = Goto(c, "return", r)]
      /\ UNCHANGED <<mode, pend, busy, spec, job, recent, lock, cursor, scanned,
                     initialized, promised, bounds>>
  BY DEF Update
<1>3. new \in ScanRun /\ new.status = row[r].status /\ new.project = row[r].project
  BY <1>1, RowTyped DEF IInv, TypeOK, PendingSpec, Queued, ProjectOf, ScanRun
<1>4. /\ Goto(c, "return", r) \in Frame
      /\ Goto(c, "return", r).pc = "return"
      /\ Goto(c, "return", r).project = call[c].project
      /\ Goto(c, "return", r).run = r
  BY <1>1 DEF IInv, TypeOK, Goto, Frame
<1> HIDE DEF new, r
<1>5. TypeOK'
  BY <1>1, <1>2, <1>3, <1>4 DEF IInv, TypeOK, bounds
<1>6. \A q \in RunIds : row'[q].status = row[q].status /\ row'[q].project = row[q].project
  BY <1>1, <1>2, <1>3 DEF IInv, TypeOK
<1>7. QueueOK(row, pend, busy, job, spec)'
  <2>1. \A q \in RunIds : job[q].phase \notin {"idle", "done"} =>
          row'[q].status \in {"queued", "running", "interrupted"}
    BY <1>6 DEF IInv, QueueOK, JobsOK
  <2>2. \A p \in Projects : pend[p] # None => row'[pend[p]].status = "queued"
    BY <1>6 DEF IInv, TypeOK, QueueOK, PendOK, None
  <2> QED BY <1>2, <1>5, <1>6, <2>1, <2>2, QueueStays
<1>8. FramesOK(row, pend, job, lock, call)'
  BY <1>1, <1>2, <1>4, <1>6 DEF IInv, TypeOK, FramesOK
<1>9. DownOK(mode, pend, job, call)'
  BY <1>1, <1>2 DEF IInv, DownOK
<1> QED BY <1>5, <1>7, <1>8, <1>9 DEF IInv

(* The merge is answered, and pending runs are dispatched. *)
LEMMA ReturnInv ==
  ASSUME IInv, NEW c \in Callers, Return(c)
  PROVE  IInv'
<1>1. /\ call[c].pc = "return" /\ lock = c /\ call[c].run \in RunIds
      /\ Dispatch(pend, busy, job, spec)
      /\ promised' = [promised EXCEPT ![call[c].run] = @ \cup {Granting(c)}]
      /\ call' = [call EXCEPT ![c] = NoCall]
      /\ lock' = None
      /\ UNCHANGED <<mode, spec, cursor, database, bounds>>
  BY DEF IInv, FramesOK, Return
<1>2. /\ pend' \in [Projects -> RunIds \cup {None}]
      /\ busy' \in [Projects -> RunIds \cup {None}]
      /\ job' \in [RunIds -> JobState]
      /\ recent' \subseteq Projects
      /\ QueueOK(row, pend', busy', job', spec)
  BY <1>1, DispatchKeeps DEF IInv, TypeOK
<1>3. TypeOK'
  <2>1. promised' \in [RunIds -> SUBSET Job]
    BY <1>1, GrantedJob DEF IInv, TypeOK
  <2>2. call' \in [Callers -> Frame]
    BY <1>1, FrameEnds
  <2> QED BY <2>1, <2>2, <1>1, <1>2 DEF IInv, TypeOK, database, bounds
<1>4. QueueOK(row, pend, busy, job, spec)'
  BY <1>1, <1>2 DEF QueueOK, RowsOK, PendOK, JobsOK, SlotsOK, CapOK, ImportsOK, Running, database
<1>5. DownOK(mode, pend, job, call)'
  BY <1>1 DEF IInv, DownOK
<1> QED BY <1>1, <1>3, <1>4, <1>5, FrameEnds DEF IInv

(* The cancelled run leaves the queue before its row says so. *)
LEMMA CancelQueuedInv ==
  ASSUME IInv, NEW c \in Callers, NEW p \in Projects, NEW may \in BOOLEAN,
         CancelQueued(c, p, may)
  PROVE  IInv'
<1> DEFINE r == pend[p]
           f == [Goto(c, "mark", r) EXCEPT !.project = p]
<1>1. /\ call[c].pc = "idle" /\ lock = None /\ mode = "up" /\ lock' = c
      /\ call' = [call EXCEPT ![c] = f]
      /\ pend' = [pend EXCEPT ![p] = None]
      /\ UNCHANGED <<mode, busy, spec, job, recent, cursor, database, promised,
                     bounds>>
  BY DEF CancelQueued
<1>2. /\ r \in RunIds /\ row[r].status = "queued" /\ row[r].project = p
      /\ job[r].phase = "idle"
  BY DEF CancelQueued, IInv, TypeOK, QueueOK, PendOK, None
<1>3. f \in Frame /\ f.pc = "mark" /\ f.project = p /\ f.run = r
  <2>1. call[c] \in Frame
    BY DEF IInv, TypeOK
  <2> QED BY <2>1, <1>2 DEF Goto, Frame
<1> HIDE DEF f, r
<1>4. \A d \in Callers : call[d].pc \in {"idle", "wait"}
  BY <1>1, QueueAssumption DEF IInv, TypeOK, FramesOK, None, Frame
<1>5. /\ call' \in [Callers -> Frame]
      /\ \A d \in Callers : call'[d] = IF d = c THEN f ELSE call[d]
      /\ pend' \in [Projects -> RunIds \cup {None}]
      /\ \A q \in Projects : pend'[q] = IF q = p THEN None ELSE pend[q]
  BY <1>1, <1>3 DEF IInv, TypeOK
<1>6. TypeOK'
  BY <1>1, <1>5 DEF IInv, TypeOK, database, bounds
<1>7. QueueOK(row, pend, busy, job, spec)'
  BY <1>1, <1>5 DEF IInv, QueueOK, RowsOK, PendOK, JobsOK, SlotsOK, CapOK, ImportsOK,
     Running, database
<1>8. FramesOK(row, pend, job, lock, call)'
  <2>1. \A q \in Projects : pend'[q] # r
    BY <1>2, <1>5 DEF IInv, QueueOK, PendOK, None, RunIds
  <2> QED BY <2>1, <1>1, <1>2, <1>3, <1>4, <1>5 DEF IInv, FramesOK, database
<1>9. DownOK(mode, pend, job, call)'
  BY <1>1 DEF DownOK
<1> QED BY <1>6, <1>7, <1>8, <1>9 DEF IInv

(* An ended row has a row's type. *)
LEMMA EndedRow ==
  ASSUME TypeOK, NEW r \in RunIds, NEW status \in Final
  PROVE  /\ Ended(r, status) \in ScanRun
         /\ Ended(r, status).status = status
         /\ Ended(r, status).project = row[r].project
<1>1. row[r].queued \in Columns
  BY DEF TypeOK, ScanRun
<1>2. [row[r].queued EXCEPT !.summary = NoSummary] \in Columns
  BY <1>1 DEF Columns, NoSummary
<1> QED BY <1>2 DEF TypeOK, Ended, ProjectOf, ScanRun

(* The marked run has left the queue and has no job. *)
LEMMA MarkCancelledInv ==
  ASSUME IInv, NEW c \in Callers, MarkCancelled(c)
  PROVE  IInv'
<1> DEFINE r == call[c].run
<1>1. /\ call[c].pc = "mark" /\ r \in RunIds
      /\ row[r].status = "queued" /\ job[r].phase = "idle"
      /\ \A q \in Projects : pend[q] # r
  BY DEF IInv, FramesOK, MarkCancelled
<1>2. /\ row' = [row EXCEPT ![r] = Ended(r, "cancelled")]
      /\ call' = [call EXCEPT ![c] = NoCall]
      /\ lock' = None
      /\ promised' = [promised EXCEPT ![r] = {}]
      /\ UNCHANGED <<mode, pend, busy, spec, job, recent, cursor, scanned,
                     initialized, bounds>>
  BY <1>1 DEF MarkCancelled
<1> HIDE DEF r
<1>3. /\ row' \in [RunIds -> ScanRun]
      /\ row'[r].status = "cancelled" /\ row'[r].project = row[r].project
      /\ \A q \in RunIds \ {r} : row'[q] = row[q]
  BY <1>1, <1>2, EndedRow DEF IInv, TypeOK, Final
<1>4. TypeOK'
  BY <1>1, <1>2, <1>3, FrameEnds DEF IInv, TypeOK, bounds
<1>5. QueueOK(row, pend, busy, job, spec)'
  <2>1. \A q \in RunIds : job[q].phase \notin {"idle", "done"} =>
          row'[q].status \in {"queued", "running", "interrupted"}
    BY <1>1, <1>3 DEF IInv, QueueOK, JobsOK
  <2>2. \A p \in Projects : pend[p] # None => row'[pend[p]].status = "queued"
    BY <1>1, <1>3 DEF IInv, TypeOK, QueueOK, PendOK, None
  <2> QED BY <1>1, <1>2, <1>3, <1>4, <2>1, <2>2, QueueStays
<1>6. DownOK(mode, pend, job, call)'
  BY <1>1, <1>2 DEF IInv, DownOK
<1> QED BY <1>1, <1>2, <1>4, <1>5, <1>6, FrameEnds DEF IInv

-----------------------------------------------------------------------------

(* A step of a job's thread: its own job moves on, and perhaps its row. *)
LEMMA ThreadStep ==
  ASSUME IInv, NEW r \in RunIds, job[r].phase # "idle",
         NEW j \in JobState, NEW w \in ScanRun,
         j.phase # "idle",
         w.project = row[r].project, w.status # "none",
         j.phase # "done" => w.status \in {"queued", "running", "interrupted"},
         job' = [job EXCEPT ![r] = j], row' = [row EXCEPT ![r] = w],
         scanned' \in [Projects -> BOOLEAN], faults' \in 0..MaxFaults,
         promised' \in [RunIds -> SUBSET Job],
         UNCHANGED <<mode, pend, busy, spec, recent, lock, call, cursor, initialized,
                     stops>>
  PROVE  IInv'
<1>1. /\ job' \in [RunIds -> JobState] /\ row' \in [RunIds -> ScanRun]
      /\ job'[r] = j /\ row'[r] = w
      /\ \A q \in RunIds \ {r} : job'[q] = job[q] /\ row'[q] = row[q]
  BY DEF IInv, TypeOK
<1>2. TypeOK'
  BY <1>1 DEF IInv, TypeOK
<1>3. QueueOK(row, pend, busy, job, spec)'
  <2>1. \A q \in RunIds :
          /\ row'[q].project = row[q].project
          /\ job'[q].phase = "idle" <=> job[q].phase = "idle"
          /\ row'[q].status = "none" <=> row[q].status = "none"
          /\ job'[q].phase \notin {"idle", "done"} =>
               row'[q].status \in {"queued", "running", "interrupted"}
    BY <1>1 DEF IInv, QueueOK, JobsOK
  <2>2. \A p \in Projects : pend[p] # None => row'[pend[p]].status = "queued"
    BY <1>1 DEF IInv, TypeOK, QueueOK, PendOK, None
  <2> QED BY <1>2, <2>1, <2>2, QueueStays
<1>4. FramesOK(row, pend, job, lock, call)'
  BY <1>1, FramesStay
<1>5. DownOK(mode, pend, job, call)'
  BY DEF IInv, DownOK
<1> QED BY <1>2, <1>3, <1>4, <1>5 DEF IInv

(* A job that begins marks its own row running. *)
LEMMA BeginInv ==
  ASSUME IInv, NEW r \in RunIds, Begin(r)
  PROVE  IInv'
<1> DEFINE who == IF spec[r].job.analyze THEN row[r].queued.by ELSE NoUser
           j == [job[r] EXCEPT !.phase = "prep", !.who = who]
           cols == [Row(spec[r].job) EXCEPT !.by = row[r].queued.by,
                                            !.summary = row[r].queued.summary]
           w == [status |-> "running", project |-> ProjectOf(r),
                 outcome |-> row[r].outcome, queued |-> cols]
<1>1. /\ job[r] \in JobState /\ row[r] \in ScanRun /\ row[r].queued \in Columns
      /\ Row(spec[r].job) \in Columns
  BY RowTyped DEF IInv, TypeOK, PendingSpec, ScanRun
<1>2. who \in Users \cup {NoUser}
  BY <1>1 DEF Columns
<1> HIDE DEF who
<1>3. j \in JobState /\ j.phase = "prep"
  BY <1>1, <1>2 DEF JobState, Phases
<1>4. cols \in Columns
  BY <1>1 DEF Columns
<1> HIDE DEF cols
<1>5. w \in ScanRun /\ w.status = "running" /\ w.project = row[r].project
  BY <1>1, <1>4 DEF ScanRun, ProjectOf
<1>6. /\ job[r].phase # "idle"
      /\ job' = [job EXCEPT ![r] = j] /\ row' = [row EXCEPT ![r] = w]
      /\ UNCHANGED <<mode, pend, busy, spec, recent, lock, call, cursor, scanned,
                     initialized, promised, bounds>>
  BY DEF IInv, TypeOK, Begin, j, w, cols, who
<1> HIDE DEF j, w
<1> QED BY <1>3, <1>5, <1>6, ThreadStep DEF IInv, TypeOK, bounds

(* The steps that move only the job. *)
LEMMA JobMovesInv ==
  ASSUME IInv, NEW r \in RunIds, NEW j \in JobState,
         job[r].phase \notin {"idle", "done"}, j.phase # "idle",
         job' = [job EXCEPT ![r] = j],
         UNCHANGED <<mode, pend, busy, spec, recent, lock, call, cursor,
                     database, promised, stops>>,
         faults' \in 0..MaxFaults
  PROVE  IInv'
<1>1. row[r] \in ScanRun /\ row[r].status \in {"queued", "running", "interrupted"}
  BY DEF IInv, TypeOK, QueueOK, JobsOK
<1>2. row' = [row EXCEPT ![r] = row[r]]
  BY DEF IInv, TypeOK, database
<1> QED BY <1>1, <1>2, ThreadStep DEF IInv, TypeOK, database

(* A job that ends its work keeps its slot. *)
LEMMA EndInv ==
  ASSUME IInv, NEW r \in RunIds,
         FailsEarly(r) \/ SyncGivesUp(r) \/ NothingToScan(r) \/ StopsBeforeChild(r)
           \/ ChildExits(r)
  PROVE  IInv'
<1>1. PICK how \in Final : job' = End(r, how)
  BY DEF FailsEarly, SyncGivesUp, NothingToScan, StopsBeforeChild, ChildExits, Final
<1>2. JobOnly /\ job[r].phase \notin {"idle", "done"}
  BY DEF FailsEarly, SyncGivesUp, NothingToScan, StopsBeforeChild, ChildExits
<1> DEFINE j == [job[r] EXCEPT !.phase = "ending", !.end = how]
<1>3. job[r] \in JobState
  BY DEF IInv, TypeOK
<1>4. j \in JobState /\ j.phase # "idle"
  BY <1>3 DEF JobState, Phases
<1>5. job' = [job EXCEPT ![r] = j]
  BY <1>1 DEF End
<1> HIDE DEF j
<1> QED BY <1>2, <1>4, <1>5, JobMovesInv DEF IInv, TypeOK, JobOnly, bounds

(* A job that spawns its child keeps its slot. *)
LEMMA SpawnInv ==
  ASSUME IInv, NEW r \in RunIds, Spawn(r)
  PROVE  IInv'
<1> DEFINE j == [job[r] EXCEPT !.phase = "child", !.ran = TRUE]
<1>1. job[r] \in JobState
  BY DEF IInv, TypeOK
<1>2. j \in JobState /\ j.phase # "idle"
  BY <1>1 DEF JobState, Phases
<1>3. job' = [job EXCEPT ![r] = j] /\ job[r].phase \notin {"idle", "done"}
  BY DEF Spawn
<1> HIDE DEF j
<1> QED BY <1>2, <1>3, JobMovesInv DEF IInv, TypeOK, Spawn, JobOnly, bounds

(* A job whose last transaction fails keeps its slot until it retires. *)
LEMMA FinishRunFailsInv ==
  ASSUME IInv, NEW r \in RunIds, FinishRunFails(r)
  PROVE  IInv'
<1> DEFINE j == [job[r] EXCEPT !.phase = "done"]
<1>1. job[r] \in JobState
  BY DEF IInv, TypeOK
<1>2. j \in JobState /\ j.phase # "idle"
  BY <1>1 DEF JobState, Phases
<1>3. /\ job' = [job EXCEPT ![r] = j] /\ job[r].phase \notin {"idle", "done"}
      /\ faults' \in 0..MaxFaults
  BY QueueAssumption DEF IInv, TypeOK, FinishRunFails
<1> HIDE DEF j
<1> QED BY <1>2, <1>3, JobMovesInv DEF FinishRunFails

(* The last transaction ends the job's own row. *)
LEMMA FinishRunInv ==
  ASSUME IInv, NEW r \in RunIds, FinishRun(r)
  PROVE  IInv'
<1> DEFINE j == [job[r] EXCEPT !.phase = "done"]
           status == Outcome(job[r].end, job[r].cancelled, job[r].interrupted)
           w == Ended(r, status)
<1>1. job[r] \in JobState /\ row[r].project \in Projects
  BY DEF IInv, TypeOK, QueueOK, JobsOK, FinishRun
<1>2. status \in Final
  BY <1>1 DEF JobState, Outcome, Final
<1> HIDE DEF status
<1>3. j \in JobState /\ j.phase = "done"
  BY <1>1 DEF JobState, Phases
<1>4. w \in ScanRun /\ w.status # "none" /\ w.project = row[r].project
  BY <1>2, EndedRow DEF IInv, Final
<1>5. /\ job' = [job EXCEPT ![r] = j] /\ row' = [row EXCEPT ![r] = w]
      /\ job[r].phase # "idle"
      /\ scanned' \in [Projects -> BOOLEAN]
      /\ promised' \in [RunIds -> SUBSET Job]
      /\ UNCHANGED <<mode, pend, busy, spec, recent, lock, call, cursor,
                     initialized, bounds>>
  BY <1>1 DEF IInv, TypeOK, FinishRun, ProjectOf, status
<1> HIDE DEF j, w
<1> QED BY <1>3, <1>4, <1>5, ThreadStep DEF IInv, TypeOK, bounds

(* An import that cloned keeps its slot. *)
LEMMA CloneDoneInv ==
  ASSUME IInv, NEW r \in RunIds, CloneDone(r)
  PROVE  IInv'
<1>1. TypeOK'
  BY DEF IInv, TypeOK, CloneDone, process, bounds
<1>2. QueueOK(row, pend, busy, job, spec)'
  BY <1>1, QueueUnchanged DEF CloneDone, process
<1> QED BY <1>1, <1>2 DEF IInv, FramesOK, DownOK, CloneDone, process

(* A job that retires frees its slot, then pending runs are dispatched. *)
LEMMA RetireInv ==
  ASSUME IInv, NEW r \in RunIds, Retire(r)
  PROVE  IInv'
<1> DEFINE p == ProjectOf(r)
           bz == [busy EXCEPT ![p] = None]
           jb == [job EXCEPT ![r] = NoJob]
<1>1. p \in Projects /\ busy[p] = r /\ job[r].phase = "done" /\ row[r].project = p
  BY DEF IInv, QueueOK, JobsOK, Retire, ProjectOf
<1>2. /\ bz \in [Projects -> RunIds \cup {None}]
      /\ jb \in [RunIds -> JobState]
      /\ \A q \in Projects : bz[q] = IF q = p THEN None ELSE busy[q]
      /\ \A q \in RunIds : jb[q] = IF q = r THEN NoJob ELSE job[q]
  BY JobStateTyped DEF IInv, TypeOK
<1>3. /\ Dispatch(pend, bz, jb, spec)
      /\ UNCHANGED <<mode, spec, lock, call, cursor, database, promised, bounds>>
  BY DEF Retire
<1> HIDE DEF p, bz, jb
<1>4. QueueOK(row, pend, bz, jb, spec)
  <2>1. PendOK(row, pend, jb)
    BY <1>1, <1>2 DEF IInv, TypeOK, QueueOK, PendOK, None
  <2>2. JobsOK(row, bz, jb)
    BY <1>1, <1>2, JobStateTyped DEF IInv, QueueOK, JobsOK
  <2>3. SlotsOK(row, bz, jb)
    BY <1>1, <1>2 DEF IInv, TypeOK, QueueOK, SlotsOK, None
  <2>4. CapOK(bz)
    <3>1. Running(bz) \subseteq Running(busy) /\ IsFiniteSet(Running(busy))
      BY <1>2, QueueAssumption, FS_Subset DEF Running
    <3>2. /\ Cardinality(Running(bz)) <= Cardinality(Running(busy))
          /\ Cardinality(Running(bz)) \in Nat /\ Cardinality(Running(busy)) \in Nat
      BY <3>1, FS_Subset, FS_CardinalityType
    <3> QED BY <3>2, QueueAssumption DEF IInv, QueueOK, CapOK
  <2>5. ImportsOK(bz, spec)
    BY <1>2 DEF IInv, QueueOK, ImportsOK
  <2> QED BY <2>1, <2>2, <2>3, <2>4, <2>5 DEF IInv, QueueOK
<1>5. /\ pend' \in [Projects -> RunIds \cup {None}]
      /\ busy' \in [Projects -> RunIds \cup {None}]
      /\ job' \in [RunIds -> JobState]
      /\ recent' \subseteq Projects
      /\ QueueOK(row, pend', busy', job', spec)
      /\ \A q \in Projects : pend'[q] \in {None, pend[q]}
      /\ \A q \in RunIds : job'[q] # jb[q] => \E x \in Projects : pend[x] = q
  BY <1>2, <1>3, <1>4, DispatchKeeps DEF IInv, TypeOK
<1>6. TypeOK'
  BY <1>3, <1>5 DEF IInv, TypeOK, database, bounds
<1>7. QueueOK(row, pend, busy, job, spec)'
  BY <1>3, <1>5 DEF QueueOK, RowsOK, PendOK, JobsOK, SlotsOK, CapOK, ImportsOK, Running, database
<1>8. FramesOK(row, pend, job, lock, call)'
  BY <1>2, <1>3, <1>5, JobStateTyped, FramesStay DEF database, None, RunIds
<1>9. DownOK(mode, pend, job, call)'
  BY <1>1, <1>3 DEF IInv, DownOK
<1> QED BY <1>6, <1>7, <1>8, <1>9 DEF IInv

(* The debounce. *)
LEMMA DebounceEndsInv ==
  ASSUME IInv, NEW p \in Projects, DebounceEnds(p)
  PROVE  IInv'
<1>1. TypeOK'
  BY DEF IInv, TypeOK, DebounceEnds, database, bounds
<1>2. QueueOK(row, pend, busy, job, spec)'
  BY <1>1, QueueUnchanged DEF DebounceEnds, database
<1> QED BY <1>1, <1>2 DEF IInv, FramesOK, DownOK, DebounceEnds, database

(* A held run that is due is only dispatched once its slot is free. *)
LEMMA WakeUpInv ==
  ASSUME IInv, NEW p \in Projects, WakeUp(p)
  PROVE  IInv'
<1> DEFINE r == pend[p]
           sp == [spec EXCEPT ![r].held = FALSE]
<1>1. /\ r \in RunIds /\ mode = "up" /\ spec' = sp
      /\ Dispatch(pend, busy, job, sp)
      /\ UNCHANGED <<mode, lock, call, cursor, database, promised, bounds>>
  BY DEF IInv, TypeOK, WakeUp, None
<1>2. [spec[r] EXCEPT !.held = FALSE] \in PendingSpec
      /\ [spec[r] EXCEPT !.held = FALSE].importing = spec[r].importing
  BY <1>1, ZenonT(60) DEF IInv, TypeOK, PendingSpec
<1>3. /\ sp \in [RunIds -> PendingSpec]
      /\ \A q \in RunIds : sp[q].importing = spec[q].importing
  BY <1>1, <1>2 DEF IInv, TypeOK
<1> HIDE DEF sp, r
<1>4. QueueOK(row, pend, busy, job, sp)
  <2>1. ImportsOK(busy, sp)
    BY <1>3 DEF IInv, TypeOK, QueueOK, ImportsOK, None
  <2> QED BY <2>1 DEF IInv, QueueOK
<1>5. /\ pend' \in [Projects -> RunIds \cup {None}]
      /\ busy' \in [Projects -> RunIds \cup {None}]
      /\ job' \in [RunIds -> JobState]
      /\ recent' \subseteq Projects
      /\ QueueOK(row, pend', busy', job', sp)
      /\ \A q \in Projects : pend'[q] \in {None, pend[q]}
      /\ \A q \in RunIds : job'[q] # job[q] => \E x \in Projects : pend[x] = q
  <2>1. /\ TypeOK /\ row \in [RunIds -> ScanRun]
        /\ pend \in [Projects -> RunIds \cup {None}]
        /\ busy \in [Projects -> RunIds \cup {None}]
        /\ job \in [RunIds -> JobState]
    BY DEF IInv, TypeOK
  <2> QED BY <2>1, <1>1, <1>3, <1>4, DispatchKeeps, SMTT(30)
<1>6. TypeOK'
  BY <1>1, <1>3, <1>5 DEF IInv, TypeOK, database, bounds
<1>7. QueueOK(row, pend, busy, job, spec)'
  BY <1>1, <1>5 DEF QueueOK, RowsOK, PendOK, JobsOK, SlotsOK, CapOK, ImportsOK, Running, database
<1>8. FramesOK(row, pend, job, lock, call)'
  BY <1>1, <1>5, FramesStay DEF database, None, RunIds
<1>9. DownOK(mode, pend, job, call)'
  BY <1>1 DEF DownOK
<1> QED BY <1>6, <1>7, <1>8, <1>9 DEF IInv

-----------------------------------------------------------------------------

(* Signals change flags of running jobs only. *)
LEMMA SignalInv ==
  ASSUME IInv, job' \in [RunIds -> JobState],
         \A r \in RunIds : job'[r].phase = job[r].phase,
         UNCHANGED <<pend, busy, spec, recent, lock, call, cursor, database,
                     promised, faults>>,
         mode' \in {mode, "stopping"}, stops' \in 0..MaxStops
  PROVE  IInv'
<1>1. TypeOK'
  BY DEF IInv, TypeOK, database
<1>2. QueueOK(row, pend, busy, job, spec)'
  <2>1. \A q \in RunIds : job'[q].phase \notin {"idle", "done"} =>
          row'[q].status \in {"queued", "running", "interrupted"}
    BY DEF IInv, QueueOK, JobsOK, database
  <2>2. \A p \in Projects : pend[p] # None => row'[pend[p]].status = "queued"
    BY DEF IInv, QueueOK, PendOK, database
  <2> QED BY <1>1, <2>1, <2>2, QueueStays DEF database
<1>3. FramesOK(row, pend, job, lock, call)'
  BY FramesStay DEF database
<1>4. DownOK(mode, pend, job, call)'
  BY DEF IInv, DownOK
<1> QED BY <1>1, <1>2, <1>3, <1>4 DEF IInv

(* A cancelled job is signalled, its slot is kept. *)
LEMMA CancelRunningInv ==
  ASSUME IInv, NEW c \in Callers, NEW p \in Projects, NEW may \in BOOLEAN,
         CancelRunning(c, p, may)
  PROVE  IInv'
<1> DEFINE r == busy[p]
           j == [job[r] EXCEPT !.cancelled = TRUE, !.interrupted = TRUE]
<1>1. r \in RunIds /\ job[r] \in JobState
  BY DEF IInv, TypeOK, CancelRunning, None
<1>2. j \in JobState /\ j.phase = job[r].phase
  BY <1>1 DEF JobState
<1>3. job' = [job EXCEPT ![r] = j]
  BY DEF CancelRunning
<1> HIDE DEF r, j
<1>4. /\ job' \in [RunIds -> JobState]
      /\ \A q \in RunIds : job'[q].phase = job[q].phase
  BY <1>1, <1>2, <1>3 DEF IInv, TypeOK
<1> QED BY <1>4, SignalInv DEF IInv, TypeOK, CancelRunning, bounds

(* A stop signals every job and ends the dispatch. *)
LEMMA ShutdownInv ==
  ASSUME IInv, Shutdown
  PROVE  IInv'
<1>1. \A r \in RunIds :
        /\ [job[r] EXCEPT !.interrupted = TRUE] \in JobState
        /\ [job[r] EXCEPT !.interrupted = TRUE].phase = job[r].phase
  BY DEF IInv, TypeOK, JobState
<1>2. /\ job' \in [RunIds -> JobState]
      /\ \A q \in RunIds : job'[q].phase = job[q].phase
  BY <1>1 DEF IInv, TypeOK, Shutdown
<1>3. stops' \in 0..MaxStops
  BY QueueAssumption DEF IInv, TypeOK, Shutdown
<1> QED BY <1>2, <1>3, SignalInv DEF Shutdown

(* Rows that change under no handler's and no pending run's feet. *)
LEMMA MarksInv ==
  ASSUME IInv, row' \in [RunIds -> ScanRun], promised' \in [RunIds -> SUBSET Job],
         \A r \in RunIds :
           /\ row'[r].project = row[r].project
           /\ row'[r].status # row[r].status =>
                /\ row[r].status # "none" /\ row'[r].status = "interrupted"
                /\ row[r].status = "queued" => job[r].phase # "idle",
         mode' \in {"starting", "stopped"},
         mode' = "starting" => mode = "down",
         faults' \in 0..MaxFaults,
         UNCHANGED <<pend, busy, spec, job, recent, lock, call, cursor, scanned,
                     initialized, stops>>
  PROVE  IInv'
<1>1. TypeOK'
  BY DEF IInv, TypeOK
<1>2. QueueOK(row, pend, busy, job, spec)'
  <2>1. \A r \in RunIds :
          /\ row'[r].status = "none" <=> row[r].status = "none"
          /\ job'[r].phase \notin {"idle", "done"} =>
               row'[r].status \in {"queued", "running", "interrupted"}
    BY DEF IInv, QueueOK, JobsOK
  <2>2. \A p \in Projects : pend[p] # None => row'[pend[p]].status = "queued"
    BY DEF IInv, TypeOK, QueueOK, PendOK, None
  <2> QED BY <1>1, <2>1, <2>2, QueueStays
<1>3. FramesOK(row, pend, job, lock, call)'
  BY FramesStay
<1>4. DownOK(mode, pend, job, call)'
  BY DEF IInv, DownOK
<1> QED BY <1>1, <1>2, <1>3, <1>4 DEF IInv

(* A row marked interrupted has a row's type. *)
LEMMA InterruptedRow ==
  ASSUME TypeOK, NEW r \in RunIds
  PROVE  /\ [row[r] EXCEPT !.status = "interrupted"] \in ScanRun
         /\ [row[r] EXCEPT !.status = "interrupted"].status = "interrupted"
         /\ [row[r] EXCEPT !.status = "interrupted"].project = row[r].project
BY DEF TypeOK, ScanRun, Final

(* A stop marks only the rows of jobs. *)
LEMMA MarkLeftoverInv ==
  ASSUME IInv, MarkLeftover \/ MarkLeftoverFails
  PROVE  IInv'
<1>1. CASE MarkLeftover
  <2>1. /\ row' \in [RunIds -> ScanRun]
        /\ \A r \in RunIds :
             /\ row'[r].project = row[r].project
             /\ row'[r].status # row[r].status =>
                  /\ row[r].status # "none" /\ row'[r].status = "interrupted"
                  /\ row[r].status = "queued" => job[r].phase # "idle"
    BY <1>1, InterruptedRow DEF IInv, TypeOK, MarkLeftover
  <2>2. promised' \in [RunIds -> SUBSET Job]
    BY <1>1 DEF IInv, TypeOK, MarkLeftover
  <2> QED BY <1>1, <2>1, <2>2, MarksInv DEF IInv, TypeOK, MarkLeftover, bounds
<1>2. CASE MarkLeftoverFails
  BY <1>2, MarksInv, QueueAssumption DEF IInv, TypeOK, MarkLeftoverFails, database
<1> QED BY <1>1, <1>2

(* A start marks only rows that nothing in memory refers to. *)
LEMMA MarkStaleInv ==
  ASSUME IInv, MarkStale
  PROVE  IInv'
<1>1. /\ row' \in [RunIds -> ScanRun]
      /\ \A r \in RunIds :
           /\ row'[r].project = row[r].project
           /\ row'[r].status # row[r].status =>
                row[r].status = "running" /\ row'[r].status = "interrupted"
  BY InterruptedRow DEF IInv, TypeOK, MarkStale
<1>2. promised' \in [RunIds -> SUBSET Job]
  BY DEF IInv, TypeOK, MarkStale
<1> QED BY <1>1, <1>2, MarksInv DEF IInv, TypeOK, MarkStale, bounds

(* The memory of a process that is gone. *)
LEMMA ForgetInv ==
  ASSUME IInv, Forget, stops' \in 0..MaxStops
  PROVE  IInv'
<1>1. NoCall \in Frame /\ NoCall.pc = "idle"
  BY QueueAssumption DEF NoCall, Frame
<1>2. NoSpec \in PendingSpec
  BY DEF NoSpec, PendingSpec, AnyJob, Job, Triggers
<1>3. TypeOK'
  BY <1>1, <1>2, JobStateTyped DEF IInv, TypeOK, Forget, database
<1>4. PendOK(row, pend, job)' /\ JobsOK(row, busy, job)' /\ SlotsOK(row, busy, job)'
  BY JobStateTyped DEF Forget, PendOK, JobsOK, SlotsOK
<1>5. CapOK(busy)' /\ ImportsOK(busy, spec)'
  <2>1. Running(busy') = {}
    BY DEF Forget, Running
  <2> QED BY <2>1, FS_EmptySet, QueueAssumption DEF Forget, CapOK, ImportsOK
<1>6. FramesOK(row, pend, job, lock, call)' /\ DownOK(mode, pend, job, call)'
  BY <1>1, JobStateTyped DEF Forget, FramesOK, DownOK
<1>7. RowsOK(row)'
  BY DEF IInv, QueueOK, RowsOK, Forget, database
<1> QED BY <1>3, <1>4, <1>5, <1>6, <1>7 DEF IInv, QueueOK

(* A stop's end and a crash both forget the process. *)
LEMMA GoneInv ==
  ASSUME IInv, Exit \/ Crash
  PROVE  IInv'
<1>1. Forget /\ stops' \in 0..MaxStops
  BY QueueAssumption DEF IInv, TypeOK, Exit, Crash
<1> QED BY <1>1, ForgetInv

-----------------------------------------------------------------------------

(* The restart: nothing runs, so the queue is only what the rows say. *)
LEMMA RecoverRowInv ==
  ASSUME IInv, NEW r \in RunIds, RecoverRow(r)
  PROVE  IInv'
<1> DEFINE p == ProjectOf(r)
           found == Recovered(row[r].queued)
           new == [job |-> found, held |-> FALSE, importing |-> ~initialized[p]]
           s == spec[pend[p]]
           joined == [s EXCEPT !.job = MergeJobs(s.job, found)]
<1>1. /\ mode = "starting" /\ cursor' = r
      /\ row[r].status = "queued" /\ row[r].project = p /\ p \in Projects
      /\ UNCHANGED <<mode, busy, job, recent, lock, call, database, promised, bounds>>
  BY DEF IInv, QueueOK, RowsOK, RecoverRow, ProjectOf
<1>2. \A q \in RunIds : job[q].phase = "idle"
  BY <1>1 DEF IInv, DownOK
<1>3. found \in Job
  <2>1. row[r].queued \in Columns
    BY DEF IInv, TypeOK, ScanRun
  <2> QED BY <2>1 DEF Columns, Recovered, Job
<1>4. IF pend[p] = None
      THEN pend' = [pend EXCEPT ![p] = r] /\ spec' = [spec EXCEPT ![r] = new]
      ELSE pend' = pend /\ spec' = [spec EXCEPT ![pend[p]] = joined]
  BY DEF RecoverRow
<1>5. new \in PendingSpec
  BY <1>1, <1>3 DEF IInv, TypeOK, PendingSpec
<1>6. pend[p] # None => joined \in PendingSpec
  <2> SUFFICES ASSUME pend[p] # None PROVE joined \in PendingSpec
    OBVIOUS
  <2>1. s \in PendingSpec
    BY <1>1 DEF IInv, TypeOK, None
  <2>2. MergeJobs(s.job, found) \in Job
    BY <2>1, <1>3, MergedJob DEF PendingSpec
  <2> HIDE DEF s, found
  <2> QED BY <2>1, <2>2 DEF PendingSpec
<1> HIDE DEF p, new, joined
<1>7. /\ spec' \in [RunIds -> PendingSpec]
      /\ pend' \in [Projects -> RunIds \cup {None}]
      /\ \A q \in Projects : pend'[q] = pend[q] \/ (q = p /\ pend'[q] = r)
  BY <1>1, <1>4, <1>5, <1>6 DEF IInv, TypeOK
<1>8. TypeOK'
  BY <1>1, <1>7 DEF IInv, TypeOK, database, bounds
<1>9. QueueOK(row, pend, busy, job, spec)'
  <2>1. PendOK(row, pend, job)'
    BY <1>1, <1>2, <1>7 DEF IInv, QueueOK, PendOK, database
  <2>2. JobsOK(row, busy, job)' /\ SlotsOK(row, busy, job)' /\ RowsOK(row)'
    BY <1>1 DEF IInv, QueueOK, JobsOK, SlotsOK, RowsOK, database
  <2>3. \A q \in Projects : busy[q] = None
    BY <1>2 DEF IInv, TypeOK, QueueOK, SlotsOK
  <2>4. CapOK(busy)' /\ ImportsOK(busy, spec)'
    BY <1>1, <2>3 DEF IInv, QueueOK, CapOK, Running, ImportsOK
  <2> QED BY <2>1, <2>2, <2>4 DEF QueueOK
<1>10. FramesOK(row, pend, job, lock, call)' /\ DownOK(mode, pend, job, call)'
  BY <1>1 DEF IInv, FramesOK, DownOK
<1> QED BY <1>8, <1>9, <1>10 DEF IInv

(* Recovered runs stay queued rows of their project, then are dispatched. *)
LEMMA RequeueInv ==
  ASSUME IInv, Requeue
  PROVE  IInv'
<1>1. PICK gone \in SUBSET {p \in Projects : initialized[p]} :
    LET pd == [p \in Projects |-> IF p \in gone THEN None ELSE pend[p]]
        queued == {r \in RunIds : row[r].status = "queued"}
        kept == {r \in queued : pd[ProjectOf(r)] = r}
    IN  /\ mode = "starting"
        /\ \A r \in queued : r <= cursor
        /\ mode' = "up"
        /\ row' = [r \in RunIds |->
             IF r \in kept THEN [row[r] EXCEPT !.queued = Row(spec[r].job)]
             ELSE IF r \in queued THEN Ended(r, "cancelled")
             ELSE row[r]]
        /\ promised' = [r \in RunIds |->
             IF r \in kept
             THEN UNION {promised[q] : q \in
                           {x \in queued : ProjectOf(x) = ProjectOf(r)}}
             ELSE IF r \in queued THEN {} ELSE promised[r]]
        /\ Start(pd, busy, job, spec)
        /\ UNCHANGED <<spec, lock, call, cursor, scanned, initialized, bounds>>
  BY DEF Requeue
<1> DEFINE pd == [p \in Projects |-> IF p \in gone THEN None ELSE pend[p]]
           kept == {r \in RunIds : row[r].status = "queued" /\ pd[ProjectOf(r)] = r}
<1>2. /\ \A r \in RunIds : job[r].phase = "idle"
      /\ \A c \in Callers : call[c].pc = "idle"
  BY <1>1 DEF IInv, DownOK
<1>3. \A r \in RunIds : /\ row[r] \in ScanRun
                        /\ Row(spec[r].job) \in Columns
  BY RowTyped DEF IInv, TypeOK, PendingSpec
<1>4. \A r \in RunIds :
        /\ [row[r] EXCEPT !.queued = Row(spec[r].job)] \in ScanRun
        /\ [row[r] EXCEPT !.queued = Row(spec[r].job)].status = row[r].status
        /\ [row[r] EXCEPT !.queued = Row(spec[r].job)].project = row[r].project
  BY <1>3 DEF ScanRun
<1>5. \A r \in RunIds : /\ Ended(r, "cancelled") \in ScanRun
                        /\ Ended(r, "cancelled").status = "cancelled"
                        /\ Ended(r, "cancelled").project = row[r].project
  BY EndedRow DEF IInv, Final
<1>6. /\ row' \in [RunIds -> ScanRun]
      /\ \A r \in RunIds :
           /\ row'[r].project = row[r].project
           /\ r \in kept => row'[r].status = "queued"
           /\ row[r].status # "queued" => row'[r] = row[r]
           /\ row'[r].status = "none" => row[r].status = "none"
  BY <1>1, <1>3, <1>4, <1>5
<1>7. promised' \in [RunIds -> SUBSET Job]
  <2>1. \A r \in RunIds : promised[r] \subseteq Job
    BY DEF IInv, TypeOK
  <2>2. \A r \in RunIds : promised'[r] \subseteq Job
    BY <1>1, <2>1
  <2> QED BY <1>1, <2>2
<1>8. pd \in [Projects -> RunIds \cup {None}]
  BY DEF IInv, TypeOK
<1>9. \A p \in Projects : pd[p] # None => pd[p] \in kept /\ row[pd[p]].project = p
  BY DEF IInv, TypeOK, QueueOK, PendOK, None, ProjectOf
<1> DEFINE rw == row'
<1>10. QueueOK(rw, pd, busy, job, spec)
  <2>1. PendOK(rw, pd, job)
    <3> SUFFICES ASSUME NEW p \in Projects, pd[p] # None
                 PROVE  rw[pd[p]].status = "queued" /\ rw[pd[p]].project = p
      BY <1>2, <1>9 DEF PendOK
    <3>1. pd[p] \in kept /\ pd[p] \in RunIds /\ row[pd[p]].project = p
      BY <1>9
    <3> QED BY <3>1, <1>6
  <2>2. JobsOK(rw, busy, job)
    BY <1>2 DEF JobsOK
  <2>3. \A p \in Projects : busy[p] = None
    BY <1>2 DEF IInv, TypeOK, QueueOK, SlotsOK
  <2>4. SlotsOK(rw, busy, job)
    BY <2>3 DEF SlotsOK
  <2>5. RowsOK(rw)
    BY <1>6 DEF IInv, QueueOK, RowsOK
  <2> QED BY <2>1, <2>2, <2>4, <2>5 DEF IInv, QueueOK
<1>11. Start(pd, busy, job, spec) /\ rw \in [RunIds -> ScanRun]
  BY <1>1, <1>6
<1> HIDE DEF rw, pd, kept
<1>12. /\ pend' \in [Projects -> RunIds \cup {None}]
       /\ busy' \in [Projects -> RunIds \cup {None}]
       /\ job' \in [RunIds -> JobState]
       /\ recent' \subseteq Projects
       /\ QueueOK(rw, pend', busy', job', spec)
  <2>1. /\ TypeOK /\ busy \in [Projects -> RunIds \cup {None}]
        /\ job \in [RunIds -> JobState] /\ spec \in [RunIds -> PendingSpec]
    BY DEF IInv, TypeOK
  <2> QED BY <2>1, <1>8, <1>10, <1>11, DispatchKeeps
<1>13. TypeOK'
  BY <1>1, <1>6, <1>7, <1>12 DEF IInv, TypeOK, bounds
<1>14. QueueOK(row, pend, busy, job, spec)'
  <2>1. QueueOK(row', pend', busy', job', spec) /\ spec' = spec
    BY <1>1, <1>12 DEF rw
  <2> QED BY <2>1 DEF QueueOK, RowsOK, PendOK, JobsOK, SlotsOK, CapOK, ImportsOK, Running
<1>15. FramesOK(row, pend, job, lock, call)' /\ DownOK(mode, pend, job, call)'
  BY <1>1, <1>2 DEF IInv, FramesOK, DownOK
<1> QED BY <1>13, <1>14, <1>15 DEF IInv

-----------------------------------------------------------------------------

(* A handler's step keeps the invariant. *)
LEMMA CallerStepInv ==
  ASSUME IInv, NEW c \in Callers, CallerStep(c)
  PROVE  IInv'
<1>1. CASE \E p \in Projects, ask \in Asks : Request(c, p, ask)
  BY <1>1, RequestInv
<1>2. CASE \E p \in Projects, may \in BOOLEAN : CancelQueued(c, p, may)
  BY <1>2, CancelQueuedInv
<1>3. CASE \E p \in Projects, may \in BOOLEAN : CancelRunning(c, p, may)
  BY <1>3, CancelRunningInv
<1>4. CASE Acquire(c)
  BY <1>4, AcquireInv
<1>5. CASE Holding(c)
  BY <1>5, GivesUpInv, DecideNewInv, DecideMergeInv, InsertInv, RegisterInv,
     UpdateInv, ReturnInv, MarkCancelledInv DEF Holding
<1> QED BY <1>1, <1>2, <1>3, <1>4, <1>5 DEF CallerStep

(* A job's step keeps the invariant. *)
LEMMA JobStepInv ==
  ASSUME IInv, NEW r \in RunIds, JobStep(r)
  PROVE  IInv'
BY BeginInv, EndInv, CloneDoneInv, SpawnInv, FinishRunInv, FinishRunFailsInv,
   RetireInv DEF JobStep

(* Every step keeps the invariant. *)
LEMMA StepInv == IInv /\ [Next]_vars => IInv'
<1> SUFFICES ASSUME IInv, [Next]_vars PROVE IInv'
  OBVIOUS
<1>1. CASE \E c \in Callers : CallerStep(c)
  BY <1>1, CallerStepInv
<1>2. CASE \E r \in RunIds : JobStep(r) \/ RecoverRow(r)
  BY <1>2, JobStepInv, RecoverRowInv
<1>3. CASE \E p \in Projects : DebounceEnds(p) \/ WakeUp(p)
  BY <1>3, DebounceEndsInv, WakeUpInv
<1>4. CASE Shutdown \/ MarkLeftover \/ MarkLeftoverFails \/ Exit \/ Crash
           \/ MarkStale \/ Requeue
  BY <1>4, ShutdownInv, MarkLeftoverInv, GoneInv, MarkStaleInv, RequeueInv
<1>5. CASE UNCHANGED vars
  <2>1. UNCHANGED <<mode, pend, busy, spec, job, recent, lock, call, cursor, row,
                    scanned, initialized, promised, faults, stops>>
    BY <1>5 DEF vars, process, database, bounds
  <2>2. TypeOK'
    BY <2>1 DEF IInv, TypeOK
  <2>3. QueueOK(row, pend, busy, job, spec)'
    BY <2>1, <2>2, QueueUnchanged
  <2> QED BY <2>1, <2>2, <2>3 DEF IInv, FramesOK, DownOK
<1> QED BY <1>1, <1>2, <1>3, <1>4, <1>5 DEF Next

(* The rows, the queue, the slots and the frames agree in every state. *)
THEOREM Invariance == Spec => []IInv
BY InitInv, StepInv, PTL DEF Spec

(* Every variable keeps its type: the callers' frames, the jobs, the rows. *)
THEOREM TypeCorrect == Spec => []TypeOK
<1>1. IInv => TypeOK
  BY DEF IInv
<1> QED BY <1>1, Invariance, PTL

(* No two jobs of a project, however requests, cancels, stops and restarts *)
(* interleave.                                                             *)
THEOREM OneJobPerProject == Spec => []SingleFlight
<1>1. IInv => SingleFlight
  BY DEF IInv, QueueOK, JobsOK, SingleFlight, Live, ProjectOf
<1> QED BY <1>1, Invariance, PTL

(* Never more jobs than max_concurrent_scans. *)
THEOREM NeverOverCap == Spec => []CapRespected
<1>1. ASSUME IInv PROVE CapRespected
  <2> DEFINE L == {r \in RunIds : Live(r)}
             f == [r \in L |-> ProjectOf(r)]
  <2>1. f \in Injection(L, Running(busy))
    <3>1. \A r \in L : f[r] \in Running(busy) /\ busy[f[r]] = r
      BY <1>1 DEF IInv, QueueOK, JobsOK, Live, ProjectOf, Running, RunIds, None
    <3>2. f \in [L -> Running(busy)]
      BY <3>1
    <3>3. \A a, b \in L : f[a] = f[b] => a = b
      BY <3>1
    <3> QED BY <3>2, <3>3 DEF Injection, IsInjective
  <2>2. IsFiniteSet(Running(busy))
    BY QueueAssumption, FS_Subset DEF Running
  <2>3. IsFiniteSet(L) /\ Cardinality(L) <= Cardinality(Running(busy))
    BY <2>1, <2>2, FS_Injection
  <2>4. Cardinality(L) \in Nat /\ Cardinality(Running(busy)) \in Nat
    BY <2>2, <2>3, FS_CardinalityType
  <2> QED BY <1>1, <2>3, <2>4, QueueAssumption DEF IInv, QueueOK, CapOK, CapRespected
<1> QED BY <1>1, Invariance, PTL

(* The runner's first promises: one job per project, and the cap. *)
THEOREM JobsStayLimited == Spec => []JobsAreLimited
<1>1. SingleFlight /\ CapRespected => JobsAreLimited
  BY DEF JobsAreLimited
<1> QED BY <1>1, OneJobPerProject, NeverOverCap, PTL

(* An org's imports clone one at a time. *)
THEOREM ImportsAreSerial == Spec => []OneImportPerOrg
<1>1. ASSUME IInv PROVE OneImportPerOrg
  <2> SUFFICES ASSUME NEW r \in RunIds, NEW q \in RunIds, Live(r), Live(q),
                      spec[r].importing, spec[q].importing,
                      OrgOf[ProjectOf(r)] = OrgOf[ProjectOf(q)]
               PROVE  r = q
    BY DEF OneImportPerOrg
  <2>1. /\ ProjectOf(r) \in Projects /\ busy[ProjectOf(r)] = r
        /\ ProjectOf(q) \in Projects /\ busy[ProjectOf(q)] = q
    BY <1>1 DEF IInv, QueueOK, JobsOK, Live, ProjectOf
  <2> QED BY <1>1, <2>1 DEF IInv, QueueOK, ImportsOK, None, RunIds
<1> QED BY <1>1, Invariance, PTL

(* A run that ended keeps its status: only the row of a run that waits or  *)
(* runs is ever moved, by the handler, the job or the restart that owns it. *)
THEOREM EndedRunsAreFinal == Spec => EndedStaysEnded
<1> DEFINE A == \A r \in RunIds : row[r].status \in {"ok", "failed", "cancelled"} =>
                  row'[r].status = row[r].status
<1>1. ASSUME IInv, [Next]_vars PROVE A
  <2> SUFFICES ASSUME NEW q \in RunIds, row[q].status \in {"ok", "failed", "cancelled"}
               PROVE  row'[q].status = row[q].status
    OBVIOUS
  <2>1. TypeOK /\ row \in [RunIds -> ScanRun]
    BY <1>1 DEF IInv, TypeOK
  <2>2. CASE row' = row
    BY <2>2
  <2>3. ASSUME NEW c \in Callers, Insert(c) \/ Update(c) \/ MarkCancelled(c)
        PROVE  row'[q].status = row[q].status
    <3>1. call[c].pc \in {"mark", "update"} => call[c].run \in RunIds
      BY <1>1 DEF IInv, FramesOK
    <3> QED BY <2>1, <2>3, <3>1 DEF Insert, Update, MarkCancelled, Queued
  <2>4. ASSUME NEW r \in RunIds, Begin(r) \/ FinishRun(r)
        PROVE  row'[q].status = row[q].status
    <3>1. row[r].status \in {"queued", "running", "interrupted"}
      BY <1>1, <2>4 DEF IInv, QueueOK, JobsOK, Begin, FinishRun
    <3> QED BY <2>1, <2>4, <3>1 DEF Begin, FinishRun
  <2>5. CASE MarkLeftover \/ MarkStale
    BY <2>1, <2>5 DEF MarkLeftover, MarkStale
  <2>6. CASE Requeue
    BY <2>1, <2>6 DEF Requeue
  <2>7. ASSUME NEW c \in Callers, CallerStep(c)
        PROVE  row' = row \/ Insert(c) \/ Update(c) \/ MarkCancelled(c)
    BY <2>7 DEF CallerStep, Holding, Request, Acquire, CancelQueued, CancelRunning,
       Refuse, DecideNew, DecideMerge, InsertFails, Register, UpdateFails, Return,
       MarkCancelledFails, database
  <2>8. ASSUME NEW r \in RunIds, JobStep(r)
        PROVE  row' = row \/ Begin(r) \/ FinishRun(r)
    BY <2>8 DEF JobStep, JobOnly, FailsEarly, SyncGivesUp, CloneDone, NothingToScan,
       StopsBeforeChild, Spawn, ChildExits, FinishRunFails, Retire, database
  <2>9. CASE \/ \E r \in RunIds : RecoverRow(r)
             \/ \E p \in Projects : DebounceEnds(p) \/ WakeUp(p)
             \/ Shutdown \/ MarkLeftoverFails \/ Exit \/ Crash
             \/ UNCHANGED vars
    BY <2>2, <2>9 DEF RecoverRow, DebounceEnds, WakeUp, Shutdown, MarkLeftoverFails,
       Exit, Crash, Forget, vars, database
  <2> QED BY <1>1, <2>2, <2>3, <2>4, <2>5, <2>6, <2>7, <2>8, <2>9 DEF Next
<1>2. IInv /\ [Next]_vars => [A]_vars
  BY <1>1
<1> QED BY <1>2, Invariance, PTL DEF Spec, EndedStaysEnded

-----------------------------------------------------------------------------
(* No job describes without a right to spend and a completed first scan.   *)
(* A job's right is checked once, when its request is granted; after that  *)
(* it travels in the pending run, through merges with other requests, and  *)
(* in the queued row, through a restart.  The invariant says that it is    *)
(* in both places all the time.                                            *)

Spenders == {a.job.by : a \in {x \in Asks : x.maySpend /\ x.job.analyze}}

(* What describes was asked for by a spender, on a scanned project. *)
WasGranted(analyze, by, p, sc) == analyze => sc[p] /\ by \in Spenders

SpecsGranted(sp, rw, sc) ==
  \A r \in RunIds :
    sp[r].job.analyze => /\ rw[r].status # "none"
                         /\ sc[rw[r].project] /\ sp[r].job.by \in Spenders

QueuedGranted(rw, sc) ==
  \A r \in RunIds :
    rw[r].status = "queued" =>
      WasGranted(rw[r].queued.analyze, rw[r].queued.by, rw[r].project, sc)

(* The lock's holder knows of a completed scan, and has checked the right. *)
CallsGranted(cl, sc) ==
  \A c \in Callers :
    /\ cl[c].pc = "idle" => ~cl[c].hasOk
    /\ cl[c].hasOk => sc[cl[c].project] /\ cl[c].project \in Projects
    /\ cl[c].pc \in {"insert", "register"} /\ cl[c].hasOk /\ cl[c].ask.job.analyze
         => cl[c].ask.maySpend

SpendInv ==
  /\ SpecsGranted(spec, row, scanned)
  /\ QueuedGranted(row, scanned)
  /\ CallsGranted(call, scanned)

-----------------------------------------------------------------------------

(* A granted request that describes is a spender's. *)
LEMMA GrantingIsSpender ==
  ASSUME IInv, SpendInv, NEW c \in Callers, Granting(c).analyze,
         call[c].ask.maySpend
  PROVE  /\ scanned[call[c].project]
         /\ Granting(c).by \in Spenders
<1>1. call[c].ask \in Asks /\ call[c].ask.job \in Job
  BY AskedJobs DEF IInv, TypeOK, Frame
<1>2. call[c].hasOk /\ call[c].ask.job.analyze /\ Granting(c).by = call[c].ask.job.by
  BY <1>1 DEF Granting, Granted, Job
<1> QED BY <1>1, <1>2 DEF SpendInv, CallsGranted, Spenders

(* A merge that describes belongs to the spender of one of its sides. *)
LEMMA MergeIsSpender ==
  ASSUME NEW a \in Job, NEW b \in Job,
         a.analyze => a.by \in Spenders, b.analyze => b.by \in Spenders,
         MergeJobs(a, b).analyze
  PROVE  MergeJobs(a, b).by \in Spenders
<1>1. NoUser \notin Spenders
  BY AskedJobs, NullAssumption DEF Spenders
<1> QED BY <1>1 DEF MergeJobs, Job

(* A step that moves neither specs, rows, scans nor frames. *)
LEMMA SpendUnchanged ==
  ASSUME SpendInv, UNCHANGED <<spec, row, scanned, call>>
  PROVE  SpendInv'
BY DEF SpendInv, SpecsGranted, QueuedGranted, WasGranted, CallsGranted

(* A frame that goes on past the check, or ends. *)
LEMMA SpendFrames ==
  ASSUME IInv, SpendInv, NEW c \in Callers,
         UNCHANGED <<spec, row, scanned>>,
         NEW f, call' = [call EXCEPT ![c] = f],
         f.pc = "idle" => ~f.hasOk,
         f.hasOk => scanned[f.project] /\ f.project \in Projects,
         f.pc \in {"insert", "register"} /\ f.hasOk /\ f.ask.job.analyze
           => f.ask.maySpend
  PROVE  SpendInv'
<1>1. \A d \in Callers : call'[d] = IF d = c THEN f ELSE call[d]
  BY DEF IInv, TypeOK
<1> QED BY <1>1 DEF SpendInv, SpecsGranted, QueuedGranted, WasGranted, CallsGranted

(* A handler's step keeps the grants. *)
LEMMA CallerSpends ==
  ASSUME IInv, SpendInv, NEW c \in Callers, CallerStep(c)
  PROVE  SpendInv'
<1> USE DEF database, bounds
<1>0. /\ call \in [Callers -> Frame] /\ call[c] \in Frame
      /\ call[c].ask \in Asks /\ call[c].ask.job \in Job
      /\ spec \in [RunIds -> PendingSpec]
      /\ row \in [RunIds -> ScanRun]
      /\ pend \in [Projects -> RunIds \cup {None}]
      /\ ~NoCall.hasOk /\ NoCall.pc = "idle"
  BY QueueAssumption, AskedJobs DEF IInv, TypeOK, Frame, NoCall
<1>1. ASSUME NEW p \in Projects, NEW ask \in Asks, Request(c, p, ask)
      PROVE  SpendInv'
  <2> DEFINE f == [pc |-> "wait", project |-> p, ask |-> ask,
                   importing |-> ~initialized[p], hasOk |-> FALSE, run |-> None]
  <2>1. UNCHANGED <<spec, row, scanned>> /\ call' = [call EXCEPT ![c] = f]
    BY <1>1 DEF Request
  <2>2. ~f.hasOk
    OBVIOUS
  <2> HIDE DEF f
  <2> QED BY <2>1, <2>2, SpendFrames
<1>2. ASSUME NEW p \in Projects, NEW may \in BOOLEAN, CancelQueued(c, p, may)
      PROVE  SpendInv'
  <2> DEFINE f == [Goto(c, "mark", pend[p]) EXCEPT !.project = p]
  <2>1. UNCHANGED <<spec, row, scanned>> /\ call' = [call EXCEPT ![c] = f]
    BY <1>2 DEF CancelQueued
  <2>2. f.pc = "mark" /\ f.hasOk = call[c].hasOk
    BY DEF Goto
  <2>3. ~call[c].hasOk
    BY <1>2 DEF CancelQueued, SpendInv, CallsGranted
  <2> HIDE DEF f
  <2> QED BY <2>1, <2>2, <2>3, SpendFrames
<1>3. ASSUME NEW p \in Projects, NEW may \in BOOLEAN, CancelRunning(c, p, may)
      PROVE  SpendInv'
  BY <1>3, SpendUnchanged DEF CancelRunning
<1>4. CASE Acquire(c)
  <2> DEFINE f == [Goto(c, "decide", None) EXCEPT !.hasOk = scanned[call[c].project]]
  <2>1. UNCHANGED <<spec, row, scanned>> /\ call' = [call EXCEPT ![c] = f]
    BY <1>4 DEF Acquire
  <2>2. /\ f.pc = "decide" /\ f.project = call[c].project
        /\ f.hasOk = scanned[f.project]
    BY DEF Goto
  <2>3. f.project \in Projects
    BY <1>4, <2>2 DEF Acquire, IInv, FramesOK
  <2> HIDE DEF f
  <2> QED BY <2>1, <2>2, <2>3, SpendFrames
<1>5. CASE DecideNew(c)
  <2> DEFINE f == Goto(c, "insert", None)
  <2>1. UNCHANGED <<spec, row, scanned>> /\ call' = [call EXCEPT ![c] = f]
    BY <1>5 DEF DecideNew
  <2>2. /\ f.pc = "insert" /\ f.project = call[c].project
        /\ f.hasOk = call[c].hasOk /\ f.ask = call[c].ask
    BY DEF Goto
  <2>3. f.hasOk /\ f.ask.job.analyze => f.ask.maySpend
    BY <1>0, <1>5, <2>2 DEF DecideNew, MayProceed, Granting, Granted, Job
  <2>4. f.hasOk => scanned[f.project] /\ f.project \in Projects
    BY <2>2 DEF SpendInv, CallsGranted
  <2> HIDE DEF f
  <2> QED BY <2>1, <2>2, <2>3, <2>4, SpendFrames
<1>6. CASE \/ Refuse(c) \/ InsertFails(c) \/ UpdateFails(c) \/ Return(c)
           \/ MarkCancelledFails(c)
  <2>1. UNCHANGED <<spec, row, scanned>> /\ call' = [call EXCEPT ![c] = NoCall]
    BY <1>6 DEF Refuse, InsertFails, UpdateFails, Return, MarkCancelledFails
  <2> QED BY <1>0, <2>1, SpendFrames
<1>7. CASE Insert(c)
  <2>1. PICK r \in RunIds :
          /\ row[r].status = "none"
          /\ row' = [row EXCEPT ![r] = [status |-> "queued",
                                        project |-> call[c].project,
                                        queued |-> Row(Granting(c)),
                                        outcome |-> FALSE]]
          /\ call' = [call EXCEPT ![c] = Goto(c, "register", r)]
          /\ spec' = spec /\ scanned' = scanned
    BY <1>7 DEF Insert
  <2>2. \A q \in RunIds : q # r => row'[q] = row[q]
    BY <2>1, <1>0
  <2>3. /\ row'[r].status = "queued" /\ row'[r].project = call[c].project
        /\ row'[r].queued.analyze = Granting(c).analyze
        /\ row'[r].queued.by = Granting(c).by
    BY <2>1, <1>0 DEF Row
  <2>4. Granting(c).analyze => call[c].ask.maySpend
    BY <1>0, <1>7 DEF Insert, SpendInv, CallsGranted, Granting, Granted, Job
  <2>5. QueuedGranted(row', scanned')
    BY <2>1, <2>2, <2>3, <2>4, GrantingIsSpender
    DEF SpendInv, QueuedGranted, WasGranted
  <2>6. SpecsGranted(spec', row', scanned')
    BY <2>1, <2>2 DEF SpendInv, SpecsGranted
  <2>7. CallsGranted(call', scanned')
    <3>1. /\ call'[c].project = call[c].project /\ call'[c].hasOk = call[c].hasOk
          /\ call'[c].ask = call[c].ask /\ call'[c].pc = "register"
          /\ \A d \in Callers \ {c} : call'[d] = call[d]
      BY <2>1, <1>0 DEF Goto
    <3> QED BY <3>1, <2>1, <1>7 DEF Insert, SpendInv, CallsGranted
  <2> QED BY <2>5, <2>6, <2>7 DEF SpendInv, SpecsGranted, QueuedGranted, CallsGranted
<1>8. CASE Register(c)
  <2> DEFINE r == call[c].run
             new == [job |-> Granting(c), importing |-> call[c].importing,
                     held |-> Granting(c).trigger = "forge"
                                /\ call[c].project \in recent]
  <2>1. /\ spec' = [spec EXCEPT ![r] = new] /\ row' = row /\ scanned' = scanned
        /\ call' = [call EXCEPT ![c] = NoCall]
        /\ call[c].pc = "register"
    BY <1>8 DEF Register
  <2>2. r \in RunIds /\ row[r].status = "queued" /\ row[r].project = call[c].project
    BY <2>1 DEF IInv, FramesOK
  <2>3. Granting(c).analyze => call[c].ask.maySpend
    BY <1>0, <2>1 DEF SpendInv, CallsGranted, Granting, Granted, Job
  <2>4. new.job = Granting(c)
    OBVIOUS
  <2> HIDE DEF new
  <2>5. SpecsGranted(spec', row', scanned')
    BY <1>0, <2>1, <2>2, <2>3, <2>4, GrantingIsSpender DEF SpendInv, SpecsGranted
  <2>6. \A d \in Callers : call'[d] = IF d = c THEN NoCall ELSE call[d]
    BY <1>0, <2>1
  <2> QED BY <1>0, <2>1, <2>5, <2>6
          DEF SpendInv, SpecsGranted, QueuedGranted, WasGranted, CallsGranted
<1>9. CASE DecideMerge(c)
  <2> DEFINE r == pend[call[c].project]
             merged == MergeJobs(spec[r].job, Granting(c))
             new == [job |-> merged,
                     importing |-> spec[r].importing \/ call[c].importing,
                     held |-> spec[r].held /\ merged.trigger = "forge"]
  <2>1. /\ spec' = [spec EXCEPT ![r] = new] /\ row' = row /\ scanned' = scanned
        /\ call' = [call EXCEPT ![c] = Goto(c, "update", r)]
        /\ call[c].pc = "decide" /\ r # None
        /\ Granting(c).analyze => call[c].ask.maySpend
    BY <1>9 DEF DecideMerge, MayProceed
  <2>2. call[c].project \in Projects
    BY <2>1 DEF IInv, FramesOK
  <2>3. r \in RunIds /\ row[r].status = "queued" /\ row[r].project = call[c].project
    BY <1>0, <2>1, <2>2 DEF IInv, QueueOK, PendOK
  <2>4. Granting(c) \in Job /\ spec[r].job \in Job
    BY <1>0, <2>3, GrantedJob DEF PendingSpec, IInv
  <2>5. /\ spec[r].job.analyze => scanned[row[r].project] /\ spec[r].job.by \in Spenders
        /\ Granting(c).analyze => scanned[row[r].project] /\ Granting(c).by \in Spenders
    BY <2>1, <2>3, GrantingIsSpender DEF SpendInv, SpecsGranted
  <2>6. merged.analyze => merged.by \in Spenders
    BY <2>4, <2>5, MergeIsSpender
  <2>7. merged.analyze => scanned[row[r].project]
    BY <2>4, <2>5 DEF MergeJobs
  <2>8. new.job = merged
    OBVIOUS
  <2> HIDE DEF new, merged
  <2>9. SpecsGranted(spec', row', scanned')
    BY <1>0, <2>1, <2>3, <2>6, <2>7, <2>8 DEF SpendInv, SpecsGranted
  <2>10. CallsGranted(call', scanned')
    <3>1. /\ call'[c].project = call[c].project /\ call'[c].hasOk = call[c].hasOk
          /\ call'[c].pc = "update"
          /\ \A d \in Callers \ {c} : call'[d] = call[d]
      BY <2>1, <1>0 DEF Goto
    <3> QED BY <3>1, <2>1 DEF SpendInv, CallsGranted
  <2> QED BY <2>1, <2>9, <2>10
          DEF SpendInv, SpecsGranted, QueuedGranted, WasGranted, CallsGranted
<1>10. CASE Update(c)
  <2> DEFINE r == call[c].run
  <2>1. /\ row' = [row EXCEPT ![r] = Queued(r, spec[r].job)]
        /\ call' = [call EXCEPT ![c] = Goto(c, "return", r)]
        /\ spec' = spec /\ scanned' = scanned /\ call[c].pc = "update"
    BY <1>10 DEF Update
  <2>2. r \in RunIds
    BY <2>1 DEF IInv, FramesOK
  <2>3. /\ \A q \in RunIds : q # r => row'[q] = row[q]
        /\ row'[r].status = row[r].status /\ row'[r].project = row[r].project
        /\ row'[r].queued.analyze = spec[r].job.analyze
        /\ row'[r].queued.by = spec[r].job.by
    BY <1>0, <2>1, <2>2 DEF Queued, ProjectOf, Row
  <2>4. SpecsGranted(spec', row', scanned') /\ QueuedGranted(row', scanned')
    BY <2>1, <2>2, <2>3, ZenonT(60) DEF SpendInv, SpecsGranted, QueuedGranted, WasGranted
  <2>5. CallsGranted(call', scanned')
    <3>1. /\ call'[c].project = call[c].project /\ call'[c].hasOk = call[c].hasOk
          /\ call'[c].pc = "return"
          /\ \A d \in Callers \ {c} : call'[d] = call[d]
      BY <2>1, <1>0 DEF Goto
    <3> QED BY <3>1, <2>1 DEF SpendInv, CallsGranted
  <2> QED BY <2>4, <2>5 DEF SpendInv, SpecsGranted, QueuedGranted, CallsGranted
<1>11. CASE MarkCancelled(c)
  <2> DEFINE r == call[c].run
  <2>1. /\ row' = IF row[r].status = "queued"
                  THEN [row EXCEPT ![r] = Ended(r, "cancelled")] ELSE row
        /\ call' = [call EXCEPT ![c] = NoCall]
        /\ spec' = spec /\ scanned' = scanned /\ call[c].pc = "mark"
    BY <1>11 DEF MarkCancelled
  <2>2. r \in RunIds
    BY <2>1 DEF IInv, FramesOK
  <2>3. /\ \A q \in RunIds : q # r => row'[q] = row[q]
        /\ row'[r] = row[r] \/ row'[r].status = "cancelled"
        /\ row'[r].project = row[r].project
    BY <1>0, <2>1, <2>2 DEF Ended, ProjectOf
  <2>4. SpecsGranted(spec', row', scanned') /\ QueuedGranted(row', scanned')
    BY <2>1, <2>2, <2>3, ZenonT(60) DEF SpendInv, SpecsGranted, QueuedGranted, WasGranted
  <2>5. \A d \in Callers : call'[d] = IF d = c THEN NoCall ELSE call[d]
    BY <1>0, <2>1
  <2> QED BY <1>0, <2>1, <2>4, <2>5
          DEF SpendInv, SpecsGranted, QueuedGranted, CallsGranted
<1> QED BY <1>1, <1>2, <1>3, <1>4, <1>5, <1>6, <1>7, <1>8, <1>9, <1>10, <1>11
        DEF CallerStep, Holding

(* A job's step keeps the grants: its row stops being queued before it ends. *)
LEMMA JobSpends ==
  ASSUME IInv, SpendInv, NEW r \in RunIds, JobStep(r)
  PROVE  SpendInv'
<1> USE DEF database, bounds, process, JobOnly
<1>0. row \in [RunIds -> ScanRun] /\ scanned \in [Projects -> BOOLEAN]
  BY DEF IInv, TypeOK
<1>1. CASE \/ FailsEarly(r) \/ SyncGivesUp(r) \/ CloneDone(r) \/ NothingToScan(r)
           \/ StopsBeforeChild(r) \/ Spawn(r) \/ ChildExits(r)
           \/ FinishRunFails(r) \/ Retire(r)
  <2>1. UNCHANGED <<spec, row, scanned, call>>
    BY <1>1 DEF FailsEarly, SyncGivesUp, CloneDone, NothingToScan, StopsBeforeChild,
       Spawn, ChildExits, FinishRunFails, Retire
  <2> QED BY <2>1, SpendUnchanged
<1>2. ASSUME UNCHANGED <<spec, call>>,
             \A q \in RunIds : q # r => row'[q] = row[q],
             row'[r].status \notin {"none", "queued"},
             row[r].status # "none" => row'[r].project = row[r].project,
             \A p \in Projects : scanned[p] => scanned'[p]
      PROVE  SpendInv'
  <2>1. SpecsGranted(spec', row', scanned')
    BY <1>2 DEF SpendInv, SpecsGranted, IInv, QueueOK, RowsOK
  <2>2. QueuedGranted(row', scanned')
    BY <1>2 DEF SpendInv, QueuedGranted, WasGranted, IInv, QueueOK, RowsOK
  <2>3. CallsGranted(call', scanned')
    BY <1>2 DEF SpendInv, CallsGranted
  <2> QED BY <2>1, <2>2, <2>3 DEF SpendInv, SpecsGranted, QueuedGranted, CallsGranted
<1>3. CASE Begin(r)
  <2>1. row' = [row EXCEPT ![r] =
       [status |-> "running", project |-> ProjectOf(r), outcome |-> @.outcome,
        queued |-> [Row(spec[r].job) EXCEPT !.by = row[r].queued.by,
                                            !.summary = row[r].queued.summary]]]
        /\ UNCHANGED <<spec, call, scanned>>
    BY <1>3 DEF Begin
  <2>2. row'[r].status = "running" /\ row'[r].project = row[r].project
    BY <1>0, <2>1 DEF ProjectOf
  <2> QED BY <1>0, <1>2, <2>1, <2>2
<1>4. CASE FinishRun(r)
  <2> DEFINE st == Outcome(job[r].end, job[r].cancelled, job[r].interrupted)
  <2>1. /\ row' = [row EXCEPT ![r] = Ended(r, st)]
        /\ scanned' = [scanned EXCEPT ![ProjectOf(r)] =
                         @ \/ (st = "ok" /\ job[r].ran)]
        /\ UNCHANGED <<spec, call>>
    BY <1>4 DEF FinishRun
  <2>2. st \in Final
    BY <1>4 DEF FinishRun, IInv, TypeOK, JobState, Outcome, Final
  <2>3. row'[r].status \notin {"none", "queued"} /\ row'[r].project = row[r].project
    BY <1>0, <2>1, <2>2 DEF Ended, ProjectOf, Final
  <2>4. \A p \in Projects : scanned[p] => scanned'[p]
    BY <1>0, <2>1
  <2>5. \A q \in RunIds : q # r => row'[q] = row[q]
    BY <1>0, <2>1
  <2> QED BY <1>2, <2>1, <2>3, <2>4, <2>5
<1> QED BY <1>1, <1>3, <1>4 DEF JobStep

(* The restart takes the right from the row, and writes it back. *)
LEMMA RestartSpends ==
  ASSUME IInv, SpendInv,
         \/ \E r \in RunIds : RecoverRow(r)
         \/ Requeue \/ MarkStale \/ MarkLeftover
  PROVE  SpendInv'
<1> USE DEF database, bounds
<1>0. /\ row \in [RunIds -> ScanRun] /\ spec \in [RunIds -> PendingSpec]
      /\ pend \in [Projects -> RunIds \cup {None}]
  BY DEF IInv, TypeOK
<1>1. ASSUME NEW r \in RunIds, RecoverRow(r)
      PROVE  SpendInv'
  <2> DEFINE p == ProjectOf(r)
             found == Recovered(row[r].queued)
  <2>1. /\ row[r].status = "queued" /\ UNCHANGED <<row, scanned, call>>
        /\ p \in Projects
    BY <1>1 DEF RecoverRow, IInv, QueueOK, RowsOK, ProjectOf
  <2>2. /\ found \in Job
        /\ found.analyze => scanned[p] /\ found.by \in Spenders
    <3>1. row[r].queued \in Columns
      BY <1>0 DEF ScanRun
    <3>2. found \in Job
      BY <3>1 DEF Recovered, Columns, Job
    <3>3. found.analyze = row[r].queued.analyze /\ found.by = row[r].queued.by
      BY DEF Recovered
    <3> QED BY <2>1, <3>2, <3>3 DEF SpendInv, QueuedGranted, WasGranted, ProjectOf
  <2> HIDE DEF found
  <2>3. CASE pend[p] = None
    <3>1. /\ \A q \in RunIds \ {r} : spec'[q] = spec[q]
          /\ spec'[r].job = found
      BY <1>0, <1>1, <2>3 DEF RecoverRow, found
    <3>2. SpecsGranted(spec', row', scanned')
      BY <2>1, <2>2, <3>1 DEF SpendInv, SpecsGranted, ProjectOf
    <3> QED BY <2>1, <3>2 DEF SpendInv, SpecsGranted, QueuedGranted, CallsGranted
  <2>4. CASE pend[p] # None
    <3> DEFINE k == pend[p]
    <3>1. k \in RunIds /\ row[k].status = "queued" /\ row[k].project = p
      BY <1>0, <2>1, <2>4 DEF IInv, QueueOK, PendOK
    <3>2. spec' = [spec EXCEPT ![k].job = MergeJobs(@, found)]
      BY <1>1, <2>4 DEF RecoverRow, found
    <3>3. /\ \A q \in RunIds \ {k} : spec'[q] = spec[q]
          /\ spec'[k].job = MergeJobs(spec[k].job, found)
      BY <1>0, <3>1, <3>2 DEF PendingSpec
    <3>4. spec[k].job \in Job
      BY <1>0, <3>1 DEF PendingSpec
    <3>5. spec[k].job.analyze => scanned[p] /\ spec[k].job.by \in Spenders
      BY <3>1 DEF SpendInv, SpecsGranted
    <3>6. spec'[k].job.analyze => scanned[p] /\ spec'[k].job.by \in Spenders
      <4>1. spec'[k].job.analyze => spec[k].job.analyze \/ found.analyze
        BY <2>2, <3>3, <3>4 DEF MergeJobs, Job
      <4> QED BY <2>2, <3>3, <3>4, <3>5, <4>1, MergeIsSpender
    <3>7. SpecsGranted(spec', row', scanned')
      BY <2>1, <3>1, <3>3, <3>6 DEF SpendInv, SpecsGranted
    <3> QED BY <2>1, <3>7 DEF SpendInv, SpecsGranted, QueuedGranted, CallsGranted
  <2> QED BY <2>3, <2>4
<1>2. ASSUME UNCHANGED <<spec, scanned, call>>,
             \A q \in RunIds :
               /\ row'[q].project = row[q].project
               /\ row[q].status # "none" => row'[q].status # "none"
               /\ row'[q].status = "queued" =>
                    \/ row[q].status = "queued" /\ row'[q].queued = row[q].queued
                    \/ row'[q].queued = Row(spec[q].job)
      PROVE  SpendInv'
  <2>1. SpecsGranted(spec', row', scanned')
    BY <1>2 DEF SpendInv, SpecsGranted
  <2>2. QueuedGranted(row', scanned')
    <3> SUFFICES ASSUME NEW q \in RunIds, row'[q].status = "queued"
                 PROVE  WasGranted(row'[q].queued.analyze, row'[q].queued.by,
                                   row'[q].project, scanned')
      BY DEF QueuedGranted
    <3>1. CASE row'[q].queued = Row(spec[q].job)
      <4>1. /\ row'[q].queued.analyze = spec[q].job.analyze
            /\ row'[q].queued.by = spec[q].job.by
        BY <3>1 DEF Row
      <4> QED BY <1>2, <4>1 DEF SpendInv, SpecsGranted, WasGranted
    <3>2. CASE row[q].status = "queued" /\ row'[q].queued = row[q].queued
      BY <1>2, <3>2 DEF SpendInv, QueuedGranted, WasGranted
    <3> QED BY <1>2, <3>1, <3>2
  <2> QED BY <1>2, <2>1, <2>2 DEF SpendInv, SpecsGranted, QueuedGranted, CallsGranted
<1>3. CASE MarkStale \/ MarkLeftover
  <2>1. UNCHANGED <<spec, scanned, call>>
    BY <1>3 DEF MarkStale, MarkLeftover
  <2>2. \A q \in RunIds : row'[q] = row[q] \/ row'[q] = [row[q] EXCEPT !.status = "interrupted"]
    BY <1>3 DEF MarkStale, MarkLeftover
  <2>3. \A q \in RunIds : /\ [row[q] EXCEPT !.status = "interrupted"].status = "interrupted"
                          /\ [row[q] EXCEPT !.status = "interrupted"].project = row[q].project
    BY <1>0 DEF ScanRun
  <2> QED BY <1>2, <2>1, <2>2, <2>3
<1>4. CASE Requeue
  <2>1. UNCHANGED <<spec, scanned, call>>
    BY <1>4 DEF Requeue
  <2>2. \A q \in RunIds : \/ row'[q] = row[q]
                          \/ row'[q] = [row[q] EXCEPT !.queued = Row(spec[q].job)]
                             /\ row[q].status = "queued"
                          \/ row'[q] = Ended(q, "cancelled")
    BY <1>4 DEF Requeue
  <2>3. \A q \in RunIds :
          /\ [row[q] EXCEPT !.queued = Row(spec[q].job)].status = row[q].status
          /\ [row[q] EXCEPT !.queued = Row(spec[q].job)].project = row[q].project
          /\ [row[q] EXCEPT !.queued = Row(spec[q].job)].queued = Row(spec[q].job)
          /\ Ended(q, "cancelled").status = "cancelled"
          /\ Ended(q, "cancelled").project = row[q].project
    BY <1>0 DEF ScanRun, Ended, ProjectOf
  <2> QED BY <1>2, <2>1, <2>2, <2>3
<1> QED BY <1>1, <1>3, <1>4

(* Nothing is granted to a process that is gone; what is in its rows stays. *)
LEMMA ForgetSpends ==
  ASSUME IInv, SpendInv, Forget
  PROVE  SpendInv'
<1>1. /\ \A r \in RunIds : ~spec'[r].job.analyze
      /\ \A c \in Callers : call'[c].pc = "idle" /\ ~call'[c].hasOk
      /\ row' = row /\ scanned' = scanned
  BY DEF Forget, NoSpec, AnyJob, NoCall, database
<1> QED BY <1>1 DEF SpendInv, SpecsGranted, QueuedGranted, WasGranted, CallsGranted

(* A timer only lets a held run go. *)
LEMMA WakeUpSpends ==
  ASSUME IInv, SpendInv, NEW p \in Projects, WakeUp(p)
  PROVE  SpendInv'
<1>1. UNCHANGED <<row, scanned, call>> /\ pend[p] \in RunIds
      /\ spec' = [spec EXCEPT ![pend[p]].held = FALSE]
  BY DEF WakeUp, database, IInv, TypeOK
<1>2. \A r \in RunIds : spec'[r].job = spec[r].job
  BY <1>1 DEF IInv, TypeOK, PendingSpec
<1> QED BY <1>1, <1>2 DEF SpendInv, SpecsGranted, QueuedGranted, CallsGranted

(* The grants are inductive, given the queue's own invariant. *)
LEMMA StepSpends == IInv /\ SpendInv /\ [Next]_vars => SpendInv'
<1> SUFFICES ASSUME IInv, SpendInv, [Next]_vars PROVE SpendInv'
  OBVIOUS
<1>1. CASE \/ \E p \in Projects : DebounceEnds(p)
           \/ Shutdown \/ MarkLeftoverFails \/ UNCHANGED vars
  <2>1. UNCHANGED <<spec, row, scanned, call>>
    BY <1>1 DEF DebounceEnds, Shutdown, MarkLeftoverFails, vars, process, database
  <2> QED BY <2>1, SpendUnchanged
<1>2. CASE Exit \/ Crash
  BY <1>2, ForgetSpends DEF Exit, Crash
<1> QED BY <1>1, <1>2, CallerSpends, JobSpends, RestartSpends, WakeUpSpends DEF Next

(* At every moment each describing run carries the name of somebody who    *)
(* may spend and asked for it, in memory and in its row.                   *)
THEOREM SpendInvariance == Spec => []SpendInv
<1>1. Init => SpendInv
  BY DEF Init, SpendInv, SpecsGranted, QueuedGranted, CallsGranted, NoSpec, AnyJob,
     NoRow, NoCall
<1> QED BY <1>1, StepSpends, Invariance, PTL DEF Spec

(* No LLM money without a right to spend it and a completed first scan     *)
(* (_request_claimed, _Pending.merge, _recover_queued).                    *)
THEOREM NoSpendingWithoutRight == Spec => []SpendingIsGranted
<1>1. IInv /\ SpendInv => SpendingIsGranted
  BY DEF SpendInv, SpecsGranted, SpendingIsGranted, Spenders, ProjectOf
<1> QED BY <1>1, Invariance, SpendInvariance, PTL

-----------------------------------------------------------------------------

(***************************************************************************)
(* The rows agree with the queue: while no transaction has failed, a row   *)
(* that says queued or running has a pending run, a job or a handler       *)
(* behind it; and whatever has failed, a start repairs all of them.  For   *)
(* any projects, callers, stops and restarts.                              *)
(*                                                                         *)
(* A row's owner changes hands between the handler that inserts it, the    *)
(* queue, the job and the handler that cancels it: the handler may put its *)
(* run in the queue because it found the project's place free, and nobody  *)
(* can take the place while it holds the lock.                             *)
(***************************************************************************)
OwnedBy(r, c) == call[c].run = r /\ call[c].pc \in {"register", "mark"}

Matched == mode \in {"up", "stopping", "stopped"} /\ faults = 0 => RowsMatch

NoStaleRow == mode = "starting" => \A r \in RunIds : row[r].status # "running"

DoneIsFinal ==
  faults = 0 => \A r \in RunIds : job[r].phase = "done" => row[r].status \in Final

PlaceIsFree ==
  \A c \in Callers :
    call[c].pc \in {"insert", "register"} => pend[call[c].project] = None

RowsInv == Matched /\ NoStaleRow /\ DoneIsFinal /\ PlaceIsFree

-----------------------------------------------------------------------------

(* What a dispatch does to one project's place and slot. *)
LEMMA DispatchMoves ==
  ASSUME NEW pd, NEW bz, NEW jb, NEW sp,
         Dispatch(pd, bz, jb, sp) \/ Start(pd, bz, jb, sp),
         pd \in [Projects -> RunIds \cup {None}],
         bz \in [Projects -> RunIds \cup {None}],
         jb \in [RunIds -> JobState]
  PROVE  /\ \A p \in Projects :
              \/ pend'[p] = pd[p] /\ busy'[p] = bz[p]
              \/ pend'[p] = None /\ busy'[p] = pd[p] /\ bz[p] = None
         /\ \A r \in RunIds :
              \/ job'[r] = jb[r]
              \/ job'[r].phase = "start" /\ \E p \in Projects : pd[p] = r
<1>1. CASE pend' = pd /\ busy' = bz /\ job' = jb
  BY <1>1
<1>2. CASE Start(pd, bz, jb, sp)
  <2>1. PICK D \in SUBSET Eligible(pd, bz, sp) :
          /\ pend' = [p \in Projects |-> IF p \in D THEN None ELSE pd[p]]
          /\ busy' = [p \in Projects |-> IF p \in D THEN pd[p] ELSE bz[p]]
          /\ job' = [r \in RunIds |-> IF \E p \in D : pd[p] = r
                                      THEN NewJob ELSE jb[r]]
    BY <1>2 DEF Start
  <2>2. \A p \in D : p \in Projects /\ bz[p] = None
    BY DEF Eligible, Waiting
  <2> QED BY <2>1, <2>2, JobStateTyped
<1> QED BY <1>1, <1>2 DEF Dispatch

(* The owners of the rows after a dispatch of what was there. *)
LEMMA DispatchMatches ==
  ASSUME IInv, RowsInv,
         NEW sp, Dispatch(pend, busy, job, sp),
         UNCHANGED <<mode, row, faults>>,
         NEW c \in Callers, call' = [call EXCEPT ![c] = NoCall] \/ call' = call,
         call[c].pc \notin {"register", "mark"}
  PROVE  RowsInv'
<1>0. /\ pend \in [Projects -> RunIds \cup {None}]
      /\ busy \in [Projects -> RunIds \cup {None}]
      /\ job \in [RunIds -> JobState] /\ row \in [RunIds -> ScanRun]
      /\ call \in [Callers -> Frame]
      /\ NoCall.pc = "idle"
  BY DEF IInv, TypeOK, NoCall
<1>1. /\ \A p \in Projects :
           \/ pend'[p] = pend[p] /\ busy'[p] = busy[p]
           \/ pend'[p] = None /\ busy'[p] = pend[p] /\ busy[p] = None
      /\ \A r \in RunIds : job'[r] = job[r] \/ job'[r].phase = "start"
  BY <1>0, DispatchMoves
<1>2. \A d \in Callers : call'[d] = call[d] \/ (d = c /\ call'[d] = NoCall)
  BY <1>0
<1>3. Matched'
  <2> SUFFICES ASSUME mode \in {"up", "stopping", "stopped"}, faults = 0,
                      NEW r \in RunIds
               PROVE  /\ row[r].status = "queued" =>
                           \/ pend'[ProjectOf(r)] = r
                           \/ busy'[ProjectOf(r)] = r
                           \/ \E d \in Callers : OwnedBy(r, d)'
                      /\ row[r].status = "running" => busy'[ProjectOf(r)] = r
    BY DEF Matched, RowsMatch, OwnedBy, ProjectOf
  <2>1. r # None
    BY DEF RunIds, None
  <2>2. row[r].status \in {"queued", "running"} => ProjectOf(r) \in Projects
    BY DEF IInv, QueueOK, RowsOK, ProjectOf
  <2>3. /\ row[r].status = "queued" =>
             \/ pend[ProjectOf(r)] = r
             \/ busy[ProjectOf(r)] = r
             \/ \E d \in Callers : OwnedBy(r, d)
        /\ row[r].status = "running" => busy[ProjectOf(r)] = r
    BY DEF RowsInv, Matched, RowsMatch, OwnedBy
  <2>4. \A d \in Callers : OwnedBy(r, d) => OwnedBy(r, d)'
    BY <1>2 DEF OwnedBy
  <2> QED BY <1>1, <2>1, <2>2, <2>3, <2>4
<1>4. NoStaleRow'
  BY DEF RowsInv, NoStaleRow
<1>5. DoneIsFinal'
  BY <1>1 DEF RowsInv, DoneIsFinal
<1>6. PlaceIsFree'
  BY <1>0, <1>1, <1>2 DEF RowsInv, PlaceIsFree, IInv, FramesOK
<1> QED BY <1>3, <1>4, <1>5, <1>6 DEF RowsInv

(* A handler's frame moves, without a run of its own before or after. *)
LEMMA FrameMoves ==
  ASSUME IInv, RowsInv, NEW c \in Callers, NEW f,
         UNCHANGED <<mode, pend, busy, row>>,
         faults' = faults \/ (faults' > faults /\ faults \in Nat),
         call' = [call EXCEPT ![c] = f],
         call[c].pc \in {"register", "mark"} => faults' # 0,
         f.pc = "insert" => pend[f.project] = None,
         f.pc # "register",
         \A r \in RunIds : job'[r].phase = job[r].phase
  PROVE  RowsInv'
<1>0. \A d \in Callers : call'[d] = IF d = c THEN f ELSE call[d]
  BY DEF IInv, TypeOK
<1>1. faults \in Nat /\ (faults' = 0 => faults = 0)
  BY QueueAssumption DEF IInv, TypeOK
<1>2. Matched'
  <2> SUFFICES ASSUME faults' = 0, mode \in {"up", "stopping", "stopped"}
               PROVE  RowsMatch'
    BY DEF Matched
  <2>1. RowsMatch /\ call[c].pc \notin {"register", "mark"}
    BY <1>1 DEF RowsInv, Matched
  <2> QED BY <1>0, <2>1 DEF RowsMatch, ProjectOf
<1> QED BY <1>0, <1>1, <1>2 DEF RowsInv, NoStaleRow, DoneIsFinal, PlaceIsFree

(* A handler's step keeps rows and queue together. *)
LEMMA CallerRows ==
  ASSUME IInv, RowsInv, NEW c \in Callers, CallerStep(c)
  PROVE  RowsInv'
<1> USE DEF database, bounds
<1>0. /\ pend \in [Projects -> RunIds \cup {None}]
      /\ busy \in [Projects -> RunIds \cup {None}]
      /\ job \in [RunIds -> JobState] /\ row \in [RunIds -> ScanRun]
      /\ call \in [Callers -> Frame]
      /\ faults \in Nat /\ NoCall.pc = "idle"
  BY QueueAssumption DEF IInv, TypeOK, NoCall
<1>1. ASSUME NEW p \in Projects, NEW ask \in Asks, Request(c, p, ask)
      PROVE  RowsInv'
  <2> DEFINE f == [pc |-> "wait", project |-> p, ask |-> ask,
                   importing |-> ~initialized[p], hasOk |-> FALSE, run |-> None]
  <2>1. /\ UNCHANGED <<mode, pend, busy, row, faults, job>>
        /\ call' = [call EXCEPT ![c] = f] /\ call[c].pc = "idle"
    BY <1>1 DEF Request
  <2>2. f.pc = "wait"
    OBVIOUS
  <2> HIDE DEF f
  <2> QED BY <2>1, <2>2, FrameMoves
<1>2. CASE Acquire(c)
  <2> DEFINE f == [Goto(c, "decide", None) EXCEPT !.hasOk = scanned[call[c].project]]
  <2>1. /\ UNCHANGED <<mode, pend, busy, row, faults, job>>
        /\ call' = [call EXCEPT ![c] = f] /\ call[c].pc = "wait"
    BY <1>2 DEF Acquire
  <2>2. f.pc = "decide"
    BY DEF Goto
  <2> HIDE DEF f
  <2> QED BY <2>1, <2>2, FrameMoves
<1>3. ASSUME NEW p \in Projects, NEW may \in BOOLEAN, CancelRunning(c, p, may)
      PROVE  RowsInv'
  <2>1. /\ UNCHANGED <<mode, pend, busy, row, faults, call>>
        /\ job' = [job EXCEPT ![busy[p]] = [@ EXCEPT !.cancelled = TRUE,
                                                    !.interrupted = TRUE]]
    BY <1>3 DEF CancelRunning
  <2>2. \A r \in RunIds : job'[r].phase = job[r].phase
    BY <1>0, <2>1 DEF JobState
  <2> QED BY <2>1, <2>2 DEF RowsInv, Matched, RowsMatch, ProjectOf, NoStaleRow,
          DoneIsFinal, PlaceIsFree
<1>4. CASE Refuse(c) \/ InsertFails(c) \/ UpdateFails(c) \/ MarkCancelledFails(c)
  <2>1. /\ UNCHANGED <<mode, pend, busy, row, job>>
        /\ call' = [call EXCEPT ![c] = NoCall]
        /\ faults' = faults \/ faults' = faults + 1
        /\ call[c].pc \in {"register", "mark"} => faults' = faults + 1
    BY <1>4 DEF Refuse, InsertFails, UpdateFails, MarkCancelledFails
  <2>2. /\ faults' = faults \/ (faults' > faults /\ faults \in Nat)
        /\ call[c].pc \in {"register", "mark"} => faults' # 0
    BY <1>0, <2>1
  <2>3. /\ NoCall.pc = "insert" => pend[NoCall.project] = None
        /\ NoCall.pc # "register"
        /\ \A r \in RunIds : job'[r].phase = job[r].phase
    BY <1>0, <2>1
  <2> QED BY <2>1, <2>2, <2>3, FrameMoves
<1>5. CASE DecideNew(c)
  <2> DEFINE f == Goto(c, "insert", None)
  <2>1. /\ UNCHANGED <<mode, pend, busy, row, faults, job>>
        /\ call' = [call EXCEPT ![c] = f] /\ call[c].pc = "decide"
        /\ pend[call[c].project] = None
    BY <1>5 DEF DecideNew, MayProceed
  <2>2. f.pc = "insert" /\ f.project = call[c].project
    BY DEF Goto
  <2> HIDE DEF f
  <2> QED BY <2>1, <2>2, FrameMoves
<1>6. CASE DecideMerge(c)
  <2> DEFINE f == Goto(c, "update", pend[call[c].project])
  <2>1. /\ UNCHANGED <<mode, pend, busy, row, faults, job>>
        /\ call' = [call EXCEPT ![c] = f] /\ call[c].pc = "decide"
    BY <1>6 DEF DecideMerge, MayProceed
  <2>2. f.pc = "update"
    BY DEF Goto
  <2> HIDE DEF f
  <2> QED BY <2>1, <2>2, FrameMoves
<1>7. CASE Insert(c)
  <2>1. PICK r \in RunIds :
          /\ row[r].status = "none"
          /\ row' = [row EXCEPT ![r] = [status |-> "queued",
                                        project |-> call[c].project,
                                        queued |-> Row(Granting(c)),
                                        outcome |-> FALSE]]
          /\ call' = [call EXCEPT ![c] = Goto(c, "register", r)]
    BY <1>7 DEF Insert
  <2>2. UNCHANGED <<mode, pend, busy, job, faults>> /\ call[c].pc = "insert"
    BY <1>7 DEF Insert
  <2>3. /\ \A q \in RunIds \ {r} : row'[q] = row[q]
        /\ row'[r].status = "queued"
        /\ \A d \in Callers \ {c} : call'[d] = call[d]
        /\ call'[c].pc = "register" /\ call'[c].run = r
        /\ call'[c].project = call[c].project
    BY <1>0, <2>1 DEF Goto
  <2>4. Matched'
    BY <2>2, <2>3 DEF RowsInv, Matched, RowsMatch, ProjectOf
  <2>5. NoStaleRow'
    BY <2>2, <2>3 DEF RowsInv, NoStaleRow
  <2>6. DoneIsFinal'
    BY <2>1, <2>2, <2>3 DEF RowsInv, DoneIsFinal, Final, IInv, QueueOK, JobsOK
  <2>7. PlaceIsFree'
    BY <2>2, <2>3 DEF RowsInv, PlaceIsFree
  <2> QED BY <2>4, <2>5, <2>6, <2>7 DEF RowsInv
<1>8. CASE Register(c)
  <2> DEFINE p == call[c].project
             r == call[c].run
             pd == [pend EXCEPT ![p] = r]
  <2>1. /\ UNCHANGED <<mode, row, faults>> /\ call[c].pc = "register"
        /\ call' = [call EXCEPT ![c] = NoCall]
        /\ Dispatch(pd, busy, job, spec')
    BY <1>8 DEF Register
  <2>2. /\ p \in Projects /\ r \in RunIds /\ lock = c
        /\ row[r].project = p /\ row[r].status = "queued"
    BY <2>1 DEF IInv, FramesOK
  <2>3. pend[p] = None
    BY <2>1 DEF RowsInv, PlaceIsFree
  <2>4. pd \in [Projects -> RunIds \cup {None}]
    BY <1>0, <2>2
  <2>5. /\ \A q \in Projects :
             \/ pend'[q] = pd[q] /\ busy'[q] = busy[q]
             \/ pend'[q] = None /\ busy'[q] = pd[q] /\ busy[q] = None
        /\ \A q \in RunIds : job'[q] = job[q] \/ job'[q].phase = "start"
    <3> HIDE DEF pd
    <3> QED BY <1>0, <2>1, <2>4, DispatchMoves
  <2>6. pd[p] = r /\ \A q \in Projects \ {p} : pd[q] = pend[q]
    BY <1>0, <2>2
  <2>7. \A d \in Callers : call'[d] = IF d = c THEN NoCall ELSE call[d]
    BY <1>0, <2>1
  <2> HIDE DEF pd
  <2>8. Matched'
    <3> SUFFICES ASSUME mode \in {"up", "stopping", "stopped"}, faults = 0,
                        NEW q \in RunIds, row[q].status \in {"queued", "running"}
                 PROVE  /\ row[q].status = "queued" =>
                             \/ pend'[ProjectOf(q)] = q
                             \/ busy'[ProjectOf(q)] = q
                             \/ \E d \in Callers : OwnedBy(q, d)'
                        /\ row[q].status = "running" => busy'[ProjectOf(q)] = q
      BY <2>1 DEF Matched, RowsMatch, OwnedBy, ProjectOf
    <3>1. q # None /\ ProjectOf(q) \in Projects
      BY DEF RunIds, None, IInv, QueueOK, RowsOK, ProjectOf
    <3>2. CASE q = r
      BY <2>2, <2>5, <2>6, <3>1, <3>2 DEF ProjectOf
    <3>3. CASE q # r
      <4>1. /\ row[q].status = "queued" =>
                 \/ pend[ProjectOf(q)] = q
                 \/ busy[ProjectOf(q)] = q
                 \/ \E d \in Callers : OwnedBy(q, d)
            /\ row[q].status = "running" => busy[ProjectOf(q)] = q
        BY DEF RowsInv, Matched, RowsMatch, OwnedBy
      <4>2. \A d \in Callers : OwnedBy(q, d) => OwnedBy(q, d)'
        BY <2>7, <3>3 DEF OwnedBy
      <4>3. pend[ProjectOf(q)] = q => pd[ProjectOf(q)] = q
        BY <2>3, <2>6, <3>1
      <4> QED BY <2>5, <3>1, <4>1, <4>2, <4>3
    <3> QED BY <3>2, <3>3
  <2>9. NoStaleRow' /\ DoneIsFinal'
    BY <2>1, <2>5 DEF RowsInv, NoStaleRow, DoneIsFinal
  <2>10. PlaceIsFree'
    (* Nobody else is between the lock and the queue. *)
    <3>1. \A d \in Callers : call'[d].pc \notin {"insert", "register"}
      BY <1>0, <2>2, <2>7 DEF IInv, FramesOK
    <3> QED BY <3>1 DEF PlaceIsFree
  <2> QED BY <2>8, <2>9, <2>10 DEF RowsInv
<1>9. CASE Update(c)
  <2> DEFINE r == call[c].run
  <2>1. /\ row' = [row EXCEPT ![r] = Queued(r, spec[r].job)]
        /\ call' = [call EXCEPT ![c] = Goto(c, "return", r)]
        /\ UNCHANGED <<mode, pend, busy, job, faults>> /\ call[c].pc = "update"
    BY <1>9 DEF Update
  <2>2. \A q \in RunIds : row'[q].status = row[q].status /\ row'[q].project = row[q].project
    BY <1>0, <2>1 DEF Queued, ProjectOf
  <2>3. \A d \in Callers : call'[d] = call[d] \/ (d = c /\ call'[d].pc = "return")
    BY <1>0, <2>1 DEF Goto
  <2>4. Matched'
    BY <2>1, <2>2, <2>3 DEF RowsInv, Matched, RowsMatch, ProjectOf
  <2> QED BY <2>1, <2>2, <2>3, <2>4
          DEF RowsInv, NoStaleRow, DoneIsFinal, PlaceIsFree
<1>10. CASE Return(c)
  <2>1. /\ UNCHANGED <<mode, row, faults>> /\ call[c].pc = "return"
        /\ call' = [call EXCEPT ![c] = NoCall]
        /\ Dispatch(pend, busy, job, spec)
    BY <1>10 DEF Return
  <2> QED BY <2>1, DispatchMatches
<1>11. ASSUME NEW p \in Projects, NEW may \in BOOLEAN, CancelQueued(c, p, may)
       PROVE  RowsInv'
  <2>1. /\ UNCHANGED <<mode, row, faults, busy, job>> /\ call[c].pc = "idle"
        /\ call' = [call EXCEPT ![c] = [Goto(c, "mark", pend[p]) EXCEPT !.project = p]]
        /\ pend' = [pend EXCEPT ![p] = None]
    BY <1>11 DEF CancelQueued
  <2>2. \A q \in Projects : pend'[q] = IF q = p THEN None ELSE pend[q]
    BY <1>0, <2>1
  <2>3. /\ \A d \in Callers \ {c} : call'[d] = call[d]
        /\ call'[c].pc = "mark" /\ call'[c].run = pend[p]
    BY <1>0, <2>1 DEF Goto
  <2>4. Matched'
    BY <2>1, <2>2, <2>3
    DEF RowsInv, Matched, RowsMatch, ProjectOf, IInv, QueueOK, RowsOK
  <2>5. PlaceIsFree'
    BY <2>2, <2>3 DEF RowsInv, PlaceIsFree, IInv, FramesOK
  <2> QED BY <2>1, <2>4, <2>5 DEF RowsInv, NoStaleRow, DoneIsFinal
<1>12. CASE MarkCancelled(c)
  <2> DEFINE r == call[c].run
  <2>1. /\ row' = IF row[r].status = "queued"
                  THEN [row EXCEPT ![r] = Ended(r, "cancelled")] ELSE row
        /\ call' = [call EXCEPT ![c] = NoCall] /\ call[c].pc = "mark"
        /\ UNCHANGED <<mode, pend, busy, job, faults>>
    BY <1>12 DEF MarkCancelled
  <2>2. r \in RunIds /\ row[r].status = "queued"
    BY <2>1 DEF IInv, FramesOK
  <2>3. /\ \A q \in RunIds \ {r} : row'[q] = row[q]
        /\ row'[r].status = "cancelled"
    BY <1>0, <2>1, <2>2 DEF Ended
  <2>4. \A d \in Callers : call'[d] = IF d = c THEN NoCall ELSE call[d]
    BY <1>0, <2>1
  <2>5. Matched'
    BY <2>1, <2>3, <2>4 DEF RowsInv, Matched, RowsMatch, ProjectOf
  <2>6. NoStaleRow' /\ DoneIsFinal'
    BY <2>1, <2>3 DEF RowsInv, NoStaleRow, DoneIsFinal, Final
  <2>7. PlaceIsFree'
    BY <1>0, <2>1, <2>4 DEF RowsInv, PlaceIsFree
  <2> QED BY <2>5, <2>6, <2>7 DEF RowsInv
<1> QED BY <1>1, <1>2, <1>3, <1>4, <1>5, <1>6, <1>7, <1>8, <1>9, <1>10, <1>11, <1>12
        DEF CallerStep, Holding

(* A job's step: its row runs while it does, and has ended when it is done. *)
LEMMA JobRows ==
  ASSUME IInv, RowsInv, NEW r \in RunIds, JobStep(r)
  PROVE  RowsInv'
<1> USE DEF database, bounds, process, JobOnly
<1>0. /\ pend \in [Projects -> RunIds \cup {None}]
      /\ busy \in [Projects -> RunIds \cup {None}]
      /\ job \in [RunIds -> JobState] /\ row \in [RunIds -> ScanRun]
      /\ faults \in Nat
      /\ job[r].phase # "idle" =>
           row[r].project \in Projects /\ busy[row[r].project] = r
  BY QueueAssumption DEF IInv, TypeOK, QueueOK, JobsOK
<1>1. ASSUME UNCHANGED <<mode, pend, busy, call, row>>,
             faults' = faults \/ faults' = faults + 1,
             \A q \in RunIds \ {r} : job'[q] = job[q],
             job'[r].phase = "done" => faults' # 0
      PROVE  RowsInv'
  <2>1. faults' = 0 => faults = 0
    BY <1>0, <1>1
  <2> QED BY <1>1, <2>1 DEF RowsInv, Matched, RowsMatch, ProjectOf, NoStaleRow,
          DoneIsFinal, PlaceIsFree
<1>2. CASE \/ FailsEarly(r) \/ SyncGivesUp(r) \/ CloneDone(r) \/ NothingToScan(r)
           \/ StopsBeforeChild(r) \/ Spawn(r) \/ ChildExits(r)
  <2>1. /\ UNCHANGED <<mode, pend, busy, call, row, faults>>
        /\ \A q \in RunIds \ {r} : job'[q] = job[q]
        /\ job'[r].phase # "done"
    <3>1. CASE CloneDone(r)
      BY <3>1 DEF CloneDone
    <3>2. CASE Spawn(r)
      BY <1>0, <3>2 DEF Spawn, JobState
    <3>3. ASSUME NEW how, job' = End(r, how)
          PROVE  /\ \A q \in RunIds \ {r} : job'[q] = job[q]
                 /\ job'[r].phase # "done"
      BY <1>0, <3>3 DEF End, JobState
    <3> QED BY <1>2, <3>1, <3>2, <3>3 DEF FailsEarly, SyncGivesUp, NothingToScan,
       StopsBeforeChild, ChildExits
  <2> QED BY <1>1, <2>1
<1>3. CASE FinishRunFails(r)
  <2>1. /\ UNCHANGED <<mode, pend, busy, call, row>> /\ faults' = faults + 1
        /\ \A q \in RunIds \ {r} : job'[q] = job[q]
    BY <1>0, <1>3 DEF FinishRunFails
  <2> QED BY <1>0, <1>1, <2>1
<1>4. ASSUME UNCHANGED <<mode, pend, busy, call, faults>>,
             \A q \in RunIds \ {r} : row'[q] = row[q] /\ job'[q] = job[q],
             job[r].phase # "idle", row'[r].project = row[r].project,
             \/ row'[r].status = "running" /\ job'[r].phase # "done"
             \/ row'[r].status \in Final
      PROVE  RowsInv'
  <2>1. mode # "starting"
    BY <1>4 DEF IInv, DownOK
  <2>2. Matched'
    BY <1>0, <1>4 DEF RowsInv, Matched, RowsMatch, ProjectOf, Final
  <2> QED BY <1>4, <2>1, <2>2 DEF RowsInv, NoStaleRow, DoneIsFinal, PlaceIsFree
<1>5. CASE Begin(r)
  <2>1. /\ row' = [row EXCEPT ![r] =
             [status |-> "running", project |-> ProjectOf(r), outcome |-> @.outcome,
              queued |-> [Row(spec[r].job) EXCEPT
                            !.by = row[r].queued.by,
                            !.summary = row[r].queued.summary]]]
        /\ job' = [job EXCEPT ![r] = [@ EXCEPT
             !.phase = "prep",
             !.who = IF spec[r].job.analyze THEN row[r].queued.by ELSE NoUser]]
        /\ UNCHANGED <<mode, pend, busy, call, faults>>
        /\ job[r].phase = "start"
    BY <1>5 DEF Begin
  <2>2. /\ row'[r].status = "running" /\ row'[r].project = row[r].project
        /\ \A q \in RunIds \ {r} : row'[q] = row[q] /\ job'[q] = job[q]
        /\ job'[r].phase = "prep"
    BY <1>0, <2>1 DEF ProjectOf, JobState
  <2> QED BY <1>4, <2>1, <2>2
<1>6. CASE FinishRun(r)
  <2> DEFINE st == Outcome(job[r].end, job[r].cancelled, job[r].interrupted)
  <2>1. /\ row' = [row EXCEPT ![r] = Ended(r, st)]
        /\ job' = [job EXCEPT ![r].phase = "done"]
        /\ UNCHANGED <<mode, pend, busy, call, faults>>
        /\ job[r].phase = "ending"
    BY <1>6 DEF FinishRun
  <2>2. st \in Final
    BY <1>0 DEF JobState, Outcome, Final
  <2>3. /\ row'[r].status \in Final /\ row'[r].project = row[r].project
        /\ \A q \in RunIds \ {r} : row'[q] = row[q] /\ job'[q] = job[q]
    BY <1>0, <2>1, <2>2 DEF Ended, ProjectOf
  <2> QED BY <1>4, <2>1, <2>3
<1>7. CASE Retire(r)
  <2> DEFINE p == ProjectOf(r)
             bz == [busy EXCEPT ![p] = None]
             jb == [job EXCEPT ![r] = NoJob]
  <2>1. /\ Dispatch(pend, bz, jb, spec) /\ job[r].phase = "done"
        /\ UNCHANGED <<mode, call, row, faults>>
    BY <1>7 DEF Retire
  <2>2. p \in Projects /\ busy[p] = r
    BY <1>0, <2>1 DEF ProjectOf
  <2>3. /\ bz \in [Projects -> RunIds \cup {None}] /\ jb \in [RunIds -> JobState]
        /\ bz[p] = None /\ \A q \in Projects \ {p} : bz[q] = busy[q]
        /\ jb[r].phase = "idle" /\ \A q \in RunIds \ {r} : jb[q] = job[q]
    BY <1>0, <2>2, JobStateTyped
  <2>4. /\ \A q \in Projects :
             \/ pend'[q] = pend[q] /\ busy'[q] = bz[q]
             \/ pend'[q] = None /\ busy'[q] = pend[q] /\ bz[q] = None
        /\ \A q \in RunIds : job'[q] = jb[q] \/ job'[q].phase = "start"
    <3> HIDE DEF bz, jb
    <3> QED BY <1>0, <2>1, <2>3, DispatchMoves
  <2> HIDE DEF bz, jb
  <2>5. mode # "starting"
    BY <2>1 DEF IInv, DownOK
  <2>6. Matched'
    <3> SUFFICES ASSUME mode \in {"up", "stopping", "stopped"}, faults = 0,
                        NEW q \in RunIds, row[q].status \in {"queued", "running"}
                 PROVE  /\ row[q].status = "queued" =>
                             \/ pend'[ProjectOf(q)] = q
                             \/ busy'[ProjectOf(q)] = q
                             \/ \E d \in Callers : OwnedBy(q, d)
                        /\ row[q].status = "running" => busy'[ProjectOf(q)] = q
      BY <2>1 DEF Matched, RowsMatch, OwnedBy, ProjectOf
    <3>1. q # None /\ ProjectOf(q) \in Projects
      BY DEF RunIds, None, IInv, QueueOK, RowsOK, ProjectOf
    (* The row of the job that leaves has ended. *)
    <3>2. q # r
      BY <2>1 DEF RowsInv, DoneIsFinal, Final
    <3>3. /\ row[q].status = "queued" =>
               \/ pend[ProjectOf(q)] = q
               \/ busy[ProjectOf(q)] = q
               \/ \E d \in Callers : OwnedBy(q, d)
          /\ row[q].status = "running" => busy[ProjectOf(q)] = q
      BY DEF RowsInv, Matched, RowsMatch, OwnedBy
    <3>4. busy[ProjectOf(q)] = q => bz[ProjectOf(q)] = q
      BY <2>2, <2>3, <3>1, <3>2
    <3> QED BY <2>4, <3>1, <3>3, <3>4
  <2>7. DoneIsFinal'
    BY <2>1, <2>3, <2>4 DEF RowsInv, DoneIsFinal
  <2>8. PlaceIsFree'
    BY <2>1, <2>4 DEF RowsInv, PlaceIsFree, IInv, FramesOK
  <2> QED BY <2>1, <2>5, <2>6, <2>7, <2>8 DEF RowsInv, NoStaleRow
<1> QED BY <1>2, <1>3, <1>5, <1>6, <1>7 DEF JobStep

(* Stops, and what a start does before it serves. *)
LEMMA StopRows ==
  ASSUME IInv, RowsInv,
         \/ \E r \in RunIds : RecoverRow(r)
         \/ Shutdown \/ MarkLeftover \/ MarkLeftoverFails \/ Exit \/ Crash
         \/ MarkStale
  PROVE  RowsInv'
<1> USE DEF database, bounds
<1>0. /\ job \in [RunIds -> JobState] /\ row \in [RunIds -> ScanRun] /\ faults \in Nat
  BY QueueAssumption DEF IInv, TypeOK
<1>1. CASE Shutdown
  <2>1. /\ UNCHANGED <<pend, busy, call, row, faults>>
        /\ mode = "up" /\ mode' = "stopping"
        /\ \A r \in RunIds : job'[r].phase = job[r].phase
    BY <1>0, <1>1 DEF Shutdown, JobState
  <2> QED BY <2>1 DEF RowsInv, Matched, RowsMatch, ProjectOf, NoStaleRow,
          DoneIsFinal, PlaceIsFree
<1>2. CASE MarkLeftover
  <2>1. /\ UNCHANGED <<pend, busy, call, job, faults>>
        /\ mode = "stopping" /\ mode' = "stopped"
        /\ \A r \in RunIds : /\ row'[r].project = row[r].project
                             /\ row'[r].status \in {row[r].status, "interrupted"}
    BY <1>0, <1>2 DEF MarkLeftover, ScanRun
  <2> QED BY <2>1 DEF RowsInv, Matched, RowsMatch, ProjectOf, NoStaleRow,
          DoneIsFinal, PlaceIsFree, Final
<1>3. CASE MarkLeftoverFails
  <2>1. /\ UNCHANGED <<pend, busy, call, job, row>>
        /\ mode' = "stopped" /\ faults' = faults + 1
    BY <1>3 DEF MarkLeftoverFails
  <2> QED BY <1>0, <2>1 DEF RowsInv, Matched, NoStaleRow, DoneIsFinal, PlaceIsFree
<1>4. CASE Exit \/ Crash
  <2>1. Forget
    BY <1>4 DEF Exit, Crash
  <2>2. /\ mode' = "down"
        /\ \A r \in RunIds : job'[r].phase = "idle"
        /\ \A c \in Callers : call'[c].pc = "idle"
    BY <2>1 DEF Forget, NoJob, NoCall
  <2> QED BY <2>2 DEF RowsInv, Matched, NoStaleRow, DoneIsFinal, PlaceIsFree
<1>5. CASE MarkStale
  <2>1. /\ UNCHANGED <<pend, call, job>> /\ mode = "down" /\ mode' = "starting"
        /\ \A r \in RunIds : row'[r].status # "running"
    BY <1>0, <1>5 DEF MarkStale, ScanRun
  <2>2. \A r \in RunIds : job[r].phase # "done"
    BY <2>1 DEF IInv, DownOK
  <2> QED BY <2>1, <2>2 DEF RowsInv, Matched, NoStaleRow, DoneIsFinal, PlaceIsFree
<1>6. ASSUME NEW r \in RunIds, RecoverRow(r)
      PROVE  RowsInv'
  <2>1. UNCHANGED <<mode, row, job, call, faults>> /\ mode = "starting"
    BY <1>6 DEF RecoverRow
  <2>2. \A c \in Callers : call[c].pc = "idle"
    BY <2>1 DEF IInv, DownOK
  <2> QED BY <2>1, <2>2 DEF RowsInv, Matched, NoStaleRow, DoneIsFinal, PlaceIsFree
<1> QED BY <1>1, <1>2, <1>3, <1>4, <1>5, <1>6

(* After the start's last step every row has an owner, whatever went before. *)
LEMMA RequeueMatches ==
  ASSUME IInv, RowsInv, Requeue
  PROVE  RowsMatch' /\ RowsInv'
<1>1. PICK gone \in SUBSET {p \in Projects : initialized[p]} :
    LET pd == [p \in Projects |-> IF p \in gone THEN None ELSE pend[p]]
        queued == {r \in RunIds : row[r].status = "queued"}
        kept == {r \in queued : pd[ProjectOf(r)] = r}
    IN  /\ mode = "starting" /\ mode' = "up"
        /\ row' = [r \in RunIds |->
             IF r \in kept THEN [row[r] EXCEPT !.queued = Row(spec[r].job)]
             ELSE IF r \in queued THEN Ended(r, "cancelled")
             ELSE row[r]]
        /\ Start(pd, busy, job, spec)
        /\ UNCHANGED <<call, bounds>>
  BY DEF Requeue
<1> DEFINE pd == [p \in Projects |-> IF p \in gone THEN None ELSE pend[p]]
<1>2. /\ pend \in [Projects -> RunIds \cup {None}]
      /\ busy \in [Projects -> RunIds \cup {None}]
      /\ job \in [RunIds -> JobState] /\ row \in [RunIds -> ScanRun]
      /\ pd \in [Projects -> RunIds \cup {None}]
  BY DEF IInv, TypeOK
<1>3. \A r \in RunIds :
        /\ [row[r] EXCEPT !.queued = Row(spec[r].job)].status = row[r].status
        /\ [row[r] EXCEPT !.queued = Row(spec[r].job)].project = row[r].project
        /\ Ended(r, "cancelled").status = "cancelled"
  BY <1>2 DEF ScanRun, Ended
<1>4. \A r \in RunIds :
        /\ row'[r].status # "running"
        /\ row'[r].status = "queued" =>
             row'[r].project \in Projects /\ pd[row'[r].project] = r
  BY <1>1, <1>3 DEF RowsInv, NoStaleRow, ProjectOf, IInv, QueueOK, RowsOK
<1>5. /\ \A p \in Projects :
           \/ pend'[p] = pd[p] /\ busy'[p] = busy[p]
           \/ pend'[p] = None /\ busy'[p] = pd[p] /\ busy[p] = None
      /\ \A r \in RunIds : job'[r] = job[r] \/ job'[r].phase = "start"
  <2>1. Start(pd, busy, job, spec)
    BY <1>1
  <2> HIDE DEF pd
  <2> QED BY <1>2, <2>1, DispatchMoves
<1> HIDE DEF pd
<1>6. RowsMatch'
  BY <1>4, <1>5 DEF RowsMatch, ProjectOf
<1>7. /\ \A c \in Callers : call'[c].pc = "idle"
      /\ \A r \in RunIds : job'[r].phase # "done"
      /\ mode' = "up"
  BY <1>1, <1>5 DEF IInv, DownOK
<1> QED BY <1>6, <1>7 DEF RowsInv, Matched, NoStaleRow, DoneIsFinal, PlaceIsFree

(* The agreement is inductive, given the queue's own invariant. *)
LEMMA StepRows == IInv /\ RowsInv /\ [Next]_vars => RowsInv'
<1> SUFFICES ASSUME IInv, RowsInv, [Next]_vars PROVE RowsInv'
  OBVIOUS
<1> USE DEF database, bounds
<1>1. CASE UNCHANGED vars
  BY <1>1 DEF vars, process, RowsInv, Matched, RowsMatch, ProjectOf, NoStaleRow,
     DoneIsFinal, PlaceIsFree
<1>2. ASSUME NEW p \in Projects, DebounceEnds(p)
      PROVE  RowsInv'
  BY <1>2 DEF DebounceEnds, RowsInv, Matched, RowsMatch, ProjectOf, NoStaleRow,
     DoneIsFinal, PlaceIsFree
<1>3. ASSUME NEW p \in Projects, WakeUp(p)
      PROVE  RowsInv'
  <2> DEFINE sp == [spec EXCEPT ![pend[p]].held = FALSE]
  <2>1. /\ Dispatch(pend, busy, job, sp)
        /\ UNCHANGED <<mode, row, faults, call>>
    BY <1>3 DEF WakeUp
  <2> HIDE DEF sp
  <2>2. /\ pend \in [Projects -> RunIds \cup {None}]
        /\ busy \in [Projects -> RunIds \cup {None}]
        /\ job \in [RunIds -> JobState]
    BY DEF IInv, TypeOK
  <2>3. /\ \A q \in Projects :
             \/ pend'[q] = pend[q] /\ busy'[q] = busy[q]
             \/ pend'[q] = None /\ busy'[q] = pend[q] /\ busy[q] = None
        /\ \A r \in RunIds : job'[r] = job[r] \/ job'[r].phase = "start"
    BY <2>1, <2>2, DispatchMoves
  <2>4. \A r \in RunIds : /\ r # None
                          /\ row[r].status # "none" => ProjectOf(r) \in Projects
    BY DEF RunIds, None, IInv, QueueOK, RowsOK, ProjectOf
  <2>5. Matched'
    BY <2>1, <2>3, <2>4 DEF RowsInv, Matched, RowsMatch, ProjectOf
  <2>6. PlaceIsFree'
    BY <2>1, <2>3 DEF RowsInv, PlaceIsFree, IInv, FramesOK
  <2> QED BY <2>1, <2>3, <2>5, <2>6 DEF RowsInv, NoStaleRow, DoneIsFinal
<1> QED BY <1>1, <1>2, <1>3, CallerRows, JobRows, StopRows, RequeueMatches DEF Next

(* Rows and queue agree as long as no transaction failed. *)
THEOREM RowsInvariance == Spec => []RowsInv
<1>1. Init => RowsInv
  BY DEF Init, RowsInv, Matched, RowsMatch, NoStaleRow, DoneIsFinal, PlaceIsFree,
     NoRow, NoJob, NoCall
<1> QED BY <1>1, StepRows, Invariance, PTL DEF Spec

(* A row never says queued or running with nothing behind it, so that      *)
(* is_busy never makes anybody wait for nothing (is_busy, _run_job).       *)
THEOREM RowsHaveOwners == Spec => []RowsMatchQueue
<1>1. RowsInv => RowsMatchQueue
  BY DEF RowsInv, Matched, RowsMatchQueue
<1> QED BY <1>1, RowsInvariance, PTL

(* A start repairs every row that a failed write or a crash left behind    *)
(* (the lifespan's stale update, _recover_queued, _requeue).               *)
THEOREM EveryStartRepairs == Spec => StartRepairs
<1>1. IInv /\ RowsInv /\ [Next]_vars =>
        [mode = "starting" /\ mode' = "up" => RowsMatch']_vars
  <2> SUFFICES ASSUME IInv, RowsInv, [Next]_vars, mode = "starting", mode' = "up"
               PROVE  RowsMatch'
    OBVIOUS
  <2> USE DEF database, bounds, process
  <2>1. \A c \in Callers : CallerStep(c) => mode' = mode
    BY DEF CallerStep, Holding, Request, Acquire, CancelQueued, CancelRunning,
       Refuse, DecideNew, DecideMerge, Insert, InsertFails, Register, Update,
       UpdateFails, Return, MarkCancelled, MarkCancelledFails
  <2>2. \A r \in RunIds : JobStep(r) \/ RecoverRow(r) => mode' = mode
    BY DEF JobStep, JobOnly, Begin, FailsEarly, SyncGivesUp, CloneDone, NothingToScan,
       StopsBeforeChild, Spawn, ChildExits, FinishRun, FinishRunFails, Retire,
       RecoverRow
  <2>3. /\ \A p \in Projects : DebounceEnds(p) \/ WakeUp(p) => mode' = mode
        /\ Shutdown \/ MarkLeftover \/ MarkLeftoverFails \/ Exit \/ Crash \/ MarkStale
             => mode' # "up"
        /\ UNCHANGED vars => mode' = mode
    BY DEF DebounceEnds, WakeUp, Shutdown, MarkLeftover, MarkLeftoverFails, Exit,
       Crash, Forget, MarkStale, vars
  <2>4. Requeue
    BY <2>1, <2>2, <2>3 DEF Next
  <2> QED BY <2>4, RequeueMatches
<1> QED BY <1>1, Invariance, RowsInvariance, PTL DEF Spec, StartRepairs

-----------------------------------------------------------------------------

(***************************************************************************)
(* What a caller was told is queued is not lost, for any requests, failed  *)
(* transactions, stops and restarts: the row of a run that has not ended   *)
(* does the work of every request answered with its id, and so does the    *)
(* run in memory.                                                          *)
(*                                                                         *)
(* The run in memory is at least the row: a merge happens there first.  A  *)
(* promise is made when both have the request's work.  When the job begins *)
(* it writes its run's columns over the row but leaves the row's summary,  *)
(* which may be an older merge's; the row still does what was promised,    *)
(* because a queued row never relies on its trigger alone to say that it   *)
(* scans (GoodRow).                                                        *)
(*                                                                         *)
(* Hence the queue implements RunLedger (ImplementsLedger).                *)
(***************************************************************************)
Covered(g, j) ==
  \A moved \in BOOLEAN : Work(g, Source, moved) \subseteq Work(j, Source, moved)

Kept(r) == Recovered(row[r].queued)

GoodRow(q) ==
  /\ Coherent(Recovered(q), Source)
  /\ q.kind = "sync" /\ q.trigger \in {"manual", "describe", "hook"}
       => q.summary.scanFlag

(* The run is in memory, so its spec may become a row again. *)
InQueue(r) == Live(r) \/ \E p \in Projects : pend[p] = r
Updating(r) == \E c \in Callers : call[c].run = r /\ call[c].pc = "update"

Tracked(r) == row[r].status \in {"queued", "running"} \/ job[r].phase = "start"

SpecsKeep ==
  \A r \in RunIds :
    InQueue(r) \/ Updating(r) =>
      /\ Coherent(spec[r].job, Source)
      /\ \A g \in promised[r] : Covered(g, spec[r].job)

RowsKeep ==
  \A r \in RunIds : Tracked(r) => \A g \in promised[r] : Covered(g, Kept(r))

RowsGood ==
  \A r \in RunIds :
    row[r].status = "queued" \/ job[r].phase = "start" => GoodRow(row[r].queued)

NewRowsOweNothing == \A r \in RunIds : row[r].status = "none" => promised[r] = {}

(* The request a handler has merged is where its promise will need it. *)
FrameKeeps(c, r, g) ==
  /\ call[c].pc = "register" =>
       promised[r] = {} /\ (Tracked(r) => Covered(g, Kept(r)))
  /\ call[c].pc = "update" => Covered(g, spec[r].job)
  /\ call[c].pc \in {"update", "return"} => row[r].status # "none"
  /\ call[c].pc = "return" =>
       /\ InQueue(r) => Covered(g, spec[r].job)
       /\ Tracked(r) => Covered(g, Kept(r))

FramesKeep == \A c \in Callers : FrameKeeps(c, call[c].run, Granting(c))

(* A start has read the rows up to the cursor into the runs it keeps. *)
StartKeeps ==
  /\ mode = "down" => cursor = 0
  /\ mode = "starting" =>
       \A r \in RunIds :
         row[r].status = "queued" /\ r <= cursor =>
           /\ pend[row[r].project] # None
           /\ \A g \in promised[r] : Covered(g, spec[pend[row[r].project]].job)

PromInv == /\ SpecsKeep /\ RowsKeep /\ RowsGood /\ NewRowsOweNothing
           /\ FramesKeep /\ StartKeeps

-----------------------------------------------------------------------------

(* What a handler was granted is coherent. *)
LEMMA GrantingCoherent ==
  ASSUME IInv, NEW c \in Callers
  PROVE  Coherent(Granting(c), Source)
<1>1. call[c].ask.job \in Requests(Source) /\ call[c].hasOk \in BOOLEAN
  BY QueueAssumption DEF IInv, TypeOK, Frame
<1> QED BY <1>1, QueueAssumption, GrantedCoherent DEF Granting

(* A merged run covers both of its sides. *)
LEMMA MergeCovers ==
  ASSUME NEW a, NEW b, Coherent(a, Source), Coherent(b, Source)
  PROVE  /\ Coherent(MergeJobs(a, b), Source)
         /\ Covered(a, MergeJobs(a, b)) /\ Covered(b, MergeJobs(a, b))
<1>1. Source \in Sources
  BY QueueAssumption
<1> QED BY <1>1, MergeCoherent, MergeKeepsWork DEF Covered

(* What covers a cover of some work covers the work. *)
LEMMA CoveredTransitive ==
  ASSUME NEW a, NEW b, NEW d, Covered(a, b), Covered(b, d)
  PROVE  Covered(a, d)
BY DEF Covered

(* A coherent job's row is a good one, and gives the job back. *)
LEMMA RowRecovers ==
  ASSUME NEW j, Coherent(j, Source)
  PROVE  Recovered(Row(j)) = j /\ GoodRow(Row(j))
<1>1. Recovered(Row(j)) = j
  BY QueueAssumption, RowLossless
<1>2. /\ Row(j).kind = j.kind /\ Row(j).trigger = j.trigger
      /\ Row(j).summary.scanFlag = (j.kind = "sync" /\ j.scan)
  BY DEF Row
<1> QED BY <1>1, <1>2 DEF GoodRow, Coherent

(* What the row and the run both cover, the row covers when the job begins. *)
LEMMA BeginCovers ==
  ASSUME NEW q, NEW s, NEW g,
         GoodRow(q), Coherent(s, Source),
         Covered(g, Recovered(q)), Covered(g, s)
  PROVE  Covered(g, Recovered([Row(s) EXCEPT !.by = q.by, !.summary = q.summary]))
<1> DEFINE m == Recovered([Row(s) EXCEPT !.by = q.by, !.summary = q.summary])
<1>1. /\ m.kind = s.kind /\ m.trigger = s.trigger /\ m.analyze = s.analyze
      /\ m.scan = \/ q.summary.scanFlag
                  \/ s.kind = "scan"
                  \/ s.trigger \in {"manual", "describe", "hook"}
  BY DEF Recovered, Row
<1>2. /\ Recovered(q).kind = q.kind /\ Recovered(q).trigger = q.trigger
      /\ Recovered(q).scan = \/ q.summary.scanFlag
                             \/ q.kind = "scan"
                             \/ q.trigger \in {"manual", "describe", "hook"}
  BY DEF Recovered
<1> HIDE DEF m
<1>3. q.kind = s.kind
  BY <1>2, QueueAssumption DEF GoodRow, Coherent, Sources
<1>4. s.kind \in {"scan", "sync"} /\ s.scan \in BOOLEAN
  BY DEF Coherent, Job
<1>5. CASE s.kind = "scan" \/ m.scan
  <2>1. \A moved \in BOOLEAN : Work(s, Source, moved) \subseteq Work(m, Source, moved)
    BY <1>1, <1>5 DEF Work
  <2> QED BY <2>1 DEF Covered, m
<1>6. CASE s.kind = "sync" /\ ~m.scan
  (* Neither says that it scans, so nothing promised does. *)
  <2>1. ~q.summary.scanFlag /\ q.trigger \notin {"manual", "describe", "hook"}
    BY <1>1, <1>3, <1>6 DEF GoodRow
  <2>2. ~Recovered(q).scan /\ Recovered(q).kind = "sync"
    BY <1>2, <1>3, <1>6, <2>1
  <2>3. Work(Recovered(q), Source, FALSE) \subseteq Work(m, Source, FALSE)
    BY <1>1, <1>6, <2>2 DEF Work
  <2>4. Work(s, Source, TRUE) \subseteq Work(m, Source, TRUE)
    BY <1>1 DEF Work
  <2> QED BY <2>3, <2>4 DEF Covered, m
<1> QED BY <1>4, <1>5, <1>6

(***************************************************************************)
(* Steps that promise nothing, write no columns and change no run's work.  *)
(***************************************************************************)
LEMMA PromisesStay ==
  ASSUME IInv, PromInv, StartKeeps',
         \A r \in RunIds :
           /\ promised'[r] \subseteq promised[r]
           /\ spec'[r].job = spec[r].job
           /\ row'[r].status = "none" => row[r].status = "none"
           /\ row'[r].status = "queued" => row[r].status = "queued"
           /\ Tracked(r)' => Tracked(r) /\ row'[r].queued = row[r].queued
           /\ job'[r].phase = "start" =>
                job[r].phase = "start" \/ row[r].status = "queued"
           /\ InQueue(r)' => InQueue(r),
         \A c \in Callers : \/ call'[c] = call[c]
                            \/ call'[c].pc \notin {"register", "update", "return"}
  PROVE  PromInv'
<1>1. SpecsKeep'
  <2>1. \A r \in RunIds : Updating(r)' => Updating(r)
    BY DEF Updating
  <2> QED BY <2>1 DEF PromInv, SpecsKeep
<1>2. RowsKeep'
  BY DEF PromInv, RowsKeep, Kept
<1>3. RowsGood'
  BY DEF PromInv, RowsGood, Tracked
<1>4. NewRowsOweNothing'
  BY DEF PromInv, NewRowsOweNothing
<1>5. FramesKeep'
  <2> SUFFICES ASSUME NEW c \in Callers,
                      call'[c].pc \in {"register", "update", "return"}
               PROVE  FrameKeeps(c, call[c].run, Granting(c))'
    BY DEF FramesKeep, FrameKeeps
  <2> DEFINE r == call[c].run
             g == Granting(c)
  <2>1. call'[c] = call[c] /\ Granting(c)' = Granting(c)
    BY DEF Granting
  <2>2. r \in RunIds
    BY <2>1 DEF IInv, FramesOK
  <2>3. FrameKeeps(c, r, g)
    BY DEF PromInv, FramesKeep
  <2>4. Tracked(r)' => Tracked(r) /\ Kept(r)' = Kept(r)
    BY <2>2 DEF Kept
  <2> HIDE DEF g
  <2> QED BY <2>1, <2>2, <2>3, <2>4 DEF FrameKeeps, g
<1> QED BY <1>1, <1>2, <1>3, <1>4, <1>5 DEF PromInv

(* What is in the queue after a dispatch was there before. *)
LEMMA DispatchQueues ==
  ASSUME NEW pd, NEW bz, NEW jb, NEW sp,
         Dispatch(pd, bz, jb, sp) \/ Start(pd, bz, jb, sp),
         pd \in [Projects -> RunIds \cup {None}],
         bz \in [Projects -> RunIds \cup {None}],
         jb \in [RunIds -> JobState]
  PROVE  \A r \in RunIds :
           /\ InQueue(r)' => jb[r].phase # "idle" \/ \E p \in Projects : pd[p] = r
           /\ job'[r].phase = "start" =>
                jb[r].phase = "start" \/ \E p \in Projects : pd[p] = r
<1>1. /\ \A p \in Projects : pend'[p] \in {pd[p], None}
      /\ \A r \in RunIds : \/ job'[r] = jb[r]
                           \/ \E p \in Projects : pd[p] = r
  BY DispatchMoves
<1> QED BY <1>1 DEF InQueue, Live, RunIds, None

(***************************************************************************)
(* The handlers' steps.                                                    *)
(***************************************************************************)

(* Only the lock's holder has a frame past it. *)
LEMMA HolderAlone ==
  ASSUME IInv, NEW c \in Callers, call[c].pc \notin {"idle", "wait"}
  PROVE  \A d \in Callers \ {c} : call[d].pc \in {"idle", "wait"}
BY DEF IInv, FramesOK

(* What a handler does not touch. *)
LEMMA CallerKeepsStart ==
  ASSUME IInv, PromInv, NEW c \in Callers, CallerStep(c)
  PROVE  StartKeeps'
<1>1. mode' = mode
  BY DEF CallerStep, Holding, Request, Acquire, CancelQueued, CancelRunning,
     Refuse, DecideNew, DecideMerge, Insert, InsertFails, Register, Update,
     UpdateFails, Return, MarkCancelled, MarkCancelledFails
<1>2. mode \notin {"down", "starting"}
  <2>1. CASE call[c].pc # "idle"
    BY <2>1 DEF IInv, DownOK
  <2>2. CASE call[c].pc = "idle"
    BY <2>2 DEF CallerStep, Holding, Request, Acquire, CancelQueued, CancelRunning,
       Refuse, DecideNew, DecideMerge, MayProceed, Insert, InsertFails, Register,
       Update, UpdateFails, Return, MarkCancelled, MarkCancelledFails
  <2> QED BY <2>1, <2>2
<1> QED BY <1>1, <1>2 DEF StartKeeps

(* A new row has its request's work, and owes nothing yet. *)
LEMMA InsertKeeps ==
  ASSUME IInv, PromInv, NEW c \in Callers, Insert(c), StartKeeps'
  PROVE  PromInv'
<1> USE DEF database, bounds
<1>0. row \in [RunIds -> ScanRun] /\ call \in [Callers -> Frame]
  BY DEF IInv, TypeOK
<1>1. PICK r \in RunIds :
        /\ row[r].status = "none"
        /\ row' = [row EXCEPT ![r] = [status |-> "queued",
                                      project |-> call[c].project,
                                      queued |-> Row(Granting(c)),
                                      outcome |-> FALSE]]
        /\ call' = [call EXCEPT ![c] = Goto(c, "register", r)]
  BY DEF Insert
<1>2. /\ UNCHANGED <<pend, job, spec, promised>> /\ call[c].pc = "insert"
      /\ \A q \in RunIds \ {r} : row'[q] = row[q]
      /\ row'[r].status = "queued" /\ row'[r].queued = Row(Granting(c))
      /\ \A d \in Callers \ {c} : call'[d] = call[d]
      /\ call'[c].pc = "register" /\ call'[c].run = r
      /\ call'[c].ask = call[c].ask /\ call'[c].hasOk = call[c].hasOk
  BY <1>0, <1>1 DEF Insert, Goto
<1>3. Granting(c)' = Granting(c)
  BY <1>2 DEF Granting
<1>4. /\ Coherent(Granting(c), Source)
      /\ Recovered(Row(Granting(c))) = Granting(c) /\ GoodRow(Row(Granting(c)))
  BY GrantingCoherent, RowRecovers
<1>5. promised[r] = {} /\ job[r].phase = "idle"
  BY <1>1 DEF PromInv, NewRowsOweNothing, IInv, QueueOK, JobsOK
<1>6. \A d \in Callers \ {c} : call[d].pc \in {"idle", "wait"}
  BY <1>2, HolderAlone
<1>7. SpecsKeep'
  <2>1. \A q \in RunIds : InQueue(q)' \/ Updating(q)' => InQueue(q) \/ Updating(q)
    BY <1>2 DEF InQueue, Live, Updating
  <2> QED BY <1>2, <2>1 DEF PromInv, SpecsKeep
<1>8. RowsKeep'
  BY <1>2, <1>5 DEF PromInv, RowsKeep, Tracked, Kept
<1>9. RowsGood'
  BY <1>2, <1>4 DEF PromInv, RowsGood
<1>10. NewRowsOweNothing'
  BY <1>2 DEF PromInv, NewRowsOweNothing
<1>11. FramesKeep'
  <2>1. FrameKeeps(c, call[c].run, Granting(c))'
    BY <1>2, <1>3, <1>4, <1>5 DEF FrameKeeps, Kept, Covered
  <2>2. \A d \in Callers \ {c} : FrameKeeps(d, call[d].run, Granting(d))'
    BY <1>2, <1>6 DEF FrameKeeps
  <2> QED BY <2>1, <2>2 DEF FramesKeep
<1> QED BY <1>7, <1>8, <1>9, <1>10, <1>11 DEF PromInv

(* The new run is in the queue, and its request's answer is a promise. *)
LEMMA RegisterKeeps ==
  ASSUME IInv, PromInv, NEW c \in Callers, Register(c), StartKeeps'
  PROVE  PromInv'
<1> USE DEF database, bounds
<1> DEFINE p == call[c].project
           r == call[c].run
           g == Granting(c)
           new == [job |-> g, importing |-> call[c].importing,
                   held |-> g.trigger = "forge" /\ p \in recent]
           pd == [pend EXCEPT ![p] = r]
<1>0. /\ row \in [RunIds -> ScanRun] /\ call \in [Callers -> Frame]
      /\ pend \in [Projects -> RunIds \cup {None}]
      /\ busy \in [Projects -> RunIds \cup {None}]
      /\ job \in [RunIds -> JobState] /\ spec \in [RunIds -> PendingSpec]
      /\ promised \in [RunIds -> SUBSET Job] /\ NoCall.pc = "idle"
  BY DEF IInv, TypeOK, NoCall
<1>1. /\ spec' = [spec EXCEPT ![r] = new]
      /\ Dispatch(pd, busy, job, spec')
      /\ promised' = [promised EXCEPT ![r] = @ \cup {g}]
      /\ call' = [call EXCEPT ![c] = NoCall]
      /\ row' = row /\ call[c].pc = "register"
  BY DEF Register
<1>2. /\ p \in Projects /\ r \in RunIds
      /\ row[r].status = "queued" /\ job[r].phase = "idle"
  BY <1>1 DEF IInv, FramesOK
<1>3. pd \in [Projects -> RunIds \cup {None}]
  BY <1>0, <1>2
<1>4. \A q \in RunIds :
        /\ InQueue(q)' => InQueue(q) \/ q = r
        /\ job'[q].phase = "start" => job[q].phase = "start" \/ row[q].status = "queued"
  <2>1. \A q \in RunIds :
          /\ InQueue(q)' => job[q].phase # "idle" \/ \E x \in Projects : pd[x] = q
          /\ job'[q].phase = "start" =>
               job[q].phase = "start" \/ \E x \in Projects : pd[x] = q
    <3> HIDE DEF pd
    <3> QED BY <1>0, <1>1, <1>3, DispatchQueues
  <2>2. \A x \in Projects, q \in RunIds : pd[x] = q => q = r \/ pend[x] = q
    BY <1>0, <1>2
  <2>3. \A x \in Projects, q \in RunIds : pend[x] = q => row[q].status = "queued"
    BY DEF IInv, QueueOK, PendOK, RunIds, None
  <2> HIDE DEF pd
  <2> QED BY <1>2, <2>1, <2>2, <2>3 DEF InQueue, Live
<1>5. /\ promised[r] = {} /\ promised'[r] = {g}
      /\ \A q \in RunIds \ {r} : promised'[q] = promised[q] /\ spec'[q] = spec[q]
      /\ spec'[r].job = g
      /\ Covered(g, Kept(r)) /\ Covered(g, g) /\ Coherent(g, Source)
  <2>1. FrameKeeps(c, r, g) /\ Tracked(r)
    BY <1>2 DEF PromInv, FramesKeep, Tracked
  <2> QED BY <1>0, <1>1, <1>2, <2>1, GrantingCoherent DEF FrameKeeps, Covered
<1>6. \A d \in Callers : call'[d].pc \in {"idle", "wait"}
  BY <1>0, <1>1, HolderAlone
<1> HIDE DEF g, new, pd
<1>7. SpecsKeep'
  BY <1>4, <1>5, <1>6 DEF PromInv, SpecsKeep, Updating
<1>8. RowsKeep'
  BY <1>1, <1>4, <1>5 DEF PromInv, RowsKeep, Tracked, Kept
<1>9. RowsGood'
  BY <1>1, <1>4 DEF PromInv, RowsGood
<1>10. NewRowsOweNothing'
  BY <1>1, <1>2, <1>5 DEF PromInv, NewRowsOweNothing
<1>11. FramesKeep'
  BY <1>6 DEF FramesKeep, FrameKeeps
<1> QED BY <1>7, <1>8, <1>9, <1>10, <1>11 DEF PromInv

(* A merge in memory keeps what the run did before, and adds the request. *)
LEMMA DecideMergeKeeps ==
  ASSUME IInv, PromInv, NEW c \in Callers, DecideMerge(c), StartKeeps'
  PROVE  PromInv'
<1> USE DEF database, bounds
<1> DEFINE r == pend[call[c].project]
           g == Granting(c)
           merged == MergeJobs(spec[r].job, g)
           new == [job |-> merged,
                   importing |-> spec[r].importing \/ call[c].importing,
                   held |-> spec[r].held /\ merged.trigger = "forge"]
<1>0. /\ call \in [Callers -> Frame] /\ spec \in [RunIds -> PendingSpec]
      /\ pend \in [Projects -> RunIds \cup {None}]
  BY DEF IInv, TypeOK
<1>1. /\ spec' = [spec EXCEPT ![r] = new]
      /\ call' = [call EXCEPT ![c] = Goto(c, "update", r)]
      /\ UNCHANGED <<pend, job, row, promised>>
      /\ call[c].pc = "decide" /\ r # None
  BY DEF DecideMerge, MayProceed
<1>2. call[c].project \in Projects /\ r \in RunIds /\ InQueue(r)
  BY <1>0, <1>1 DEF IInv, FramesOK, InQueue
<1>3. /\ Coherent(merged, Source) /\ Covered(g, merged)
      /\ Covered(spec[r].job, merged)
  BY <1>2, GrantingCoherent, MergeCovers DEF PromInv, SpecsKeep
<1>4. /\ \A q \in RunIds \ {r} : spec'[q] = spec[q]
      /\ spec'[r].job = merged
      /\ \A d \in Callers \ {c} : call'[d] = call[d]
      /\ call'[c].pc = "update" /\ call'[c].run = r
      /\ call'[c].ask = call[c].ask /\ call'[c].hasOk = call[c].hasOk
  BY <1>0, <1>1, <1>2 DEF Goto
<1>5. Granting(c)' = g /\ row[r].status = "queued"
  BY <1>1, <1>2, <1>4 DEF Granting, IInv, QueueOK, PendOK
<1> HIDE DEF g, merged, new
<1>6. SpecsKeep'
  <2>1. \A q \in RunIds : InQueue(q)' \/ Updating(q)' => InQueue(q) \/ Updating(q)
    BY <1>1, <1>2, <1>4 DEF InQueue, Live, Updating
  <2>2. \A x \in promised[r] : Covered(x, merged)
    BY <1>2, <1>3, CoveredTransitive DEF PromInv, SpecsKeep
  <2> QED BY <1>1, <1>3, <1>4, <2>1, <2>2 DEF PromInv, SpecsKeep
<1>7. RowsKeep' /\ RowsGood' /\ NewRowsOweNothing'
  BY <1>1 DEF PromInv, RowsKeep, RowsGood, NewRowsOweNothing, Tracked, Kept
<1>8. FramesKeep'
  <2>1. FrameKeeps(c, call[c].run, Granting(c))'
    BY <1>1, <1>3, <1>4, <1>5 DEF FrameKeeps
  <2>2. \A d \in Callers \ {c} : FrameKeeps(d, call[d].run, Granting(d))'
    BY <1>1, <1>4, HolderAlone DEF FrameKeeps
  <2> QED BY <2>1, <2>2 DEF FramesKeep
<1> QED BY <1>6, <1>7, <1>8 DEF PromInv

(* The merge reaches the row. *)
LEMMA UpdateKeeps ==
  ASSUME IInv, PromInv, NEW c \in Callers, Update(c), StartKeeps'
  PROVE  PromInv'
<1> USE DEF database, bounds
<1> DEFINE r == call[c].run
           g == Granting(c)
<1>0. row \in [RunIds -> ScanRun] /\ call \in [Callers -> Frame]
  BY DEF IInv, TypeOK
<1>1. /\ row' = [row EXCEPT ![r] = Queued(r, spec[r].job)]
      /\ call' = [call EXCEPT ![c] = Goto(c, "return", r)]
      /\ UNCHANGED <<pend, job, spec, promised>> /\ call[c].pc = "update"
  BY DEF Update
<1>2. r \in RunIds /\ Updating(r)
  BY <1>1 DEF IInv, FramesOK, Updating
<1>3. /\ \A q \in RunIds \ {r} : row'[q] = row[q]
      /\ row'[r].status = row[r].status
      /\ row'[r].queued = Row(spec[r].job)
      /\ \A d \in Callers \ {c} : call'[d] = call[d]
      /\ call'[c].pc = "return" /\ call'[c].run = r
      /\ call'[c].ask = call[c].ask /\ call'[c].hasOk = call[c].hasOk
  BY <1>0, <1>1, <1>2 DEF Queued, Goto
<1>4. Granting(c)' = g
  BY <1>3 DEF Granting
<1>5. /\ Recovered(Row(spec[r].job)) = spec[r].job /\ GoodRow(Row(spec[r].job))
      /\ \A x \in promised[r] : Covered(x, spec[r].job)
      /\ Covered(g, spec[r].job) /\ row[r].status # "none"
  BY <1>1, <1>2, RowRecovers DEF PromInv, SpecsKeep, FramesKeep, FrameKeeps
<1> HIDE DEF g
<1>6. SpecsKeep'
  <2>1. \A q \in RunIds : InQueue(q)' \/ Updating(q)' => InQueue(q) \/ Updating(q)
    BY <1>1, <1>3 DEF InQueue, Live, Updating
  <2> QED BY <1>1, <2>1 DEF PromInv, SpecsKeep
<1>7. RowsKeep'
  BY <1>1, <1>3, <1>5 DEF PromInv, RowsKeep, Tracked, Kept
<1>8. RowsGood' /\ NewRowsOweNothing'
  BY <1>1, <1>3, <1>5 DEF PromInv, RowsGood, NewRowsOweNothing
<1>9. FramesKeep'
  <2>1. FrameKeeps(c, call[c].run, Granting(c))'
    BY <1>1, <1>3, <1>4, <1>5 DEF FrameKeeps, Kept
  <2>2. \A d \in Callers \ {c} : FrameKeeps(d, call[d].run, Granting(d))'
    BY <1>1, <1>3, HolderAlone DEF FrameKeeps
  <2> QED BY <2>1, <2>2 DEF FramesKeep
<1> QED BY <1>6, <1>7, <1>8, <1>9 DEF PromInv

(* A merged request is answered: its run and its row do its work. *)
LEMMA ReturnKeeps ==
  ASSUME IInv, PromInv, NEW c \in Callers, Return(c), StartKeeps'
  PROVE  PromInv'
<1> USE DEF database, bounds
<1> DEFINE r == call[c].run
           g == Granting(c)
<1>0. /\ call \in [Callers -> Frame] /\ job \in [RunIds -> JobState]
      /\ pend \in [Projects -> RunIds \cup {None}]
      /\ busy \in [Projects -> RunIds \cup {None}]
      /\ promised \in [RunIds -> SUBSET Job] /\ NoCall.pc = "idle"
  BY DEF IInv, TypeOK, NoCall
<1>1. /\ Dispatch(pend, busy, job, spec)
      /\ promised' = [promised EXCEPT ![r] = @ \cup {g}]
      /\ call' = [call EXCEPT ![c] = NoCall]
      /\ UNCHANGED <<spec, row>> /\ call[c].pc = "return"
  BY DEF Return
<1>2. r \in RunIds
  BY <1>1 DEF IInv, FramesOK
<1>3. \A q \in RunIds :
        /\ InQueue(q)' => InQueue(q)
        /\ job'[q].phase = "start" => job[q].phase = "start" \/ row[q].status = "queued"
  <2>1. \A x \in Projects, q \in RunIds : pend[x] = q => row[q].status = "queued"
    BY DEF IInv, QueueOK, PendOK, RunIds, None
  <2>2. \A q \in RunIds :
          /\ InQueue(q)' => job[q].phase # "idle" \/ \E x \in Projects : pend[x] = q
          /\ job'[q].phase = "start" =>
               job[q].phase = "start" \/ \E x \in Projects : pend[x] = q
    BY <1>0, <1>1, DispatchQueues
  <2> QED BY <2>1, <2>2 DEF InQueue, Live
<1>4. /\ promised'[r] = promised[r] \cup {g}
      /\ \A q \in RunIds \ {r} : promised'[q] = promised[q]
      /\ \A d \in Callers : call'[d].pc \in {"idle", "wait"}
      /\ FrameKeeps(c, r, g)
  BY <1>0, <1>1, <1>2, HolderAlone DEF PromInv, FramesKeep
<1> HIDE DEF g
<1>5. SpecsKeep'
  BY <1>1, <1>3, <1>4 DEF PromInv, SpecsKeep, Updating, FrameKeeps
<1>6. RowsKeep'
  <2>1. \A q \in RunIds : Tracked(q)' => Tracked(q) /\ Kept(q)' = Kept(q)
    BY <1>1, <1>3 DEF Tracked, Kept
  <2> QED BY <1>1, <1>4, <2>1 DEF PromInv, RowsKeep, FrameKeeps
<1>7. RowsGood'
  BY <1>1, <1>3 DEF PromInv, RowsGood
<1>8. NewRowsOweNothing'
  BY <1>1, <1>4 DEF PromInv, NewRowsOweNothing, FrameKeeps
<1>9. FramesKeep'
  BY <1>4 DEF FramesKeep, FrameKeeps
<1> QED BY <1>5, <1>6, <1>7, <1>8, <1>9 DEF PromInv

(* The handlers' steps keep the promises. *)
LEMMA CallerPromises ==
  ASSUME IInv, PromInv, NEW c \in Callers, CallerStep(c)
  PROVE  PromInv'
<1> USE DEF database, bounds
<1>0. /\ call \in [Callers -> Frame] /\ job \in [RunIds -> JobState]
      /\ pend \in [Projects -> RunIds \cup {None}] /\ row \in [RunIds -> ScanRun]
      /\ promised \in [RunIds -> SUBSET Job] /\ NoCall.pc = "idle"
  BY DEF IInv, TypeOK, NoCall
<1>1. StartKeeps'
  BY CallerKeepsStart
<1>2. ASSUME NEW f, call' = [call EXCEPT ![c] = f] \/ call' = call,
             f.pc \notin {"register", "update", "return"},
             UNCHANGED <<pend, job, spec, row, promised>>
      PROVE  PromInv'
  <2>1. \A d \in Callers : call'[d] = call[d] \/ call'[d] = f
    BY <1>0, <1>2
  <2> QED BY <1>1, <1>2, <2>1, PromisesStay DEF InQueue, Live, Tracked
<1>3. ASSUME NEW p \in Projects, NEW ask \in Asks, Request(c, p, ask)
      PROVE  PromInv'
  <2> DEFINE f == [pc |-> "wait", project |-> p, ask |-> ask,
                   importing |-> ~initialized[p], hasOk |-> FALSE, run |-> None]
  <2>1. /\ call' = [call EXCEPT ![c] = f] /\ f.pc = "wait"
        /\ UNCHANGED <<pend, job, spec, row, promised>>
    BY <1>3 DEF Request
  <2> HIDE DEF f
  <2> QED BY <1>2, <2>1
<1>4. CASE Acquire(c)
  <2> DEFINE f == [Goto(c, "decide", None) EXCEPT !.hasOk = scanned[call[c].project]]
  <2>1. /\ call' = [call EXCEPT ![c] = f] /\ f.pc = "decide"
        /\ UNCHANGED <<pend, job, spec, row, promised>>
    BY <1>4 DEF Acquire, Goto
  <2> HIDE DEF f
  <2> QED BY <1>2, <2>1
<1>5. CASE \/ Refuse(c) \/ InsertFails(c) \/ UpdateFails(c)
           \/ MarkCancelledFails(c)
  <2>1. /\ call' = [call EXCEPT ![c] = NoCall]
        /\ UNCHANGED <<pend, job, spec, row, promised>>
    BY <1>5 DEF Refuse, InsertFails, UpdateFails, MarkCancelledFails
  <2> QED BY <1>0, <1>2, <2>1
<1>6. CASE DecideNew(c)
  <2> DEFINE f == Goto(c, "insert", None)
  <2>1. /\ call' = [call EXCEPT ![c] = f] /\ f.pc = "insert"
        /\ UNCHANGED <<pend, job, spec, row, promised>>
    BY <1>6 DEF DecideNew, Goto
  <2> HIDE DEF f
  <2> QED BY <1>2, <2>1
<1>7. ASSUME NEW p \in Projects, NEW may \in BOOLEAN, CancelQueued(c, p, may)
      PROVE  PromInv'
  <2>1. /\ call' = [call EXCEPT ![c] = [Goto(c, "mark", pend[p]) EXCEPT !.project = p]]
        /\ pend' = [pend EXCEPT ![p] = None]
        /\ UNCHANGED <<job, spec, row, promised>>
    BY <1>7 DEF CancelQueued
  <2>2. \A d \in Callers : call'[d] = call[d] \/ call'[d].pc = "mark"
    BY <1>0, <2>1 DEF Goto
  <2>3. \A r \in RunIds : InQueue(r)' => InQueue(r)
    BY <1>0, <2>1 DEF InQueue, Live, RunIds, None
  <2> QED BY <1>1, <2>1, <2>2, <2>3, PromisesStay DEF Tracked
<1>8. ASSUME NEW p \in Projects, NEW may \in BOOLEAN, CancelRunning(c, p, may)
      PROVE  PromInv'
  <2>1. /\ job' = [job EXCEPT ![busy[p]] = [@ EXCEPT !.cancelled = TRUE,
                                                     !.interrupted = TRUE]]
        /\ UNCHANGED <<call, pend, spec, row, promised>>
    BY <1>8 DEF CancelRunning
  <2>2. \A r \in RunIds : job'[r].phase = job[r].phase
    BY <1>0, <2>1 DEF JobState
  <2> QED BY <1>1, <2>1, <2>2, PromisesStay DEF InQueue, Live, Tracked
<1>9. CASE MarkCancelled(c)
  <2> DEFINE r == call[c].run
  <2>1. /\ row' = IF row[r].status = "queued"
                  THEN [row EXCEPT ![r] = Ended(r, "cancelled")] ELSE row
        /\ call' = [call EXCEPT ![c] = NoCall]
        /\ promised' = [promised EXCEPT ![r] = {}]
        /\ UNCHANGED <<pend, job, spec>> /\ call[c].pc = "mark"
    BY <1>9 DEF MarkCancelled
  <2>2. r \in RunIds /\ row[r].status = "queued" /\ job[r].phase = "idle"
    BY <2>1 DEF IInv, FramesOK
  <2>3. /\ row'[r].status = "cancelled"
        /\ \A q \in RunIds \ {r} : row'[q] = row[q]
        /\ \A q \in RunIds : promised'[q] \subseteq promised[q]
        /\ \A d \in Callers : call'[d] = call[d] \/ call'[d].pc = "idle"
    BY <1>0, <2>1, <2>2 DEF Ended
  <2>4. \A q \in RunIds :
          /\ row'[q].status = "none" => row[q].status = "none"
          /\ row'[q].status = "queued" => row[q].status = "queued"
          /\ Tracked(q)' => Tracked(q) /\ row'[q].queued = row[q].queued
    BY <2>1, <2>2, <2>3 DEF Tracked
  <2>5. \A q \in RunIds : InQueue(q)' => InQueue(q)
    BY <2>1 DEF InQueue, Live
  <2> QED BY <1>1, <2>1, <2>3, <2>4, <2>5, PromisesStay
<1> QED
  BY <1>1, <1>3, <1>4, <1>5, <1>6, <1>7, <1>8, <1>9, InsertKeeps, RegisterKeeps,
     DecideMergeKeeps, UpdateKeeps, ReturnKeeps DEF CallerStep, Holding

(***************************************************************************)
(* The jobs' steps.                                                        *)
(***************************************************************************)

(* A portal with a job is not starting. *)
LEMMA JobKeepsStart ==
  ASSUME IInv, PromInv, NEW r \in RunIds, job[r].phase # "idle", mode' = mode
  PROVE  StartKeeps'
BY DEF IInv, DownOK, StartKeeps

(* The job writes its run's columns over its row, but for the row's summary. *)
LEMMA BeginKeeps ==
  ASSUME IInv, PromInv, NEW r \in RunIds, Begin(r)
  PROVE  PromInv'
<1> USE DEF database, bounds
<1> DEFINE q == row[r].queued
           s == spec[r].job
           columns == [Row(s) EXCEPT !.by = q.by, !.summary = q.summary]
<1>0. /\ row \in [RunIds -> ScanRun] /\ job \in [RunIds -> JobState]
  BY DEF IInv, TypeOK
<1>1. /\ row' = [row EXCEPT ![r] =
            [status |-> "running", project |-> ProjectOf(r), outcome |-> @.outcome,
             queued |-> columns]]
      /\ job' = [job EXCEPT ![r] = [@ EXCEPT
            !.phase = "prep", !.who = IF s.analyze THEN q.by ELSE NoUser]]
      /\ UNCHANGED <<mode, pend, spec, call, promised>> /\ job[r].phase = "start"
  BY DEF Begin
<1> HIDE DEF q, s, columns
<1>2. /\ row'[r].status = "running" /\ row'[r].queued = columns
      /\ job'[r].phase = "prep"
      /\ \A x \in RunIds \ {r} : row'[x] = row[x] /\ job'[x] = job[x]
  BY <1>0, <1>1 DEF JobState
<1>3. StartKeeps'
  BY <1>1, JobKeepsStart
<1>4. Tracked(r) /\ InQueue(r) /\ GoodRow(q) /\ Coherent(s, Source)
  BY <1>1 DEF Tracked, InQueue, Live, PromInv, RowsGood, SpecsKeep, q, s
<1>5. ASSUME NEW g, Covered(g, Kept(r)), Covered(g, s)
      PROVE  Covered(g, Kept(r)')
  <2>1. Kept(r)' = Recovered(columns)
    BY <1>2 DEF Kept
  <2>2. Covered(g, Recovered(q))
    BY <1>5 DEF Kept, q
  <2>3. Covered(g, Recovered([Row(s) EXCEPT !.by = q.by, !.summary = q.summary]))
    BY <1>4, <1>5, <2>2, BeginCovers
  <2> QED BY <2>1, <2>3 DEF columns
<1>6. \A x \in RunIds : InQueue(x)' => InQueue(x)
  BY <1>1, <1>2 DEF InQueue, Live
<1>7. SpecsKeep'
  BY <1>1, <1>6 DEF PromInv, SpecsKeep, Updating
<1>8. RowsKeep'
  <2>1. \A g \in promised[r] : Covered(g, Kept(r)) /\ Covered(g, s)
    BY <1>4 DEF PromInv, RowsKeep, SpecsKeep, s
  <2>2. \A x \in RunIds \ {r} : (Tracked(x)' <=> Tracked(x)) /\ Kept(x)' = Kept(x)
    BY <1>2 DEF Tracked, Kept
  <2> QED BY <1>1, <1>5, <2>1, <2>2 DEF PromInv, RowsKeep
<1>9. RowsGood' /\ NewRowsOweNothing'
  BY <1>1, <1>2 DEF PromInv, RowsGood, NewRowsOweNothing
<1>10. FramesKeep'
  <2> SUFFICES ASSUME NEW c \in Callers,
                      call[c].pc \in {"register", "update", "return"}
               PROVE  FrameKeeps(c, call[c].run, Granting(c))'
    BY <1>1 DEF FramesKeep, FrameKeeps
  <2> DEFINE x == call[c].run
             g == Granting(c)
  <2>1. Granting(c)' = g /\ call' = call
    BY <1>1 DEF Granting
  <2>2. x \in RunIds /\ FrameKeeps(c, x, g)
    BY DEF IInv, FramesOK, PromInv, FramesKeep
  <2> HIDE DEF g
  <2>3. CASE x # r
    BY <1>1, <1>2, <1>6, <2>1, <2>2, <2>3 DEF FrameKeeps, Tracked, Kept
  <2>4. CASE x = r
    (* A job has begun: its run is not waiting to be registered. *)
    <3>1. call[c].pc # "register"
      BY <1>1, <2>4 DEF IInv, FramesOK
    <3>2. call[c].pc = "return" => Covered(g, Kept(r)')
      BY <1>4, <1>5, <2>2, <2>4 DEF FrameKeeps, s
    <3> QED BY <1>1, <1>2, <1>6, <2>1, <2>2, <2>4, <3>1, <3>2 DEF FrameKeeps
  <2> QED BY <2>3, <2>4
<1> QED BY <1>3, <1>7, <1>8, <1>9, <1>10 DEF PromInv

(* The jobs' steps keep the promises. *)
LEMMA JobPromises ==
  ASSUME IInv, PromInv, NEW r \in RunIds, JobStep(r)
  PROVE  PromInv'
<1> USE DEF database, bounds
<1>0. /\ row \in [RunIds -> ScanRun] /\ job \in [RunIds -> JobState]
      /\ pend \in [Projects -> RunIds \cup {None}]
      /\ busy \in [Projects -> RunIds \cup {None}]
      /\ promised \in [RunIds -> SUBSET Job]
  BY DEF IInv, TypeOK
<1>1. CASE \/ FailsEarly(r) \/ SyncGivesUp(r) \/ NothingToScan(r)
           \/ StopsBeforeChild(r) \/ Spawn(r) \/ ChildExits(r) \/ FinishRunFails(r)
  <2>1. /\ UNCHANGED <<mode, pend, call, spec, row, promised>>
        /\ job[r].phase # "idle" /\ job'[r].phase # "start"
        /\ \A q \in RunIds \ {r} : job'[q] = job[q]
    <3>1. /\ UNCHANGED <<mode, pend, call, spec, row, promised>>
          /\ job[r].phase # "idle"
          /\ \E j : job' = [job EXCEPT ![r] = j] /\ j.phase # "start"
      <4>1. CASE \E how : job' = End(r, how)
        <5>1. PICK how : job' = End(r, how)
          BY <4>1
        <5>2. job' = [job EXCEPT ![r] = [job[r] EXCEPT !.phase = "ending", !.end = how]]
          BY <1>0, <5>1 DEF End
        <5>3. [job[r] EXCEPT !.phase = "ending", !.end = how].phase = "ending"
          BY <1>0 DEF JobState
        <5> QED BY <1>1, <5>2, <5>3 DEF JobOnly, FailsEarly, SyncGivesUp,
                NothingToScan, StopsBeforeChild, Spawn, ChildExits, FinishRunFails
      <4>2. CASE Spawn(r)
        <5>1. [job[r] EXCEPT !.phase = "child", !.ran = TRUE].phase = "child"
          BY <1>0 DEF JobState
        <5> QED BY <1>0, <4>2, <5>1 DEF JobOnly, Spawn
      <4>3. CASE FinishRunFails(r)
        <5>1. [job[r] EXCEPT !.phase = "done"].phase = "done"
          BY <1>0 DEF JobState
        <5> QED BY <1>0, <4>3, <5>1 DEF FinishRunFails
      <4> QED BY <1>1, <4>1, <4>2, <4>3 DEF FailsEarly, SyncGivesUp, NothingToScan,
              StopsBeforeChild, ChildExits
    <3> QED BY <1>0, <3>1
  <2>2. StartKeeps'
    BY <2>1, JobKeepsStart
  <2> QED BY <2>1, <2>2, PromisesStay DEF InQueue, Live, Tracked
<1>2. CASE CloneDone(r)
  <2>1. UNCHANGED <<mode, pend, call, spec, row, promised, job>> /\ job[r].phase # "idle"
    BY <1>2 DEF CloneDone, process
  <2>2. StartKeeps'
    BY <2>1, JobKeepsStart
  <2> QED BY <2>1, <2>2, PromisesStay DEF InQueue, Live, Tracked
<1>3. CASE FinishRun(r)
  <2> DEFINE st == Outcome(job[r].end, job[r].cancelled, job[r].interrupted)
  <2>1. /\ row' = [row EXCEPT ![r] = Ended(r, st)]
        /\ job' = [job EXCEPT ![r].phase = "done"]
        /\ promised' = [promised EXCEPT ![r] = {}]
        /\ UNCHANGED <<mode, pend, call, spec>> /\ job[r].phase = "ending"
    BY <1>3 DEF FinishRun
  <2>2. st \in Final
    BY <1>0 DEF JobState, Outcome, Final
  <2>3. /\ row'[r].status \in Final /\ job'[r].phase = "done"
        /\ \A q \in RunIds \ {r} : row'[q] = row[q] /\ job'[q] = job[q]
        /\ \A q \in RunIds : promised'[q] \subseteq promised[q]
    BY <1>0, <2>1, <2>2 DEF Ended, JobState
  <2>4. StartKeeps'
    BY <2>1, JobKeepsStart
  <2> HIDE DEF st
  <2> QED BY <2>1, <2>3, <2>4, PromisesStay DEF InQueue, Live, Tracked, Final
<1>4. CASE Retire(r)
  <2> DEFINE p == ProjectOf(r)
             bz == [busy EXCEPT ![p] = None]
             jb == [job EXCEPT ![r] = NoJob]
  <2>1. /\ Dispatch(pend, bz, jb, spec) /\ job[r].phase = "done"
        /\ UNCHANGED <<mode, call, spec, row, promised>>
    BY <1>4 DEF Retire
  <2>2. p \in Projects
    BY <2>1 DEF IInv, QueueOK, JobsOK, ProjectOf
  <2>3. /\ bz \in [Projects -> RunIds \cup {None}] /\ jb \in [RunIds -> JobState]
        /\ jb[r].phase = "idle" /\ \A q \in RunIds \ {r} : jb[q] = job[q]
    BY <1>0, <2>2, JobStateTyped DEF NoJob
  <2>4. \A q \in RunIds :
          /\ InQueue(q)' => jb[q].phase # "idle" \/ \E x \in Projects : pend[x] = q
          /\ job'[q].phase = "start" =>
               jb[q].phase = "start" \/ \E x \in Projects : pend[x] = q
    <3> HIDE DEF bz, jb
    <3> QED BY <1>0, <2>1, <2>3, DispatchQueues
  <2> HIDE DEF bz, jb
  <2>5. \A x \in Projects, q \in RunIds : pend[x] = q => row[q].status = "queued"
    BY DEF IInv, QueueOK, PendOK, RunIds, None
  <2>6. StartKeeps'
    BY <2>1, JobKeepsStart
  <2>7. \A q \in RunIds :
          /\ InQueue(q)' => InQueue(q)
          /\ job'[q].phase = "start" => job[q].phase = "start" \/ row[q].status = "queued"
    BY <2>3, <2>4, <2>5 DEF InQueue, Live
  <2> QED BY <2>1, <2>6, <2>7, PromisesStay DEF Tracked
<1> QED BY <1>1, <1>2, <1>3, <1>4, BeginKeeps DEF JobStep

(***************************************************************************)
(* The timers, stops and starts.                                           *)
(***************************************************************************)

(* Timers and stops keep the promises. *)
LEMMA StopPromises ==
  ASSUME IInv, PromInv,
         \/ \E p \in Projects : DebounceEnds(p) \/ WakeUp(p)
         \/ Shutdown \/ MarkLeftover \/ MarkLeftoverFails \/ MarkStale
  PROVE  PromInv'
<1> USE DEF database, bounds
<1>0. /\ row \in [RunIds -> ScanRun] /\ job \in [RunIds -> JobState]
      /\ pend \in [Projects -> RunIds \cup {None}]
      /\ busy \in [Projects -> RunIds \cup {None}]
      /\ spec \in [RunIds -> PendingSpec]
  BY DEF IInv, TypeOK
<1>1. ASSUME NEW p \in Projects, DebounceEnds(p)
      PROVE  PromInv'
  <2>1. UNCHANGED <<mode, cursor, pend, call, spec, row, promised, job>>
    BY <1>1 DEF DebounceEnds
  <2>2. StartKeeps'
    BY <2>1 DEF PromInv, StartKeeps
  <2> QED BY <2>1, <2>2, PromisesStay DEF InQueue, Live, Tracked
<1>2. ASSUME NEW p \in Projects, WakeUp(p)
      PROVE  PromInv'
  <2> DEFINE sp == [spec EXCEPT ![pend[p]].held = FALSE]
  <2>1. /\ Dispatch(pend, busy, job, sp) /\ spec' = sp
        /\ UNCHANGED <<mode, call, row, promised>> /\ mode = "up"
    BY <1>2 DEF WakeUp
  <2>2. \A r \in RunIds : spec'[r].job = spec[r].job
    BY <1>0, <2>1 DEF PendingSpec
  <2> HIDE DEF sp
  <2>3. \A q \in RunIds :
          /\ InQueue(q)' => job[q].phase # "idle" \/ \E x \in Projects : pend[x] = q
          /\ job'[q].phase = "start" =>
               job[q].phase = "start" \/ \E x \in Projects : pend[x] = q
    BY <1>0, <2>1, DispatchQueues
  <2>4. \A x \in Projects, q \in RunIds : pend[x] = q => row[q].status = "queued"
    BY DEF IInv, QueueOK, PendOK, RunIds, None
  <2>5. StartKeeps'
    BY <2>1 DEF StartKeeps
  <2>6. \A q \in RunIds :
          /\ InQueue(q)' => InQueue(q)
          /\ job'[q].phase = "start" => job[q].phase = "start" \/ row[q].status = "queued"
    BY <2>3, <2>4 DEF InQueue, Live
  <2> QED BY <2>1, <2>2, <2>5, <2>6, PromisesStay DEF Tracked
<1>3. CASE Shutdown
  <2>1. /\ UNCHANGED <<pend, call, spec, row, promised>> /\ mode' = "stopping"
        /\ \A r \in RunIds : job'[r].phase = job[r].phase
    BY <1>0, <1>3 DEF Shutdown, JobState
  <2>2. StartKeeps'
    BY <2>1 DEF StartKeeps
  <2> QED BY <2>1, <2>2, PromisesStay DEF InQueue, Live, Tracked
<1>4. CASE MarkLeftoverFails
  <2>1. UNCHANGED <<pend, call, spec, row, promised, job>> /\ mode' = "stopped"
    BY <1>4 DEF MarkLeftoverFails
  <2>2. StartKeeps'
    BY <2>1 DEF StartKeeps
  <2> QED BY <2>1, <2>2, PromisesStay DEF InQueue, Live, Tracked
<1>5. CASE MarkLeftover \/ MarkStale
  <2>1. /\ UNCHANGED <<pend, call, spec, job, cursor>>
        /\ promised' = [r \in RunIds |->
             IF row'[r].status = "interrupted" THEN {} ELSE promised[r]]
        /\ \A r \in RunIds : /\ row'[r].queued = row[r].queued
                             /\ row'[r].status \in {row[r].status, "interrupted"}
    BY <1>0, <1>5 DEF MarkLeftover, MarkStale, ScanRun
  <2>2. StartKeeps'
    (* The cursor has not moved yet. *)
    <3>1. mode' = "stopped" \/ (mode' = "starting" /\ mode = "down")
      BY <1>5 DEF MarkLeftover, MarkStale
    <3>2. mode = "down" => \A r \in RunIds : ~(r <= cursor)
      BY DEF PromInv, StartKeeps, RunIds
    <3> QED BY <2>1, <3>1, <3>2 DEF StartKeeps
  <2>3. \A r \in RunIds :
          /\ promised'[r] \subseteq promised[r]
          /\ row'[r].status = "none" => row[r].status = "none"
          /\ row'[r].status = "queued" => row[r].status = "queued"
          /\ Tracked(r)' => Tracked(r) /\ row'[r].queued = row[r].queued
    BY <2>1 DEF Tracked
  <2> QED BY <2>1, <2>2, <2>3, PromisesStay DEF InQueue, Live
<1> QED BY <1>1, <1>2, <1>3, <1>4, <1>5

(* A crash loses the memory; the rows still do what was promised. *)
LEMMA ForgetKeeps ==
  ASSUME IInv, PromInv, Forget
  PROVE  PromInv'
<1>1. /\ mode' = "down" /\ cursor' = 0
      /\ \A p \in Projects : pend'[p] = None
      /\ \A r \in RunIds : job'[r].phase = "idle"
      /\ \A c \in Callers : call'[c].pc = "idle"
      /\ row' = row /\ promised' = promised
  BY DEF Forget, NoJob, NoCall, database
<1>2. \A r \in RunIds : r # None
  BY DEF RunIds, None
<1>3. SpecsKeep' /\ FramesKeep'
  BY <1>1, <1>2 DEF SpecsKeep, InQueue, Live, Updating, FramesKeep, FrameKeeps
<1>4. RowsKeep' /\ RowsGood' /\ NewRowsOweNothing' /\ StartKeeps'
  BY <1>1 DEF PromInv, RowsKeep, RowsGood, NewRowsOweNothing, StartKeeps, Tracked, Kept
<1> QED BY <1>3, <1>4 DEF PromInv

(* A start reads a row into the run its project keeps. *)
LEMMA RecoverKeeps ==
  ASSUME IInv, PromInv, NEW r \in RunIds, RecoverRow(r)
  PROVE  PromInv'
<1> USE DEF database, bounds
<1> DEFINE p == ProjectOf(r)
           found == Recovered(row[r].queued)
<1>0. /\ pend \in [Projects -> RunIds \cup {None}] /\ spec \in [RunIds -> PendingSpec]
      /\ cursor \in Nat
  BY DEF IInv, TypeOK, RunIds
<1>1. /\ mode = "starting" /\ row[r].status = "queued" /\ cursor' = r
      /\ \A q \in RunIds : row[q].status = "queued" /\ q > cursor => r <= q
      /\ UNCHANGED <<mode, job, call, row, promised>>
  BY DEF RecoverRow
<1>2. /\ \A q \in RunIds : job[q].phase = "idle"
      /\ \A c \in Callers : call[c].pc = "idle"
      /\ p \in Projects
  BY <1>1 DEF IInv, DownOK, QueueOK, RowsOK, ProjectOf
<1>3. /\ Coherent(found, Source)
      /\ \A g \in promised[r] : Covered(g, found)
  BY <1>1 DEF PromInv, RowsGood, GoodRow, RowsKeep, Tracked, Kept
(* A pending run is of the project that keeps it. *)
<1>4. \A x \in Projects : pend[x] # None => pend[x] \in RunIds /\ ProjectOf(pend[x]) = x
  BY <1>0 DEF IInv, QueueOK, PendOK, ProjectOf
<1>5. \A x \in Projects : pend[x] # None =>
        /\ Coherent(spec[pend[x]].job, Source)
        /\ \A g \in promised[pend[x]] : Covered(g, spec[pend[x]].job)
  BY <1>4 DEF PromInv, SpecsKeep, InQueue
<1> DEFINE k == IF pend[p] = None THEN r ELSE pend[p]
           j == IF pend[p] = None THEN found ELSE MergeJobs(spec[pend[p]].job, found)
<1>6. /\ \A x \in Projects \ {p} : pend'[x] = pend[x]
      /\ pend'[p] = k /\ k \in RunIds /\ k # None /\ ProjectOf(k) = p
      /\ \A q \in RunIds \ {k} : spec'[q] = spec[q]
      /\ spec'[k].job = j
  <2>1. CASE pend[p] = None
    <3>1. /\ pend' = [pend EXCEPT ![p] = r]
          /\ spec' = [spec EXCEPT ![r] = [job |-> found, held |-> FALSE,
                                          importing |-> ~initialized[p]]]
      BY <2>1 DEF RecoverRow
    <3>2. r # None
      BY DEF RunIds, None
    <3> HIDE DEF found
    <3> QED BY <1>0, <1>2, <2>1, <3>1, <3>2
  <2>2. CASE pend[p] # None
    <3>1. pend' = pend /\ spec' = [spec EXCEPT ![pend[p]].job = MergeJobs(@, found)]
      BY <2>2 DEF RecoverRow
    <3> HIDE DEF found
    <3>2. spec'[pend[p]].job = MergeJobs(spec[pend[p]].job, found)
      BY <1>0, <1>2, <1>4, <2>2, <3>1 DEF PendingSpec
    <3> QED BY <1>0, <1>2, <1>4, <2>2, <3>1, <3>2
  <2> QED BY <2>1, <2>2
<1>7. /\ Coherent(j, Source) /\ Covered(found, j)
      /\ pend[p] # None => Covered(spec[pend[p]].job, j)
  BY <1>2, <1>3, <1>5, MergeCovers DEF Covered
<1> HIDE DEF found, j
<1>8. /\ \A g \in promised[r] : Covered(g, j)
      /\ pend[p] # None => \A g : Covered(g, spec[pend[p]].job) => Covered(g, j)
  BY <1>3, <1>7, CoveredTransitive
<1>9. \A g \in promised[k] : Covered(g, j)
  BY <1>2, <1>5, <1>8
<1>10. \A x \in Projects \ {p} : pend[x] # k \/ pend[x] = None
  BY <1>4, <1>6
<1> HIDE DEF k
<1>11. SpecsKeep'
  <2> SUFFICES ASSUME NEW q \in RunIds, NEW x \in Projects, pend'[x] = q
               PROVE  /\ Coherent(spec'[q].job, Source)
                      /\ \A g \in promised[q] : Covered(g, spec'[q].job)
    BY <1>1, <1>2 DEF SpecsKeep, InQueue, Live, Updating
  <2>1. q # None
    BY DEF RunIds, None
  <2>2. CASE x = p
    BY <1>6, <1>7, <1>9, <2>2
  <2>3. CASE x # p
    BY <1>5, <1>6, <1>10, <2>1, <2>3
  <2> QED BY <2>2, <2>3
<1>12. RowsKeep' /\ RowsGood' /\ NewRowsOweNothing'
  BY <1>1 DEF PromInv, RowsKeep, RowsGood, NewRowsOweNothing, Tracked, Kept
<1>13. FramesKeep'
  BY <1>1, <1>2 DEF FramesKeep, FrameKeeps
<1>14. StartKeeps'
  <2> SUFFICES ASSUME NEW q \in RunIds, row[q].status = "queued", q <= r
               PROVE  /\ pend'[ProjectOf(q)] # None
                      /\ \A g \in promised[q] : Covered(g, spec'[pend'[ProjectOf(q)]].job)
    BY <1>1 DEF StartKeeps, ProjectOf
  <2>1. CASE q = r
    BY <1>6, <1>8, <2>1
  <2>2. CASE q # r
    <3> DEFINE x == ProjectOf(q)
    <3>1. q <= cursor /\ x \in Projects
      BY <1>0, <1>1, <2>2 DEF RunIds, IInv, QueueOK, RowsOK, ProjectOf
    <3>2. /\ pend[x] # None
          /\ \A g \in promised[q] : Covered(g, spec[pend[x]].job)
      BY <1>1, <3>1 DEF PromInv, StartKeeps, ProjectOf
    <3> HIDE DEF x
    <3>3. CASE x = p
      BY <1>6, <1>8, <3>2, <3>3 DEF x
    <3>4. CASE x # p
      BY <1>4, <1>6, <1>10, <3>1, <3>2, <3>4 DEF x
    <3> QED BY <3>3, <3>4
  <2> QED BY <2>1, <2>2
<1> QED BY <1>11, <1>12, <1>13, <1>14 DEF PromInv

(* The kept rows do the work of the ones they replace. *)
LEMMA RequeueKeeps ==
  ASSUME IInv, PromInv, Requeue
  PROVE  PromInv'
<1>1. PICK gone \in SUBSET {p \in Projects : initialized[p]} :
    LET pd == [p \in Projects |-> IF p \in gone THEN None ELSE pend[p]]
        queued == {r \in RunIds : row[r].status = "queued"}
        kept == {r \in queued : pd[ProjectOf(r)] = r}
    IN  /\ mode = "starting"
        /\ \A r \in queued : r <= cursor
        /\ mode' = "up"
        /\ row' = [r \in RunIds |->
             IF r \in kept THEN [row[r] EXCEPT !.queued = Row(spec[r].job)]
             ELSE IF r \in queued THEN Ended(r, "cancelled")
             ELSE row[r]]
        /\ promised' = [r \in RunIds |->
             IF r \in kept
             THEN UNION {promised[q] : q \in
                           {x \in queued : ProjectOf(x) = ProjectOf(r)}}
             ELSE IF r \in queued THEN {} ELSE promised[r]]
        /\ Start(pd, busy, job, spec)
        /\ UNCHANGED <<spec, lock, call, cursor, scanned, initialized, bounds>>
  BY DEF Requeue
<1> DEFINE pd == [p \in Projects |-> IF p \in gone THEN None ELSE pend[p]]
           kept == {r \in RunIds : row[r].status = "queued" /\ pd[ProjectOf(r)] = r}
<1>0. /\ pend \in [Projects -> RunIds \cup {None}] /\ row \in [RunIds -> ScanRun]
      /\ busy \in [Projects -> RunIds \cup {None}] /\ job \in [RunIds -> JobState]
      /\ pd \in [Projects -> RunIds \cup {None}]
  BY DEF IInv, TypeOK
<1>2. /\ \A q \in RunIds : job[q].phase = "idle"
      /\ \A c \in Callers : call[c].pc = "idle"
      /\ mode = "starting" /\ mode' = "up" /\ UNCHANGED <<spec, call>>
      /\ \A q \in RunIds : row[q].status = "queued" => q <= cursor
  BY <1>1 DEF IInv, DownOK
<1>3. Start(pd, busy, job, spec)
  BY <1>1
<1>4. \A q \in RunIds, x \in Projects : pd[x] = q => pend[x] = q /\ q \in kept
  BY <1>0 DEF IInv, QueueOK, PendOK, ProjectOf, RunIds, None
<1>5. \A q \in RunIds : /\ InQueue(q)' => q \in kept
                        /\ job'[q].phase = "start" => q \in kept
  <2>1. \A q \in RunIds :
          /\ InQueue(q)' => job[q].phase # "idle" \/ \E x \in Projects : pd[x] = q
          /\ job'[q].phase = "start" =>
               job[q].phase = "start" \/ \E x \in Projects : pd[x] = q
    <3> HIDE DEF pd
    <3> QED BY <1>0, <1>3, DispatchQueues
  <2> HIDE DEF pd, kept
  <2> QED BY <1>2, <1>4, <2>1
<1>6. \A q \in kept : /\ Coherent(spec[q].job, Source)
                      /\ Recovered(Row(spec[q].job)) = spec[q].job
                      /\ GoodRow(Row(spec[q].job))
  <2>1. \A q \in kept : InQueue(q)
    BY <1>0 DEF InQueue, IInv, QueueOK, RowsOK, ProjectOf, RunIds, None
  <2> QED BY <2>1, RowRecovers DEF PromInv, SpecsKeep
<1>7. ASSUME NEW q \in kept, NEW g \in promised'[q]
      PROVE  Covered(g, spec[q].job)
  <2>1. PICK y \in RunIds : /\ row[y].status = "queued" /\ ProjectOf(y) = ProjectOf(q)
                            /\ g \in promised[y]
    BY <1>1, <1>7
  <2>2. pend[ProjectOf(q)] = q
    BY <1>0 DEF IInv, QueueOK, RowsOK, ProjectOf, RunIds, None
  <2> QED BY <1>2, <2>1, <2>2 DEF PromInv, StartKeeps, ProjectOf
<1>8. \A q \in RunIds :
        /\ q \in kept => row'[q].status = "queued" /\ row'[q].queued = Row(spec[q].job)
        /\ q \notin kept =>
             \/ row'[q].status = "cancelled" /\ promised'[q] = {}
             \/ /\ row[q].status # "queued"
                /\ row'[q] = row[q] /\ promised'[q] = promised[q]
  BY <1>0, <1>1 DEF ScanRun, Ended
<1> HIDE DEF kept, pd
<1>9. SpecsKeep'
  <2> SUFFICES ASSUME NEW q \in RunIds, InQueue(q)' \/ Updating(q)'
               PROVE  /\ Coherent(spec'[q].job, Source)
                      /\ \A g \in promised'[q] : Covered(g, spec'[q].job)
    BY DEF SpecsKeep
  <2>1. q \in kept
    BY <1>2, <1>5 DEF Updating
  <2> QED BY <1>2, <1>6, <1>7, <2>1
<1>10. RowsKeep'
  <2> SUFFICES ASSUME NEW q \in RunIds, Tracked(q)', NEW g \in promised'[q]
               PROVE  Covered(g, Kept(q)')
    BY DEF RowsKeep
  <2>1. CASE q \in kept
    BY <1>6, <1>7, <1>8, <2>1 DEF Kept
  <2>2. CASE q \notin kept
    <3>1. /\ row'[q].status \in {"queued", "running"}
          /\ row'[q] = row[q] /\ promised'[q] = promised[q]
      BY <1>5, <1>8, <2>2 DEF Tracked
    <3> QED BY <3>1 DEF PromInv, RowsKeep, Tracked, Kept
  <2> QED BY <2>1, <2>2
<1>11. RowsGood'
  <2> SUFFICES ASSUME NEW q \in RunIds,
                      row'[q].status = "queued" \/ job'[q].phase = "start"
               PROVE  GoodRow(row'[q].queued)
    BY DEF RowsGood
  <2>1. q \in kept
    BY <1>5, <1>8
  <2> QED BY <1>6, <1>8, <2>1
<1>12. NewRowsOweNothing'
  BY <1>8 DEF PromInv, NewRowsOweNothing
<1>13. FramesKeep' /\ StartKeeps'
  BY <1>2 DEF FramesKeep, FrameKeeps, StartKeeps
<1> QED BY <1>9, <1>10, <1>11, <1>12, <1>13 DEF PromInv

(* The promises are inductive, given the queue's own invariant. *)
LEMMA StepPromises == IInv /\ PromInv /\ [Next]_vars => PromInv'
<1> SUFFICES ASSUME IInv, PromInv, [Next]_vars PROVE PromInv'
  OBVIOUS
<1>1. CASE UNCHANGED vars
  <2>1. UNCHANGED <<mode, cursor, pend, call, spec, row, promised, job>>
    BY <1>1 DEF vars, process, database
  <2>2. StartKeeps'
    BY <2>1 DEF PromInv, StartKeeps
  <2> QED BY <2>1, <2>2, PromisesStay DEF InQueue, Live, Tracked
<1>2. CASE Exit \/ Crash
  BY <1>2, ForgetKeeps DEF Exit, Crash
<1> QED BY <1>1, <1>2, CallerPromises, JobPromises, StopPromises, RecoverKeeps,
        RequeueKeeps DEF Next

(* Rows and runs do what their callers were promised. *)
THEOREM PromisesInvariance == Spec => []PromInv
<1>1. Init => PromInv
  <2> SUFFICES ASSUME Init PROVE PromInv
    OBVIOUS
  <2>1. /\ \A r \in RunIds : /\ row[r].status = "none" /\ promised[r] = {}
                             /\ job[r].phase = "idle" /\ r # None
        /\ \A c \in Callers : call[c].pc = "idle"
        /\ \A p \in Projects : pend[p] = None
        /\ mode = "up" /\ cursor = 0
    BY DEF Init, NoRow, NoJob, NoCall, RunIds, None
  <2> QED BY <2>1 DEF PromInv, SpecsKeep, RowsKeep, RowsGood, NewRowsOweNothing,
          FramesKeep, FrameKeeps, StartKeeps, InQueue, Live, Updating, Tracked
<1> QED BY <1>1, StepPromises, Invariance, PTL DEF Spec

(* What a caller was told is queued is not lost (request_scan's answer,    *)
(* _update_queued, _recover_queued).                                       *)
THEOREM AnsweredWorkIsKept == Spec => []AnsweredWorkKept
<1>1. PromInv => AnsweredWorkKept
  BY DEF PromInv, AnsweredWorkKept, Covers, Covered, SpecsKeep, RowsKeep, Kept,
     Tracked, InQueue
<1> QED BY <1>1, PromisesInvariance, PTL

-----------------------------------------------------------------------------
(***************************************************************************)
(* The queue implements RunLedger.  What a step may do to one run: its     *)
(* project is settled with its row, its row only goes on, and from its     *)
(* first transaction to its last a job's work is settled.                  *)
(***************************************************************************)
Active(r) == job[r].phase \notin {"idle", "done"}

Moves(r) ==
  /\ row[r].status = "none" => row'[r].status \in {"none", "queued"}
  /\ row[r].status # "none" => /\ row'[r].status # "none"
                               /\ row'[r].project = row[r].project
  /\ row[r].status \notin {"none", "queued"} => row'[r].status # "queued"
  /\ row'[r].status \notin {"none", "queued"} /\ Active(r)' => Active(r)
  /\ Active(r) /\ Active(r)' => spec'[r].job = spec[r].job

(* A dispatch starts queued runs only. *)
LEMMA DispatchStarts ==
  ASSUME IInv, NEW pd, NEW bz, NEW jb, NEW sp,
         Dispatch(pd, bz, jb, sp) \/ Start(pd, bz, jb, sp),
         pd \in [Projects -> RunIds \cup {None}],
         bz \in [Projects -> RunIds \cup {None}],
         jb \in [RunIds -> JobState],
         \A p \in Projects : pd[p] # None => row[pd[p]].status = "queued"
  PROVE  \A r \in RunIds : job'[r] = jb[r] \/ row[r].status = "queued"
<1>1. \A r \in RunIds : job'[r] = jb[r] \/ \E p \in Projects : pd[p] = r
  BY DispatchMoves
<1> QED BY <1>1 DEF RunIds, None

(* The handlers: a merge changes the spec of a run that has no job. *)
LEMMA CallerMoves ==
  ASSUME IInv, NEW c \in Callers, CallerStep(c), NEW r \in RunIds
  PROVE  Moves(r)
<1>0. /\ row \in [RunIds -> ScanRun] /\ job \in [RunIds -> JobState]
      /\ spec \in [RunIds -> PendingSpec]
      /\ pend \in [Projects -> RunIds \cup {None}]
      /\ busy \in [Projects -> RunIds \cup {None}]
  BY DEF IInv, TypeOK
<1>00. \A p \in Projects : pend[p] # None =>
         row[pend[p]].status = "queued" /\ job[pend[p]].phase = "idle"
  BY DEF IInv, QueueOK, PendOK
<1>1. CASE UNCHANGED <<row, job, spec>>
  BY <1>1 DEF Moves, Active
<1>2. CASE Insert(c)
  <2>1. UNCHANGED <<job, spec>>
    BY <1>2 DEF Insert
  <2>2. \/ row'[r] = row[r]
        \/ row[r].status = "none" /\ row'[r].status = "queued"
    BY <1>0, <1>2 DEF Insert
  <2>3. Active(r) => row[r].status # "none"
    BY DEF Active, IInv, QueueOK, JobsOK
  <2> QED BY <2>1, <2>2, <2>3 DEF Moves, Active
<1>3. CASE Register(c)
  <2> DEFINE pd == [pend EXCEPT ![call[c].project] = call[c].run]
             new == [job |-> Granting(c), importing |-> call[c].importing,
                     held |-> Granting(c).trigger = "forge"
                                /\ call[c].project \in recent]
             sp == [spec EXCEPT ![call[c].run] = new]
  <2>1. /\ Dispatch(pd, busy, job, sp) /\ spec' = sp /\ row' = row
        /\ call[c].pc = "register"
    BY <1>3 DEF Register, database
  <2>2. /\ call[c].run \in RunIds /\ call[c].project \in Projects
        /\ row[call[c].run].status = "queued" /\ job[call[c].run].phase = "idle"
    BY <2>1 DEF IInv, FramesOK
  <2>3. /\ pd \in [Projects -> RunIds \cup {None}]
        /\ \A p \in Projects : pd[p] # None => row[pd[p]].status = "queued"
    BY <1>0, <1>00, <2>2
  <2>4. r # call[c].run => spec'[r] = spec[r]
    BY <1>0, <2>1
  <2> HIDE DEF pd, sp
  <2>5. job'[r] = job[r] \/ row[r].status = "queued"
    BY <1>0, <2>1, <2>3, DispatchStarts
  <2> QED BY <2>1, <2>2, <2>4, <2>5 DEF Moves, Active
<1>4. CASE DecideMerge(c)
  <2>1. /\ UNCHANGED <<row, job>>
        /\ \E p \in Projects : \E new : /\ pend[p] # None
                                        /\ spec' = [spec EXCEPT ![pend[p]] = new]
    <3>1. call[c].project \in Projects
      BY <1>4 DEF IInv, FramesOK, DecideMerge, MayProceed
    <3> QED BY <1>4, <3>1 DEF DecideMerge, database
  <2>2. Active(r) => spec'[r] = spec[r]
    BY <1>0, <1>00, <2>1 DEF Active
  <2> QED BY <2>1, <2>2 DEF Moves, Active
<1>5. CASE Update(c)
  <2>1. UNCHANGED <<job, spec>> /\ call[c].run \in RunIds
    BY <1>5 DEF Update, IInv, FramesOK
  <2>2. row'[r].status = row[r].status /\ row'[r].project = row[r].project
    BY <1>0, <1>5, <2>1 DEF Update, Queued, ProjectOf
  <2> QED BY <2>1, <2>2 DEF Moves, Active
<1>6. CASE Return(c)
  <2>1. Dispatch(pend, busy, job, spec) /\ UNCHANGED <<row, spec>>
    BY <1>6 DEF Return, database
  <2>2. job'[r] = job[r] \/ row[r].status = "queued"
    BY <1>0, <1>00, <2>1, DispatchStarts
  <2> QED BY <2>1, <2>2 DEF Moves, Active
<1>7. CASE MarkCancelled(c)
  <2>1. UNCHANGED <<job, spec>> /\ call[c].run \in RunIds
    BY <1>7 DEF MarkCancelled, IInv, FramesOK
  <2>2. /\ row'[r].project = row[r].project
        /\ \/ row'[r].status = row[r].status
           \/ row[r].status = "queued" /\ row'[r].status = "cancelled"
                /\ r = call[c].run
    BY <1>0, <1>7, <2>1 DEF MarkCancelled, Ended, ProjectOf
  <2>3. job[call[c].run].phase = "idle"
    BY <1>7 DEF MarkCancelled, IInv, FramesOK
  <2> QED BY <2>1, <2>2, <2>3 DEF Moves, Active
<1>8. ASSUME NEW p \in Projects, NEW may \in BOOLEAN, CancelRunning(c, p, may)
      PROVE  Moves(r)
  <2>1. UNCHANGED <<row, spec>> /\ busy[p] \in RunIds
    BY <1>0, <1>8 DEF CancelRunning, database
  <2>2. job'[r].phase = job[r].phase
    BY <1>0, <1>8, <2>1 DEF CancelRunning, JobState
  <2> QED BY <2>1, <2>2 DEF Moves, Active
<1>9. \/ UNCHANGED <<row, job, spec>>
      \/ Insert(c) \/ Register(c) \/ DecideMerge(c) \/ Update(c) \/ Return(c)
      \/ MarkCancelled(c)
      \/ \E p \in Projects, may \in BOOLEAN : CancelRunning(c, p, may)
  BY DEF CallerStep, Holding, Request, Acquire, CancelQueued, Refuse, DecideNew,
     InsertFails, UpdateFails, MarkCancelledFails, database
<1> QED BY <1>1, <1>2, <1>3, <1>4, <1>5, <1>6, <1>7, <1>8, <1>9

(* The jobs: only the run whose step it is moves, except at a dispatch. *)
LEMMA JobMoves ==
  ASSUME IInv, NEW r \in RunIds, JobStep(r), NEW q \in RunIds
  PROVE  Moves(q)
<1>0. /\ row \in [RunIds -> ScanRun] /\ job \in [RunIds -> JobState]
      /\ pend \in [Projects -> RunIds \cup {None}]
      /\ busy \in [Projects -> RunIds \cup {None}]
  BY DEF IInv, TypeOK
<1>1. job[r].phase # "idle" => row[r].status # "none" /\ ProjectOf(r) \in Projects
  BY DEF IInv, QueueOK, JobsOK, ProjectOf
<1>2. CASE Retire(r)
  <2> DEFINE bz == [busy EXCEPT ![ProjectOf(r)] = None]
             jb == [job EXCEPT ![r] = NoJob]
  <2>1. /\ Dispatch(pend, bz, jb, spec) /\ UNCHANGED <<row, spec>>
        /\ job[r].phase = "done"
    BY <1>2 DEF Retire, database
  <2>2. /\ bz \in [Projects -> RunIds \cup {None}] /\ jb \in [RunIds -> JobState]
        /\ jb[q] = job[q] \/ jb[q].phase = "idle"
    BY <1>0, <1>1, <2>1, JobStateTyped
  <2>3. \A p \in Projects : pend[p] # None => row[pend[p]].status = "queued"
    BY DEF IInv, QueueOK, PendOK
  <2> HIDE DEF bz, jb
  <2>4. job'[q] = jb[q] \/ row[q].status = "queued"
    BY <1>0, <2>1, <2>2, <2>3, DispatchStarts
  <2> QED BY <2>1, <2>2, <2>4 DEF Moves, Active
<1>3. CASE Begin(r)
  <2>1. UNCHANGED spec /\ Active(r)
    BY <1>3 DEF Begin, Active
  <2>2. /\ q = r => /\ row'[q].status = "running"
                    /\ row'[q].project = row[q].project
        /\ q # r => row'[q] = row[q] /\ job'[q] = job[q]
    BY <1>0, <1>3 DEF Begin, ProjectOf
  <2> QED BY <1>1, <2>1, <2>2 DEF Moves, Active
<1>4. CASE FinishRun(r)
  <2> DEFINE st == Outcome(job[r].end, job[r].cancelled, job[r].interrupted)
  <2>1. /\ UNCHANGED spec /\ Active(r)
        /\ row' = [row EXCEPT ![r] = Ended(r, st)]
        /\ job' = [job EXCEPT ![r].phase = "done"]
    BY <1>4 DEF FinishRun, Active
  <2>2. st \notin {"none", "queued"}
    BY <1>0 DEF JobState, Outcome, Final
  <2> HIDE DEF st
  <2>3. /\ q = r => /\ row'[q].status = st
                    /\ row'[q].project = row[q].project
        /\ q # r => row'[q] = row[q] /\ job'[q] = job[q]
    BY <1>0, <2>1 DEF Ended, ProjectOf
  <2> QED BY <1>1, <2>1, <2>2, <2>3 DEF Moves, Active
<1>5. CASE \/ FailsEarly(r) \/ SyncGivesUp(r) \/ CloneDone(r) \/ NothingToScan(r)
           \/ StopsBeforeChild(r) \/ Spawn(r) \/ ChildExits(r) \/ FinishRunFails(r)
  <2>1. UNCHANGED <<row, spec>> /\ Active(r)
    BY <1>5 DEF FailsEarly, SyncGivesUp, CloneDone, NothingToScan, StopsBeforeChild,
       Spawn, ChildExits, FinishRunFails, JobOnly, process, database, Active
  <2>2. q # r => job'[q] = job[q]
    BY <1>0, <1>5 DEF FailsEarly, SyncGivesUp, CloneDone, NothingToScan,
       StopsBeforeChild, Spawn, ChildExits, FinishRunFails, End, process
  <2> QED BY <2>1, <2>2 DEF Moves, Active
<1> QED BY <1>2, <1>3, <1>4, <1>5 DEF JobStep

(* The timers, stops and starts. *)
LEMMA PortalMoves ==
  ASSUME IInv, NEW q \in RunIds,
         \/ \E p \in Projects : DebounceEnds(p) \/ WakeUp(p)
         \/ Shutdown \/ MarkLeftover \/ MarkLeftoverFails \/ MarkStale
         \/ Exit \/ Crash \/ Requeue
         \/ \E r \in RunIds : RecoverRow(r)
         \/ UNCHANGED vars
  PROVE  Moves(q)
<1>0. /\ row \in [RunIds -> ScanRun] /\ job \in [RunIds -> JobState]
      /\ spec \in [RunIds -> PendingSpec]
      /\ pend \in [Projects -> RunIds \cup {None}]
      /\ busy \in [Projects -> RunIds \cup {None}]
  BY DEF IInv, TypeOK
<1>00. \A p \in Projects : pend[p] # None => row[pend[p]].status = "queued"
  BY DEF IInv, QueueOK, PendOK
<1>1. CASE UNCHANGED vars \/ MarkLeftoverFails \/ \E p \in Projects : DebounceEnds(p)
  BY <1>1 DEF MarkLeftoverFails, DebounceEnds, vars, process, database, Moves, Active
<1>2. ASSUME NEW p \in Projects, WakeUp(p)
      PROVE  Moves(q)
  <2> DEFINE sp == [spec EXCEPT ![pend[p]].held = FALSE]
  <2>1. Dispatch(pend, busy, job, sp) /\ spec' = sp /\ UNCHANGED row
    BY <1>2 DEF WakeUp, database
  <2>2. spec'[q].job = spec[q].job
    BY <1>0, <2>1 DEF PendingSpec
  <2> HIDE DEF sp
  <2>3. job'[q] = job[q] \/ row[q].status = "queued"
    BY <1>0, <1>00, <2>1, DispatchStarts
  <2> QED BY <2>1, <2>2, <2>3 DEF Moves, Active
<1>3. CASE Shutdown
  <2>1. UNCHANGED <<row, spec>> /\ job'[q].phase = job[q].phase
    BY <1>0, <1>3 DEF Shutdown, JobState, database
  <2> QED BY <2>1 DEF Moves, Active
<1>4. CASE MarkLeftover \/ MarkStale
  <2>1. /\ UNCHANGED <<job, spec>> /\ row'[q].project = row[q].project
        /\ \/ row'[q].status = row[q].status
           \/ row[q].status # "none" /\ row'[q].status = "interrupted"
    BY <1>0, <1>4 DEF MarkLeftover, MarkStale, ScanRun
  <2> QED BY <2>1 DEF Moves, Active
<1>5. CASE Exit \/ Crash
  <2>1. UNCHANGED row /\ job'[q].phase = "idle"
    BY <1>5 DEF Exit, Crash, Forget, NoJob, database
  <2> QED BY <2>1 DEF Moves, Active
<1>6. ASSUME NEW r \in RunIds, RecoverRow(r)
      PROVE  Moves(q)
  <2>1. UNCHANGED <<row, job>> /\ job[q].phase = "idle"
    BY <1>6 DEF RecoverRow, database, IInv, DownOK
  <2> QED BY <2>1 DEF Moves, Active
<1>7. CASE Requeue
  <2>1. PICK pd \in [Projects -> RunIds \cup {None}] :
          /\ \A p \in Projects : pd[p] \in {None, pend[p]}
          /\ Start(pd, busy, job, spec) /\ UNCHANGED spec /\ mode = "starting"
          /\ row' = [r \in RunIds |->
               IF row[r].status = "queued" /\ pd[ProjectOf(r)] = r
               THEN [row[r] EXCEPT !.queued = Row(spec[r].job)]
               ELSE IF row[r].status = "queued" THEN Ended(r, "cancelled")
               ELSE row[r]]
    <3>1. PICK gone :
            LET pd == [p \in Projects |-> IF p \in gone THEN None ELSE pend[p]]
                queued == {r \in RunIds : row[r].status = "queued"}
                kept == {r \in queued : pd[ProjectOf(r)] = r}
            IN  /\ mode = "starting" /\ UNCHANGED spec
                /\ row' = [r \in RunIds |->
                     IF r \in kept THEN [row[r] EXCEPT !.queued = Row(spec[r].job)]
                     ELSE IF r \in queued THEN Ended(r, "cancelled")
                     ELSE row[r]]
                /\ Start(pd, busy, job, spec)
      BY <1>7 DEF Requeue
    <3> DEFINE pd == [p \in Projects |-> IF p \in gone THEN None ELSE pend[p]]
    <3>2. /\ pd \in [Projects -> RunIds \cup {None}]
          /\ \A p \in Projects : pd[p] \in {None, pend[p]}
      BY <1>0
    <3>3. \A r \in RunIds :
            r \in {x \in {y \in RunIds : row[y].status = "queued"} : pd[ProjectOf(x)] = x}
              <=> row[r].status = "queued" /\ pd[ProjectOf(r)] = r
      OBVIOUS
    <3> QED BY <3>1, <3>2, <3>3
  <2>2. job[q].phase = "idle"
    BY <2>1 DEF IInv, DownOK
  <2>3. \/ /\ row[q].status = "queued"
           /\ row'[q].status = "queued" \/ \A p \in Projects : pd[p] # q
           /\ row'[q].status \in {"queued", "cancelled"}
           /\ row'[q].project = row[q].project
        \/ row[q].status # "queued" /\ row'[q] = row[q]
    <3>1. \A p \in Projects : pd[p] = q => ProjectOf(q) = p
      BY <2>1 DEF IInv, QueueOK, PendOK, ProjectOf, RunIds, None
    <3> QED BY <1>0, <2>1, <3>1 DEF ScanRun, Ended, ProjectOf
  <2>4. job'[q] = job[q] \/ \E p \in Projects : pd[p] = q
    BY <1>0, <2>1, DispatchMoves
  <2>5. \A p \in Projects : pd[p] = q => row[q].status = "queued"
    BY <1>00, <2>1 DEF RunIds, None
  <2> QED BY <2>2, <2>3, <2>4, <2>5 DEF Moves, Active
<1> QED BY <1>1, <1>2, <1>3, <1>4, <1>5, <1>6, <1>7

(* Every step of the queue moves each of its runs as it may. *)
LEMMA StepMoves ==
  ASSUME IInv, [Next]_vars, NEW r \in RunIds
  PROVE  Moves(r)
BY CallerMoves, JobMoves, PortalMoves DEF Next

(* The ledger's two invariants. *)
LEMMA LedgerKept == IInv /\ PromInv => Ledger!Kept /\ Ledger!Alone
<1> SUFFICES ASSUME IInv, PromInv PROVE Ledger!Kept /\ Ledger!Alone
  OBVIOUS
<1>0. /\ row \in [RunIds -> ScanRun] /\ job \in [RunIds -> JobState]
      /\ spec \in [RunIds -> PendingSpec] /\ promised \in [RunIds -> SUBSET Job]
  BY DEF IInv, TypeOK
<1>1. ASSUME NEW r \in RunIds, LedgerState[r] \in {"queued", "running"},
             NEW g \in promised[r]
      PROVE  StepsOf[g] \subseteq LedgerDoes[r]
  <2> DEFINE inMemory == Live(r) \/ r \in {pend[p] : p \in Projects}
             j == IF inMemory THEN spec[r].job ELSE Recovered(row[r].queued)
  <2>1. inMemory <=> InQueue(r)
    BY DEF InQueue
  <2>2. inMemory \/ row[r].status = "queued"
    BY <1>1 DEF LedgerState, Live
  <2>3. Covered(g, j)
    BY <1>1, <2>1, <2>2 DEF PromInv, SpecsKeep, RowsKeep, Tracked, Kept
  <2>4. j \in Job
    BY <1>0 DEF PendingSpec, ScanRun, Columns, Recovered, Job
  <2>5. LedgerDoes[r] = StepsOf[j]
    BY DEF LedgerDoes
  <2> HIDE DEF j
  <2>6. /\ StepsOf[g] = {ms \in BOOLEAN \X Steps : ms[2] \in Work(g, Source, ms[1])}
        /\ StepsOf[j] = {ms \in BOOLEAN \X Steps : ms[2] \in Work(j, Source, ms[1])}
    BY <1>0, <1>1, <2>4 DEF StepsOf
  <2> QED BY <2>3, <2>5, <2>6 DEF Covered
<1>2. Ledger!Kept
  BY <1>1 DEF Ledger!Kept
<1>3. \A r \in RunIds : LedgerState[r] = "running" => busy[ProjectOf(r)] = r
  BY DEF LedgerState, IInv, QueueOK, JobsOK, ProjectOf
<1>4. Ledger!Alone
  BY <1>3 DEF Ledger!Alone
<1> QED BY <1>2, <1>4

(* Every step of the queue is one of the ledger's. *)
LEMMA LedgerStep ==
  ASSUME IInv, PromInv, [Next]_vars PROVE Ledger!Next
<1>1. IInv' /\ PromInv'
  BY StepInv, StepPromises
<1>2. Ledger!Kept' /\ Ledger!Alone'
  BY <1>1, LedgerKept, PTL
<1>3. ASSUME NEW r \in RunIds
      PROVE  Ledger!RunStep(r)
  <2>1. Moves(r)
    BY StepMoves
  <2>2. LedgerState[r] = IF row[r].status \in {"none", "queued"} THEN row[r].status
                         ELSE IF Active(r) THEN "running" ELSE "over"
    BY DEF LedgerState, Active
  <2>3. LedgerState'[r] = IF row'[r].status \in {"none", "queued"} THEN row'[r].status
                          ELSE IF Active(r)' THEN "running" ELSE "over"
    BY DEF LedgerState, Active
  <2>4. Active(r) /\ Active(r)' => LedgerDoes'[r] = LedgerDoes[r]
    BY <2>1 DEF Moves, LedgerDoes, Live, Active
  <2>5. LedgerState[r] # "none" => ProjectOf(r)' = ProjectOf(r)
    BY <2>1, <2>2 DEF Moves, ProjectOf
  <2> QED BY <2>1, <2>2, <2>3, <2>4, <2>5
          DEF Moves, Ledger!RunStep, Ledger!Stay, Ledger!Open, Ledger!Start,
              Ledger!Finish
<1> QED BY <1>2, <1>3 DEF Ledger!Next

(* What callers may rely on, for any requests, failures, stops and         *)
(* restarts: a run is queued, runs and is over, in this order; it does at  *)
(* least what they were told it does; and a project's runs do not overlap. *)
THEOREM ImplementsLedger == Spec => KeepsPromises
<1>1. Init => Ledger!Init
  BY DEF Init, Ledger!Init, LedgerState, NoRow
<1>2. IInv /\ PromInv /\ [Next]_vars => [Ledger!Next]_Ledger!ledger
  BY LedgerStep
<1> QED BY <1>1, <1>2, Invariance, PromisesInvariance, PTL
        DEF Spec, KeepsPromises, Ledger!Spec

=============================================================================
