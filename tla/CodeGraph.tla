----------------------------- MODULE CodeGraph ------------------------------
(***************************************************************************)
(* The freshness of one project's code index in the CodeGraph bridge       *)
(* (CodeGraphHost, portal/codegraph_host.py): calls compare the tree's     *)
(* fingerprint with the one of the last refresh, share refreshes, and are  *)
(* forwarded when the index has what was saved before they arrived.  A     *)
(* scan's CodeGraph step and the MCP tools' re-sync also write the index;  *)
(* all three take the writer lock, here a Mutex (WriterLock implements     *)
(* it).                                                                    *)
(*                                                                         *)
(* A step is a stretch of the event loop between two awaits, or what a     *)
(* thread or a child process does at one moment.  The tree, a fingerprint  *)
(* and the index are versions: how many saves they have seen.              *)
(***************************************************************************)
EXTENDS Integers

CONSTANTS
  Calls,               \* calls of the project's bridged tools
  MaxSaves,            \* bound: saves of the repository
  FailuresBeforePause  \* SYNC_FAILURES_BEFORE_PAUSE

ASSUME CodeGraphAssumption ==
  MaxSaves \in Nat /\ FailuresBeforePause \in Nat \ {0}

Versions == 0..MaxSaves
NoFp == -1    \* no fingerprint: never taken, or it failed
Broken == -1  \* an index being built from nothing
Started == -2 \* a flight that has not read yet
NoFlight == -3

VARIABLES
  tree,      \* the repository
  index,     \* .codegraph/codegraph.db
  lock,      \* the writer lock: "free", "scan" or "sync"
  call,      \* the calls
  flight,    \* fp_running: none, started, or what it has read
  nextFlight,\* fp_next: whether there is one
  synced,    \* synced_fp
  cur,       \* sync, the current refresh, NoSync once it is done
  trail,     \* trailing
  failures, paused, guarded,
  scan,      \* a scan job: where it is, and the fingerprint it took first
  retired    \* "no", "killing" or "gone": the project is being removed

fresh == <<synced, cur, trail, failures, paused, guarded>>
flights == <<flight, nextFlight>>
vars == <<tree, index, lock, call, flights, fresh, scan, retired>>

NoSync == [phase |-> "none", fp |-> NoFp, read |-> FALSE, cancelled |-> FALSE]
NewSync(fp, phase) == [NoSync EXCEPT !.phase = phase, !.fp = fp]

NoCall == [pc |-> "idle", arrived |-> 0, waits |-> "none", got |-> NoFp]

Init ==
  /\ tree = 0 /\ index = 0
  /\ lock = "free"
  /\ call = [c \in Calls |-> NoCall]
  /\ flight = NoFlight /\ nextFlight = FALSE
  /\ synced = NoFp
  /\ cur = NoSync /\ trail = NoSync
  /\ failures = 0 /\ paused = FALSE /\ guarded = FALSE
  /\ scan = [at |-> "idle", fp |-> NoFp, read |-> FALSE]
  /\ retired = "no"

Save ==
  /\ tree < MaxSaves /\ retired = "no"
  /\ tree' = tree + 1
  /\ UNCHANGED <<index, lock, call, flights, fresh, scan, retired>>

-----------------------------------------------------------------------------
(* Calls: call_tool, _freshen, _fingerprint *)

(* Mutant: a call shares the fingerprint that is being taken. *)
ArriveLate(c) ==
  /\ call[c].pc = "idle" /\ retired = "no"
  /\ call' = [call EXCEPT ![c] = [NoCall EXCEPT !.pc = "fp", !.arrived = tree,
                                                !.waits = "running"]]
  /\ flight' = IF flight = NoFlight THEN Started ELSE flight
  /\ UNCHANGED <<tree, index, lock, nextFlight, fresh, scan, retired>>

(* One flight runs; whoever arrives meanwhile shares the next one. *)
Arrive(c) ==
  /\ call[c].pc = "idle" /\ retired = "no"
  /\ call' = [call EXCEPT ![c] =
       [NoCall EXCEPT !.pc = "fp", !.arrived = tree,
                      !.waits = IF flight = NoFlight THEN "running" ELSE "next"]]
  /\ flight' = IF flight = NoFlight THEN Started ELSE flight
  /\ nextFlight' = (nextFlight \/ flight # NoFlight)
  /\ UNCHANGED <<tree, index, lock, fresh, scan, retired>>

ReadFingerprint ==
  /\ flight = Started
  /\ flight' \in {tree, NoFp}
  /\ UNCHANGED <<tree, index, lock, call, nextFlight, fresh, scan, retired>>

FlightLands ==
  /\ flight >= NoFp
  /\ call' = [c \in Calls |->
       IF call[c].pc # "fp" THEN call[c]
       ELSE IF call[c].waits = "running"
       THEN [call[c] EXCEPT !.pc = "decide", !.waits = "none", !.got = flight]
       ELSE [call[c] EXCEPT !.waits = "running"]]
  /\ flight' = IF nextFlight THEN Started ELSE NoFlight
  /\ nextFlight' = FALSE
  /\ UNCHANGED <<tree, index, lock, fresh, scan, retired>>

Turn(c, pc) == [call EXCEPT ![c] = [@ EXCEPT !.pc = pc, !.got = NoFp]]
WaitFor(c, which) == [call EXCEPT ![c] = [@ EXCEPT !.pc = "wait", !.got = NoFp,
                                                   !.waits = which]]
LetThrough(c) == [call EXCEPT ![c] = [NoCall EXCEPT !.pc = "forward"]]
Answer(c) == [call EXCEPT ![c] = NoCall]

Retired(c) == retired # "no"

Deciding(c) == call[c].pc = "decide" /\ ~Retired(c)

Current(c) ==
  /\ call[c].got # NoFp /\ call[c].got = synced
  /\ cur = NoSync /\ trail = NoSync /\ ~guarded

DecideRefused(c) ==
  /\ call[c].pc = "decide"
  /\ Retired(c) \/ (~Current(c) /\ paused)
  /\ call' = Answer(c)
  /\ UNCHANGED <<tree, index, lock, flights, fresh, scan, retired>>

DecideCurrent(c) ==
  /\ Deciding(c) /\ Current(c)
  /\ call' = Turn(c, "look")
  /\ UNCHANGED <<tree, index, lock, flights, fresh, scan, retired>>

(* Only a refresh that started from the same fingerprint. *)
JoinRunning(c) ==
  cur.phase = "running" /\ call[c].got # NoFp /\ call[c].got = cur.fp

(* _sync_for: the current refresh, or a trailing one, or a new one. *)
DecideRefresh(c) ==
  LET fp == call[c].got
  IN  /\ Deciding(c) /\ ~Current(c) /\ ~paused
      /\ \/ /\ cur = NoSync
            /\ cur' = NewSync(fp, "queued")
            /\ call' = WaitFor(c, "cur") /\ UNCHANGED trail
         \/ /\ JoinRunning(c)
            /\ call' = WaitFor(c, "cur") /\ UNCHANGED <<cur, trail>>
         \/ /\ cur.phase \notin {"none", "running"}
            /\ cur' = [cur EXCEPT !.fp = fp]
            /\ call' = WaitFor(c, "cur") /\ UNCHANGED trail
         \/ /\ cur.phase = "running" /\ ~JoinRunning(c)
            /\ trail' = NewSync(fp, "pausing")
            /\ call' = WaitFor(c, "trail") /\ UNCHANGED cur
      /\ UNCHANGED <<tree, index, lock, flights, synced, failures, paused,
                     guarded, scan, retired>>

(* _wait_for_writers: the lock is taken and given back at once. *)
Look(c) ==
  /\ call[c].pc = "look" /\ lock = "free"
  /\ call' = LetThrough(c)
  /\ UNCHANGED <<tree, index, lock, flights, fresh, scan, retired>>

Wake(c) ==
  /\ call[c].pc \in {"ok", "refused"}
  /\ call' = IF call[c].pc = "ok" THEN LetThrough(c) ELSE Answer(c)
  /\ UNCHANGED <<tree, index, lock, flights, fresh, scan, retired>>

(* The deadline, or a dropped connection: only the call ends. *)
GiveUp(c) ==
  /\ call[c].pc \in {"fp", "wait", "look"}
  /\ call' = Answer(c)
  /\ UNCHANGED <<tree, index, lock, flights, fresh, scan, retired>>

(* The shared server has answered from the index. *)
Reply(c) ==
  /\ call[c].pc = "forward"
  /\ call' = Answer(c)
  /\ UNCHANGED <<tree, index, lock, flights, fresh, scan, retired>>

-----------------------------------------------------------------------------
(* The refresh task: _run_sync, _sync_locked, _sync_ended *)

PhaseOf(phase) == cur' = [cur EXCEPT !.phase = phase]

(* The trailing pause is over; a slot is free. *)
SyncGoesOn ==
  /\ \/ cur.phase = "pausing" /\ PhaseOf("queued")
     \/ cur.phase = "queued" /\ PhaseOf("locked")
  /\ UNCHANGED <<tree, index, lock, call, flights, synced, trail, failures,
                 paused, guarded, scan, retired>>

SyncLocks ==
  /\ cur.phase = "locked" /\ lock = "free"
  /\ lock' = "sync"
  /\ PhaseOf("running")
  /\ UNCHANGED <<tree, index, call, flights, synced, trail, failures, paused,
                 guarded, scan, retired>>

(* The guard let it pass and the process has read the tree. *)
SyncReads ==
  /\ cur.phase = "running" /\ ~cur.read
  /\ index' = tree
  /\ cur' = [cur EXCEPT !.read = TRUE]
  /\ guarded' = FALSE
  /\ UNCHANGED <<tree, lock, call, flights, synced, trail, failures, paused,
                 scan, retired>>

(* How it may end: ok, failed (or killed), guard, retired. *)
MayEnd(result) ==
  CASE result = "ok" -> cur.phase = "running" /\ cur.read
    [] result = "failed" -> cur.phase \in {"locked", "running"}
    [] result = "guard" -> cur.phase = "running" /\ ~cur.read
    [] result = "retired" -> cur.phase # "none" /\ cur.cancelled

(* Mutant: what was refreshed is what the tree is now. *)
SyncedNow(fp) == tree

SyncedTo(fp) == fp

(* Mutant: the trailing refresh is forgotten. *)
NextSyncNone == NoSync

NextSync == trail

(* The lock is released, waiters wake, the trailing refresh starts, or is *)
(* dropped with its waiters when the project is removed or paused.        *)
SyncEnds(result) ==
  LET fails == IF result = "failed" THEN failures + 1 ELSE failures
      pauses == fails >= FailuresBeforePause
      drop == retired # "no" \/ paused \/ pauses
  IN  /\ MayEnd(result)
      /\ lock' = IF cur.phase = "running" THEN "free" ELSE lock
      /\ IF retired # "no" THEN UNCHANGED <<synced, guarded, failures, paused>>
         ELSE /\ synced' = IF result = "ok" THEN SyncedTo(cur.fp) ELSE synced
              /\ guarded' = (guarded \/ result = "guard")
              /\ failures' = IF pauses THEN 0 ELSE fails
              /\ paused' = (paused \/ pauses)
      /\ call' = [c \in Calls |->
           IF call[c].waits = "cur" \/ (call[c].waits = "trail" /\ drop)
           THEN [call[c] EXCEPT !.waits = "none",
                   !.pc = IF call[c].waits = "cur" /\ result = "ok"
                          THEN "ok" ELSE "refused"]
           ELSE IF call[c].waits = "trail" THEN [call[c] EXCEPT !.waits = "cur"]
           ELSE call[c]]
      /\ cur' = IF drop THEN NoSync ELSE NextSync
      /\ trail' = NoSync
      /\ UNCHANGED <<tree, index, flights, scan, retired>>

(* Failures grow old; the pause is over, or an operator ends it. *)
PauseEnds ==
  /\ paused \/ failures > 0
  /\ paused' = FALSE /\ failures' = 0
  /\ UNCHANGED <<tree, index, lock, call, flights, synced, cur, trail, guarded,
                 scan, retired>>

-----------------------------------------------------------------------------
(* The other writers *)

(* A scan job: _codegraph_fingerprint, then the child's CodeGraph step. *)
ScanFingerprint ==
  /\ scan.at = "idle" /\ retired = "no"
  /\ scan' = [at |-> "before", fp |-> tree, read |-> FALSE]
  /\ UNCHANGED <<tree, index, lock, call, flights, fresh, retired>>

ScanLocks ==
  /\ scan.at = "before" /\ lock = "free"
  /\ lock' = "scan"
  /\ scan' = [scan EXCEPT !.at = "step"]
  /\ UNCHANGED <<tree, index, call, flights, fresh, retired>>

(* codegraph index: from nothing. *)
ScanRebuilds ==
  /\ scan.at = "step" /\ ~scan.read
  /\ index' = Broken
  /\ UNCHANGED <<tree, lock, call, flights, fresh, scan, retired>>

ScanReads ==
  /\ scan.at = "step" /\ ~scan.read
  /\ index' = tree
  /\ scan' = [scan EXCEPT !.read = TRUE]
  /\ UNCHANGED <<tree, lock, call, flights, fresh, retired>>

(* Or it failed, or the child was killed; the job's other steps follow. *)
ScanUnlocks ==
  /\ scan.at = "step"
  /\ lock' = "free"
  /\ \/ scan.read /\ scan' = [scan EXCEPT !.at = "ok", !.read = FALSE]
     \/ scan' = [at |-> "failed", fp |-> NoFp, read |-> FALSE]
  /\ UNCHANGED <<tree, index, call, flights, fresh, retired>>

(* It never got the lock, or never came to the step. *)
ScanMisses ==
  /\ scan.at = "before"
  /\ scan' = [at |-> "failed", fp |-> NoFp, read |-> FALSE]
  /\ UNCHANGED <<tree, index, lock, call, flights, fresh, retired>>

Noted == scan.fp

(* The job's end: note_scan_index. *)
NoteScanIndex ==
  /\ scan.at \in {"ok", "failed"}
  /\ IF retired # "no" THEN UNCHANGED <<synced, guarded>>
     ELSE synced' = Noted /\ guarded' = (guarded /\ Noted = NoFp)
  /\ scan' = [at |-> "idle", fp |-> NoFp, read |-> FALSE]
  /\ UNCHANGED <<tree, index, lock, call, flights, cur, trail, failures, paused,
                 retired>>

(* _resync_and_lookup: an incremental sync, short and under the lock. *)
Resync ==
  /\ lock = "free" /\ retired = "no"
  /\ index' = tree
  /\ UNCHANGED <<tree, lock, call, flights, fresh, scan, retired>>

-----------------------------------------------------------------------------
(* retire: the project is removed and its state forgotten; its refreshes are *)
(* cancelled and awaited.                                                    *)

Retire ==
  /\ retired = "no"
  /\ retired' = "killing"
  /\ cur' = IF cur = NoSync THEN cur ELSE [cur EXCEPT !.cancelled = TRUE]
  /\ trail' = NoSync
  /\ call' = [c \in Calls |->
       IF call[c].waits = "trail"
       THEN [call[c] EXCEPT !.waits = "none", !.pc = "refused"] ELSE call[c]]
  /\ synced' = NoFp /\ failures' = 0 /\ paused' = FALSE /\ guarded' = FALSE
  /\ UNCHANGED <<tree, index, lock, flights, scan>>

RetireReturns ==
  /\ retired = "killing"
  /\ ~cur.cancelled
  /\ retired' = "gone"
  /\ UNCHANGED <<tree, index, lock, call, flights, fresh, scan>>

-----------------------------------------------------------------------------

Results == {"ok", "failed", "guard", "retired"}

Next ==
  \/ Save
  \/ \E c \in Calls :
       \/ Arrive(c) \/ DecideRefused(c) \/ DecideCurrent(c) \/ DecideRefresh(c)
       \/ Look(c) \/ Wake(c) \/ Reply(c) \/ GiveUp(c)
  \/ ReadFingerprint \/ FlightLands
  \/ SyncGoesOn \/ SyncLocks \/ SyncReads \/ PauseEnds
  \/ \E r \in Results : SyncEnds(r)
  \/ ScanFingerprint \/ ScanLocks \/ ScanRebuilds \/ ScanReads \/ ScanUnlocks
  \/ ScanMisses \/ NoteScanIndex \/ Resync
  \/ Retire \/ RetireReturns

Spec == Init /\ [][Next]_vars

-----------------------------------------------------------------------------

TypeOK ==
  LET Sync == [phase : {"none", "pausing", "queued", "locked", "running"},
               fp : Versions \cup {NoFp}, read : BOOLEAN, cancelled : BOOLEAN]
  IN  /\ tree \in Versions /\ index \in Versions \cup {Broken}
      /\ lock \in {"free", "scan", "sync"}
      /\ call \in [Calls -> [pc : {"idle", "fp", "decide", "look", "wait", "ok",
                                   "refused", "forward"},
                             arrived : Versions, got : Versions \cup {NoFp},
                             waits : {"none", "running", "next", "cur", "trail"}]]
      /\ flight \in Versions \cup {NoFp, Started, NoFlight} /\ nextFlight \in BOOLEAN
      /\ synced \in Versions \cup {NoFp}
      /\ cur \in Sync /\ trail \in Sync
      /\ failures \in 0..FailuresBeforePause
      /\ paused \in BOOLEAN /\ guarded \in BOOLEAN
      /\ scan \in [at : {"idle", "before", "step", "ok", "failed"},
                   fp : Versions \cup {NoFp}, read : BOOLEAN]
      /\ retired \in {"no", "killing", "gone"}

(***************************************************************************)
(* A save made just before the call is never missed: when a call is let    *)
(* through, the index has the tree as it was when the call arrived,        *)
(* whichever refreshes, flights and scans it shared.  (A scan may start to *)
(* rebuild the index just then, which is not an older one.)                *)
(***************************************************************************)
SavesAreSeen ==
  [][\A c \in Calls :
       call[c].pc # "forward" /\ call'[c].pc = "forward" =>
         index >= call[c].arrived \/ index = Broken]_vars

(***************************************************************************)
(* The recorded fingerprint never promises more than the index has, but    *)
(* for a scan's rebuild that goes on, or has failed in a job that has not  *)
(* ended (NoteScanIndex then takes the promise back); and the bridge is    *)
(* done with the folder when the project is removed.                       *)
(***************************************************************************)
SyncedIsIndexed ==
  /\ retired = "no" => index >= synced \/ scan.at \in {"step", "failed"}
  /\ retired = "gone" => cur = NoSync /\ trail = NoSync

(***************************************************************************)
(* Nobody waits for what will not come: a call waits for a flight or a     *)
(* refresh that is there; while one refresh works at most one waits behind *)
(* it; and the writer lock is held just while it works.                    *)
(***************************************************************************)
WaitsAreForSomething ==
  /\ TypeOK
  /\ \A c \in Calls :
       /\ call[c].pc \in {"fp", "wait"} <=> call[c].waits # "none"
       /\ call[c].waits = "running" => flight # NoFlight
       /\ call[c].waits = "next" => nextFlight
       /\ call[c].waits = "cur" => cur # NoSync
       /\ call[c].waits = "trail" => trail # NoSync
  /\ trail # NoSync => cur.phase = "running"
  /\ lock = "sync" <=> cur.phase = "running"
=============================================================================
