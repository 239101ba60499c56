-------------------------- MODULE CodeGraphProofs ---------------------------
(***************************************************************************)
(* The bridge to the codegraph index, the lock its writers take, and what  *)
(* a project scans of the repository it follows.                           *)
(*                                                                         *)
(* For any number of calls, saves and failures, the bridge records only    *)
(* fingerprints the index has, nobody waits for a flight or a refresh that *)
(* is not there, and a call is let through only to an index that has every *)
(* save made before it arrived.  The induction says what a call that waits *)
(* knows: a fingerprint it was given is not older than itself, and from    *)
(* the moment its refresh has read the tree the index has what it needs,   *)
(* because nobody rebuilds while the refresh holds the lock.               *)
(*                                                                         *)
(* The second part is about the lock itself (WriterLock), the third about  *)
(* a project that follows its repository on GitHub (GitHubSync).           *)
(***************************************************************************)
EXTENDS CodeGraph, WriterLock, GitHubSync, TLAPS

(* A call's way: what it waits for is there, a fingerprint it got is not   *)
(* older than itself, and from the moment its refresh has read the tree    *)
(* the index has what it needs.                                            *)
Seen(c) == index >= call[c].arrived \/ index = Broken

CallsOK ==
  \A c \in Calls :
    /\ call[c].arrived <= tree /\ call[c].got <= tree
    /\ call[c].waits \in {"running", "next"} <=> call[c].pc = "fp"
    /\ call[c].waits \in {"cur", "trail"} <=> call[c].pc = "wait"
    /\ call[c].waits = "running" =>
         flight \in {Started, NoFp} \/ flight >= call[c].arrived
    /\ call[c].pc = "decide" => call[c].got = NoFp \/ call[c].got >= call[c].arrived
    /\ call[c].waits = "cur" /\ cur.read => Seen(c)
    /\ call[c].pc \in {"look", "ok"} => Seen(c)

(* A refresh holds the lock while it works; what it has read is in the     *)
(* index.  A removed project has none but those being cancelled.           *)
SyncOK ==
  /\ cur.phase = "none" => cur = NoSync
  /\ trail.phase \in {"none", "pausing"} /\ ~trail.read /\ ~trail.cancelled
  /\ trail.phase = "none" => trail = NoSync
  /\ cur.read => cur.phase = "running" /\ index >= cur.fp
  /\ cur.fp <= tree /\ trail.fp <= tree
  /\ retired # "no" => trail = NoSync /\ synced = NoFp
  /\ retired = "killing" => cur = NoSync \/ cur.cancelled

(* So does a scan's step, and a scan that went well promises what it read. *)
ScanOK ==
  /\ scan.at = "step" <=> lock = "scan"
  /\ scan.read => scan.at = "step" /\ index >= synced
  /\ scan.read \/ scan.at = "ok" => index >= scan.fp
  /\ scan.at = "idle" => scan.fp = NoFp
  /\ scan.at = "failed" => scan.fp = NoFp
  /\ scan.fp <= tree /\ synced <= tree /\ index <= tree /\ flight <= tree

(* A recorded fingerprint is in the index, unless a scan is rebuilding it. *)
IndexOK ==
  /\ index >= synced \/ index = Broken
  /\ index = Broken => scan.at \in {"step", "failed"} \/ synced = NoFp

GraphInv ==
  /\ WaitsAreForSomething /\ SyncedIsIndexed
  /\ CallsOK /\ SyncOK /\ ScanOK /\ IndexOK

(* The types of a refresh and of a scan. *)
SyncType == [phase : {"none", "pausing", "queued", "locked", "running"},
             fp : Versions \cup {NoFp}, read : BOOLEAN, cancelled : BOOLEAN]
ScanType == [at : {"idle", "before", "step", "ok", "failed"},
             fp : Versions \cup {NoFp}, read : BOOLEAN]
CallType == [pc : {"idle", "fp", "decide", "look", "wait", "ok", "refused", "forward"},
             arrived : Versions, got : Versions \cup {NoFp},
             waits : {"none", "running", "next", "cur", "trail"}]

USE CodeGraphAssumption DEF Versions, NoFp, Broken, Started, NoFlight, NoSync, NoCall,
        fresh, flights

(***************************************************************************)
(* The steps that move one thing only: a save, a reading of the tree, the  *)
(* lock's hand-over, and a scan's way to and from its step.                *)
(***************************************************************************)
LEMMA QuietStepsKeep ==
  ASSUME GraphInv,
         \/ Save \/ ReadFingerprint \/ SyncGoesOn \/ SyncLocks \/ Resync \/ RetireReturns
         \/ ScanFingerprint \/ ScanLocks \/ ScanRebuilds \/ ScanMisses
  PROVE  GraphInv'
<1> USE DEF Save, ReadFingerprint, SyncGoesOn, SyncLocks, PhaseOf, Resync, RetireReturns,
            ScanFingerprint, ScanLocks, ScanRebuilds, ScanMisses,
            GraphInv, WaitsAreForSomething, TypeOK
<1>1. TypeOK'
  <2>1. nextFlight' \in BOOLEAN /\ guarded' \in BOOLEAN /\ paused' \in BOOLEAN
    OBVIOUS
  <2>2. cur' \in SyncType /\ trail' \in SyncType
    BY DEF SyncType
  <2>3. scan' \in ScanType
    <3>1. scan \in ScanType
      BY DEF ScanType
    <3>2. CASE ScanFingerprint
      BY <3>2 DEF ScanType
    <3>3. CASE ScanMisses
      BY <3>3 DEF ScanType
    <3>4. CASE ScanLocks
      BY <3>1, <3>4 DEF ScanType
    <3> QED BY <3>1, <3>2, <3>3, <3>4
  <2> QED BY <2>1, <2>2, <2>3 DEF SyncType, ScanType
<1>2. WaitsAreForSomething' /\ SyncedIsIndexed'
  BY <1>1 DEF CallsOK, Seen, SyncOK, ScanOK, IndexOK, SyncedIsIndexed
<1>3. CallsOK' /\ SyncOK'
  BY <1>1 DEF CallsOK, Seen, SyncOK, ScanOK, IndexOK, SyncedIsIndexed
<1>4. ScanOK' /\ IndexOK'
  BY <1>1 DEF CallsOK, Seen, SyncOK, ScanOK, IndexOK, SyncedIsIndexed
<1> QED BY <1>2, <1>3, <1>4

(***************************************************************************)
(* The steps of a call that waits for nothing, or is done with waiting.    *)
(***************************************************************************)
LEMMA AnswersKeep ==
  ASSUME GraphInv, NEW c \in Calls,
         DecideRefused(c) \/ Look(c) \/ Wake(c) \/ Reply(c) \/ GiveUp(c)
  PROVE  GraphInv'
<1> USE DEF DecideRefused, Retired, Look, Wake, Reply, GiveUp, LetThrough, Answer,
            GraphInv, WaitsAreForSomething, TypeOK
<1>1. TypeOK'
  OBVIOUS
<1>2. WaitsAreForSomething' /\ SyncedIsIndexed'
  BY <1>1 DEF CallsOK, Seen, SyncOK, ScanOK, IndexOK, SyncedIsIndexed
<1>3. CallsOK' /\ SyncOK'
  BY <1>1 DEF CallsOK, Seen, SyncOK, ScanOK, IndexOK, SyncedIsIndexed
<1>4. ScanOK' /\ IndexOK'
  BY <1>1 DEF CallsOK, Seen, SyncOK, ScanOK, IndexOK, SyncedIsIndexed
<1> QED BY <1>2, <1>3, <1>4

(* A flight ends: its waiters decide, the others get the next one. *)
LEMMA FlightLandsKeeps == GraphInv /\ FlightLands => GraphInv'
<1> SUFFICES ASSUME GraphInv, FlightLands PROVE GraphInv'
  OBVIOUS
<1>1. TypeOK
  BY DEF GraphInv, WaitsAreForSomething
<1>2. /\ flight >= NoFp
      /\ flight' = IF nextFlight THEN Started ELSE NoFlight
      /\ nextFlight' = FALSE
      /\ UNCHANGED <<tree, index, lock, synced, cur, trail, failures, paused, guarded,
                     scan, retired>>
      /\ DOMAIN call' = Calls
  BY DEF FlightLands
<1>3. ASSUME NEW c \in Calls
      PROVE  /\ call[c].pc # "fp" => call'[c] = call[c]
             /\ call[c].pc = "fp" /\ call[c].waits = "running" =>
                  call'[c] = [call[c] EXCEPT !.pc = "decide", !.waits = "none", !.got = flight]
             /\ call[c].pc = "fp" /\ call[c].waits # "running" =>
                  call'[c] = [call[c] EXCEPT !.waits = "running"]
  BY DEF FlightLands
<1>4. flight \in Versions \cup {NoFp}
  BY <1>1, <1>2 DEF TypeOK
<1>5. \A c \in Calls : call'[c] \in CallType
  <2> SUFFICES ASSUME NEW c \in Calls PROVE call'[c] \in CallType
    OBVIOUS
  <2>1. call[c] \in CallType
    BY <1>1 DEF TypeOK, CallType
  <2>2. CASE call[c].pc # "fp"
    BY <1>3, <2>1, <2>2
  <2>3. CASE call[c].pc = "fp" /\ call[c].waits = "running"
    BY <1>3, <1>4, <2>1, <2>3, ZenonT(60) DEF CallType
  <2>4. CASE call[c].pc = "fp" /\ call[c].waits # "running"
    BY <1>3, <2>1, <2>4 DEF CallType
  <2> QED BY <2>2, <2>3, <2>4
<1>6. call' \in [Calls -> CallType]
  BY <1>5 DEF FlightLands
<1>7. TypeOK'
  <2>1. nextFlight' \in BOOLEAN
    BY <1>2
  <2> QED BY <1>1, <1>2, <1>6, <2>1 DEF TypeOK, CallType
<1>8. ASSUME NEW c \in Calls
      PROVE  /\ call'[c].arrived = call[c].arrived
             /\ call[c].pc # "fp" => call'[c] = call[c]
             /\ call[c].waits = "running" => /\ call'[c].pc = "decide" /\ call'[c].got = flight
                                             /\ call'[c].waits = "none"
             /\ call[c].waits = "next" => /\ call'[c].pc = "fp" /\ call'[c].waits = "running"
                                          /\ call'[c].got = call[c].got
  BY <1>1, <1>3, ZenonT(60) DEF TypeOK, GraphInv, CallsOK
<1>9. WaitsAreForSomething'
  BY <1>2, <1>7, <1>8 DEF GraphInv, WaitsAreForSomething, CallsOK
<1>10. CallsOK'
  BY <1>1, <1>2, <1>4, <1>8 DEF TypeOK, GraphInv, WaitsAreForSomething, CallsOK, ScanOK,
                                Seen
<1>11. SyncOK' /\ ScanOK' /\ IndexOK' /\ SyncedIsIndexed'
  BY <1>1, <1>2 DEF TypeOK, GraphInv, SyncOK, ScanOK, IndexOK, SyncedIsIndexed
<1> QED BY <1>9, <1>10, <1>11 DEF GraphInv

(* A refresh reads the tree: now the index has what its waiters need. *)
LEMMA SyncReadsKeeps == GraphInv /\ SyncReads => GraphInv'
<1> SUFFICES ASSUME GraphInv, SyncReads PROVE GraphInv'
  OBVIOUS
<1> USE DEF SyncReads, GraphInv, WaitsAreForSomething, TypeOK
<1>1. TypeOK'
  <2>1. cur' \in SyncType
    BY DEF SyncType
  <2>2. guarded' \in BOOLEAN /\ paused' \in BOOLEAN
    OBVIOUS
  <2> QED BY <2>1, <2>2 DEF SyncType
<1>2. WaitsAreForSomething' /\ SyncedIsIndexed'
  BY <1>1 DEF CallsOK, Seen, SyncOK, ScanOK, IndexOK, SyncedIsIndexed
<1>3. CallsOK' /\ SyncOK'
  BY <1>1 DEF CallsOK, Seen, SyncOK, ScanOK, IndexOK, SyncedIsIndexed
<1>4. ScanOK' /\ IndexOK'
  BY <1>1 DEF CallsOK, Seen, SyncOK, ScanOK, IndexOK, SyncedIsIndexed
<1> QED BY <1>2, <1>3, <1>4

(* The pause after failed refreshes ends. *)
LEMMA PauseEndsKeeps == GraphInv /\ PauseEnds => GraphInv'
<1> SUFFICES ASSUME GraphInv, PauseEnds PROVE GraphInv'
  OBVIOUS
<1> USE DEF PauseEnds, GraphInv, WaitsAreForSomething, TypeOK
<1>1. TypeOK'
  <2>1. guarded' \in BOOLEAN /\ paused' \in BOOLEAN
    OBVIOUS
  <2> QED BY <2>1
<1>2. WaitsAreForSomething' /\ SyncedIsIndexed'
  BY <1>1 DEF CallsOK, Seen, SyncOK, ScanOK, IndexOK, SyncedIsIndexed
<1>3. CallsOK' /\ SyncOK'
  BY <1>1 DEF CallsOK, Seen, SyncOK, ScanOK, IndexOK, SyncedIsIndexed
<1>4. ScanOK' /\ IndexOK'
  BY <1>1 DEF CallsOK, Seen, SyncOK, ScanOK, IndexOK, SyncedIsIndexed
<1> QED BY <1>2, <1>3, <1>4

(* A scan reads the tree, under the lock. *)
LEMMA ScanReadsKeeps == GraphInv /\ ScanReads => GraphInv'
<1> SUFFICES ASSUME GraphInv, ScanReads PROVE GraphInv'
  OBVIOUS
<1> USE DEF ScanReads, GraphInv, WaitsAreForSomething, TypeOK
<1>1. TypeOK'
  <2>1. scan' \in ScanType
    BY DEF ScanType
  <2> QED BY <2>1 DEF ScanType
<1>2. WaitsAreForSomething' /\ SyncedIsIndexed'
  BY <1>1 DEF CallsOK, Seen, SyncOK, ScanOK, IndexOK, SyncedIsIndexed
<1>3. CallsOK' /\ SyncOK'
  BY <1>1 DEF CallsOK, Seen, SyncOK, ScanOK, IndexOK, SyncedIsIndexed
<1>4. ScanOK' /\ IndexOK'
  BY <1>1 DEF CallsOK, Seen, SyncOK, ScanOK, IndexOK, SyncedIsIndexed
<1> QED BY <1>2, <1>3, <1>4

(* A scan's step is over, well or not. *)
LEMMA ScanUnlocksKeeps == GraphInv /\ ScanUnlocks => GraphInv'
<1> SUFFICES ASSUME GraphInv, ScanUnlocks PROVE GraphInv'
  OBVIOUS
<1>1. /\ scan.at = "step" /\ lock = "scan" /\ lock' = "free"
      /\ UNCHANGED <<tree, index, call, flight, nextFlight, synced, cur, trail, failures,
                     paused, guarded, retired>>
  BY DEF ScanUnlocks, GraphInv, ScanOK
<1>2. /\ scan' \in ScanType /\ ~scan'.read
      /\ \/ scan'.at = "ok" /\ scan.read /\ scan'.fp = scan.fp
         \/ scan'.at = "failed" /\ scan'.fp = NoFp
  <2>1. scan \in ScanType
    BY DEF GraphInv, WaitsAreForSomething, TypeOK, ScanType
  <2>2. CASE scan.read /\ scan' = [scan EXCEPT !.at = "ok", !.read = FALSE]
    BY <2>1, <2>2 DEF ScanType
  <2>3. CASE scan' = [at |-> "failed", fp |-> NoFp, read |-> FALSE]
    BY <2>3 DEF ScanType
  <2> QED BY <2>2, <2>3 DEF ScanUnlocks
<1>3. WaitsAreForSomething'
  BY <1>1, <1>2 DEF GraphInv, WaitsAreForSomething, TypeOK, ScanType
<1>4. CallsOK' /\ SyncOK'
  BY <1>1 DEF GraphInv, CallsOK, Seen, SyncOK
<1>5. ScanOK' /\ IndexOK' /\ SyncedIsIndexed'
  BY <1>1, <1>2 DEF GraphInv, WaitsAreForSomething, TypeOK, ScanOK, IndexOK, SyncedIsIndexed
<1> QED BY <1>3, <1>4, <1>5 DEF GraphInv

(* The scan's job ends and the bridge takes over its fingerprint. *)
LEMMA NoteScanIndexKeeps == GraphInv /\ NoteScanIndex => GraphInv'
<1> SUFFICES ASSUME GraphInv, NoteScanIndex PROVE GraphInv'
  OBVIOUS
<1> USE DEF NoteScanIndex, Noted, GraphInv, WaitsAreForSomething, TypeOK
<1>1. TypeOK'
  <2>1. scan' \in ScanType
    BY DEF ScanType
  <2>2. guarded' \in BOOLEAN /\ paused' \in BOOLEAN
    OBVIOUS
  <2> QED BY <2>1, <2>2 DEF ScanType
<1>2. WaitsAreForSomething' /\ SyncedIsIndexed'
  BY <1>1 DEF CallsOK, Seen, SyncOK, ScanOK, IndexOK, SyncedIsIndexed
<1>3. CallsOK' /\ SyncOK'
  BY <1>1 DEF CallsOK, Seen, SyncOK, ScanOK, IndexOK, SyncedIsIndexed
<1>4. ScanOK' /\ IndexOK'
  BY <1>1 DEF CallsOK, Seen, SyncOK, ScanOK, IndexOK, SyncedIsIndexed
<1> QED BY <1>2, <1>3, <1>4

(* A removed project: its calls are refused, its refresh is cancelled. *)
LEMMA RetireKeeps == GraphInv /\ Retire => GraphInv'
<1> SUFFICES ASSUME GraphInv, Retire PROVE GraphInv'
  OBVIOUS
<1>1. TypeOK
  BY DEF GraphInv, WaitsAreForSomething
<1>2. /\ retired = "no" /\ retired' = "killing" /\ trail' = NoSync
      /\ synced' = NoFp /\ failures' = 0 /\ paused' = FALSE /\ guarded' = FALSE
      /\ UNCHANGED <<tree, index, lock, flight, nextFlight, scan>>
  BY DEF Retire
<1>3. /\ cur' \in SyncType /\ cur'.phase = cur.phase
      /\ cur'.read = cur.read /\ cur'.fp = cur.fp
      /\ cur = NoSync => cur' = NoSync
      /\ cur # NoSync => cur'.cancelled
  BY <1>1 DEF Retire, TypeOK, SyncType
<1>4. /\ DOMAIN call' = Calls
      /\ \A c \in Calls : call'[c] = IF call[c].waits = "trail"
                                     THEN [call[c] EXCEPT !.waits = "none", !.pc = "refused"]
                                     ELSE call[c]
  BY DEF Retire
<1>5. call' \in [Calls -> CallType]
  <2>1. ASSUME NEW c \in Calls PROVE call'[c] \in CallType
    <3>1. call[c] \in CallType
      BY <1>1 DEF TypeOK, CallType
    <3>2. CASE call[c].waits = "trail"
      BY <1>4, <3>1, <3>2 DEF CallType
    <3>3. CASE call[c].waits # "trail"
      BY <1>4, <3>1, <3>3
    <3> QED BY <3>2, <3>3
  <2> QED BY <2>1 DEF Retire
<1>6. ASSUME NEW c \in Calls
      PROVE  /\ call'[c].arrived = call[c].arrived /\ call'[c].got = call[c].got
             /\ call[c].waits = "trail" => call'[c].waits = "none" /\ call'[c].pc = "refused"
             /\ call[c].waits # "trail" => call'[c] = call[c]
  <2>1. call[c] \in CallType
    BY <1>1 DEF TypeOK, CallType
  <2>2. CASE call[c].waits = "trail"
    BY <1>4, <2>1, <2>2 DEF CallType
  <2>3. CASE call[c].waits # "trail"
    BY <1>4, <2>3
  <2> QED BY <2>2, <2>3
<1>7. TypeOK'
  <2>1. paused' \in BOOLEAN /\ guarded' \in BOOLEAN
    BY <1>2
  <2>2. NoSync \in SyncType
    BY DEF SyncType
  <2> QED BY <1>1, <1>2, <1>3, <1>5, <2>1, <2>2 DEF TypeOK, CallType, SyncType
<1>8. WaitsAreForSomething'
  <2>1. cur # NoSync => cur.phase # "none"
    BY DEF GraphInv, SyncOK
  <2> QED BY <1>2, <1>3, <1>6, <1>7, <2>1 DEF GraphInv, WaitsAreForSomething, CallsOK
<1>9. CallsOK'
  BY <1>1, <1>2, <1>3, <1>6 DEF TypeOK, GraphInv, CallsOK, Seen
<1>10. SyncOK'
  BY <1>1, <1>2, <1>3 DEF TypeOK, GraphInv, SyncOK
<1>11. ScanOK' /\ IndexOK' /\ SyncedIsIndexed'
  BY <1>1, <1>2 DEF TypeOK, GraphInv, ScanOK, IndexOK, SyncedIsIndexed
<1> QED BY <1>8, <1>9, <1>10, <1>11 DEF GraphInv

(* A call arrives and waits for a fingerprint that is not older. *)
LEMMA ArriveKeeps == ASSUME GraphInv, NEW c \in Calls, Arrive(c) PROVE GraphInv'
<1> USE DEF Arrive, GraphInv, WaitsAreForSomething, TypeOK
<1>1. TypeOK'
  <2>1. nextFlight' \in BOOLEAN
    OBVIOUS
  <2>2. flight' \in Versions \cup {NoFp, Started, NoFlight}
    OBVIOUS
  <2>3. call' \in [Calls -> CallType]
    BY ZenonT(60) DEF CallType
  <2>4. UNCHANGED <<tree, index, lock, synced, cur, trail, failures, paused, guarded,
                    scan, retired>>
    OBVIOUS
  <2> QED BY <2>1, <2>2, <2>3, <2>4 DEF CallType
<1>2. WaitsAreForSomething'
  <2>1. flight' # NoFlight /\ (nextFlight \/ flight # NoFlight => nextFlight')
    <3>1. flight' # NoFlight
      OBVIOUS
    <3>2. nextFlight' = (nextFlight \/ flight # NoFlight)
      BY Zenon
    <3> QED BY <3>1, <3>2
  <2>2. ASSUME NEW d \in Calls
        PROVE  /\ call'[d].pc \in {"fp", "wait"} <=> call'[d].waits # "none"
               /\ call'[d].waits = "next" => nextFlight'
               /\ call'[d].waits = "cur" => cur' # NoSync
               /\ call'[d].waits = "trail" => trail' # NoSync
    BY <2>1
  <2>3. trail' = trail /\ cur' = cur /\ lock' = lock
    OBVIOUS
  <2> QED BY <1>1, <2>1, <2>2, <2>3
<1>3. SyncedIsIndexed'
  BY <1>1 DEF CallsOK, Seen, SyncOK, ScanOK, IndexOK, SyncedIsIndexed
<1>4. CallsOK' /\ SyncOK'
  BY <1>1 DEF CallsOK, Seen, SyncOK, ScanOK, IndexOK, SyncedIsIndexed
<1>5. ScanOK' /\ IndexOK'
  BY <1>1 DEF CallsOK, Seen, SyncOK, ScanOK, IndexOK, SyncedIsIndexed
<1> QED BY <1>2, <1>4, <1>5, <1>3

(* The recorded fingerprint is the one the call was given. *)
LEMMA DecideCurrentKeeps ==
  ASSUME GraphInv, NEW c \in Calls, DecideCurrent(c)
  PROVE  GraphInv'
<1> USE DEF DecideCurrent, Deciding, Retired, Current, Turn, GraphInv,
            WaitsAreForSomething, TypeOK
<1>1. TypeOK'
  <2>1. call[c] \in CallType
    BY DEF CallType
  <2>2. [call[c] EXCEPT !.pc = "look", !.got = NoFp] \in CallType
    BY <2>1 DEF CallType
  <2> QED BY <2>2 DEF CallType
<1>2. WaitsAreForSomething' /\ SyncedIsIndexed'
  BY <1>1 DEF CallsOK, Seen, SyncOK, ScanOK, IndexOK, SyncedIsIndexed
<1>3. CallsOK' /\ SyncOK'
  BY <1>1 DEF CallsOK, Seen, SyncOK, ScanOK, IndexOK, SyncedIsIndexed
<1>4. ScanOK' /\ IndexOK'
  BY <1>1 DEF CallsOK, Seen, SyncOK, ScanOK, IndexOK, SyncedIsIndexed
<1> QED BY <1>2, <1>3, <1>4

(* A call joins a refresh that is to read the tree after it arrived. *)
LEMMA DecideRefreshKeeps ==
  ASSUME GraphInv, NEW c \in Calls, DecideRefresh(c) PROVE GraphInv'
<1> DEFINE fp == call[c].got
<1>1. TypeOK /\ call[c] \in CallType
  BY DEF GraphInv, WaitsAreForSomething, TypeOK, CallType
<1>2. /\ call[c].pc = "decide" /\ retired = "no"
      /\ UNCHANGED <<tree, index, lock, flight, nextFlight, synced, failures, paused,
                     guarded, scan, retired>>
  BY DEF DecideRefresh, Deciding, Retired
<1>3. fp \in Versions \cup {NoFp} /\ fp <= tree /\ (fp = NoFp \/ fp >= call[c].arrived)
  BY <1>1, <1>2 DEF GraphInv, CallsOK, CallType
<1>4. PICK which \in {"cur", "trail"} :
        call' = [call EXCEPT ![c] = [call[c] EXCEPT !.pc = "wait", !.got = NoFp,
                                                    !.waits = which]]
  BY DEF DecideRefresh, WaitFor
<1>5. \/ /\ which = "cur" /\ trail' = trail
         /\ cur' = [NoSync EXCEPT !.phase = "queued", !.fp = fp] /\ cur = NoSync
      \/ /\ which = "cur" /\ trail' = trail /\ cur' = cur
         /\ cur.phase = "running" /\ fp # NoFp /\ fp = cur.fp
      \/ /\ which = "cur" /\ trail' = trail /\ cur' = [cur EXCEPT !.fp = fp]
         /\ cur.phase \notin {"none", "running"}
      \/ /\ which = "trail" /\ cur' = cur
         /\ trail' = [NoSync EXCEPT !.phase = "pausing", !.fp = fp]
         /\ cur.phase = "running"
  <2>1. call'[c].waits = which
    BY <1>1, <1>4 DEF TypeOK, CallType
  <2>2. \A w : WaitFor(c, w)[c].waits = w
    BY <1>1 DEF WaitFor, TypeOK, CallType
  <2> QED BY <2>1, <2>2 DEF DecideRefresh, NewSync, JoinRunning
<1>6. /\ call'[c].pc = "wait" /\ call'[c].got = NoFp /\ call'[c].waits = which
      /\ call'[c].arrived = call[c].arrived
      /\ \A d \in Calls : d # c => call'[d] = call[d]
      /\ call' \in [Calls -> CallType]
  BY <1>1, <1>4 DEF TypeOK, CallType
<1>7. cur' \in SyncType /\ trail' \in SyncType
  BY <1>1, <1>3, <1>5, ZenonT(60) DEF TypeOK, SyncType
<1>8. TypeOK'
  BY <1>1, <1>2, <1>6, <1>7 DEF TypeOK, CallType, SyncType
<1>9. WaitsAreForSomething'
  <2>1. /\ cur' # NoSync /\ (cur'.phase = "running" <=> cur.phase = "running")
        /\ which = "trail" => trail' # NoSync
        /\ which = "cur" => trail' = trail
        /\ trail' # NoSync => cur'.phase = "running"
    <3>1. cur \in SyncType /\ (trail # NoSync => cur.phase = "running")
      BY <1>1 DEF TypeOK, SyncType, GraphInv, WaitsAreForSomething
    <3>2. CASE which = "trail"
      <4>1. cur' = cur /\ cur.phase = "running"
        BY <1>5, <3>2
      <4>2. trail' = [NoSync EXCEPT !.phase = "pausing", !.fp = fp]
        BY <1>5, <3>2
      <4>3. trail'.phase = "pausing" /\ NoSync.phase = "none"
        BY <4>2
      <4> QED BY <3>2, <4>1, <4>3
    <3>3. CASE which = "cur" /\ cur = NoSync
      <4>1. cur' = [NoSync EXCEPT !.phase = "queued", !.fp = fp] /\ trail' = trail
        BY <1>5, <3>3
      <4>2. cur'.phase = "queued" /\ NoSync.phase = "none"
        BY <4>1
      <4> QED BY <3>1, <3>3, <4>1, <4>2
    <3>4. CASE which = "cur" /\ cur # NoSync
      <4>1. /\ trail' = trail
            /\ cur' = cur \/ cur' = [cur EXCEPT !.fp = fp]
            /\ cur.phase # "none"
        BY <1>5, <3>4
      <4>2. cur'.phase = cur.phase /\ NoSync.phase = "none"
        BY <3>1, <4>1 DEF SyncType
      <4> QED BY <3>1, <3>4, <4>1, <4>2
    <3> QED
      <4>1. which \in {"cur", "trail"}
        OBVIOUS
      <4> QED BY <3>2, <3>3, <3>4, <4>1
  <2> QED BY <1>2, <1>6, <1>8, <2>1 DEF GraphInv, WaitsAreForSomething, CallsOK
<1>10. cur'.read => cur' = cur
  BY <1>1, <1>5 DEF GraphInv, SyncOK, TypeOK
<1>11. which = "cur" /\ cur'.read => Seen(c)
  BY <1>1, <1>3, <1>5, <1>10 DEF GraphInv, SyncOK, TypeOK, Seen
<1>12. CallsOK'
  <2> SUFFICES ASSUME NEW d \in Calls
               PROVE  /\ call'[d].arrived <= tree' /\ call'[d].got <= tree'
                      /\ call'[d].waits \in {"running", "next"} <=> call'[d].pc = "fp"
                      /\ call'[d].waits \in {"cur", "trail"} <=> call'[d].pc = "wait"
                      /\ call'[d].waits = "running" =>
                           flight' \in {Started, NoFp} \/ flight' >= call'[d].arrived
                      /\ call'[d].pc = "decide" =>
                           call'[d].got = NoFp \/ call'[d].got >= call'[d].arrived
                      /\ call'[d].waits = "cur" /\ cur'.read => Seen(d)'
                      /\ call'[d].pc \in {"look", "ok"} => Seen(d)'
    BY DEF CallsOK
  <2>1. CASE d = c
    BY <1>1, <1>2, <1>6, <1>11, <2>1 DEF GraphInv, CallsOK, Seen, TypeOK
  <2>2. CASE d # c
    BY <1>2, <1>6, <1>10, <2>2 DEF GraphInv, CallsOK, Seen
  <2> QED BY <2>1, <2>2
<1>13. SyncOK'
  BY <1>1, <1>2, <1>3, <1>5, ZenonT(60) DEF GraphInv, SyncOK, TypeOK, SyncType
<1>14. ScanOK' /\ IndexOK' /\ SyncedIsIndexed'
  BY <1>1, <1>2 DEF GraphInv, ScanOK, IndexOK, SyncedIsIndexed
<1> QED BY <1>9, <1>12, <1>13, <1>14 DEF GraphInv

(* A refresh ends: its waiters go on, and the trailing one takes its place. *)
LEMMA SyncEndsKeeps ==
  ASSUME GraphInv, NEW result \in Results, SyncEnds(result) PROVE GraphInv'
<1> DEFINE fails == IF result = "failed" THEN failures + 1 ELSE failures
           pauses == fails >= FailuresBeforePause
           drop == retired # "no" \/ paused \/ pauses
<1>1. TypeOK
  BY DEF GraphInv, WaitsAreForSomething
<1>2. /\ cur.phase # "none" /\ trail' = NoSync
      /\ result = "ok" => cur.phase = "running" /\ cur.read
      /\ UNCHANGED <<tree, index, flight, nextFlight, scan, retired>>
      /\ lock' = IF cur.phase = "running" THEN "free" ELSE lock
      /\ cur' = IF drop THEN NoSync ELSE trail
  BY <1>1 DEF SyncEnds, MayEnd, Results, NextSync, GraphInv, SyncOK
<1>3. /\ retired # "no" => UNCHANGED <<synced, guarded, failures, paused>>
      /\ retired = "no" =>
           /\ synced' = IF result = "ok" THEN cur.fp ELSE synced
           /\ failures' = IF pauses THEN 0 ELSE fails
           /\ guarded' \in BOOLEAN /\ paused' \in BOOLEAN
  BY DEF SyncEnds, SyncedTo
<1>4. /\ call' \in [Calls -> CallType]
      /\ \A c \in Calls :
           /\ call'[c].arrived = call[c].arrived /\ call'[c].got = call[c].got
           /\ call[c].waits = "cur" => call'[c].waits = "none"
                /\ call'[c].pc = IF result = "ok" THEN "ok" ELSE "refused"
           /\ call[c].waits = "trail" /\ drop =>
                call'[c].waits = "none" /\ call'[c].pc = "refused"
           /\ call[c].waits = "trail" /\ ~drop =>
                call'[c].waits = "cur" /\ call'[c].pc = call[c].pc
           /\ call[c].waits \notin {"cur", "trail"} => call'[c] = call[c]
  <2>1. /\ DOMAIN call' = Calls
        /\ call' = [c \in Calls |-> call'[c]]
        /\ \A c \in Calls : call'[c] =
             IF call[c].waits = "cur" \/ (call[c].waits = "trail" /\ drop)
             THEN [call[c] EXCEPT !.waits = "none",
                     !.pc = IF call[c].waits = "cur" /\ result = "ok"
                            THEN "ok" ELSE "refused"]
             ELSE IF call[c].waits = "trail" THEN [call[c] EXCEPT !.waits = "cur"]
             ELSE call[c]
    BY DEF SyncEnds
  <2> HIDE DEF drop
  <2>2. ASSUME NEW c \in Calls
        PROVE  /\ call'[c] \in CallType
               /\ call'[c].arrived = call[c].arrived /\ call'[c].got = call[c].got
               /\ call[c].waits = "cur" => call'[c].waits = "none"
                    /\ call'[c].pc = IF result = "ok" THEN "ok" ELSE "refused"
               /\ call[c].waits = "trail" /\ drop =>
                    call'[c].waits = "none" /\ call'[c].pc = "refused"
               /\ call[c].waits = "trail" /\ ~drop =>
                    call'[c].waits = "cur" /\ call'[c].pc = call[c].pc
               /\ call[c].waits \notin {"cur", "trail"} => call'[c] = call[c]
    <3>1. call[c] \in CallType
      BY <1>1 DEF TypeOK, CallType
    <3>2. CASE call[c].waits = "cur"
      BY <2>1, <3>1, <3>2 DEF CallType
    <3>3. CASE call[c].waits = "trail" /\ drop
      BY <2>1, <3>1, <3>3 DEF CallType
    <3>4. CASE call[c].waits = "trail" /\ ~drop
      BY <2>1, <3>1, <3>4 DEF CallType
    <3>5. CASE call[c].waits \notin {"cur", "trail"}
      BY <2>1, <3>1, <3>5
    <3> QED BY <3>2, <3>3, <3>4, <3>5
  <2> QED BY <2>1, <2>2
<1>5. cur' = NoSync \/ cur' = trail
  BY <1>2
<1>6. TypeOK'
  <2>1. failures' \in 0..FailuresBeforePause
    BY <1>1, <1>3 DEF TypeOK
  <2>2. NoSync \in SyncType
    BY DEF SyncType
  <2>3. guarded' \in BOOLEAN /\ paused' \in BOOLEAN /\ synced' \in Versions \cup {NoFp}
    BY <1>1, <1>3 DEF TypeOK
  <2> QED BY <1>1, <1>2, <1>4, <1>5, <2>1, <2>2, <2>3 DEF TypeOK, CallType, SyncType
<1>16. retired # "no" => cur' = NoSync
  BY <1>2
<1> HIDE DEF drop, fails, pauses
<1>7. /\ lock = "sync" <=> cur.phase = "running"
      /\ lock' # "sync" /\ cur'.phase # "running" /\ ~cur'.read
      /\ lock' = "scan" <=> lock = "scan"
  BY <1>2, <1>5 DEF GraphInv, WaitsAreForSomething, SyncOK
<1>8. WaitsAreForSomething'
  <2>1. ASSUME NEW c \in Calls, call[c].waits = "trail", ~drop PROVE cur' # NoSync
    BY <1>2, <2>1 DEF GraphInv, WaitsAreForSomething
  <2> QED BY <1>2, <1>4, <1>6, <1>7, <2>1 DEF GraphInv, WaitsAreForSomething, CallsOK
<1>9. result = "ok" => index >= cur.fp
  BY <1>2 DEF GraphInv, SyncOK
<1>10. CallsOK'
  <2> SUFFICES ASSUME NEW d \in Calls
               PROVE  /\ call'[d].arrived <= tree' /\ call'[d].got <= tree'
                      /\ call'[d].waits \in {"running", "next"} <=> call'[d].pc = "fp"
                      /\ call'[d].waits \in {"cur", "trail"} <=> call'[d].pc = "wait"
                      /\ call'[d].waits = "running" =>
                           flight' \in {Started, NoFp} \/ flight' >= call'[d].arrived
                      /\ call'[d].pc = "decide" =>
                           call'[d].got = NoFp \/ call'[d].got >= call'[d].arrived
                      /\ call'[d].waits = "cur" /\ cur'.read => Seen(d)'
                      /\ call'[d].pc \in {"look", "ok"} => Seen(d)'
    BY DEF CallsOK
  <2> QED BY <1>2, <1>4, <1>7 DEF GraphInv, CallsOK, Seen
<1>11. synced' = synced \/ (retired = "no" /\ result = "ok" /\ synced' = cur.fp)
  BY <1>3
<1>12. SyncOK'
  BY <1>1, <1>2, <1>5, <1>7, <1>11, <1>16 DEF GraphInv, SyncOK, TypeOK, SyncType
<1>13. result = "ok" => scan.at # "step" /\ ~scan.read
  BY <1>2 DEF GraphInv, WaitsAreForSomething, ScanOK
<1>14. ScanOK' /\ IndexOK' /\ SyncedIsIndexed'
  <2>1. SyncedIsIndexed'
    BY <1>1, <1>2, <1>9, <1>11, <1>5 DEF GraphInv, SyncedIsIndexed, SyncOK, TypeOK
  <2>2. IndexOK'
    BY <1>1, <1>2, <1>9, <1>11 DEF GraphInv, IndexOK, TypeOK, SyncType
  <2>3. ScanOK'
    BY <1>1, <1>2, <1>7, <1>11, <1>13 DEF GraphInv, SyncOK, ScanOK, TypeOK
  <2> QED BY <2>1, <2>2, <2>3
<1> QED BY <1>8, <1>10, <1>12, <1>14 DEF GraphInv

(* Every reachable state of the bridge satisfies the invariant. *)
LEMMA GraphInvariance == Spec => []GraphInv
<1>1. Init => GraphInv
  <2> SUFFICES ASSUME Init PROVE GraphInv
    OBVIOUS
  <2>1. TypeOK
    <3>1. guarded \in BOOLEAN /\ paused \in BOOLEAN /\ nextFlight \in BOOLEAN
      BY DEF Init
    <3>2. NoSync \in SyncType /\ NoCall \in CallType
      BY DEF SyncType, CallType
    <3>3. call \in [Calls -> CallType]
      BY <3>2 DEF Init
    <3>4. scan \in ScanType
      BY DEF Init, ScanType
    <3> QED BY <3>1, <3>2, <3>3, <3>4 DEF Init, TypeOK, SyncType, ScanType, CallType
  <2>2. WaitsAreForSomething
    BY <2>1 DEF Init, WaitsAreForSomething
  <2>3. SyncedIsIndexed /\ CallsOK
    BY DEF Init, SyncedIsIndexed, CallsOK, Seen
  <2>4. SyncOK /\ ScanOK /\ IndexOK
    BY DEF Init, SyncOK, ScanOK, IndexOK
  <2> QED BY <2>2, <2>3, <2>4 DEF GraphInv
<1>2. GraphInv /\ [Next]_vars => GraphInv'
  <2> SUFFICES ASSUME GraphInv, [Next]_vars PROVE GraphInv'
    OBVIOUS
  <2>1. CASE UNCHANGED vars
    BY <2>1 DEF GraphInv, WaitsAreForSomething, TypeOK, SyncedIsIndexed, CallsOK, Seen,
                SyncOK, ScanOK, IndexOK, vars
  <2>2. ASSUME NEW c \in Calls,
               \/ Arrive(c) \/ DecideRefused(c) \/ DecideCurrent(c) \/ DecideRefresh(c)
               \/ Look(c) \/ Wake(c) \/ Reply(c) \/ GiveUp(c)
        PROVE  GraphInv'
    BY <2>2, ArriveKeeps, AnswersKeep, DecideCurrentKeeps, DecideRefreshKeeps
  <2>3. CASE Save \/ ReadFingerprint \/ FlightLands \/ SyncGoesOn \/ SyncLocks
             \/ SyncReads \/ PauseEnds
    BY <2>3, QuietStepsKeep, FlightLandsKeeps, SyncReadsKeeps, PauseEndsKeeps
  <2>4. CASE ScanFingerprint \/ ScanLocks \/ ScanRebuilds \/ ScanReads \/ ScanUnlocks
             \/ ScanMisses \/ NoteScanIndex \/ Resync \/ Retire \/ RetireReturns
    BY <2>4, QuietStepsKeep, ScanReadsKeeps, ScanUnlocksKeeps, NoteScanIndexKeeps, RetireKeeps
  <2> QED BY <2>1, <2>2, <2>3, <2>4, SyncEndsKeeps DEF Next
<1> QED BY <1>1, <1>2, PTL DEF Spec

(***************************************************************************)
(* SyncedIsIndexed (CodeGraph): the fingerprint the bridge has recorded is *)
(* never ahead of the index, whichever refreshes, scans and re-syncs write *)
(* it.                                                                     *)
(***************************************************************************)
THEOREM RecordsWhatIsIndexed == Spec => []SyncedIsIndexed
<1>1. GraphInv => SyncedIsIndexed
  BY DEF GraphInv
<1> QED BY GraphInvariance, <1>1, PTL

(***************************************************************************)
(* WaitsAreForSomething (CodeGraph): what a call waits for is there, and   *)
(* one refresh at most waits behind the one that holds the writer lock.    *)
(***************************************************************************)
THEOREM NobodyWaitsForNothing == Spec => []WaitsAreForSomething
<1>1. GraphInv => WaitsAreForSomething
  BY DEF GraphInv
<1> QED BY GraphInvariance, <1>1, PTL

(***************************************************************************)
(* SavesAreSeen (CodeGraph): a call is let through only to an index that   *)
(* has every save made before it arrived.                                  *)
(***************************************************************************)
THEOREM NoSaveIsMissed == Spec => SavesAreSeen
<1> DEFINE Sees == \A c \in Calls :
                     call[c].pc # "forward" /\ call'[c].pc = "forward" =>
                       index >= call[c].arrived \/ index = Broken
<1>1. GraphInv /\ [Next]_vars => Sees
  <2> SUFFICES ASSUME GraphInv, [Next]_vars, NEW c \in Calls,
                      call[c].pc # "forward", call'[c].pc = "forward"
               PROVE  call[c].pc \in {"look", "ok"}
    BY DEF GraphInv, CallsOK, Seen
  <2>0. \A d \in Calls : call[d] \in CallType
    BY DEF GraphInv, WaitsAreForSomething, TypeOK, CallType
  <2>1. CASE call'[c] = call[c]
    BY <2>1
  <2>2. ASSUME NEW d \in Calls,
               \/ Arrive(d) \/ DecideRefused(d) \/ DecideCurrent(d) \/ DecideRefresh(d)
               \/ Look(d) \/ Wake(d) \/ Reply(d) \/ GiveUp(d)
        PROVE  call[c].pc \in {"look", "ok"}
    <3>0. call \in [Calls -> CallType]
      BY DEF GraphInv, WaitsAreForSomething, TypeOK, CallType
    <3>1. CASE d = c
      <4>1. call[c] \in CallType
        BY <3>0
      <4>2. CASE Arrive(d) \/ DecideRefused(d) \/ Reply(d) \/ GiveUp(d)
        <5>1. CASE Arrive(d)
          BY <3>0, <3>1, <5>1 DEF Arrive
        <5>2. CASE call' = Answer(d)
          BY <3>0, <3>1, <5>2 DEF Answer
        <5> QED BY <4>2, <5>1, <5>2 DEF DecideRefused, Reply, GiveUp
      <4>3. CASE DecideCurrent(d)
        BY <3>0, <3>1, <4>1, <4>3 DEF CallType, DecideCurrent, Turn
      <4>4. CASE DecideRefresh(d)
        <5>1. PICK w \in {"cur", "trail"} : call' = WaitFor(d, w)
          BY <4>4 DEF DecideRefresh
        <5> QED BY <3>0, <3>1, <4>1, <5>1 DEF CallType, WaitFor
      <4>5. CASE Look(d) \/ Wake(d)
        BY <3>0, <3>1, <4>1, <4>5 DEF CallType, Look, Wake, Answer
      <4> QED BY <2>2, <4>2, <4>3, <4>4, <4>5
    <3>2. CASE d # c
      BY <2>2, <3>0, <3>2
         DEF CallType, Arrive, DecideRefused, DecideCurrent, DecideRefresh, Look, Wake,
             Reply,
             GiveUp, Answer, Turn, WaitFor, LetThrough
    <3> QED BY <3>1, <3>2
  <2>3. CASE FlightLands \/ Retire \/ \E r \in Results : SyncEnds(r)
    <3>1. CASE FlightLands
      <4>1. call'[c] \in {call[c],
                          [call[c] EXCEPT !.pc = "decide", !.waits = "none", !.got = flight],
                          [call[c] EXCEPT !.waits = "running"]}
        BY <3>1 DEF FlightLands
      <4> QED BY <2>0, <4>1 DEF CallType
    <3>2. CASE Retire
      <4>1. call'[c] \in {call[c], [call[c] EXCEPT !.waits = "none", !.pc = "refused"]}
        BY <3>2 DEF Retire
      <4> QED BY <2>0, <4>1 DEF CallType
    <3>3. ASSUME NEW r \in Results, SyncEnds(r) PROVE call[c].pc \in {"look", "ok"}
      <4>1. call'[c] \in {call[c], [call[c] EXCEPT !.waits = "none", !.pc = "ok"],
                          [call[c] EXCEPT !.waits = "none", !.pc = "refused"],
                          [call[c] EXCEPT !.waits = "cur"]}
        BY <3>3 DEF SyncEnds
      <4> QED BY <2>0, <4>1 DEF CallType
    <3> QED BY <2>3, <3>1, <3>2, <3>3
  <2>4. CASE UNCHANGED call
    BY <2>1, <2>4
  <2> QED
    BY <2>2, <2>3, <2>4
       DEF Next, vars, Save, ReadFingerprint, SyncGoesOn, SyncLocks, SyncReads, PauseEnds,
           ScanFingerprint, ScanLocks, ScanRebuilds, ScanReads, ScanUnlocks, ScanMisses,
           NoteScanIndex, Resync, RetireReturns
<1> QED BY GraphInvariance, <1>1, PTL DEF Spec, SavesAreSeen

-----------------------------------------------------------------------------

(***************************************************************************)
(* The writer lock lets one caller in at a time and never leaves the       *)
(* kernel's lock to a file nobody keeps, for any callers, processes and    *)
(* files: no matter how many time out, fail or die.                        *)
(*                                                                         *)
(* The invariant says whose file each open file is.  A caller has a file   *)
(* of its own; the helper of that file works only while the caller waits   *)
(* in join, and an abandoned helper's file is nobody else's.  So the file  *)
(* with the kernel's lock has one keeper.                                  *)
(***************************************************************************)
HasFile == {"flock", "join", "in", "poll", "pollfile", "leave"}

FilesAreOwn ==
  /\ \A c \in Callers : pc[c] \in HasFile <=> fd[c] # None
  /\ \A c, d \in Callers : fd[c] # None /\ fd[c] = fd[d] => c = d

(* A caller's file is not abandoned, and has a helper only in join. *)
HelpersAreKnown ==
  \A c \in Callers :
     fd[c] # None => /\ abandoned[fd[c]] = None
                     /\ helper[fd[c]] # "none" <=> pc[c] = "join"

AbandonedInTime ==
  \A f \in Fds : abandoned[f] # None => helper[f] \in {"blocked", "locked"}

InsideHasLock == \A c \in Callers : pc[c] = "in" => flock = fd[c]

HelperHasLock == \A f \in Fds : helper[f] \in {"locked", "acquired"} => flock = f

Kept == flock # None =>
          \/ helper[flock] \in {"locked", "acquired"}
          \/ \E c \in Callers : fd[c] = flock /\ pc[c] = "in"

LockInv ==
  /\ LockTypeOK /\ FilesAreOwn /\ HelpersAreKnown /\ AbandonedInTime
  /\ InsideHasLock /\ HelperHasLock /\ Kept

USE LockAssumption

(***************************************************************************)
(* The invariant holds before anybody came.                                *)
(***************************************************************************)
LEMMA LockStarts == LockInit => LockInv
  BY DEF LockInit, LockInv, LockTypeOK, FilesAreOwn, HasFile,
         HelpersAreKnown,
      AbandonedInTime, InsideHasLock, HelperHasLock, Kept, Callers, Processes

USE DEF LockInv, LockTypeOK, FilesAreOwn, HasFile, HelpersAreKnown, AbandonedInTime,
        InsideHasLock, HelperHasLock, Kept

(***************************************************************************)
(* A step of writer_lock on a thread keeps the invariant.                  *)
(***************************************************************************)
LEMMA ThreadKeeps ==
  ASSUME LockInv, NEW t \in Threads, Enter(t) \/ ThreadStep(t)
  PROVE  LockInv'
<1>. /\ t \in Callers /\ HomeOf[t] \in Processes
     /\ None \notin Callers /\ None \notin Fds
  BY DEF Callers
<1>1. CASE Enter(t)
  BY <1>1 DEF Enter
<1>2. CASE TakeThreadLock(t)
  BY <1>2 DEF TakeThreadLock
<1>3. CASE GiveUpThreadLock(t)
  BY <1>3 DEF GiveUpThreadLock
<1>4. CASE OpenFile(t)
  BY <1>4 DEF OpenFile, Open
<1>5. CASE OpenFails(t)
  BY <1>5 DEF OpenFails
<1>6. CASE TryOnce(t)
  BY <1>6 DEF TryOnce
<1>7. CASE StartHelper(t)
  BY <1>7 DEF StartHelper
<1>8. CASE JoinAcquired(t)
  BY <1>8 DEF JoinAcquired
<1>9. CASE Abandon(t)
  BY <1>9 DEF Abandon, Processes
<1>10. CASE JoinFailed(t)
  BY <1>10 DEF JoinFailed
<1>11. CASE Unlock(t)
  BY <1>11 DEF Unlock, Closed
<1>12. CASE Release(t)
  BY <1>12 DEF Release
<1>. QED
  BY <1>1, <1>2, <1>3, <1>4, <1>5, <1>6, <1>7, <1>8, <1>9, <1>10, <1>11, <1>12
  DEF ThreadStep

(***************************************************************************)
(* A step of async_writer_lock keeps the invariant.                        *)
(***************************************************************************)
LEMMA TaskKeeps ==
  ASSUME LockInv, NEW a \in Tasks, OpenFirst(a) \/ TaskStep(a)
  PROVE  LockInv'
<1>. /\ a \in Callers /\ HomeOf[a] \in Processes
     /\ None \notin Callers /\ None \notin Fds
  BY DEF Callers
<1>1. CASE OpenFirst(a)
  BY <1>1 DEF OpenFirst, Open
<1>2. CASE PollThreadLock(a)
  BY <1>2 DEF PollThreadLock
<1>3. CASE PollFile(a)
  BY <1>3 DEF PollFile
<1>4. CASE StopPolling(a)
  BY <1>4 DEF StopPolling
<1>5. CASE UnlockFile(a)
  BY <1>5 DEF UnlockFile, Closed
<1>6. CASE ReleaseAndClose(a)
  BY <1>6 DEF ReleaseAndClose
<1>. QED
  BY <1>1, <1>2, <1>3, <1>4, <1>5, <1>6 DEF TaskStep

(***************************************************************************)
(* A step of a helper thread keeps the invariant, abandoned or not.        *)
(***************************************************************************)
LEMMA HelperKeeps ==
  ASSUME LockInv, NEW f \in Fds, HelperStep(f)
  PROVE  LockInv'
<1>. None \notin Callers /\ None \notin Fds
  OBVIOUS
<1>1. CASE HelperLocks(f)
  BY <1>1 DEF HelperLocks
<1>2. CASE HelperFails(f)
  BY <1>2 DEF HelperFails
<1>3. CASE HelperHandsOver(f)
  BY <1>3 DEF HelperHandsOver
<1>4. CASE HelperUnlocks(f)
  BY <1>4 DEF HelperUnlocks, Closed
<1>. QED
  BY <1>1, <1>2, <1>3, <1>4 DEF HelperStep

(***************************************************************************)
(* A killed process takes its files with it, and nobody else's.            *)
(***************************************************************************)
LEMMA DeathKeeps ==
  ASSUME LockInv, NEW p \in Children, Dies(p)
  PROVE  LockInv'
<1>. None \notin Callers /\ None \notin Fds
  OBVIOUS
<1>. DEFINE dead == {c \in Callers : HomeOf[c] = p}
            files == {f \in Fds : abandoned[f] = p \/ \E c \in dead : fd[c] = f}
<1>1. /\ pc' = [c \in Callers |-> IF c \in dead THEN "out" ELSE pc[c]]
      /\ tlock' = [tlock EXCEPT ![p] = None]
      /\ fd' = [c \in Callers |-> IF c \in dead THEN None ELSE fd[c]]
      /\ helper' = [f \in Fds |-> IF f \in files THEN "none" ELSE helper[f]]
      /\ abandoned' = [f \in Fds |-> IF f \in files THEN None ELSE abandoned[f]]
      /\ flock' = IF flock \in files THEN None ELSE flock
  BY DEF Dies
<1>2. LockTypeOK'
  BY <1>1, ZenonT(60) DEF Callers
<1>3. FilesAreOwn'
  BY <1>1
(* A living caller's file is neither a dead caller's nor one abandoned in p. *)
<1>4. \A c \in Callers : c \notin dead /\ fd[c] # None => fd[c] \notin files
  BY DEF Processes
<1>5. HelpersAreKnown'
  BY <1>1, <1>4
<1>6. AbandonedInTime'
  BY <1>1
<1>7. InsideHasLock' /\ HelperHasLock'
  BY <1>1, <1>4
<1>8. Kept'
  BY <1>1
<1>. QED
  BY <1>2, <1>3, <1>5, <1>6, <1>7, <1>8

(***************************************************************************)
(* The invariant is inductive.                                             *)
(***************************************************************************)
LEMMA LockMoves == LockInv /\ [LockNext]_lockVars => LockInv'
<1>. SUFFICES ASSUME LockInv, [LockNext]_lockVars PROVE LockInv'
  OBVIOUS
<1>1. CASE UNCHANGED lockVars
  BY <1>1 DEF lockVars
<1>2. CASE LockNext
  BY <1>2, ThreadKeeps, TaskKeeps, HelperKeeps, DeathKeeps DEF LockNext
<1>. QED
  BY <1>1, <1>2

(***************************************************************************)
(* Every behaviour of the lock satisfies the invariant.                    *)
(***************************************************************************)
THEOREM LockInvariance == LockSpec => []LockInv
  BY LockStarts, LockMoves, PTL DEF LockSpec

(***************************************************************************)
(* The kernel's lock always has a keeper: somebody inside, or a helper     *)
(* that hands it over or gives it back (_Attempt.run).                     *)
(***************************************************************************)
THEOREM LockIsKept == LockSpec => []KeptBySomebody
<1>1. LockInv => KeptBySomebody
  BY DEF KeptBySomebody
<1>. QED
  BY <1>1, LockInvariance, PTL

(***************************************************************************)
(* Two callers are never inside at once, in one process or in several.     *)
(***************************************************************************)
THEOREM OneWriterAtATime == LockSpec => []OneWriter
<1>1. LockInv => OneWriter
  BY DEF OneWriter, Inside
<1>. QED
  BY <1>1, LockInvariance, PTL

(***************************************************************************)
(* What a step does to who is inside: one comes in when nobody was, the    *)
(* one who was inside leaves, or nothing changes.                          *)
(***************************************************************************)
LEMMA StepsMap ==
  ASSUME LockInv, LockInv', [LockNext]_lockVars
  PROVE  [Lock!Next]_(Inside)
<1>. USE DEF Lock!Next, Lock!Enter, Lock!Leave, Inside
<1>. None \notin Callers /\ None \notin Fds
  OBVIOUS
(* With the invariant on both sides, who is inside is one caller at most. *)
<1>1. \A c, d \in Inside : c = d
  OBVIOUS
<1>2. \A c, d \in Inside' : c = d
  OBVIOUS
<1>3. ASSUME NEW c \in Callers,
             \A d \in Callers : d # c => (d \in Inside' <=> d \in Inside),
             c \in Inside' => Inside = {} \/ c \in Inside
      PROVE  [Lock!Next]_(Inside)
  BY <1>1, <1>2, <1>3
<1>4. CASE UNCHANGED lockVars
  BY <1>4 DEF lockVars
<1>5. ASSUME NEW t \in Threads, Enter(t) \/ ThreadStep(t)
      PROVE  [Lock!Next]_(Inside)
  <2>1. t \in Callers
    BY DEF Callers
  <2>2. \A d \in Callers : d # t => (d \in Inside' <=> d \in Inside)
    BY <1>5, <2>1
    DEF ThreadStep, Enter, TakeThreadLock, GiveUpThreadLock,
        OpenFile,
        OpenFails, TryOnce, StartHelper, JoinAcquired,
        Abandon, JoinFailed,
        Unlock, Release
  (* Whoever comes in has the kernel's lock, so nobody had it by a file of his. *)
  <2>3. t \in Inside' => Inside = {} \/ t \in Inside
    BY <1>2, <2>1, <2>2
  <2>. QED
    BY <1>3, <2>1, <2>2, <2>3
<1>6. ASSUME NEW a \in Tasks, OpenFirst(a) \/ TaskStep(a)
      PROVE  [Lock!Next]_(Inside)
  <2>1. a \in Callers
    BY DEF Callers
  <2>2. \A d \in Callers : d # a => (d \in Inside' <=> d \in Inside)
    BY <1>6, <2>1
    DEF TaskStep, OpenFirst, PollThreadLock, PollFile,
        StopPolling, UnlockFile,
        ReleaseAndClose
  <2>3. a \in Inside' => Inside = {} \/ a \in Inside
    BY <1>2, <2>1, <2>2
  <2>. QED
    BY <1>3, <2>1, <2>2, <2>3
<1>7. ASSUME NEW f \in Fds, HelperStep(f)
      PROVE  [Lock!Next]_(Inside)
  BY <1>7
  DEF HelperStep, HelperLocks, HelperFails, HelperHandsOver,
      HelperUnlocks
<1>8. ASSUME NEW p \in Children, Dies(p)
      PROVE  [Lock!Next]_(Inside)
  <2>1. pc' = [c \in Callers |-> IF HomeOf[c] = p THEN "out" ELSE pc[c]]
    BY <1>8 DEF Dies
  <2>2. Inside' \subseteq Inside
    BY <2>1
  <2>. QED
    BY <1>1, <2>2
<1>. QED
  BY <1>4, <1>5, <1>6, <1>7, <1>8 DEF LockNext

(***************************************************************************)
(* The lock implements a mutex: it begins empty, and each of its steps is  *)
(* one of the mutex's or leaves it as it is.  (That whoever is inside does *)
(* leave, the rest of IsMutex, is checked by TLC.)                         *)
(***************************************************************************)
THEOREM ImplementsMutex ==
  LockSpec => Lock!Init /\ [][Lock!Next]_(Inside)
<1>1. LockInit => Lock!Init
  BY DEF LockInit, Lock!Init, Inside
<1>. QED
  BY <1>1, StepsMap, LockInvariance, PTL DEF LockSpec

HIDE LockAssumption

-----------------------------------------------------------------------------

(***************************************************************************)
(* How a project follows GitHub, of any commits, events, faults and any    *)
(* number of remembered deliveries.  NothingScannedTwice compares a job    *)
(* that is about to scan with the last full scan, but a job decides by     *)
(* what it read of its project's row when it began.  SyncInv says why this *)
(* is the same: the row names the commit the last full scan read, and only *)
(* a job's own end changes either.                                         *)
(***************************************************************************)
Reasons == {"no", "no_access", "git_denied", "repo_deleted", "tracked_state"}
Kinds == {"push", "forge", "gone", "created", "unsuspend", "deleted"}
Ids == 0..MaxEvents - 1
Deliveries == [id : Ids, kind : Kinds, inst : Installations]
Repositories == [head : Commits, exists : BOOLEAN, inst : Installations,
                 works : BOOLEAN]
Projects == [inst : Installations, lost : Reasons, scanned : Commits]
Queued == [trigger : {"none", "push", "forge"}, scan : BOOLEAN]
SyncJobs ==
  [at : {"idle", "mint", "minted", "fetch", "fetched", "denied", "scan"},
   trigger : {"none", "push", "forge"}, scan : BOOLEAN, inst : Installations,
   last : Commits, head : Commits,
   answer : {"none", "granted", "refused"} \cup Reasons]
Passes == [at : {"sleep", "check", "mint", "minted", "list", "ask"},
           lost : BOOLEAN, inst : Installations, last : Commits,
           answer : {"none", "granted", "refused", "down"}]

(* There is an installation more than GitHub has had events, at most. *)
GitHubOK == github \in Repositories /\ github.inst <= events + 1

DeliveriesOK == /\ sent \subseteq Deliveries
                /\ seen \in Seq(Ids) /\ Len(seen) <= DeliveryIdsMax
                /\ work \subseteq [delivery : Deliveries, picked : BOOLEAN]

RunsOK == pending \in Queued /\ job \in SyncJobs /\ pass \in Passes

CountsOK == events \in 0..MaxEvents /\ faults \in 0..MaxFaults

(* A denied or minted answer is one that the mark can take. *)
AnswersOK == /\ job.at = "denied" => job.answer \in Reasons
             /\ job.at = "minted" => job.answer \in {"granted", "refused"}
             /\ pass.at = "minted" => pass.answer \in {"granted", "refused", "down"}

ScannedOK == /\ project \in Projects /\ project.scanned = stored
             /\ job.at # "idle" => job.last = stored

SyncInv == /\ GitHubOK /\ DeliveriesOK /\ RunsOK /\ CountsOK
           /\ AnswersOK /\ ScannedOK

USE GitHubAssumption

(***************************************************************************)
(* The access mark changes a project's mark and nothing else, whichever    *)
(* answer it is made from.                                                 *)
(***************************************************************************)
LEMMA MarkTyped ==
  ASSUME project \in Projects, NEW reason \in Reasons,
         Mark(reason) \/ ClearKeepingTracked
  PROVE  project' \in Projects /\ project'.scanned = project.scanned
                               /\ project'.inst = project.inst
  BY DEF Mark, ClearKeepingTracked, Projects, Reasons

(* So does the answer to a mint. *)
LEMMA MintTyped ==
  ASSUME project \in Projects, NEW answer \in {"granted", "refused", "down"},
         NoteMint(answer)
  PROVE  project' \in Projects /\ project'.scanned = project.scanned
<1>1. CASE answer = "granted"
  <2>1. ClearKeepingTracked
    BY <1>1 DEF NoteMint
  <2>. QED  BY <2>1, MarkTyped DEF Reasons
<1>2. CASE answer = "refused"
  <2>1. Mark("no_access")
    BY <1>2 DEF NoteMint
  <2>. QED  BY <2>1, MarkTyped DEF Reasons
<1>3. CASE answer = "down"
  BY <1>3 DEF NoteMint
<1>. QED  BY <1>1, <1>2, <1>3

(***************************************************************************)
(* A request for a sync keeps the queued run one.                          *)
(***************************************************************************)
LEMMA RequestTyped ==
  ASSUME pending \in Queued, NEW t \in {"push", "forge"}, RequestSync(t)
  PROVE  pending' \in Queued
  BY DEF RequestSync, Merge, Queued

(***************************************************************************)
(* The invariant holds after the first scan.                               *)
(***************************************************************************)
LEMMA SyncStarts == SyncInit => SyncInv
  BY DEF SyncInit, NoRun, NoJob, Asleep,
         Installations, SyncInv, GitHubOK, DeliveriesOK, RunsOK, CountsOK,
         AnswersOK, ScannedOK, Repositories, Deliveries, Ids, Queued, SyncJobs,
         Passes, Projects, Reasons

(***************************************************************************)
(* What happens on GitHub keeps the invariant.                             *)
(***************************************************************************)
LEMMA HappensKeeps ==
  ASSUME SyncInv, github' \in Repositories,
         github'.inst <= events + 2,
         NEW kind \in Kinds \cup {"restored"}, Happens(kind)
  PROVE  SyncInv'
<1>1. /\ events < MaxEvents /\ events' = events + 1
      /\ UNCHANGED <<seen, work, project, stored, pending, job, pass, faults>>
  BY DEF Happens
<1>2. sent' \subseteq Deliveries
  <2>1. github'.inst \in Installations
    BY DEF Repositories
  <2>2. events \in Ids
    BY <1>1 DEF SyncInv, CountsOK, Ids
  <2>3. CASE kind = "restored"
    BY <2>3 DEF Happens, SyncInv, DeliveriesOK
  <2>4. CASE kind \in Kinds
    BY <2>1, <2>2, <2>4 DEF Happens, SyncInv, DeliveriesOK, Deliveries
  <2>. QED  BY <2>3, <2>4
<1>3. GitHubOK' /\ CountsOK'
  BY <1>1 DEF SyncInv, GitHubOK, CountsOK
<1>. QED
  BY <1>1, <1>2, <1>3
  DEF SyncInv, DeliveriesOK, RunsOK, AnswersOK, ScannedOK

(* Each of the seven is such an event. *)
LEMMA EventsKeep ==
  ASSUME SyncInv,
         \/ Push \/ ForgeChange \/ Uninstall \/ Unsuspend
         \/ Reinstall \/ Delete \/ Undelete
  PROVE  SyncInv'
<1>. /\ github \in Repositories /\ github.inst <= events + 1
     /\ events \in 0..MaxEvents /\ MaxEvents \in Nat
     /\ github.inst \in 1..MaxEvents + 1
  BY DEF SyncInv, GitHubOK, CountsOK, Repositories,
         Installations
<1>1. CASE Push
  <2>1. github' \in Repositories /\ github'.inst = github.inst
    BY <1>1 DEF Push, Repositories
  <2>. QED  BY <1>1, <2>1, HappensKeeps DEF Push, Kinds
<1>2. CASE ForgeChange
  BY <1>2, HappensKeeps DEF ForgeChange, Kinds
<1>3. CASE Uninstall
  <2>1. github' \in Repositories /\ github'.inst = github.inst
    BY <1>3 DEF Uninstall, Repositories
  <2>. QED  BY <1>3, <2>1, HappensKeeps DEF Uninstall, Kinds
<1>4. CASE Unsuspend
  <2>1. github' \in Repositories /\ github'.inst = github.inst
    BY <1>4 DEF Unsuspend, Repositories
  <2>. QED  BY <1>4, <2>1, HappensKeeps DEF Unsuspend, Kinds
<1>5. CASE Reinstall
  <2>1. events < MaxEvents
    BY <1>5 DEF Reinstall, Happens
  <2>2. github.inst + 1 \in 1..MaxEvents + 1 /\ github.inst + 1 <= events + 2
    BY <2>1
  <2>3. github' = [github EXCEPT !.works = TRUE, !.inst = github.inst + 1]
    BY <1>5 DEF Reinstall
  <2>4. github' \in Repositories /\ github'.inst = github.inst + 1
    BY <2>2, <2>3 DEF Repositories, Installations
  <2>. QED  BY <1>5, <2>2, <2>4, HappensKeeps DEF Reinstall, Kinds
<1>6. CASE Delete
  <2>1. github' \in Repositories /\ github'.inst = github.inst
    BY <1>6 DEF Delete, Repositories
  <2>. QED  BY <1>6, <2>1, HappensKeeps DEF Delete, Kinds
<1>7. CASE Undelete
  <2>1. github' \in Repositories /\ github'.inst = github.inst
    BY <1>7 DEF Undelete, Repositories
  <2>. QED  BY <1>7, <2>1, HappensKeeps DEF Undelete, Kinds
<1>. QED  BY <1>1, <1>2, <1>3, <1>4, <1>5, <1>6, <1>7

(***************************************************************************)
(* The webhook remembers no more than it may, and its tasks change marks   *)
(* and installations of the project, not what was scanned.                 *)
(***************************************************************************)
LEMMA RememberTyped ==
  ASSUME seen \in Seq(Ids), Len(seen) <= DeliveryIdsMax,
         NEW id \in Ids, Remember(id)
  PROVE  seen' \in Seq(Ids) /\ Len(seen') <= DeliveryIdsMax
<1>. DEFINE all == Append(seen, id)
<1>1. all \in Seq(Ids) /\ Len(all) = Len(seen) + 1 /\ all # <<>>
  OBVIOUS
<1>2. Tail(all) \in Seq(Ids) /\ Len(Tail(all)) = Len(all) - 1
  BY <1>1
<1>3. seen' = IF Len(all) > DeliveryIdsMax THEN Tail(all) ELSE all
  BY DEF Remember
<1>. HIDE DEF all
<1>4. Len(seen) \in Nat
  OBVIOUS
<1>. QED  BY <1>1, <1>2, <1>3, <1>4

(* A delivery, new or seen before, keeps the invariant. *)
LEMMA ReceiveKeeps ==
  ASSUME SyncInv, NEW d \in sent, Receive(d)
  PROVE  SyncInv'
<1>1. /\ sent' \subseteq sent
      /\ UNCHANGED <<github, project, stored, pending, job, pass, events>>
  BY DEF Receive
<1>2. d \in Deliveries /\ d.id \in Ids
  BY DEF SyncInv, DeliveriesOK, Deliveries
<1>3. CountsOK'
  BY <1>1 DEF Receive, Fault, SyncInv, CountsOK
<1>4. seen' \in Seq(Ids) /\ Len(seen') <= DeliveryIdsMax
  <2>1. CASE d.id \in Range(seen)
    BY <2>1 DEF Receive, SyncInv, DeliveriesOK
  <2>2. CASE d.id \notin Range(seen)
    <3>1. Remember(d.id)
      BY <2>2 DEF Receive
    <3>. QED  BY <1>2, <3>1, RememberTyped DEF SyncInv, DeliveriesOK
  <2>. QED  BY <2>1, <2>2
<1>5. work' \subseteq [delivery : Deliveries, picked : BOOLEAN]
  <2>1. [delivery |-> d, picked |-> FALSE] \in [delivery : Deliveries, picked : BOOLEAN]
    BY <1>2
  <2>2. work' = work \/ work' = work \cup {[delivery |-> d, picked |-> FALSE]}
    BY DEF Receive
  <2>. QED  BY <2>1, <2>2 DEF SyncInv, DeliveriesOK
<1>. QED
  BY <1>1, <1>3, <1>4, <1>5
  DEF SyncInv, GitHubOK, DeliveriesOK, RunsOK, AnswersOK, ScannedOK

(* A background task is taken on or ended. *)
LEMMA WorkTyped ==
  ASSUME DeliveriesOK, NEW w \in work, Done(w) \/ Pick(w)
  PROVE  /\ work' \subseteq [delivery : Deliveries, picked : BOOLEAN]
         /\ w.delivery \in Deliveries
  BY DEF DeliveriesOK, Done, Pick

(* The four handlers of deliveries keep the invariant. *)
LEMMA HandlersKeep ==
  ASSUME SyncInv, NEW w \in work,
         \/ HandleWork(w) \/ HandleGone(w)
         \/ HandleBack(w) \/ HandleDeleted(w)
  PROVE  SyncInv'
<1>1. UNCHANGED Rest
  BY DEF HandleWork, HandleGone, HandleBack, HandleDeleted
<1>2. Done(w) \/ Pick(w)
  BY DEF HandleWork, HandleGone, HandleBack, HandleDeleted
<1>3. /\ work' \subseteq [delivery : Deliveries, picked : BOOLEAN]
      /\ w.delivery \in Deliveries
  BY <1>2, WorkTyped DEF SyncInv
<1>4. CountsOK'
  BY <1>1 DEF HandleWork, HandleGone, HandleBack, HandleDeleted,
              Fault, Rest, SyncInv, CountsOK
<1>5. project \in Projects /\ pending \in Queued /\ project.scanned = stored
  BY DEF SyncInv, ScannedOK, RunsOK
<1>6. /\ pending' \in Queued
      /\ project' \in Projects /\ project'.scanned = project.scanned
  <2>1. CASE HandleWork(w)
    BY <1>5, <2>1, RequestTyped DEF HandleWork
  <2>2. CASE HandleGone(w)
    <3>1. pending' = pending /\ (project' = project \/ Mark("no_access"))
      BY <2>2 DEF HandleGone
    <3>. QED  BY <1>5, <3>1, MarkTyped DEF Reasons
  <2>3. CASE HandleBack(w)
    <3>1. /\ pending' = pending
          /\ \/ project' = project \/ ClearKeepingTracked
             \/ Adopt(w.delivery.inst)
      BY <2>3 DEF HandleBack
    <3>2. CASE Adopt(w.delivery.inst)
      BY <1>3, <1>5, <3>1, <3>2 DEF Adopt, Projects, Deliveries
    <3>. QED  BY <1>5, <3>1, <3>2, MarkTyped DEF Reasons
  <2>4. CASE HandleDeleted(w)
    <3>1. pending' = pending /\ Mark("repo_deleted")
      BY <2>4 DEF HandleDeleted
    <3>. QED  BY <1>5, <3>1, MarkTyped DEF Reasons
  <2>. QED  BY <2>1, <2>2, <2>3, <2>4
<1>. QED
  BY <1>1, <1>3, <1>4, <1>5, <1>6
  DEF Rest, SyncInv, GitHubOK, DeliveriesOK, RunsOK, AnswersOK, ScannedOK

(***************************************************************************)
(* A sync run's step keeps the invariant: only StartJob reads the row, and *)
(* only JobScanned changes what it says, with the last full scan.          *)
(***************************************************************************)
LEMMA JobKeeps ==
  ASSUME SyncInv, Sync
  PROVE  SyncInv'
<1>. /\ project \in Projects /\ pending \in Queued /\ project.scanned = stored
     /\ job \in SyncJobs /\ pass \in Passes /\ github.head \in Commits
     /\ job.at # "idle" => job.last = stored
  BY DEF SyncInv, ScannedOK, RunsOK, GitHubOK, Repositories
<1>1. UNCHANGED <<JobRest, faults>>
  BY DEF Sync, StartJob, JobMints, JobMinted, JobFetches,
         JobDenied, JobChecksOut, JobScanned
<1>2. GitHubOK' /\ DeliveriesOK' /\ CountsOK'
  BY <1>1 DEF JobRest, SyncInv, GitHubOK, DeliveriesOK, CountsOK
<1>3. pass' = pass /\ (pass.at = "minted" => pass.answer \in {"granted", "refused", "down"})
  BY <1>1 DEF JobRest, SyncInv, AnswersOK
<1>4. NoJob \in SyncJobs /\ NoJob.at = "idle"
  BY DEF NoJob, SyncJobs, Installations
<1>5. /\ pending' \in Queued
      /\ project' \in Projects /\ project'.scanned = stored'
      /\ job' \in SyncJobs
      /\ job'.at # "idle" => job'.last = stored'
      /\ job'.at = "denied" => job'.answer \in Reasons
      /\ job'.at = "minted" => job'.answer \in {"granted", "refused"}
  <2>1. CASE StartJob
    <3>1. UNCHANGED <<project, stored>> /\ pending' = NoRun
      BY <2>1 DEF StartJob
    <3>2. \/ job' = NoJob
          \/ job' = [NoJob EXCEPT !.at = "mint", !.trigger = pending.trigger,
                               !.scan = pending.scan, !.inst = project.inst,
                               !.last = project.scanned]
      BY <2>1 DEF StartJob
    <3>3. CASE job' = NoJob
      BY <1>4, <3>1, <3>3 DEF NoRun, Queued
    <3>4. CASE job' # NoJob
      <4>1. job' = [at |-> "mint", trigger |-> pending.trigger, scan |-> pending.scan,
                    inst |-> project.inst, last |-> project.scanned,
                    answer |-> "none", head |-> First]
        BY <3>2, <3>4 DEF NoJob
      <4>2. job' \in SyncJobs
        BY <4>1 DEF SyncJobs, Queued, Projects
      <4>. QED  BY <3>1, <4>1, <4>2 DEF NoRun, Queued
    <3>. QED  BY <3>3, <3>4
  <2>2. CASE JobMints
    <3>1. /\ UNCHANGED <<project, stored, pending>> /\ job.at = "mint"
          /\ job' = [job EXCEPT !.at = "minted", !.answer = Mint(job.inst)]
      BY <2>2 DEF JobMints, Step
    <3>2. Mint(job.inst) \in {"granted", "refused"}
      BY DEF Mint
    <3>3. job' \in SyncJobs /\ job'.at = "minted" /\ job'.last = job.last
                            /\ job'.answer \in {"granted", "refused"}
      BY <3>1, <3>2 DEF SyncJobs
    <3>. QED  BY <3>1, <3>3
  <2>3. CASE JobMinted
    <3>1. /\ UNCHANGED <<stored, pending>> /\ job.at = "minted"
          /\ NoteMint(job.answer)
          /\ job' = NoJob \/ job' = [job EXCEPT !.at = "fetch", !.answer = "none"]
      BY <2>3 DEF JobMinted, Step
    <3>2. job.answer \in {"granted", "refused"}
      BY <3>1 DEF SyncInv, AnswersOK
    <3>3. project' \in Projects /\ project'.scanned = project.scanned
      BY <3>1, <3>2, MintTyped
    <3>4. CASE job' = NoJob
      BY <1>4, <3>1, <3>3, <3>4
    <3>5. CASE job' = [job EXCEPT !.at = "fetch", !.answer = "none"]
      <4>1. job' \in SyncJobs /\ job'.at = "fetch" /\ job'.last = job.last
        BY <3>5 DEF SyncJobs
      <4>. QED  BY <3>1, <3>3, <4>1
    <3>. QED  BY <3>1, <3>4, <3>5
  <2>4. CASE JobFetches
    <3>1. /\ UNCHANGED <<project, stored, pending>> /\ job.at = "fetch"
          /\ \/ job' = [job EXCEPT !.at = "fetched", !.head = github.head]
             \/ \E reason \in {"no_access", "git_denied"} :
                  job' = [job EXCEPT !.at = "denied", !.answer = reason]
      BY <2>4 DEF JobFetches, Step
    <3>2. CASE job' = [job EXCEPT !.at = "fetched", !.head = github.head]
      <4>1. job' \in SyncJobs /\ job'.at = "fetched" /\ job'.last = job.last
        BY <3>2 DEF SyncJobs
      <4>. QED  BY <3>1, <4>1
    <3>3. ASSUME NEW reason \in {"no_access", "git_denied"},
                 job' = [job EXCEPT !.at = "denied", !.answer = reason]
          PROVE  /\ job' \in SyncJobs /\ job'.at = "denied" /\ job'.last = job.last
                 /\ job'.answer \in Reasons
      <4>1. reason \in Reasons
        BY DEF Reasons
      <4>. QED  BY <3>3, <4>1 DEF SyncJobs
    <3>. QED  BY <3>1, <3>2, <3>3
  <2>5. CASE JobDenied
    <3>1. /\ UNCHANGED <<stored, pending>> /\ job.at = "denied"
          /\ Mark(job.answer) /\ job' = NoJob
      BY <2>5 DEF JobDenied
    <3>2. job.answer \in Reasons
      BY <3>1 DEF SyncInv, AnswersOK
    <3>. QED  BY <1>4, <3>1, <3>2, MarkTyped
  <2>6. CASE JobChecksOut
    <3>1. /\ UNCHANGED <<stored, pending>> /\ job.at = "fetched"
          /\ \/ Mark("tracked_state")
             \/ project' = [project EXCEPT !.lost = "no"]
          /\ \/ job' = NoJob
             \/ job' = [job EXCEPT !.at = "scan", !.answer = "none"]
      BY <2>6 DEF JobChecksOut, Step
    <3>2. project' \in Projects /\ project'.scanned = project.scanned
      <4>1. CASE Mark("tracked_state")
        BY <4>1, MarkTyped DEF Reasons
      <4>2. CASE project' = [project EXCEPT !.lost = "no"]
        BY <4>2 DEF Projects, Reasons
      <4>. QED  BY <3>1, <4>1, <4>2
    <3>3. CASE job' = NoJob
      BY <1>4, <3>1, <3>2, <3>3
    <3>4. CASE job' = [job EXCEPT !.at = "scan", !.answer = "none"]
      <4>1. job' \in SyncJobs /\ job'.at = "scan" /\ job'.last = job.last
        BY <3>4 DEF SyncJobs
      <4>. QED  BY <3>1, <3>2, <4>1
    <3>. QED  BY <3>1, <3>3, <3>4
  <2>7. CASE JobScanned
    <3>1. /\ pending' = pending /\ job' = NoJob
          /\ \/ project' = project /\ stored' = stored
             \/ project' = [project EXCEPT !.scanned = job.head] /\ stored' = job.head
      BY <2>7 DEF JobScanned, RecordsHead
    <3>2. project' \in Projects /\ project'.scanned = stored'
      BY <3>1 DEF Projects, SyncJobs
    <3>. QED  BY <1>4, <3>1, <3>2
  <2>. QED
    BY <2>1, <2>2, <2>3, <2>4, <2>5, <2>6, <2>7 DEF Sync
<1>. QED
  BY <1>2, <1>3, <1>5 DEF SyncInv, RunsOK, AnswersOK, ScannedOK

(***************************************************************************)
(* A failed run and a restart forget what they were at.                    *)
(***************************************************************************)
LEMMA FaultsKeep ==
  ASSUME SyncInv, JobFails \/ Restart
  PROVE  SyncInv'
<1>1. NoJob \in SyncJobs /\ NoJob.at = "idle"
  BY DEF NoJob, SyncJobs, Installations
<1>2. Asleep \in Passes /\ Asleep.at = "sleep"
  BY DEF Asleep, Passes, Installations
<1>3. CountsOK'
  BY DEF JobFails, Restart, JobRest, Fault, SyncInv, CountsOK
<1>4. /\ UNCHANGED <<github, sent, project, stored, pending, events>>
      /\ job' = NoJob
      /\ pass' = pass \/ pass' = Asleep
      /\ seen' = seen \/ seen' = <<>>
      /\ work' = work \/ work' = {}
  BY DEF JobFails, Restart, JobRest
<1>5. DeliveriesOK'
  <2>1. <<>> \in Seq(Ids) /\ Len(<<>>) = 0
    OBVIOUS
  <2>2. DeliveryIdsMax >= 0
    OBVIOUS
  <2>. QED  BY <1>4, <2>1, <2>2 DEF SyncInv, DeliveriesOK
<1>. QED
  BY <1>1, <1>2, <1>3, <1>4, <1>5
  DEF SyncInv, GitHubOK, RunsOK, AnswersOK, ScannedOK

(***************************************************************************)
(* The reconcile pass keeps the invariant: it marks and asks, and scans    *)
(* nothing itself.                                                         *)
(***************************************************************************)
LEMMA PassKeeps ==
  ASSUME SyncInv, Reconcile
  PROVE  SyncInv'
<1>. /\ project \in Projects /\ pending \in Queued /\ project.scanned = stored
     /\ job \in SyncJobs /\ pass \in Passes
  BY DEF SyncInv, ScannedOK, RunsOK
<1>1. UNCHANGED PassRest
  BY DEF Reconcile, PassReads, PassChecks, PassMints,
         PassMinted, PassLists, PassAsks
<1>2. CountsOK'
  BY <1>1 DEF Reconcile, PassReads, PassChecks, PassMints,
         PassMinted, PassLists, PassAsks, PassRest, Fault,
         SyncInv, CountsOK
<1>3. Asleep \in Passes /\ Asleep.at = "sleep"
  BY DEF Asleep, Passes, Installations
<1>4. /\ pending' \in Queued
      /\ project' \in Projects /\ project'.scanned = project.scanned
      /\ pass' \in Passes
      /\ pass'.at = "minted" => pass'.answer \in {"granted", "refused", "down"}
  <2>1. CASE PassReads
    <3>1. /\ UNCHANGED <<project, pending>>
          /\ pass' = [Asleep EXCEPT !.at = "check", !.lost = Lost(project.lost),
                            !.inst = project.inst, !.last = project.scanned]
      BY <2>1 DEF PassReads
    <3>2. pass' = [at |-> "check", lost |-> Lost(project.lost),
                   inst |-> project.inst, last |-> project.scanned, answer |-> "none"]
      BY <3>1 DEF Asleep
    <3>3. Lost(project.lost) \in BOOLEAN
      BY DEF Lost
    <3>. QED  BY <3>1, <3>2, <3>3 DEF Passes, Projects
  <2>2. CASE PassChecks
    <3>1. /\ UNCHANGED <<project, pending>>
          /\ \/ pass' = Asleep
             \/ pass' = [pass EXCEPT !.at = "mint", !.inst = project.inst]
             \/ pass' = [pass EXCEPT !.at = "mint", !.inst = pass.inst]
      BY <2>2 DEF PassChecks
    <3>. QED  BY <1>3, <3>1 DEF Passes, Projects
  <2>3. CASE PassMints
    <3>1. /\ UNCHANGED <<project, pending>>
          /\ \E a \in {"granted", "refused", "down"} :
               pass' = [pass EXCEPT !.at = "minted", !.answer = a]
      BY <2>3 DEF PassMints, GoTo, Mint
    <3>. QED  BY <3>1 DEF Passes
  <2>4. CASE PassMinted
    <3>1. /\ pending' = pending /\ pass.at = "minted" /\ NoteMint(pass.answer)
          /\ \/ pass' = Asleep
             \/ pass' = [pass EXCEPT !.at = "list", !.answer = "none"]
      BY <2>4 DEF PassMinted, GoTo
    <3>2. pass.answer \in {"granted", "refused", "down"}
      BY <3>1 DEF SyncInv, AnswersOK
    <3>3. project' \in Projects /\ project'.scanned = project.scanned
      BY <3>1, <3>2, MintTyped
    <3>. QED  BY <1>3, <3>1, <3>3 DEF Passes
  <2>5. CASE PassLists
    <3>1. /\ UNCHANGED <<project, pending>>
          /\ \/ pass' = Asleep
             \/ pass' = [pass EXCEPT !.at = "ask", !.answer = "none"]
      BY <2>5 DEF PassLists, GoTo
    <3>. QED  BY <1>3, <3>1 DEF Passes
  <2>6. CASE PassAsks
    BY <1>3, <2>6, RequestTyped DEF PassAsks
  <2>. QED
    BY <2>1, <2>2, <2>3, <2>4, <2>5, <2>6 DEF Reconcile
<1>. QED
  BY <1>1, <1>2, <1>4
  DEF PassRest, SyncInv, GitHubOK, DeliveriesOK, RunsOK, AnswersOK, ScannedOK

(***************************************************************************)
(* Every step of GitHub, the webhook, a run or the pass keeps SyncInv.     *)
(***************************************************************************)
LEMMA SyncMoves == SyncInv /\ [SyncNext]_syncVars => SyncInv'
<1>. SUFFICES ASSUME SyncInv, [SyncNext]_syncVars PROVE SyncInv'
  OBVIOUS
<1>1. CASE UNCHANGED syncVars
  BY <1>1 DEF syncVars, SyncInv, GitHubOK, DeliveriesOK, RunsOK, CountsOK, AnswersOK,
              ScannedOK
<1>. QED
  BY <1>1, EventsKeep, ReceiveKeeps, HandlersKeep, JobKeeps, FaultsKeep, PassKeeps
  DEF SyncNext

(***************************************************************************)
(* SyncInv implies the types that TLC checks.                              *)
(***************************************************************************)
LEMMA SyncTyped == SyncInv => SyncTypeOK
<1>. SUFFICES ASSUME SyncInv PROVE SyncTypeOK
  OBVIOUS
<1>1. Range(seen) \subseteq Ids
  BY DEF SyncInv, DeliveriesOK, Range
<1>2. stored \in Commits
  BY DEF SyncInv, ScannedOK, Projects
<1>. QED
  BY <1>1, <1>2
  DEF SyncInv, GitHubOK, DeliveriesOK, RunsOK, CountsOK, ScannedOK, SyncTypeOK,
      Repositories, Deliveries, Ids, Kinds, Reasons, Projects, Queued, SyncJobs, Passes

(***************************************************************************)
(* What a job read of its project when it began is still what the last     *)
(* full scan read (SyncInv), through lost, late and repeated deliveries.   *)
(***************************************************************************)
THEOREM SyncInvariance == SyncSpec => []SyncInv
  BY SyncStarts, SyncMoves, PTL DEF SyncSpec

(***************************************************************************)
(* Nothing is scanned twice: a sync run scans a commit that was not        *)
(* scanned last, or was asked to scan.                                     *)
(***************************************************************************)
THEOREM NoScanForNothing == SyncSpec => NothingScannedTwice
<1>. DEFINE Scans == job.at # "scan" /\ job'.at = "scan" => job'.scan \/ job'.head # stored
<1>1. SyncInv /\ [SyncNext]_syncVars => [Scans]_(syncVars)
  <2>. SUFFICES ASSUME SyncInv, SyncNext, job.at # "scan", job'.at = "scan"
                PROVE  job'.scan \/ job'.head # stored
    OBVIOUS
  <2>1. JobChecksOut
    <3>1. job' # job /\ job'.at # "idle" /\ NoJob.at = "idle"
      BY DEF NoJob
    <3>2. Sync
      BY <3>1 DEF SyncNext, Push, ForgeChange, Uninstall,
         Unsuspend, Reinstall, Delete, Undelete, Happens,
         Receive, HandleWork, HandleGone, HandleBack,
         HandleDeleted, Rest, JobFails, Restart, Reconcile,
         PassReads, PassChecks, PassMints, PassMinted,
         PassLists, PassAsks, PassRest
    <3>3. job \in SyncJobs
      BY DEF SyncInv, RunsOK
    <3>. QED
      BY <3>1, <3>2, <3>3
      DEF Sync, StartJob, JobMints, JobMinted, JobFetches,
          JobDenied, JobScanned, Step, NoJob, SyncJobs
  <2>2. job \in SyncJobs /\ job.last = stored
    BY <2>1 DEF SyncInv, RunsOK, ScannedOK, JobChecksOut
  <2>3. job' = [job EXCEPT !.at = "scan", !.answer = "none"] /\ NeedsScan
    BY <2>1 DEF JobChecksOut, Step, NoJob
  <2>4. job'.scan = job.scan /\ job'.head = job.head
    BY <2>2, <2>3 DEF SyncJobs
  <2>. QED  BY <2>2, <2>3, <2>4 DEF NeedsScan
<1>. QED
  BY <1>1, SyncInvariance, SyncTyped, PTL DEF NothingScannedTwice, SyncSpec
=============================================================================
