----------------------------- MODULE WriterLock -----------------------------
(***************************************************************************)
(* One CodeGraph writer per project root (services/codegraph/              *)
(* writer_lock.py): a thread lock in each process and an flock on one file *)
(* across processes.  A step is one call on a lock, so threads and         *)
(* processes interleave between any two.                                   *)
(*                                                                         *)
(* A thread that waits for the flock does so through a helper thread,      *)
(* because flock has no timeout: when its time is up it abandons the       *)
(* helper, which stays in the kernel's queue and may get the lock late.    *)
(* A task of the event loop polls instead.                                 *)
(***************************************************************************)
CONSTANTS
  Threads,    \* callers of writer_lock
  Tasks,      \* callers of async_writer_lock, all on the portal's loop
  Children,   \* processes that may be killed: scan children
  Portal,     \* the portal's process
  HomeOf,     \* the process of each caller
  Fds,        \* bound: open descriptions of the lock file
  None

Callers == Threads \cup Tasks
Processes == Children \cup {Portal}

ASSUME LockAssumption ==
  /\ Threads \cap Tasks = {} /\ Portal \notin Children
  /\ HomeOf \in [Callers -> Processes]
  /\ \A t \in Tasks : HomeOf[t] = Portal
  /\ None \notin Callers \cup Fds \cup Processes

VARIABLES
  pc,        \* where each caller is
  tlock,     \* _THREAD_LOCKS[key] of each process: its holder
  fd,        \* the caller's open file
  helper,    \* what the _Attempt of an open file does
  abandoned, \* _Attempt.abandoned: the process of the caller that left it
  flock      \* the open file that has the kernel's lock

lockVars == <<pc, tlock, fd, helper, abandoned, flock>>

LockInit ==
  /\ pc = [c \in Callers |-> "out"]
  /\ tlock = [p \in Processes |-> None]
  /\ fd = [c \in Callers |-> None]
  /\ helper = [f \in Fds |-> "none"]
  /\ abandoned = [f \in Fds |-> None]
  /\ flock = None

(* Open files: a caller's, or an abandoned helper's. *)
Open == {fd[c] : c \in Callers} \cup {f \in Fds : helper[f] # "none"}

(* os.close drops the kernel's lock with the last descriptor. *)
Closed(f) == IF flock = f THEN None ELSE flock

Mine(c) == tlock[HomeOf[c]]

-----------------------------------------------------------------------------
(* writer_lock and _flock_blocking *)

(* The time to wait is the caller's, so a timeout may come at any moment. *)
Enter(t) ==
  /\ pc[t] = "out"
  /\ pc' = [pc EXCEPT ![t] = "thread"]
  /\ UNCHANGED <<tlock, fd, helper, abandoned, flock>>

TakeThreadLock(t) ==
  /\ pc[t] = "thread" /\ Mine(t) = None
  /\ tlock' = [tlock EXCEPT ![HomeOf[t]] = t]
  /\ pc' = [pc EXCEPT ![t] = "open"]
  /\ UNCHANGED <<fd, helper, abandoned, flock>>

GiveUpThreadLock(t) ==
  /\ pc[t] = "thread" /\ Mine(t) # None
  /\ pc' = [pc EXCEPT ![t] = "out"]
  /\ UNCHANGED <<tlock, fd, helper, abandoned, flock>>

OpenFile(t) ==
  /\ pc[t] = "open"
  /\ \E f \in Fds \ Open : fd' = [fd EXCEPT ![t] = f]
  /\ pc' = [pc EXCEPT ![t] = "flock"]
  /\ UNCHANGED <<tlock, helper, abandoned, flock>>

(* The lock file is a symbolic link, say: CodeGraphBootstrapError. *)
OpenFails(t) ==
  /\ pc[t] = "open"
  /\ pc' = [pc EXCEPT ![t] = "release"]
  /\ UNCHANGED <<tlock, fd, helper, abandoned, flock>>

(* No time is left: one try, without a helper. *)
TryOnce(t) ==
  /\ pc[t] = "flock"
  /\ IF flock = None
     THEN /\ flock' = fd[t]
          /\ pc' = [pc EXCEPT ![t] = "in"]
          /\ UNCHANGED fd
     ELSE /\ fd' = [fd EXCEPT ![t] = None]
          /\ pc' = [pc EXCEPT ![t] = "release"]
          /\ UNCHANGED flock
  /\ UNCHANGED <<tlock, helper, abandoned>>

StartHelper(t) ==
  /\ pc[t] = "flock"
  /\ helper' = [helper EXCEPT ![fd[t]] = "blocked"]
  /\ pc' = [pc EXCEPT ![t] = "join"]
  /\ UNCHANGED <<tlock, fd, abandoned, flock>>

(* done.wait ends, by done or by time; the guard is held to look. *)
JoinAcquired(t) ==
  /\ pc[t] = "join" /\ helper[fd[t]] = "acquired"
  /\ helper' = [helper EXCEPT ![fd[t]] = "none"]
  /\ pc' = [pc EXCEPT ![t] = "in"]
  /\ UNCHANGED <<tlock, fd, abandoned, flock>>

(* Mutant: whoever times out closes the file, and the helper is told nothing. *)
AbandonUntold(t) ==
  /\ pc[t] = "join" /\ helper[fd[t]] \in {"blocked", "locked"}
  /\ fd' = [fd EXCEPT ![t] = None]
  /\ pc' = [pc EXCEPT ![t] = "release"]
  /\ UNCHANGED <<tlock, helper, abandoned, flock>>

Abandon(t) ==
  /\ pc[t] = "join" /\ helper[fd[t]] \in {"blocked", "locked"}
  /\ abandoned' = [abandoned EXCEPT ![fd[t]] = HomeOf[t]]
  /\ fd' = [fd EXCEPT ![t] = None]
  /\ pc' = [pc EXCEPT ![t] = "release"]
  /\ UNCHANGED <<tlock, helper, flock>>

JoinFailed(t) ==
  /\ pc[t] = "join" /\ helper[fd[t]] = "failed"
  /\ helper' = [helper EXCEPT ![fd[t]] = "none"]
  /\ fd' = [fd EXCEPT ![t] = None]
  /\ pc' = [pc EXCEPT ![t] = "release"]
  /\ UNCHANGED <<tlock, abandoned, flock>>

(* The body is over, however it ends: _unlock, then the thread lock. *)
Unlock(t) ==
  /\ pc[t] = "in"
  /\ flock' = Closed(fd[t])
  /\ fd' = [fd EXCEPT ![t] = None]
  /\ pc' = [pc EXCEPT ![t] = "release"]
  /\ UNCHANGED <<tlock, helper, abandoned>>

Release(t) ==
  /\ pc[t] = "release"
  /\ tlock' = [tlock EXCEPT ![HomeOf[t]] = None]
  /\ pc' = [pc EXCEPT ![t] = "out"]
  /\ UNCHANGED <<fd, helper, abandoned, flock>>

-----------------------------------------------------------------------------
(* _Attempt.run, on the helper thread of f *)

HelperLocks(f) ==
  /\ helper[f] = "blocked" /\ flock = None
  /\ flock' = f
  /\ helper' = [helper EXCEPT ![f] = "locked"]
  /\ UNCHANGED <<pc, tlock, fd, abandoned>>

(* flock raises: the helper closes the file, and says so if it is asked. *)
HelperFails(f) ==
  /\ helper[f] = "blocked"
  /\ helper' = [helper EXCEPT ![f] = IF abandoned[f] # None THEN "none" ELSE "failed"]
  /\ abandoned' = [abandoned EXCEPT ![f] = None]
  /\ UNCHANGED <<pc, tlock, fd, flock>>

HelperHandsOver(f) ==
  /\ helper[f] = "locked" /\ abandoned[f] = None
  /\ helper' = [helper EXCEPT ![f] = "acquired"]
  /\ UNCHANGED <<pc, tlock, fd, abandoned, flock>>

(* Mutant: an abandoned helper just ends. *)
HelperForgets(f) ==
  /\ helper[f] = "locked" /\ abandoned[f] # None
  /\ helper' = [helper EXCEPT ![f] = "none"]
  /\ abandoned' = [abandoned EXCEPT ![f] = None]
  /\ UNCHANGED <<pc, tlock, fd, flock>>

HelperUnlocks(f) ==
  /\ helper[f] = "locked" /\ abandoned[f] # None
  /\ flock' = Closed(f)
  /\ helper' = [helper EXCEPT ![f] = "none"]
  /\ abandoned' = [abandoned EXCEPT ![f] = None]
  /\ UNCHANGED <<pc, tlock, fd>>

-----------------------------------------------------------------------------
(* async_writer_lock: the file is opened first, then both locks are polled. *)

OpenFirst(a) ==
  /\ pc[a] = "out"
  /\ \E f \in Fds \ Open : fd' = [fd EXCEPT ![a] = f]
  /\ pc' = [pc EXCEPT ![a] = "poll"]
  /\ UNCHANGED <<tlock, helper, abandoned, flock>>

PollThreadLock(a) ==
  /\ pc[a] = "poll" /\ Mine(a) = None
  /\ tlock' = [tlock EXCEPT ![HomeOf[a]] = a]
  /\ pc' = [pc EXCEPT ![a] = "pollfile"]
  /\ UNCHANGED <<fd, helper, abandoned, flock>>

(* Mutant: the thread lock is enough. *)
PollFileTrusting(a) ==
  /\ pc[a] = "pollfile"
  /\ IF flock = None THEN flock' = fd[a] ELSE UNCHANGED flock
  /\ pc' = [pc EXCEPT ![a] = "in"]
  /\ UNCHANGED <<tlock, fd, helper, abandoned>>

PollFile(a) ==
  /\ pc[a] = "pollfile"
  /\ IF flock = None
     THEN /\ flock' = fd[a]
          /\ pc' = [pc EXCEPT ![a] = "in"]
          /\ UNCHANGED tlock
     ELSE /\ tlock' = [tlock EXCEPT ![HomeOf[a]] = None]
          /\ pc' = [pc EXCEPT ![a] = "poll"]
          /\ UNCHANGED flock
  /\ UNCHANGED <<fd, helper, abandoned>>

(* The deadline passed, or the task is cancelled in its sleep. *)
StopPolling(a) ==
  /\ pc[a] = "poll"
  /\ fd' = [fd EXCEPT ![a] = None]
  /\ pc' = [pc EXCEPT ![a] = "out"]
  /\ UNCHANGED <<tlock, helper, abandoned, flock>>

UnlockFile(a) ==
  /\ pc[a] = "in"
  /\ flock' = Closed(fd[a])
  /\ pc' = [pc EXCEPT ![a] = "leave"]
  /\ UNCHANGED <<tlock, fd, helper, abandoned>>

ReleaseAndClose(a) ==
  /\ pc[a] = "leave"
  /\ tlock' = [tlock EXCEPT ![HomeOf[a]] = None]
  /\ fd' = [fd EXCEPT ![a] = None]
  /\ pc' = [pc EXCEPT ![a] = "out"]
  /\ UNCHANGED <<helper, abandoned, flock>>

-----------------------------------------------------------------------------
(* A child ends or is killed: its threads, helpers, lock and files are gone. *)
Dies(p) ==
  LET dead == {c \in Callers : HomeOf[c] = p}
      files == {f \in Fds : abandoned[f] = p \/ \E c \in dead : fd[c] = f}
  IN  /\ files # {} \/ \E c \in dead : pc[c] # "out"
      /\ pc' = [c \in Callers |-> IF c \in dead THEN "out" ELSE pc[c]]
      /\ tlock' = [tlock EXCEPT ![p] = None]
      /\ fd' = [c \in Callers |-> IF c \in dead THEN None ELSE fd[c]]
      /\ helper' = [f \in Fds |-> IF f \in files THEN "none" ELSE helper[f]]
      /\ abandoned' = [f \in Fds |-> IF f \in files THEN None ELSE abandoned[f]]
      /\ flock' = IF flock \in files THEN None ELSE flock

ThreadStep(t) ==
  \/ TakeThreadLock(t) \/ GiveUpThreadLock(t) \/ OpenFile(t) \/ OpenFails(t)
  \/ TryOnce(t) \/ StartHelper(t)
  \/ JoinAcquired(t) \/ Abandon(t) \/ JoinFailed(t) \/ Unlock(t) \/ Release(t)

TaskStep(a) ==
  \/ PollThreadLock(a) \/ PollFile(a) \/ StopPolling(a)
  \/ UnlockFile(a) \/ ReleaseAndClose(a)

HelperStep(f) ==
  HelperLocks(f) \/ HelperFails(f) \/ HelperHandsOver(f) \/ HelperUnlocks(f)

LockNext ==
  \/ \E t \in Threads : Enter(t) \/ ThreadStep(t)
  \/ \E a \in Tasks : OpenFirst(a) \/ TaskStep(a)
  \/ \E f \in Fds : HelperStep(f)
  \/ \E p \in Children : Dies(p)

LockSpec == LockInit /\ [][LockNext]_lockVars

(***************************************************************************)
(* Fairness: callers go on (their bodies end and their waits have a        *)
(* deadline), and the kernel serves the waiters of an flock in turn.       *)
(***************************************************************************)
LockFairness ==
  /\ \A t \in Threads : WF_lockVars(ThreadStep(t))
  /\ \A a \in Tasks : WF_lockVars(UnlockFile(a)) /\ WF_lockVars(ReleaseAndClose(a))
                      /\ WF_lockVars(PollFile(a)) /\ SF_lockVars(StopPolling(a))
  /\ \A f \in Fds : SF_lockVars(HelperLocks(f)) /\ WF_lockVars(HelperStep(f))

LockFairSpec == LockSpec /\ LockFairness

-----------------------------------------------------------------------------

LockTypeOK ==
  /\ pc \in [Callers -> {"out", "thread", "open", "flock", "join", "in",
                         "release", "poll", "pollfile", "leave"}]
  /\ tlock \in [Processes -> Callers \cup {None}]
  /\ fd \in [Callers -> Fds \cup {None}]
  /\ helper \in [Fds -> {"none", "blocked", "locked", "acquired", "failed"}]
  /\ abandoned \in [Fds -> Processes \cup {None}]
  /\ flock \in Fds \cup {None}

Inside == {c \in Callers : pc[c] = "in"}

(***************************************************************************)
(* Mutual exclusion, across threads and processes, whoever times out or is *)
(* killed; and whoever is inside leaves.  An implementation of Mutex.      *)
(***************************************************************************)
Lock == INSTANCE Mutex WITH Users <- Callers, inside <- Inside

OneWriter == \A c, d \in Inside : c = d

IsMutex == Lock!Spec

(***************************************************************************)
(* A lock that comes too late is given back: whenever the kernel's lock is *)
(* held, by a caller or by a helper nobody waits for, it is free again     *)
(* later, and the file of an abandoned helper is closed.                   *)
(***************************************************************************)
LateLocksReturned ==
  \A f \in Fds : flock = f \/ abandoned[f] # None ~> flock # f /\ f \notin Open

(***************************************************************************)
(* The kernel's lock has a keeper: somebody inside, or a helper that is    *)
(* about to hand it over or give it back.  Nobody else's file may have it, *)
(* or no writer would ever come in again.                                  *)
(***************************************************************************)
KeptBySomebody ==
  /\ LockTypeOK
  /\ flock # None =>
       \/ helper[flock] \in {"locked", "acquired"}
       \/ \E c \in Callers : fd[c] = flock /\ pc[c] = "in"

=============================================================================
