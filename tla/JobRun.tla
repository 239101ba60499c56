------------------------------- MODULE JobRun -------------------------------
(***************************************************************************)
(* One job of a GitHub project (_Job, _execute, _execute_inner): its worker *)
(* thread, the child process it starts, whoever signals them (a user's     *)
(* cancel and the runner's stop on the event loop, a budget stop on the    *)
(* thread that drains the child's output, the kill timers) and the thread  *)
(* that refreshes the child's GitHub token file.                           *)
(*                                                                         *)
(* A block under the job's lock, or under the refresher's, is one step;    *)
(* everything else the five threads do interleaves.                        *)
(***************************************************************************)
EXTENDS RunOutcome

VARIABLES
  pc,          \* where the job's thread is
  end,         \* how it ended, before the flags: what _execute_inner returns
  status,      \* what _execute records
  cancelled, interrupted, budgetStop,  \* the job's flags, and stop_reason
  proc,        \* job.proc is set
  child,       \* the child: "none", "up", or how it exited
  stubborn,    \* the child survives a SIGTERM
  sent,        \* the signals its process group got
  frame,       \* the signallers' frames
  mode,        \* the runner: "up", "stopping", "stopped"
  token,       \* the token file exists
  refresher, stopRefresher  \* the refresher's thread, and its _stop event

job == <<cancelled, interrupted, budgetStop, proc>>
process == <<child, stubborn, sent>>
file == <<token, refresher, stopRefresher>>
jobVars == <<pc, end, status, job, process, frame, mode, file>>

Signallers == {"user", "budget", "stop"}

(* The event loop runs one handler at a time: nobody is inside one. *)
LoopFree == \A s \in {"user", "stop"} : frame[s] \notin {"flag", "send", "kill"}

Step(from, to) == pc = from /\ pc' = to
Alive == proc /\ child = "up"

(* killpg: a group that is gone is no error. *)
Kill(sig) == sent' = IF child = "up" THEN sent \cup {sig} ELSE sent

-----------------------------------------------------------------------------
(* The job's thread *)

(* What comes before the child ends the run: a refused path, a failed sync, *)
(* a HEAD already scanned, or a cancel seen after the fetch.                *)
EndsEarly ==
  /\ Step("prepare", "ended")
  /\ end' \in {"failed", "ok"} \cup (IF cancelled THEN {"cancelled"} ELSE {})
  /\ UNCHANGED <<status, job, process, frame, mode, file>>

(* The last look at interrupted before the child is started. *)
Prepared ==
  /\ pc = "prepare"
  /\ IF interrupted THEN pc' = "ended" /\ end' = "interrupted"
     ELSE pc' = "mint" /\ UNCHANGED end
  /\ UNCHANGED <<status, job, process, frame, mode, file>>

(* The token is minted and written; or GitHub refuses it. *)
WriteToken ==
  /\ Step("mint", "spawn")
  /\ token' = TRUE
  /\ UNCHANGED <<end, status, job, process, frame, mode, refresher, stopRefresher>>

MintFails ==
  /\ Step("mint", "unlink")
  /\ end' = "failed"
  /\ UNCHANGED <<status, job, process, frame, mode, file>>

Spawn ==
  /\ Step("spawn", "publish")
  /\ child' = "up" /\ stubborn' \in BOOLEAN
  /\ UNCHANGED <<end, status, job, sent, frame, mode, file>>

SpawnFails ==
  /\ Step("spawn", "unlink")
  /\ end' = "failed"
  /\ UNCHANGED <<status, job, process, frame, mode, file>>

(* Mutant: a signal that came before the process was known is forgotten. *)
PublishOnly ==
  /\ Step("publish", "refresh")
  /\ proc' = TRUE
  /\ UNCHANGED <<end, status, cancelled, interrupted, budgetStop, process,
                 frame, mode, file>>

(* Under the job's lock: the process is known from here on, and a signal  *)
(* that missed it is made up for.                                         *)
Publish ==
  /\ pc = "publish"
  /\ pc' = IF interrupted THEN "signal" ELSE "refresh"
  /\ proc' = TRUE
  /\ UNCHANGED <<end, status, cancelled, interrupted, budgetStop, process,
                 frame, mode, file>>

SignalOwn ==
  /\ Step("signal", "refresh")
  /\ Kill("TERM")
  /\ UNCHANGED <<end, status, job, child, stubborn, frame, mode, file>>

StartRefresher ==
  /\ Step("refresh", "wait")
  /\ refresher' = "sleeping"
  /\ UNCHANGED <<end, status, job, process, frame, mode, token, stopRefresher>>

(* The process is reaped, and its output drained to the end. *)
Reap ==
  /\ Step("wait", "stop")
  /\ child # "up"
  /\ frame["budget"] \notin {"flag", "send"}
  /\ end' = child
  /\ UNCHANGED <<status, job, process, frame, mode, file>>

StopRefresher ==
  /\ Step("stop", "unlink")
  /\ stopRefresher' = TRUE
  /\ UNCHANGED <<end, status, job, process, frame, mode, token, refresher>>

Unlink ==
  /\ Step("unlink", "ended")
  /\ token' = FALSE
  /\ UNCHANGED <<end, status, job, process, frame, mode, refresher, stopRefresher>>

(* _execute decides, _finish_run records. *)
Record ==
  /\ Step("ended", "done")
  /\ status' = Outcome(end, cancelled, interrupted)
  /\ UNCHANGED <<end, job, process, frame, mode, file>>

(* The child ends when it likes, also after a signal has been sent. *)
Exits ==
  /\ child = "up"
  /\ child' \in {"ok", "failed"}
  /\ UNCHANGED <<pc, end, status, job, stubborn, sent, frame, mode, file>>

-----------------------------------------------------------------------------
(* cancel: by the user, while the job is in _running; by the budget, while *)
(* a usage event of the child is drained                                   *)

UserCancels ==
  /\ frame["user"] = "idle" /\ mode = "up" /\ pc # "done" /\ LoopFree
  /\ cancelled' = TRUE
  /\ frame' = [frame EXCEPT !["user"] = "flag"]
  /\ UNCHANGED <<pc, end, status, interrupted, budgetStop, proc, process, mode, file>>

BudgetCancels ==
  /\ frame["budget"] = "idle" /\ pc = "wait"
  /\ cancelled' = TRUE /\ budgetStop' = TRUE
  /\ frame' = [frame EXCEPT !["budget"] = "flag"]
  /\ UNCHANGED <<pc, end, status, interrupted, proc, process, mode, file>>

(* Mutant: a signal without a process needs no timer. *)
FlagOnce(s) ==
  /\ frame[s] = "flag"
  /\ interrupted' = TRUE
  /\ frame' = [frame EXCEPT ![s] = IF proc THEN "send" ELSE "over"]
  /\ UNCHANGED <<pc, end, status, cancelled, budgetStop, proc, process, mode, file>>

(* _Job.signal, under the job's lock: the flag, and is there a process? *)
Flag(s) ==
  /\ frame[s] = "flag"
  /\ interrupted' = TRUE
  /\ frame' = [frame EXCEPT ![s] = IF proc THEN "send" ELSE "timer"]
  /\ UNCHANGED <<pc, end, status, cancelled, budgetStop, proc, process, mode, file>>

Send(s) ==
  /\ frame[s] = "send"
  /\ Kill("TERM")
  /\ frame' = [frame EXCEPT ![s] = IF s = "stop" THEN "grace" ELSE "timer"]
  /\ UNCHANGED <<pc, end, status, job, child, stubborn, mode, file>>

(* CANCEL_GRACE_SEC later, if the child still lives.  The timer is longer   *)
(* than a child takes to start, and the loop's timers end with the runner.  *)
Starting == pc \in {"mint", "spawn", "publish", "signal"}

TimerEnds(s) ==
  /\ frame[s] = "timer" /\ ~Starting
  /\ s = "user" => mode # "stopped" /\ LoopFree
  /\ frame' = [frame EXCEPT ![s] = IF Alive THEN "kill" ELSE "over"]
  /\ UNCHANGED <<pc, end, status, job, process, mode, file>>

SendKill(s) ==
  /\ frame[s] = "kill"
  /\ Kill("KILL")
  /\ frame' = [frame EXCEPT ![s] = IF s = "stop" THEN "await" ELSE "over"]
  /\ UNCHANGED <<pc, end, status, job, child, stubborn, mode, file>>

-----------------------------------------------------------------------------
(* shutdown: SIGTERM, a grace while the child lives, SIGKILL, and a last   *)
(* wait for the thread                                                     *)

Shutdown ==
  /\ mode = "up" /\ mode' = "stopping" /\ LoopFree
  /\ interrupted' = TRUE
  /\ frame' = [frame EXCEPT !["stop"] = IF proc THEN "send" ELSE "grace"]
  /\ UNCHANGED <<pc, end, status, cancelled, budgetStop, proc, process, file>>

GraceEnds ==
  /\ frame["stop"] = "grace" /\ LoopFree
  /\ frame' = [frame EXCEPT !["stop"] = IF Alive THEN "kill" ELSE "await"]
  /\ UNCHANGED <<pc, end, status, job, process, mode, file>>

ShutdownReturns ==
  /\ frame["stop"] = "await"
  /\ frame' = [frame EXCEPT !["stop"] = "over"]
  /\ mode' = "stopped"
  /\ UNCHANGED <<pc, end, status, job, process, file>>

-----------------------------------------------------------------------------
(* The refresher's thread *)

Wake ==
  /\ refresher = "sleeping"
  /\ refresher' = IF stopRefresher THEN "gone" ELSE "minting"
  /\ UNCHANGED <<pc, end, status, job, process, frame, mode, token, stopRefresher>>

(* GitHub answers, is unavailable, or refuses. *)
Minted ==
  /\ refresher = "minting"
  /\ refresher' \in {"writing", "sleeping", "gone"}
  /\ UNCHANGED <<pc, end, status, job, process, frame, mode, token, stopRefresher>>

(* Mutant: the stop is not looked at again. *)
RewriteAnyway ==
  /\ refresher = "writing"
  /\ token' = TRUE /\ refresher' = "sleeping"
  /\ UNCHANGED <<pc, end, status, job, process, frame, mode, stopRefresher>>

(* Under the refresher's lock: not after its stop. *)
Rewrite ==
  /\ refresher = "writing"
  /\ IF stopRefresher THEN refresher' = "gone" /\ UNCHANGED token
     ELSE token' = TRUE /\ refresher' = "sleeping"
  /\ UNCHANGED <<pc, end, status, job, process, frame, mode, stopRefresher>>

-----------------------------------------------------------------------------

JobInit ==
  /\ pc = "prepare" /\ end = "none" /\ status = "none"
  /\ cancelled = FALSE /\ interrupted = FALSE /\ budgetStop = FALSE
  /\ proc = FALSE /\ child = "none" /\ stubborn = FALSE /\ sent = {}
  /\ frame = [s \in Signallers |-> "idle"]
  /\ mode = "up"
  /\ token = FALSE /\ refresher = "none" /\ stopRefresher = FALSE

Thread ==
  \/ EndsEarly \/ Prepared \/ WriteToken \/ MintFails \/ Spawn \/ SpawnFails
  \/ Publish \/ SignalOwn \/ StartRefresher \/ Reap \/ StopRefresher \/ Unlink
  \/ Record

Signals(s) == Flag(s) \/ Send(s) \/ TimerEnds(s) \/ SendKill(s)

Stops == GraceEnds \/ ShutdownReturns

Refreshes == Wake \/ Minted \/ Rewrite

JobNext ==
  \/ Thread \/ Exits \/ UserCancels \/ BudgetCancels
  \/ \E s \in Signallers : Signals(s)
  \/ Shutdown \/ Stops \/ Refreshes

JobSpec == JobInit /\ [][JobNext]_jobVars

(* A child that got SIGKILL, or SIGTERM and does not survive it, ends. *)
Dies == ("KILL" \in sent \/ ("TERM" \in sent /\ ~stubborn)) /\ Exits

(* Threads run, timers end, signals work; a child need not end by itself. *)
JobFairness ==
  /\ WF_jobVars(Thread) /\ WF_jobVars(Dies) /\ WF_jobVars(Stops)
  /\ \A s \in Signallers : WF_jobVars(Signals(s))

JobFairSpec == JobSpec /\ JobFairness

-----------------------------------------------------------------------------

JobTypeOK ==
  /\ pc \in {"prepare", "mint", "spawn", "publish", "signal", "refresh", "wait",
             "stop", "unlink", "ended", "done"}
  /\ end \in {"none"} \cup Final /\ status \in {"none"} \cup Final
  /\ cancelled \in BOOLEAN /\ interrupted \in BOOLEAN /\ budgetStop \in BOOLEAN
  /\ proc \in BOOLEAN /\ child \in {"none", "up", "ok", "failed"}
  /\ stubborn \in BOOLEAN /\ sent \subseteq {"TERM", "KILL"}
  /\ frame \in [Signallers -> {"idle", "flag", "send", "timer", "grace", "kill",
                               "await", "over"}]
  /\ mode \in {"up", "stopping", "stopped"}
  /\ token \in BOOLEAN /\ stopRefresher \in BOOLEAN
  /\ refresher \in {"none", "sleeping", "minting", "writing", "gone"}

(***************************************************************************)
(* A signal is not lost between the thread that starts the child and the   *)
(* one that wants it to stop: once the thread waits for a child of an      *)
(* interrupted job, the child has its SIGTERM, or somebody is sending it.  *)
(***************************************************************************)
SignalReaches ==
  /\ JobTypeOK
  /\ pc = "wait" /\ interrupted /\ child = "up" =>
       "TERM" \in sent \/ \E s \in Signallers : frame[s] = "send"

(* The token file does not outlive the run, whenever the refresher mints. *)
TokenGone == pc \in {"ended", "done"} => ~token

(***************************************************************************)
(* A cancelled run ends, whatever the child does with a SIGTERM, unless    *)
(* the runner stops first.                                                 *)
(***************************************************************************)
CancelledEnds == cancelled ~> pc = "done" \/ mode # "up"

=============================================================================
