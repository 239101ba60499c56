------------------------------ MODULE RunMerge ------------------------------
(***************************************************************************)
(* One project's pending run: the requests that coalesce into it, and its  *)
(* queued row, from which a restarted portal rebuilds it.  The queue       *)
(* itself (jobs, locks, crashes) is module ScanQueue; this module is about *)
(* what merging and persisting may lose.                                   *)
(*                                                                         *)
(* The requests are those the program can make: a local or linked project  *)
(* is scanned by people and by git hooks, a GitHub project (production)    *)
(* by people, webhooks, the reconcile loop and imports, and every request  *)
(* for it is a sync.                                                       *)
(***************************************************************************)
EXTENDS ScanPolicy, Sequences

CONSTANTS MaxMerges,  \* bound: requests that coalesce into one run
          NoJob

ASSUME MergesAssumption == MaxMerges \in Nat /\ NoJob \notin Job

VARIABLES source,   \* the project's source
          scanned,  \* projects.last_scan_at is set
          pending,  \* the pending job, or NoJob
          log       \* history: the granted requests merged into it, in order

vars == <<source, scanned, pending, log>>

-----------------------------------------------------------------------------

Init == /\ source \in Sources
        /\ scanned \in BOOLEAN
        /\ pending = NoJob
        /\ log = <<>>

(* The first request of a run inserts its row. *)
Queue == /\ pending = NoJob
         /\ \E r \in Requests(source) :
              /\ pending' = Granted(r, scanned)
              /\ log' = <<Granted(r, scanned)>>
         /\ UNCHANGED <<source, scanned>>

(* A later one merges into it. *)
Coalesce == /\ pending # NoJob
            /\ Len(log) < MaxMerges
            /\ \E r \in Requests(source) :
                 /\ pending' = MergeJobs(pending, Granted(r, scanned))
                 /\ log' = Append(log, Granted(r, scanned))
            /\ UNCHANGED <<source, scanned>>

(* The project's running job completes its first scan meanwhile. *)
FirstScanEnds == /\ ~scanned
                 /\ scanned' = TRUE
                 /\ UNCHANGED <<source, pending, log>>

(* The portal stops and starts again: the run comes back from its row. *)
Restart == /\ pending # NoJob
           /\ pending' = Recovered(Row(pending))
           /\ UNCHANGED <<source, scanned, log>>

(* The job starts, or is cancelled: the next request makes a new one. *)
Leave == /\ pending # NoJob
         /\ pending' = NoJob
         /\ log' = <<>>
         /\ UNCHANGED <<source, scanned>>

Next == Queue \/ Coalesce \/ FirstScanEnds \/ Restart \/ Leave

Spec == Init /\ [][Next]_vars

-----------------------------------------------------------------------------

TypeOK == /\ source \in Sources
          /\ scanned \in BOOLEAN
          /\ pending \in Job \cup {NoJob}
          /\ log \in Seq(Job)

(***************************************************************************)
(* The run does everything each of its requests asked for, whether or not  *)
(* HEAD moved, however they were ordered and however often the portal      *)
(* restarted: a hook's --no-remote or a forge event's --github-only never  *)
(* narrows a run that someone asked more of.                               *)
(***************************************************************************)
UnionOfWork ==
  \A i \in 1..Len(log), moved \in BOOLEAN :
    Work(log[i], source, moved) \subseteq Work(pending, source, moved)

(***************************************************************************)
(* LLM money is spent only when a request asked for it while the project   *)
(* had a completed scan, and then it is spent: analyze never travels with  *)
(* a trigger whose flags drop it.                                          *)
(***************************************************************************)
SpendsAsAsked ==
  pending # NoJob =>
    (pending.analyze <=> \E i \in 1..Len(log) : log[i].analyze)
    /\ (pending.analyze => "describe" \in Work(pending, source, TRUE))

(***************************************************************************)
(* Attribution follows the spend: a describing run belongs to the first    *)
(* requester who asked for the analysis, any other to the first person     *)
(* among its requesters.                                                   *)
(***************************************************************************)
First(P(_)) == CHOOSE i \in 1..Len(log) :
                 P(log[i]) /\ \A j \in 1..(i - 1) : ~P(log[j])

Attribution ==
  LET spends(r) == r.analyze
      named(r) == r.by # NoUser
  IN  pending # NoJob =>
        IF \E i \in 1..Len(log) : spends(log[i])
        THEN pending.by = log[First(spends)].by
        ELSE IF \E i \in 1..Len(log) : named(log[i])
             THEN pending.by = log[First(named)].by
             ELSE pending.by = NoUser

(***************************************************************************)
(* A describing run shows the first estimate one of its describing         *)
(* requesters saw, and a quick run shows none.                             *)
(***************************************************************************)
OneEstimate ==
  LET quoted(r) == r.est # NoEstimate
  IN  pending # NoJob =>
        pending.est = IF \E i \in 1..Len(log) : quoted(log[i])
                      THEN log[First(quoted)].est ELSE NoEstimate

(***************************************************************************)
(* Whom a run charges and what it quoted are fixed by the first request    *)
(* that decides them, whatever merges into it and whenever the portal      *)
(* restarts.                                                               *)
(***************************************************************************)
ChargedAsQuoted == Attribution /\ OneEstimate

=============================================================================
