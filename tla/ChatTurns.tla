------------------------------ MODULE ChatTurns ------------------------------
(***************************************************************************)
(* One chat session of serve/chat.py: its tree of message rows, the lease  *)
(* that lets one turn at a time write to it, the turns themselves (each a  *)
(* worker thread that runs chat/harness.py's loop and writes its rounds as *)
(* rows), and the branches and the deletion that want the same lease.      *)
(*                                                                         *)
(* A request is checked, takes the lease, and for a turn starts a worker;  *)
(* from then on the worker owns the lease.  A round ends when its usage is *)
(* known, but its rows are only written when something new starts, each    *)
(* row in a transaction of its own: a stop, a provider failure, a failing  *)
(* write or the end of the process can come between any two of them.       *)
(*                                                                         *)
(* Data: a round's text is one token, a call is named by its turn, round   *)
(* and place, and what the model has seen is the sequence of these tokens. *)
(* Left out: titles, modes, efforts, the References block, the token       *)
(* window (it drops old turns whole), replay payloads and the frames.      *)
(***************************************************************************)
EXTENDS Integers, Sequences, FiniteSets, SequencesExt

CONSTANTS
  Requests,          \* the HTTP requests of a history; a turn is its request
  Nobody,
  MaxToolRounds,     \* [chat].max_tool_rounds
  MaxContinuations,  \* [chat].max_continuations
  CallCounts,        \* bound: how many tools a round may ask for
  Ops,               \* bound: what each request may ask for
  Seed,              \* bound: the rows a history starts with
  MaxMishaps         \* bound: stops, refused writes and loads, ends of the process

ASSUME NobodyAssumption == Nobody \notin Requests
ASSUME BoundsAssumption ==
  CallCounts \cup {MaxToolRounds, MaxContinuations, MaxMishaps} \subseteq Nat
ASSUME OpsAssumption ==
  Ops \in [Requests -> SUBSET {"send", "edit", "regenerate", "continue", "branch", "delete"}]

Speakers == Requests \cup {Nobody}
Words == ({"ask", "budget"} \X Speakers) \cup ({"text"} \X Speakers \X Nat)
Calls == {"call"} \X Speakers \X Nat \X Nat

Rows == [role : {"user", "assistant", "tool"}, parent : Nat, turn : Speakers,
         text : Seq(Words), calls : Seq(Calls), call : Calls \cup {<<>>},
         error : {"none", "stopped", "failed", "budget"}, cut : BOOLEAN]

(* A tool's row follows the reply that called it, under it or under the    *)
(* row of another of its calls.                                            *)
FollowsItsCall(rs, i) ==
  \E a \in 1..i - 1 :
    /\ rs[a].role = "assistant" /\ rs[a].error # "budget"
    /\ rs[i].call \in Range(rs[a].calls) /\ rs[i].error # "budget"
    /\ \A k \in a + 1..i : rs[k].role = "tool" /\ rs[k].parent = k - 1

(* The rows of earlier turns, written like the later ones: a row after its *)
(* parent, and a tool's row only after its call.                           *)
ASSUME SeedAssumption ==
  /\ Seed \in Seq(Rows)
  /\ \A i \in DOMAIN Seed :
       /\ Seed[i].turn = Nobody /\ Seed[i].parent < i
       /\ Seed[i].role = "tool" => FollowsItsCall(Seed, i)

VARIABLES
  rows,     \* the session's rows, the n-th written has id n
  leaf,     \* chat_sessions.active_leaf_id; 0 when unset
  gone,     \* the session was deleted
  lease,    \* _LEASES[key]
  job,      \* request -> its handler's and its worker's variables
  mishaps

vars == <<rows, leaf, gone, lease, job, mishaps>>

-----------------------------------------------------------------------------
(* The rows, and the path the model is shown.                              *)

Ids == 1..Len(rows)

Row(role, parent, turn) ==
  [role |-> role, parent |-> parent, turn |-> turn, text |-> <<>>, calls |-> <<>>,
   call |-> <<>>, error |-> "none", cut |-> FALSE]

(* The ids from the root to id (_path_ids).  Parents are written first.    *)
Path[i \in 0..Len(rows)] ==
  IF i = 0 THEN <<>> ELSE Append(Path[rows[i].parent], i)

PathTo(id) == IF id \in Ids THEN Path[id] ELSE <<>>

ActiveLeaf == IF leaf \in Ids THEN leaf ELSE Len(rows)

(* Under a row, the newest child at each level (_deepest).                 *)
Below(id) == {c \in Ids : rows[c].parent = id}

Deepest[id \in Ids] == IF Below(id) = {} THEN id ELSE Deepest[Max(Below(id))]

(* A continued reply is one message again: a row joins the one before it   *)
(* when both are replies, neither failed and the first made no calls       *)
(* (_merge_continuations).                                                 *)
Joins(a, b) == /\ a.role = "assistant" /\ b.role = "assistant"
               /\ a.calls = <<>> /\ a.error = "none" /\ b.error = "none"

MergedRow(done, m) ==
  LET n == Len(done)
  IN  IF n > 0 /\ Joins(done[n], m)
      THEN [done EXCEPT ![n].text = @ \o m.text, ![n].calls = m.calls]
      ELSE Append(done, m)

Merged(msgs) ==
  LET Upto[i \in 0..Len(msgs)] ==
        IF i = 0 THEN <<>> ELSE MergedRow(Upto[i - 1], msgs[i])
  IN  Upto[Len(msgs)]

(* Of a tool row among msgs, the message it follows directly; a budget's   *)
(* notice is not there for a provider.                                     *)
Announcer(msgs, i) ==
  Max({0} \cup {j \in 1..i - 1 : msgs[j].role # "tool" /\ msgs[j].error # "budget"})

Answers(msgs, i, j) ==
  /\ msgs[i].role = "tool" /\ msgs[i].error # "budget"
  /\ Announcer(msgs, i) = j /\ j > 0
  /\ msgs[j].role = "assistant" /\ msgs[i].call \in Range(msgs[j].calls)

(* A mistake: calls without a result are sent again.                       *)
SanitizedWithOpenCalls(msgs) ==
  LET kept == SelectSeq(msgs, LAMBDA m : m.error # "budget")
  IN  SelectSeq(kept, LAMBDA m : m.role # "assistant" \/ m.text # <<>> \/ m.calls # <<>>)

(* Of a reply's calls, those that a tool row answers.                      *)
Answered(msgs, j) ==
  LET calls == msgs[j].calls
  IN  FlattenSeq([k \in DOMAIN calls |->
        IF \E i \in DOMAIN msgs : Answers(msgs, i, j) /\ msgs[i].call = calls[k]
        THEN <<calls[k]>> ELSE <<>>])

Seen(msgs, i) ==
  LET m == msgs[i]
  IN  IF \/ m.error = "budget"
         \/ m.role = "tool" /\ ~Answers(msgs, i, Announcer(msgs, i))
         \/ m.role = "assistant" /\ m.text = <<>> /\ Answered(msgs, i) = <<>>
      THEN <<>>
      ELSE IF m.role = "assistant" THEN <<[m EXCEPT !.calls = Answered(msgs, i)]>>
      ELSE <<m>>

(* What a provider may see again (_sanitize_history): no budget notice, no *)
(* call without its result, no result without its call, no empty reply.    *)
Sanitized(msgs) == FlattenSeq([i \in DOMAIN msgs |-> Seen(msgs, i)])

(* The history a turn that answers row id starts from (_load_history).     *)
History(id) ==
  LET path == PathTo(id)
  IN  Sanitized(Merged([i \in DOMAIN path |-> rows[path[i]]]))

(* What messages say, wherever one ends and the next begins.               *)
Said(msgs) ==
  FlattenSeq([i \in DOMAIN msgs |->
    msgs[i].text \o msgs[i].calls
      \o IF msgs[i].role = "tool" THEN <<<<"result", msgs[i].call>>>> ELSE <<>>])

-----------------------------------------------------------------------------
(* A turn's variables (TurnJob, _turn_frames and run_turn).                *)

NewJob ==
  [pc |-> "idle", op |-> "none", target |-> 0,
   start |-> 0, parent |-> 0,            \* start_id, parent_id
   cancel |-> FALSE,                     \* cancel_event
   attempt |-> 0, used |-> 0, conts |-> 0, nudged |-> FALSE, ran |-> FALSE,
   text |-> <<>>, calls |-> <<>>, results |-> <<>>,   \* the buffered round
   closed |-> FALSE, reported |-> FALSE, cut |-> FALSE,   \* its round_usage
   asked |-> <<>>, parallel |-> FALSE,   \* the calls the model asked for
   todo |-> <<>>, then |-> "none",       \* rows being written, what is next
   handling |-> FALSE,                   \* in an except block
   said |-> <<>>,                        \* what the turn added to messages
   end |-> "none"]                       \* how the turn ended, for the properties

Streaming == {"stream", "arrived", "spoken"}
Working == Streaming \cup {"client", "load", "check", "tools", "write", "overbudget",
                           "finish", "release"}
Turns == {"send", "edit", "regenerate", "continue"}

(* A mistake: the results stay buffered after their round is written.      *)
EmptiedButResults(j) ==
  [j EXCEPT !.text = <<>>, !.calls = <<>>,
            !.closed = FALSE, !.reported = FALSE, !.cut = FALSE]

(* A mistake: nothing arrived, nothing written.                            *)
RoundRowsIfAny(j, error) ==
  IF j.text = <<>> /\ j.calls = <<>> THEN <<>>
  ELSE <<[Row("assistant", 0, Nobody) EXCEPT
            !.text = j.text, !.calls = j.calls, !.error = error,
            !.cut = j.closed /\ j.cut]>>
       \o [i \in DOMAIN j.results |->
             [Row("tool", 0, Nobody) EXCEPT !.call = j.results[i]]]

(* What _flush_round writes for the buffered round.  A failure forces a row *)
(* even with nothing buffered, and so do reported tokens.                   *)
RoundRows(j, error) ==
  LET reply == [Row("assistant", 0, Nobody) EXCEPT
                  !.text = j.text, !.calls = j.calls, !.error = error,
                  !.cut = j.closed /\ j.cut]
  IN  IF /\ j.text = <<>> /\ j.calls = <<>> /\ error = "none"
         /\ ~(j.closed /\ j.reported)
      THEN <<>>
      ELSE <<reply>> \o [i \in DOMAIN j.results |->
                           [Row("tool", 0, Nobody) EXCEPT !.call = j.results[i]]]

Emptied(j) ==
  [j EXCEPT !.text = <<>>, !.calls = <<>>, !.results = <<>>,
            !.closed = FALSE, !.reported = FALSE, !.cut = FALSE]

Flush(j, error, then) ==
  IF RoundRows(j, error) = <<>>
  THEN [Emptied(j) EXCEPT !.pc = then]
  ELSE [j EXCEPT !.pc = "write", !.todo = RoundRows(j, error), !.then = then]

(* The except blocks of _turn_frames: whatever arrived is written, marked  *)
(* "Stopped." when the turn was stopped and with the error otherwise.      *)
Fail(j, how) == [Flush(j, how, "release") EXCEPT !.handling = TRUE, !.end = how]
Raise(j) == Fail(j, IF j.cancel THEN "stopped" ELSE "failed")

(* A mistake: run() without its finally.                                   *)
LostForGood(j) == [NewJob EXCEPT !.pc = "done"]

(* Once it is over, nothing of a turn but its rows is left.                *)
Over == [NewJob EXCEPT !.pc = "done"]

Lost(j) == [j EXCEPT !.pc = "release", !.end = "lost"]

Init ==
  /\ rows = Seed /\ leaf = Len(Seed) /\ gone = FALSE /\ lease = Nobody
  /\ job = [r \in Requests |-> NewJob]
  /\ mishaps = 0

-----------------------------------------------------------------------------
(* The request's thread: _preflight and _require_truncated_leaf, then the  *)
(* lease, then the question.                                               *)

Valid(op, t) ==
  CASE op \in {"send", "delete"} -> t = 0
    [] op \in {"edit", "regenerate"} -> t \in Ids /\ rows[t].role = "user"
    [] op = "branch" -> t \in Ids
    [] op = "continue" -> /\ t \in Ids /\ t = ActiveLeaf
                          /\ rows[t].role = "assistant" /\ rows[t].cut

Preflight(r, op, t) ==
  /\ job[r].pc = "idle" /\ ~gone /\ Valid(op, t)
  /\ job' = [job EXCEPT ![r].pc = "checked", ![r].op = op, ![r].target = t]
  /\ UNCHANGED <<rows, leaf, gone, lease, mishaps>>

(* A branch or a deletion that does not ask for the lease.                 *)
AcquireForTurnsOnly(r) ==
  /\ job[r].pc = "checked" /\ (lease = Nobody \/ job[r].op \notin Turns)
  /\ lease' = IF job[r].op \in Turns THEN r ELSE lease
  /\ job' = [job EXCEPT
       ![r].pc = CASE job[r].op \in {"send", "edit"} -> "ask"
                   [] job[r].op \in {"regenerate", "continue"} -> "client"
                   [] OTHER -> "act",
       ![r].start = job[r].target, ![r].parent = job[r].target]
  /\ UNCHANGED <<rows, leaf, gone, mishaps>>

(* _acquire: 409 while somebody holds the session.                         *)
Refused(r) ==
  /\ job[r].pc = "checked" /\ lease # Nobody
  /\ job' = [job EXCEPT ![r] = Over]
  /\ UNCHANGED <<rows, leaf, gone, lease, mishaps>>

Acquire(r) ==
  /\ job[r].pc = "checked" /\ lease = Nobody
  /\ lease' = r
  /\ job' = [job EXCEPT
       ![r].pc = CASE job[r].op \in {"send", "edit"} -> "ask"
                   [] job[r].op \in {"regenerate", "continue"} -> "client"
                   [] OTHER -> "act",
       ![r].start = job[r].target, ![r].parent = job[r].target]
  /\ UNCHANGED <<rows, leaf, gone, mishaps>>

(* _append_row: the row and the leaf in one transaction.                   *)
Append1(row, parent, r) ==
  /\ ~gone
  /\ rows' = Append(rows, [row EXCEPT !.parent = parent, !.turn = r])
  /\ leaf' = Len(rows) + 1

(* _persist_user_message, then the worker starts.                          *)
Ask(r) ==
  LET parent == IF job[r].op = "edit" THEN rows[job[r].target].parent ELSE ActiveLeaf
      question == [Row("user", 0, r) EXCEPT !.text = <<<<"ask", r>>>>]
  IN  /\ job[r].pc = "ask"
      /\ Append1(question, parent, r)
      /\ job' = [job EXCEPT ![r].pc = "client", ![r].start = Len(rows) + 1,
                            ![r].parent = Len(rows) + 1]
      /\ UNCHANGED <<gone, lease, mishaps>>

(* The session went between the checks and the lease (404), or the         *)
(* database refuses the write: no worker, and the lease is given back.     *)
Mishap == mishaps < MaxMishaps /\ mishaps' = mishaps + 1

AskFails(r) ==
  /\ job[r].pc = "ask"
  /\ \/ gone /\ UNCHANGED mishaps
     \/ ~gone /\ Mishap
  /\ job' = [job EXCEPT ![r] = Lost(@)]
  /\ UNCHANGED <<rows, leaf, gone, lease>>

(* branch_session and delete_session, each in one transaction; 404 when    *)
(* the session went meanwhile.                                             *)
Act(r) ==
  /\ job[r].pc = "act"
  /\ \/ gone /\ UNCHANGED <<rows, leaf, gone>>
     \/ ~gone /\ job[r].op = "branch" /\ leaf' = Deepest[job[r].target]
        /\ UNCHANGED <<rows, gone>>
     \/ ~gone /\ job[r].op = "delete" /\ rows' = <<>> /\ leaf' = 0 /\ gone' = TRUE
  /\ job' = [job EXCEPT ![r].pc = "release", ![r].end = "acted"]
  /\ UNCHANGED <<lease, mishaps>>

-----------------------------------------------------------------------------
(* The worker.                                                             *)

MakeClient(r) ==
  /\ job[r].pc = "client"
  /\ \/ job' = [job EXCEPT ![r].pc = "load"]
     \/ \* LlmError: the failure is a row, written outside the try.
        job' = [job EXCEPT ![r] = Fail(@, "failed")]
  /\ UNCHANGED <<rows, leaf, gone, lease, mishaps>>

(* The worker's messages start as History(start): rows are only added and   *)
(* nobody else writes, so the history need not be kept.                    *)
Load(r) ==
  /\ job[r].pc = "load"
  /\ \/ /\ job' = [job EXCEPT ![r].pc = "check"]
        /\ UNCHANGED mishaps
     \/ /\ Mishap
        /\ job' = [job EXCEPT ![r] = Lost(@)]
  /\ UNCHANGED <<rows, leaf, gone, lease>>

Final(j) == j.used >= MaxToolRounds

(* The top of run_turn's loop.  RoundLimit writes the last tool round.     *)
NextRound(r) ==
  LET j == job[r] IN
  /\ job[r].pc = "check"
  /\ \/ j.cancel /\ job' = [job EXCEPT ![r] = Raise(j)]
     \/ \* BudgetStop
        ~j.cancel /\ job' = [job EXCEPT ![r] = Flush(j, "none", "overbudget")]
     \/ /\ ~j.cancel
        /\ job' = [job EXCEPT ![r] =
             IF Final(j) /\ j.results # <<>> THEN Flush(j, "none", "stream")
             ELSE [j EXCEPT !.pc = "stream"]]
  /\ UNCHANGED <<rows, leaf, gone, lease, mishaps>>

(* The budget's notice is the turn's last row.                             *)
OverBudget(r) ==
  /\ job[r].pc = "overbudget"
  /\ job' = [job EXCEPT ![r].pc = "write", ![r].then = "release", ![r].end = "budget",
               ![r].todo = <<[Row("assistant", 0, Nobody) EXCEPT
                               !.text = <<<<"budget", r>>>>, !.error = "budget"]>>]
  /\ UNCHANGED <<rows, leaf, gone, lease, mishaps>>

(* The round's first event: the round before it is written.                *)
Arrive(r) ==
  /\ job[r].pc = "stream" /\ ~job[r].cancel
  /\ job' = [job EXCEPT ![r] = [IF @.closed THEN Flush(@, "none", "arrived")
                                ELSE [@ EXCEPT !.pc = "arrived"] EXCEPT !.attempt = 0]]
  /\ UNCHANGED <<rows, leaf, gone, lease, mishaps>>

(* The event was text.                                                     *)
Speak(r) ==
  /\ job[r].pc = "arrived"
  /\ job' = [job EXCEPT ![r].pc = "spoken", ![r].text = <<<<"text", r, job[r].used>>>>]
  /\ UNCHANGED <<rows, leaf, gone, lease, mishaps>>

(* A connection dropped before anything arrived is tried once more.        *)
Retry(r) ==
  /\ job[r].pc = "stream" /\ job[r].attempt = 0 /\ ~job[r].cancel
  /\ job' = [job EXCEPT ![r].attempt = 1]
  /\ UNCHANGED <<rows, leaf, gone, lease, mishaps>>

(* The provider fails, or an event or the failure finds the turn stopped.  *)
StreamFails(r) ==
  /\ job[r].pc \in {"stream", "spoken"}
  /\ job' = [job EXCEPT ![r] = Raise(@)]
  /\ UNCHANGED <<rows, leaf, gone, lease, mishaps>>

(* A round's end: what the provider reports, and which of the loop's exits *)
(* it takes.  A call the answer round makes anyway is dropped.             *)
Replies(j) ==
  {q \in [calls : CallCounts, finish : {"stop", "cut", "refused"},
          reported : BOOLEAN, parallel : BOOLEAN] :
     /\ q.parallel => q.calls > 1
     /\ ~q.reported => j.text = <<>> /\ q.calls = 0}

Nudges(j, q) == j.text = <<>> /\ j.ran /\ ~j.nudged /\ q.finish # "cut"
Continues(j, q) == q.finish = "cut" /\ j.text # <<>> /\ j.conts < MaxContinuations

AfterRound(r, j, q) ==
  LET asked == [i \in 1..q.calls |-> <<"call", r, j.used, i>>]
      final == Final(j)
      next  == [j EXCEPT !.used = @ + 1, !.closed = TRUE, !.cut = q.finish = "cut",
                         !.reported = q.reported]
  IN  CASE q.finish = "refused" -> [next EXCEPT !.pc = "finish"]
        [] q.finish # "refused" /\ q.calls > 0 /\ ~final ->
             [next EXCEPT !.pc = "tools", !.ran = TRUE, !.asked = asked,
                          !.parallel = q.parallel, !.said = @ \o j.text \o asked]
        [] q.finish # "refused" /\ (q.calls = 0 \/ final) ->
             IF ~final /\ Continues(j, q)
             THEN Flush([next EXCEPT !.conts = @ + 1, !.said = @ \o j.text],
                        "none", "check")
             ELSE IF Nudges(j, q) THEN Flush([next EXCEPT !.nudged = TRUE], "none", "check")
             ELSE [next EXCEPT !.pc = "finish"]

RoundEnds(r) ==
  /\ \/ job[r].pc = "arrived"
     \/ job[r].pc = "spoken" /\ ~job[r].cancel
  /\ \E q \in Replies(job[r]) : job' = [job EXCEPT ![r] = AfterRound(r, @, q)]
  /\ UNCHANGED <<rows, leaf, gone, lease, mishaps>>

(* The round's tools: one at a time, a stop looked for before each; or all *)
(* at once, a stop looked for before each result is taken.                 *)
CallTool(r) ==
  LET j == job[r] IN
  /\ j.pc = "tools" /\ ~j.cancel /\ Len(j.results) = Len(j.calls)
  /\ job' = [job EXCEPT ![r].calls =
               IF j.parallel THEN j.asked ELSE Append(@, j.asked[Len(@) + 1])]
  /\ UNCHANGED <<rows, leaf, gone, lease, mishaps>>

ToolReturns(r) ==
  LET j == job[r]
      call == j.calls[Len(j.results) + 1]
      returned == [j EXCEPT !.results = Append(@, call),
                            !.said = Append(@, <<"result", call>>)]
  IN  /\ j.pc = "tools" /\ Len(j.results) < Len(j.calls)
      /\ j.parallel => ~j.cancel
      /\ job' = [job EXCEPT ![r] =
           IF Len(returned.results) < Len(j.asked) THEN returned
           ELSE [returned EXCEPT !.pc = "check", !.asked = <<>>, !.parallel = FALSE]]
      /\ UNCHANGED <<rows, leaf, gone, lease, mishaps>>

ToolsStopped(r) ==
  LET j == job[r] IN
  /\ j.pc = "tools" /\ j.cancel
  /\ j.parallel \/ Len(j.results) = Len(j.calls)
  /\ job' = [job EXCEPT ![r] = Raise(@)]
  /\ UNCHANGED <<rows, leaf, gone, lease, mishaps>>

(* TurnDone: the last round is written.                                    *)
Finish(r) ==
  /\ job[r].pc = "finish"
  /\ job' = [job EXCEPT ![r] = [Flush(@, "none", "release") EXCEPT !.end = "answered"]]
  /\ UNCHANGED <<rows, leaf, gone, lease, mishaps>>

(* One row of a flush, under the turn's row before it.                     *)
Write(r) ==
  LET j == job[r]
      wrote == [j EXCEPT !.parent = Len(rows) + 1, !.todo = Tail(@)]
  IN  /\ j.pc = "write"
      /\ Append1(Head(j.todo), j.parent, r)
      /\ job' = [job EXCEPT ![r] =
                   IF Len(j.todo) > 1 THEN wrote
                   ELSE [Emptied(wrote) EXCEPT !.pc = j.then, !.then = "none"]]
      /\ UNCHANGED <<gone, lease, mishaps>>

(* A refused write (or a deleted session, 404) is one more error for the   *)
(* handlers, which write the buffered round again; in them it escapes and  *)
(* run() only logs it.                                                     *)
WriteFails(r) ==
  /\ job[r].pc = "write"
  /\ \/ gone /\ UNCHANGED mishaps
     \/ ~gone /\ Mishap
  /\ job' = [job EXCEPT ![r] = IF @.handling THEN Lost(@) ELSE Raise(@)]
  /\ UNCHANGED <<rows, leaf, gone, lease>>

(* run()'s finally, and _release of a branch, a deletion, a failed start.  *)
Release(r) ==
  /\ job[r].pc = "release"
  /\ lease' = IF lease = r THEN Nobody ELSE lease
  /\ job' = [job EXCEPT ![r] = Over]
  /\ UNCHANGED <<rows, leaf, gone, mishaps>>

-----------------------------------------------------------------------------
(* The reader closes the response, or the portal stops (stop_all_turns).   *)
Stop(r) ==
  /\ job[r].op \in Turns /\ job[r].pc \in Working /\ ~job[r].cancel /\ Mishap
  /\ job' = [job EXCEPT ![r].cancel = TRUE]
  /\ UNCHANGED <<rows, leaf, gone, lease>>

(* The process ends: its threads and its leases with it, not the rows.     *)
Crash ==
  /\ Mishap
  /\ lease' = Nobody
  /\ job' = [r \in Requests |->
               IF job[r].pc \in {"idle", "done"} THEN job[r]
               ELSE Over]
  /\ UNCHANGED <<rows, leaf, gone>>

Begin(r) ==
  \E op \in Ops[r], t \in 0..Len(rows) : Preflight(r, op, t)

Work(r) ==
  \/ Refused(r) \/ Acquire(r) \/ Ask(r) \/ AskFails(r) \/ Act(r)
  \/ MakeClient(r) \/ Load(r) \/ NextRound(r) \/ OverBudget(r) \/ Arrive(r) \/ Speak(r)
  \/ Retry(r) \/ StreamFails(r) \/ RoundEnds(r) \/ CallTool(r) \/ ToolReturns(r)
  \/ ToolsStopped(r) \/ Finish(r) \/ Write(r) \/ WriteFails(r)
  \/ Release(r)

Next == Crash \/ \E r \in Requests : Begin(r) \/ Work(r) \/ Stop(r)

Spec == Init /\ [][Next]_vars

-----------------------------------------------------------------------------
Jobs ==
  [pc : {"idle", "checked", "ask", "act", "done"} \cup Working,
   op : {"none", "branch", "delete"} \cup Turns,
   target : Nat, start : Nat, parent : Nat, cancel : BOOLEAN,
   attempt : {0, 1}, used : Nat, conts : Nat, nudged : BOOLEAN, ran : BOOLEAN,
   text : Seq(Words), calls : Seq(Calls), results : Seq(Calls),
   closed : BOOLEAN, reported : BOOLEAN, cut : BOOLEAN,
   asked : Seq(Calls), parallel : BOOLEAN,
   todo : Seq(Rows), then : {"none"} \cup Working, handling : BOOLEAN,
   said : Seq(Words \cup Calls \cup ({"result"} \X Calls)),
   end : {"none", "acted", "answered", "stopped", "failed", "budget", "lost"}]

TypeOK ==
  /\ rows \in Seq(Rows) /\ leaf \in 0..Len(rows) /\ gone \in BOOLEAN
  /\ \A i \in Ids : rows[i].parent < i
  /\ lease \in Requests \cup {Nobody} /\ mishaps \in 0..MaxMishaps
  /\ job \in [Requests -> Jobs]
  /\ \A r \in Requests : /\ job[r].parent <= Len(rows) \/ gone
                         /\ Len(job[r].results) <= Len(job[r].calls)

(***************************************************************************)
(* A turn has the session to itself: its rows are the newest, each under   *)
(* the one before it, and the session shows the last of them, whatever     *)
(* branches, deletions, stops and other requests try meanwhile.            *)
(***************************************************************************)
TurnsAreChains ==
  /\ TypeOK
  /\ \A i \in 2..Len(rows) :
       rows[i].turn # Nobody /\ (\E k \in 1..i - 1 : rows[k].turn = rows[i].turn)
         => rows[i - 1].turn = rows[i].turn /\ rows[i].parent = i - 1
  /\ \A r \in Requests :
       job[r].pc \in Working /\ (\E i \in Ids : rows[i].turn = r)
         => leaf = job[r].parent /\ leaf = Len(rows)

(***************************************************************************)
(* "The stored transcript has the shape the harness saw" (_turn_frames):   *)
(* before every provider call, the rows, loaded back the way the next turn *)
(* will, and the round still buffered say just what the running turn is    *)
(* about to send.                                                          *)
(***************************************************************************)
TranscriptIsConversation ==
  \A r \in Requests :
    LET j == job[r] IN
    j.pc \in {"check", "stream"} /\ ~gone =>
      Said(History(j.start)) \o j.said =
        Said(History(j.parent)) \o j.text \o j.calls
          \o [i \in DOMAIN j.results |-> <<"result", j.results[i]>>]

(***************************************************************************)
(* Whatever was stopped, failed, refused or crashed between two rows, the  *)
(* history the next turn sends a provider, whichever row it starts from,   *)
(* has every call answered at once, no result without its call and no      *)
(* empty reply, and it leaves no written text and no written result out.   *)
(***************************************************************************)
Sendable(h) ==
  \A i \in DOMAIN h :
    LET results == {k \in i + 1..Len(h) : \A m \in i + 1..k : h[m].role = "tool"}
    IN  /\ h[i].role = "assistant" =>
             /\ h[i].text # <<>> \/ h[i].calls # <<>>
             /\ {h[k].call : k \in results} = Range(h[i].calls)
        /\ h[i].role = "tool" => i > 1 /\ h[i - 1].role # "user"

SendableHistory ==
  lease = Nobody =>
    \A id \in {i \in Ids : rows[i].role = "user" \/ i = ActiveLeaf} :
      LET h == History(id)
          said == Range(Said(h))
      IN  /\ Sendable(h)
          /\ \A i \in Range(PathTo(id)) :
               rows[i].error # "budget" =>
                 /\ Range(rows[i].text) \subseteq said
                 /\ rows[i].role = "tool" => <<"result", rows[i].call>> \in said

(***************************************************************************)
(* A refresh shows why a turn ended: one that was stopped, failed or ran   *)
(* over a budget leaves a row that says so on the path the session shows,  *)
(* even when nothing arrived.                                              *)
(***************************************************************************)
EndingsShown ==
  \A r \in Requests :
    job[r].pc = "release" /\ job[r].end \in {"stopped", "failed", "budget"} /\ ~gone =>
      \E i \in Range(PathTo(ActiveLeaf)) :
        rows[i].turn = r /\ rows[i].error = job[r].end

(***************************************************************************)
(* The session is held by exactly the request that works on it: every way  *)
(* out of a turn (an answer, a stop, a failure in a handler, a 404) gives  *)
(* it back, and the harness's loop leaves by its own limits, at most two   *)
(* rounds (the answer round, one nudge) after max_tool_rounds.             *)
(***************************************************************************)
LeaseIsHeld ==
  \A r \in Requests :
    /\ lease = r <=> job[r].pc \in Working \cup {"ask", "act"}
    /\ job[r].used <= MaxToolRounds + 2
=============================================================================
