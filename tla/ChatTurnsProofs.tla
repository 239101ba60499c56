-------------------------- MODULE ChatTurnsProofs ---------------------------
(***************************************************************************)
(* What is proved of ChatTurns for any requests, seed rows, round limits   *)
(* and number of mishaps: the lease, the rows of a turn, how its end is    *)
(* shown, and what the rows say to the next turn.                          *)
(*                                                                         *)
(* The first inductive invariant is ChatInv.  Fit says what a turn's own   *)
(* variables are good for (a buffered round is closed before it has calls, *)
(* rows are only written on the way to a stage that may follow a flush, no *)
(* round begins above the limits), and holds through every step of the     *)
(* worker that writes no row (Mild).  Leased ties the lease to the one     *)
(* request whose program counter may work, so that whatever a turn knows   *)
(* of the rows (Newest: none of its own before it asks, then the last of   *)
(* all) is disturbed by nobody else.  Chained and Endings are what the     *)
(* rows keep of it.                                                        *)
(*                                                                         *)
(* The second is Conversed, of two parts.  ToolsFollow: every result row   *)
(* is in one unbroken chain under the reply that made its call, so that    *)
(* merging and sanitizing a path (Merged, Sanitized) leave nothing written *)
(* out (HistoryIsSendable).  Conversing: of every turn, what it has said   *)
(* is what its rows say beyond those it began with, and the buffered round *)
(* (Settled); between two rows of a flush the same holds of the rows       *)
(* before its reply, and the rest of the round is still to be written      *)
(* (HalfWritten).                                                          *)
(***************************************************************************)
EXTENDS ChatTurns, NaturalsInduction, WellFoundedInduction, SequenceTheorems, TLAPS

-----------------------------------------------------------------------------
(* A turn's own variables.                                                 *)

Places == {"idle", "checked", "ask", "act", "done"} \cup Working
Ends == {"stopped", "failed", "budget"}
Looping == {"client", "load", "check", "tools"} \cup Streaming

At(j) == IF j.pc = "write" THEN j.then ELSE j.pc

SamePlace(j, k) == k.op = j.op /\ k.target = j.target /\ k.parent = j.parent
SameRounds(j, k) == k.used = j.used /\ k.nudged = j.nudged
SameBuffer(j, k) ==
  k.calls = j.calls /\ k.results = j.results /\ k.closed = j.closed /\ k.asked = j.asked

MayLoop(j) == j.used <= MaxToolRounds \/ (j.used = MaxToolRounds + 1 /\ j.nudged)

(* What a turn's variables are good for.                                   *)
Fit(j) ==
  /\ j.used <= MaxToolRounds + 2
  /\ At(j) \in Looping => MayLoop(j)
  /\ j.pc = "write" => /\ j.todo # <<>>
                       /\ j.then \in {"check", "stream", "arrived", "overbudget", "release"}
  /\ Len(j.results) <= Len(j.calls)
  /\ ~j.closed \/ j.pc \in {"arrived", "spoken"} => j.calls = <<>>
  /\ j.pc = "tools" => j.closed /\ Len(j.results) < Len(j.asked) /\ Len(j.calls) <= Len(j.asked)
  /\ j.pc \in {"idle", "checked", "ask"} => MayLoop(j)
  /\ j.pc = "checked" => j.op # "none"
  /\ j.pc = "ask" => j.op \in {"send", "edit"}
  /\ j.pc = "act" => j.op \in {"branch", "delete"}
  /\ j.op \in {"edit", "branch"} => j.target > 0
  /\ j.end \in Ends => j.pc \in {"write", "release"} /\ At(j) = "release"

Moved(j, v) == [j EXCEPT !.pc = v]

LEMMA MovedJob ==
  ASSUME NEW j \in Jobs, NEW v \in Places
  PROVE  LET k == Moved(j, v)
         IN  /\ k \in Jobs /\ k.pc = v /\ SamePlace(j, k) /\ SameRounds(j, k)
             /\ SameBuffer(j, k) /\ k.end = j.end /\ k.cancel = j.cancel
<1> DEFINE k == Moved(j, v)
<1>1. k \in Jobs
  BY ZenonT(60) DEF Jobs, Places, Moved
<1>2. /\ k.pc = v /\ SamePlace(j, k) /\ SameRounds(j, k) /\ SameBuffer(j, k)
      /\ k.end = j.end /\ k.cancel = j.cancel
  BY DEF Jobs, SamePlace, SameRounds, SameBuffer, Moved
<1> QED BY <1>1, <1>2

LEMMA FlaggedJob ==
  ASSUME NEW j \in Jobs, NEW a \in BOOLEAN, NEW b \in BOOLEAN
  PROVE  [j EXCEPT !.closed = a, !.reported = b] \in Jobs
  BY ZenonT(60) DEF Jobs

LEMMA CutJob ==
  ASSUME NEW j \in Jobs, NEW a \in BOOLEAN PROVE [j EXCEPT !.cut = a] \in Jobs
  BY ZenonT(60) DEF Jobs

LEMMA EmptiedJob ==
  ASSUME NEW j \in Jobs
  PROVE  LET k == Emptied(j)
         IN  /\ k \in Jobs /\ SamePlace(j, k) /\ SameRounds(j, k)
             /\ k.calls = <<>> /\ k.results = <<>> /\ k.closed = FALSE /\ k.asked = j.asked
             /\ k.pc = j.pc /\ k.then = j.then /\ k.todo = j.todo /\ k.end = j.end
<1> DEFINE l == [j EXCEPT !.text = <<>>, !.calls = <<>>, !.results = <<>>]
           m == [l EXCEPT !.closed = FALSE, !.reported = FALSE]
           k == [m EXCEPT !.cut = FALSE]
<1>1. <<>> \in Seq(Words) /\ <<>> \in Seq(Calls) /\ FALSE \in BOOLEAN
  OBVIOUS
<1>2. l \in Jobs
  BY <1>1, ZenonT(60) DEF Jobs
<1> HIDE DEF l
<1>3. m \in Jobs
  BY <1>2, FlaggedJob
<1> HIDE DEF m
<1>4. k \in Jobs
  BY <1>3, CutJob
<1>6. Emptied(j) = k
  BY DEF l, m, Emptied
<1>5. /\ SamePlace(j, k) /\ SameRounds(j, k)
      /\ k.calls = <<>> /\ k.results = <<>> /\ k.closed = FALSE /\ k.asked = j.asked
      /\ k.pc = j.pc /\ k.then = j.then /\ k.todo = j.todo /\ k.end = j.end
  BY DEF Jobs, l, m, SamePlace, SameRounds
<1> HIDE DEF k
<1> QED BY <1>4, <1>5, <1>6

LEMMA RowType ==
  ASSUME NEW role \in {"user", "assistant", "tool"}, NEW turn \in Speakers
  PROVE  Row(role, 0, turn) \in Rows
<1>1. /\ <<>> \in Seq(Words) /\ <<>> \in Seq(Calls)
      /\ 0 \in Nat /\ <<>> \in Calls \cup {<<>>} /\ "none" \in {"none", "stopped", "failed", "budget"}
  OBVIOUS
<1> QED BY <1>1 DEF Row, Rows

ReplyRow(t, c, e, cut) ==
  [Row("assistant", 0, Nobody) EXCEPT !.text = t, !.calls = c, !.error = e, !.cut = cut]

LEMMA ReplyType ==
  ASSUME NEW t \in Seq(Words), NEW c \in Seq(Calls),
         NEW e \in {"none", "stopped", "failed", "budget"}, NEW cut \in BOOLEAN
  PROVE  ReplyRow(t, c, e, cut) \in Rows /\ ReplyRow(t, c, e, cut).error = e
<1> DEFINE row == Row("assistant", 0, Nobody)
           y == [row EXCEPT !.text = t, !.calls = c]
           z == [y EXCEPT !.error = e]
           x == [z EXCEPT !.cut = cut]
<1>0. row \in Rows
  BY RowType DEF Speakers
<1> HIDE DEF row
<1>1. y \in Rows
  BY <1>0, ZenonT(60) DEF Rows
<1> HIDE DEF y
<1>2. z \in Rows
  BY <1>1, ZenonT(60) DEF Rows
<1>3. z.error = e
  BY <1>1 DEF Rows
<1> HIDE DEF z
<1>4. x \in Rows
  BY <1>2, ZenonT(60) DEF Rows
<1>5. x.error = e
  BY <1>2, <1>3 DEF Rows
<1> HIDE DEF x
<1>6. ReplyRow(t, c, e, cut) = x
  BY DEF x, y, z, row, ReplyRow
<1> QED BY <1>4, <1>5, <1>6

LEMMA ResultType ==
  ASSUME NEW c \in Calls
  PROVE  [Row("tool", 0, Nobody) EXCEPT !.call = c] \in Rows
<1> DEFINE row == Row("tool", 0, Nobody)
<1>1. row \in Rows /\ c \in Calls \cup {<<>>}
  BY RowType DEF Speakers
<1> HIDE DEF row
<1>2. [row EXCEPT !.call = c] \in Rows
  BY <1>1, ZenonT(60) DEF Rows
<1> QED BY <1>2 DEF row

(* A round's rows: its reply, which says how it ended, and its results.    *)
LEMMA RoundRowsType ==
  ASSUME NEW j \in Jobs, NEW error \in {"none", "stopped", "failed", "budget"}
  PROVE  /\ RoundRows(j, error) \in Seq(Rows)
         /\ RoundRows(j, error) # <<>> => Head(RoundRows(j, error)).error = error
         /\ error # "none" => RoundRows(j, error) # <<>>
<1> DEFINE reply == ReplyRow(j.text, j.calls, error, j.closed /\ j.cut)
           tool(c) == [Row("tool", 0, Nobody) EXCEPT !.call = c]
           tools == [i \in DOMAIN j.results |-> tool(j.results[i])]
<1>1. /\ j.text \in Seq(Words) /\ j.calls \in Seq(Calls) /\ j.results \in Seq(Calls)
      /\ (j.closed /\ j.cut) \in BOOLEAN
  BY DEF Jobs
<1>3. reply \in Rows /\ reply.error = error
  <2> DEFINE f == j.closed /\ j.cut
  <2>1. f \in BOOLEAN
    BY <1>1
  <2> HIDE DEF f
  <2>2. LET x == ReplyRow(j.text, j.calls, error, f) IN x \in Rows /\ x.error = error
    BY <1>1, <2>1, ReplyType
  <2> QED BY <2>2 DEF f
<1>4. ASSUME NEW c \in Calls PROVE tool(c) \in Rows
  BY ResultType
<1> HIDE DEF tool, reply
<1>5. tools \in Seq(Rows)
  BY <1>1, <1>4
<1>6. RoundRows(j, error) = <<>> \/ RoundRows(j, error) = <<reply>> \o tools
  BY DEF RoundRows, reply, tool, ReplyRow
<1>7. error # "none" => RoundRows(j, error) = <<reply>> \o tools
  BY DEF RoundRows, reply, tool, ReplyRow
<1> HIDE DEF tools
<1> DEFINE all == <<reply>> \o tools
<1>8. all \in Seq(Rows) /\ all # <<>> /\ Head(all) = reply
  BY <1>3, <1>5
<1>9. (RoundRows(j, error) = <<>> \/ RoundRows(j, error) = all)
      /\ (error # "none" => RoundRows(j, error) = all)
  BY <1>6, <1>7
<1>10. <<>> \in Seq(Rows)
  OBVIOUS
<1> HIDE DEF all
<1> QED BY <1>3, <1>8, <1>9, <1>10

-----------------------------------------------------------------------------
(* What a flush leaves: the rows still to be written, or nothing buffered. *)

Errors == {"none", "stopped", "failed", "budget"}
Stages == {"check", "stream", "arrived", "overbudget", "release"}
Writing(j, todo, then) == [j EXCEPT !.pc = "write", !.todo = todo, !.then = then]

Flushed(j, k, error, then) ==
  /\ SamePlace(j, k) /\ SameRounds(j, k) /\ k.end = j.end
  /\ \/ /\ k.pc = "write" /\ k.then = then /\ SameBuffer(j, k)
        /\ k.todo # <<>> /\ Head(k.todo).error = error
     \/ /\ error = "none" /\ k.pc = then /\ k.asked = j.asked
        /\ k.calls = <<>> /\ k.results = <<>> /\ k.closed = FALSE

LEMMA WritingJob ==
  ASSUME NEW j \in Jobs, NEW todo \in Seq(Rows), NEW then \in {"none"} \cup Working
  PROVE  LET k == Writing(j, todo, then)
         IN  /\ k \in Jobs /\ SamePlace(j, k) /\ SameRounds(j, k) /\ SameBuffer(j, k)
             /\ k.pc = "write" /\ k.todo = todo /\ k.then = then /\ k.end = j.end
<1> DEFINE l == Moved(j, "write")
           k == [l EXCEPT !.todo = todo, !.then = then]
<1>1. "write" \in Places
  BY DEF Places, Working
<1>2. /\ l \in Jobs /\ SamePlace(j, l) /\ SameRounds(j, l) /\ SameBuffer(j, l)
      /\ l.pc = "write" /\ l.end = j.end
  BY <1>1, MovedJob
<1> HIDE DEF l
<1>3. k \in Jobs
  BY <1>2, ZenonT(60) DEF Jobs
<1>4. /\ SamePlace(j, k) /\ SameRounds(j, k) /\ SameBuffer(j, k)
      /\ k.pc = "write" /\ k.todo = todo /\ k.then = then /\ k.end = j.end
  BY <1>2 DEF Jobs, SamePlace, SameRounds, SameBuffer
<1>5. Writing(j, todo, then) = k
  BY DEF Writing, l, Moved
<1> HIDE DEF k
<1> QED BY <1>3, <1>4, <1>5

LEMMA FlushJob ==
  ASSUME NEW j \in Jobs, NEW error \in Errors, NEW then \in Stages
  PROVE  Flush(j, error, then) \in Jobs /\ Flushed(j, Flush(j, error, then), error, then)
<1> DEFINE k == Flush(j, error, then)
           all == RoundRows(j, error)
<1>1. then \in Places /\ then \in {"none"} \cup Working /\ error \in {"none", "stopped", "failed", "budget"}
  BY DEF Stages, Places, Working, Streaming, Errors
<1>2. /\ all \in Seq(Rows)
      /\ all # <<>> => Head(all).error = error
      /\ error # "none" => all # <<>>
  BY <1>1, RoundRowsType
<1>3. CASE all = <<>>
  <2> DEFINE l == Emptied(j)
  <2>1. k = Moved(l, then)
    BY <1>3 DEF Flush, Moved
  <2>2. /\ l \in Jobs /\ SamePlace(j, l) /\ SameRounds(j, l) /\ l.end = j.end
        /\ l.calls = <<>> /\ l.results = <<>> /\ l.closed = FALSE /\ l.asked = j.asked
    BY EmptiedJob
  <2> HIDE DEF l
  <2>3. LET m == Moved(l, then)
        IN  /\ m \in Jobs /\ m.pc = then /\ SamePlace(l, m) /\ SameRounds(l, m)
            /\ SameBuffer(l, m) /\ m.end = l.end
    BY <1>1, <2>2, MovedJob
  <2> DEFINE m == Moved(l, then)
  <2>4. /\ m \in Jobs /\ m.pc = then /\ SamePlace(l, m) /\ SameRounds(l, m)
        /\ SameBuffer(l, m) /\ m.end = l.end
    BY <2>3
  <2> HIDE DEF m
  <2>5. m \in Jobs /\ Flushed(j, m, error, then)
    BY <1>2, <1>3, <2>2, <2>4 DEF Flushed, SamePlace, SameRounds, SameBuffer
  <2> QED BY <2>1, <2>5 DEF m
<1>4. CASE all # <<>>
  <2>1. k = Writing(j, all, then)
    BY <1>4 DEF Flush, Writing
  <2> HIDE DEF all
  <2> DEFINE m == Writing(j, all, then)
  <2>2. /\ m \in Jobs /\ SamePlace(j, m) /\ SameRounds(j, m) /\ SameBuffer(j, m)
        /\ m.pc = "write" /\ m.todo = all /\ m.then = then /\ m.end = j.end
    BY <1>1, <1>2, WritingJob
  <2> HIDE DEF m
  <2>3. m \in Jobs /\ Flushed(j, m, error, then)
    BY <1>2, <1>4, <2>2 DEF Flushed
  <2> QED BY <2>1, <2>3 DEF m
<1> QED BY <1>3, <1>4

-----------------------------------------------------------------------------
(* What the worker's steps keep of a turn, and what they may change.       *)

Sound(j) ==
  /\ j.used <= MaxToolRounds + 2
  /\ Len(j.results) <= Len(j.calls)
  /\ ~j.closed => j.calls = <<>>
  /\ j.op \in {"edit", "branch"} => j.target > 0

Told(j, k) ==
  k.end \in Ends =>
    \/ k.end = j.end /\ k.pc = j.pc /\ k.then = j.then /\ k.todo = j.todo
    \/ k.pc = "write" /\ k.todo # <<>> /\ Head(k.todo).error = k.end

Mild(j, k) == /\ k \in Jobs /\ Fit(k) /\ k.pc \in Working
              /\ SamePlace(j, k) /\ Told(j, k)

Signed(j, how) == [j EXCEPT !.handling = TRUE, !.end = how]

LEMMA FlushFits ==
  ASSUME NEW j \in Jobs, NEW error \in Errors, NEW then \in Stages,
         Sound(j), j.end \notin Ends, then \in Looping => MayLoop(j)
  PROVE  Mild(j, Flush(j, error, then))
<1> DEFINE k == Flush(j, error, then)
<1>1. k \in Jobs /\ Flushed(j, k, error, then)
  BY FlushJob
<1> HIDE DEF k
<1>2. then # "write" /\ then # "tools" /\ then # "ask" /\ then # "act" /\ then # "spoken"
      /\ then # "idle" /\ then # "checked"
      /\ then \in Working
  BY DEF Stages, Working, Streaming
<1>3. k.pc \in Working /\ At(k) = then /\ k.end = j.end
  BY <1>1, <1>2 DEF Flushed, At, Working
<1>4. Fit(k)
  <2>1. k.used <= MaxToolRounds + 2 /\ (At(k) \in Looping => MayLoop(k))
        /\ (k.op \in {"edit", "branch"} => k.target > 0)
    BY <1>1, <1>3 DEF Flushed, SamePlace, SameRounds, Sound, MayLoop
  <2>2. k.pc = "write" => k.todo # <<>> /\ k.then \in Stages
    BY <1>1, <1>2 DEF Flushed
  <2>3. /\ Len(k.results) <= Len(k.calls)
        /\ ~k.closed \/ k.pc \in {"arrived", "spoken"} => k.calls = <<>>
    BY <1>1, <1>2 DEF Flushed, SameBuffer, Sound
  <2>4. k.pc # "tools" /\ k.pc # "ask" /\ k.pc # "act" /\ k.pc # "idle" /\ k.pc # "checked"
    BY <1>1, <1>2 DEF Flushed
  <2> QED BY <1>3, <2>1, <2>2, <2>3, <2>4 DEF Fit, MayLoop, Stages
<1> QED BY <1>1, <1>3, <1>4 DEF Mild, Told, Flushed, k

LEMMA HandlingJob ==
  ASSUME NEW j \in Jobs, NEW b \in BOOLEAN PROVE [j EXCEPT !.handling = b] \in Jobs
  BY ZenonT(60) DEF Jobs

LEMMA EndJob ==
  ASSUME NEW j \in Jobs,
         NEW e \in {"none", "acted", "answered", "stopped", "failed", "budget", "lost"}
  PROVE  [j EXCEPT !.end = e] \in Jobs
  BY ZenonT(60) DEF Jobs

LEMMA SignedJob ==
  ASSUME NEW j \in Jobs, NEW how \in Ends
  PROVE  LET k == Signed(j, how)
         IN  /\ k \in Jobs /\ SamePlace(j, k) /\ SameRounds(j, k) /\ SameBuffer(j, k)
             /\ k.pc = j.pc /\ k.then = j.then /\ k.todo = j.todo /\ k.end = how
<1> DEFINE k == Signed(j, how)
<1>1. how \in {"none", "acted", "answered", "stopped", "failed", "budget", "lost"} /\ TRUE \in BOOLEAN
  BY DEF Ends
<1>2. [j EXCEPT !.end = how] \in Jobs
  BY <1>1, EndJob
<1> DEFINE l == [j EXCEPT !.end = how]
<1>5. Signed(j, how) = [l EXCEPT !.handling = TRUE]
  BY DEF Signed
<1> HIDE DEF l
<1>6. [l EXCEPT !.handling = TRUE] \in Jobs
  BY <1>1, <1>2, HandlingJob DEF l
<1>3. k \in Jobs
  BY <1>5, <1>6
<1>4. /\ SamePlace(j, k) /\ SameRounds(j, k) /\ SameBuffer(j, k)
      /\ k.pc = j.pc /\ k.then = j.then /\ k.todo = j.todo /\ k.end = how
  BY DEF Jobs, SamePlace, SameRounds, SameBuffer, Signed
<1> QED BY <1>3, <1>4

LEMMA FailFits ==
  ASSUME NEW j \in Jobs, NEW how \in Ends, Sound(j)
  PROVE  Mild(j, Fail(j, how))
<1> DEFINE l == Flush(j, how, "release")
           k == Signed(l, how)
<1>1. how \in Errors /\ how # "none" /\ "release" \in Stages
  BY DEF Ends, Errors, Stages
<1>2. l \in Jobs /\ Flushed(j, l, how, "release")
  BY <1>1, FlushJob
<1>3. Fail(j, how) = k
  BY DEF Fail, Signed
<1> HIDE DEF l
<1>4. /\ k \in Jobs /\ SamePlace(l, k) /\ SameRounds(l, k) /\ SameBuffer(l, k)
      /\ k.pc = l.pc /\ k.then = l.then /\ k.todo = l.todo /\ k.end = how
  BY <1>2, SignedJob
<1> HIDE DEF k
<1>5. /\ k.pc = "write" /\ k.then = "release" /\ k.todo # <<>> /\ Head(k.todo).error = how
      /\ At(k) = "release"
  BY <1>1, <1>2, <1>4 DEF Flushed, At
<1>6. Fit(k)
  BY <1>2, <1>4, <1>5 DEF Flushed, SamePlace, SameRounds, SameBuffer, Sound, Fit, Looping, Streaming
<1>7. SamePlace(j, k) /\ k.pc \in Working
  BY <1>2, <1>4, <1>5 DEF Flushed, SamePlace, Working
<1> QED BY <1>3, <1>4, <1>5, <1>6, <1>7 DEF Mild, Told

LEMMA RaiseFits ==
  ASSUME NEW j \in Jobs, Sound(j) PROVE Mild(j, Raise(j))
<1>1. Mild(j, Fail(j, "stopped")) /\ Mild(j, Fail(j, "failed"))
  BY FailFits DEF Ends
<1> QED BY <1>1 DEF Raise

LEMMA LostFits ==
  ASSUME NEW j \in Jobs, Sound(j) PROVE Mild(j, Lost(j))
<1> DEFINE k == Lost(j)
<1>1. "release" \in Places /\ "lost" \in {"none", "acted", "answered", "stopped", "failed", "budget", "lost"}
  BY DEF Places, Working
<1>2. ASSUME NEW v \in Places, NEW e \in {"none", "acted", "answered", "stopped", "failed", "budget", "lost"}
      PROVE  [j EXCEPT !.pc = v, !.end = e] \in Jobs
  BY ZenonT(60) DEF Jobs, Places
<1>3. k \in Jobs
  BY <1>1, <1>2 DEF Lost
<1>4. /\ SamePlace(j, k) /\ SameRounds(j, k) /\ SameBuffer(j, k) /\ k.pc = "release" /\ k.end = "lost"
  BY DEF Jobs, SamePlace, SameRounds, SameBuffer, Lost
<1> HIDE DEF k
<1>5. Fit(k) /\ k.pc \in Working
  BY <1>3, <1>4 DEF Fit, At, Sound, SamePlace, SameRounds, SameBuffer, Looping, Streaming, Ends, Working
<1> QED BY <1>3, <1>4, <1>5 DEF Mild, Told, Ends, k

LEMMA FitIsSound == ASSUME NEW j, Fit(j) PROVE Sound(j)
  BY DEF Fit, Sound

LEMMA MoveFits ==
  ASSUME NEW j \in Jobs, Fit(j), MayLoop(j), j.end \notin Ends, NEW v \in Looping,
         v # "tools", v \in {"arrived", "spoken"} => j.calls = <<>>
  PROVE  Mild(j, Moved(j, v))
<1> DEFINE k == Moved(j, v)
<1>1. v \in Places /\ v \in Working /\ v # "write" /\ v # "ask" /\ v # "act"
      /\ v # "idle" /\ v # "checked"
  BY DEF Looping, Places, Working, Streaming
<1>2. /\ k \in Jobs /\ k.pc = v /\ SamePlace(j, k) /\ SameRounds(j, k)
      /\ SameBuffer(j, k) /\ k.end = j.end
  BY <1>1, MovedJob
<1> HIDE DEF k
<1>3. Fit(k)
  BY <1>1, <1>2 DEF Fit, At, SamePlace, SameRounds, SameBuffer, MayLoop
<1> QED BY <1>1, <1>2, <1>3 DEF Mild, Told, k

(* A field that no guard of the others reads.                              *)
Tried(j, a) == [j EXCEPT !.attempt = a]
Stopped(j, c) == [j EXCEPT !.cancel = c]
Heard(j, t) == [j EXCEPT !.pc = "spoken", !.text = t]

SameRest(j, k) ==
  /\ SamePlace(j, k) /\ SameRounds(j, k) /\ SameBuffer(j, k)
  /\ k.end = j.end /\ k.then = j.then /\ k.todo = j.todo

LEMMA TriedJob ==
  ASSUME NEW j \in Jobs, NEW a \in {0, 1}
  PROVE  LET k == Tried(j, a) IN k \in Jobs /\ SameRest(j, k) /\ k.pc = j.pc
<1> DEFINE k == Tried(j, a)
<1>1. k \in Jobs
  BY ZenonT(60) DEF Jobs, Tried
<1>2. SameRest(j, k) /\ k.pc = j.pc
  BY DEF Jobs, Tried, SameRest, SamePlace, SameRounds, SameBuffer
<1> QED BY <1>1, <1>2

LEMMA StoppedJob ==
  ASSUME NEW j \in Jobs, NEW c \in BOOLEAN
  PROVE  LET k == Stopped(j, c) IN k \in Jobs /\ SameRest(j, k) /\ k.pc = j.pc
<1> DEFINE k == Stopped(j, c)
<1>1. k \in Jobs
  BY ZenonT(60) DEF Jobs, Stopped
<1>2. SameRest(j, k) /\ k.pc = j.pc
  BY DEF Jobs, Stopped, SameRest, SamePlace, SameRounds, SameBuffer
<1> QED BY <1>1, <1>2

LEMMA RestFits ==
  ASSUME NEW j \in Jobs, Fit(j), NEW k \in Jobs, SameRest(j, k), k.pc = j.pc, j.pc \in Working
  PROVE  Mild(j, k)
<1>1. Fit(k)
  BY DEF Fit, At, SameRest, SamePlace, SameRounds, SameBuffer, MayLoop
<1> QED BY <1>1 DEF Mild, Told, SameRest

LEMMA MildThen ==
  ASSUME NEW j, NEW k, Mild(j, k), NEW l, Mild(k, l), k.end \notin Ends
  PROVE  Mild(j, l)
  BY DEF Mild, Told, SamePlace

LEMMA HeardFits ==
  ASSUME NEW j \in Jobs, Fit(j), j.pc = "arrived", NEW t \in Seq(Words)
  PROVE  Mild(j, Heard(j, t))
<1> DEFINE k == Heard(j, t)
<1>1. k \in Jobs
  <2>1. "spoken" \in Places
    BY DEF Places, Working, Streaming
  <2>2. ASSUME NEW v \in Places PROVE [j EXCEPT !.pc = v, !.text = t] \in Jobs
    BY ZenonT(60) DEF Jobs, Places
  <2> QED BY <2>1, <2>2 DEF Heard
<1>2. SameRest(j, k) /\ k.pc = "spoken"
  BY DEF Jobs, Heard, SameRest, SamePlace, SameRounds, SameBuffer
<1> HIDE DEF k
<1>3. Fit(k) /\ j.end \notin Ends /\ k.pc \in Working
  BY <1>2 DEF Fit, At, SameRest, SamePlace, SameRounds, SameBuffer, MayLoop, Looping, Streaming, Working
<1> QED BY <1>1, <1>2, <1>3 DEF Mild, Told, SameRest, k

LEMMA NoticeFits ==
  ASSUME NEW j \in Jobs, Fit(j), NEW todo \in Seq(Rows), todo # <<>>, Head(todo).error = "budget"
  PROVE  Mild(j, [Writing(j, todo, "release") EXCEPT !.end = "budget"])
<1> DEFINE l == Writing(j, todo, "release")
           k == [l EXCEPT !.end = "budget"]
<1>1. /\ "release" \in {"none"} \cup Working
      /\ "budget" \in {"none", "acted", "answered", "stopped", "failed", "budget", "lost"}
  BY DEF Working
<1>2. /\ l \in Jobs /\ SamePlace(j, l) /\ SameRounds(j, l) /\ SameBuffer(j, l)
      /\ l.pc = "write" /\ l.todo = todo /\ l.then = "release"
  BY <1>1, WritingJob
<1> HIDE DEF l
<1>3. ASSUME NEW e \in {"none", "acted", "answered", "stopped", "failed", "budget", "lost"}
      PROVE  [l EXCEPT !.end = e] \in Jobs
  BY <1>2, ZenonT(60) DEF Jobs
<1>4. k \in Jobs
  BY <1>1, <1>3
<1>5. /\ SamePlace(j, k) /\ SameRounds(j, k) /\ SameBuffer(j, k)
      /\ k.pc = "write" /\ k.todo = todo /\ k.then = "release" /\ k.end = "budget"
  BY <1>2 DEF Jobs, SamePlace, SameRounds, SameBuffer
<1> HIDE DEF k
<1>6. Fit(k) /\ k.pc \in Working
  BY <1>5 DEF Fit, At, SamePlace, SameRounds, SameBuffer, Looping, Streaming, Working
<1>7. Mild(j, k)
  BY <1>4, <1>5, <1>6 DEF Mild, Told
<1> QED BY <1>7 DEF k, l

-----------------------------------------------------------------------------
(* A round's end, the tools, the turn's end.                               *)

Sayings == Words \cup Calls \cup ({"result"} \X Calls)
Closed(j, c, b) == [j EXCEPT !.used = @ + 1, !.closed = TRUE, !.cut = c, !.reported = b]
Continued(j, s) == [j EXCEPT !.conts = @ + 1, !.said = s]
Nudged(j) == [j EXCEPT !.nudged = TRUE]
Asking(j, asked, p, s) ==
  [j EXCEPT !.pc = "tools", !.ran = TRUE, !.asked = asked, !.parallel = p, !.said = s]

LEMMA ClosedJob ==
  ASSUME NEW j \in Jobs, NEW c \in BOOLEAN, NEW b \in BOOLEAN
  PROVE  LET k == Closed(j, c, b)
         IN  /\ k \in Jobs /\ SamePlace(j, k) /\ k.used = j.used + 1 /\ k.nudged = j.nudged
             /\ k.calls = j.calls /\ k.results = j.results /\ k.asked = j.asked /\ k.closed = TRUE
             /\ k.end = j.end /\ k.pc = j.pc /\ k.said = j.said
<1> DEFINE l == [j EXCEPT !.cut = c]
           m == [l EXCEPT !.closed = TRUE, !.reported = b]
           k == [m EXCEPT !.used = j.used + 1]
<1>1. l \in Jobs
  BY ZenonT(60) DEF Jobs
<1>2. /\ SamePlace(j, l) /\ l.used = j.used /\ l.nudged = j.nudged
      /\ l.calls = j.calls /\ l.results = j.results /\ l.asked = j.asked
      /\ l.end = j.end /\ l.pc = j.pc /\ l.said = j.said
  BY DEF Jobs, SamePlace
<1> HIDE DEF l
<1>3. m \in Jobs
  <2>1. TRUE \in BOOLEAN
    OBVIOUS
  <2> QED BY <1>1, <2>1, FlaggedJob
<1>4. /\ SamePlace(j, m) /\ m.used = j.used /\ m.nudged = j.nudged
      /\ m.calls = j.calls /\ m.results = j.results /\ m.asked = j.asked /\ m.closed = TRUE
      /\ m.end = j.end /\ m.pc = j.pc /\ m.said = j.said
  BY <1>1, <1>2 DEF Jobs, SamePlace
<1> HIDE DEF m
<1>5. j.used + 1 \in Nat
  BY DEF Jobs
<1>6. k \in Jobs
  BY <1>3, <1>5, ZenonT(60) DEF Jobs
<1>7. /\ SamePlace(j, k) /\ k.used = j.used + 1 /\ k.nudged = j.nudged
      /\ k.calls = j.calls /\ k.results = j.results /\ k.asked = j.asked /\ k.closed = TRUE
      /\ k.end = j.end /\ k.pc = j.pc /\ k.said = j.said
  BY <1>3, <1>4 DEF Jobs, SamePlace
<1>8. Closed(j, c, b) = k
  BY DEF k, l, m, Closed
<1> HIDE DEF k
<1> QED BY <1>6, <1>7, <1>8

LEMMA ContinuedJob ==
  ASSUME NEW j \in Jobs, NEW s \in Seq(Sayings)
  PROVE  LET k == Continued(j, s)
         IN  k \in Jobs /\ SameRest(j, k) /\ k.pc = j.pc
<1> DEFINE n == j.conts + 1
           k == [j EXCEPT !.conts = n, !.said = s]
<1>1. n \in Nat
  BY DEF Jobs
<1> HIDE DEF n
<1>2. k \in Jobs
  BY <1>1, ZenonT(60) DEF Jobs, Sayings
<1>3. SameRest(j, k) /\ k.pc = j.pc
  BY DEF Jobs, SameRest, SamePlace, SameRounds, SameBuffer
<1>4. Continued(j, s) = k
  BY DEF Continued, n
<1> HIDE DEF k
<1> QED BY <1>2, <1>3, <1>4

LEMMA NudgedJob ==
  ASSUME NEW j \in Jobs
  PROVE  LET k == Nudged(j)
         IN  /\ k \in Jobs /\ SamePlace(j, k) /\ SameBuffer(j, k) /\ k.used = j.used /\ k.nudged = TRUE
             /\ k.end = j.end /\ k.pc = j.pc
<1> DEFINE k == Nudged(j)
<1>1. ASSUME NEW f \in BOOLEAN PROVE [j EXCEPT !.nudged = f] \in Jobs
  BY ZenonT(60) DEF Jobs
<1>2. k \in Jobs
  BY <1>1 DEF Nudged
<1>3. /\ SamePlace(j, k) /\ SameBuffer(j, k) /\ k.used = j.used /\ k.nudged = TRUE
      /\ k.end = j.end /\ k.pc = j.pc
  BY DEF Jobs, Nudged, SamePlace, SameBuffer
<1> QED BY <1>2, <1>3

LEMMA RanJob ==
  ASSUME NEW j \in Jobs, NEW f \in BOOLEAN PROVE [j EXCEPT !.ran = f] \in Jobs
  BY ZenonT(60) DEF Jobs

LEMMA AskingJob ==
  ASSUME NEW j \in Jobs, NEW asked \in Seq(Calls), NEW p \in BOOLEAN, NEW s \in Seq(Sayings)
  PROVE  LET k == Asking(j, asked, p, s)
         IN  /\ k \in Jobs /\ SamePlace(j, k) /\ SameRounds(j, k)
             /\ k.calls = j.calls /\ k.results = j.results /\ k.closed = j.closed
             /\ k.asked = asked /\ k.end = j.end /\ k.pc = "tools"
<1> DEFINE l == [j EXCEPT !.asked = asked, !.parallel = p, !.said = s]
           m == Moved(l, "tools")
           k == [m EXCEPT !.ran = TRUE]
<1>1. l \in Jobs
  BY ZenonT(60) DEF Jobs, Sayings
<1>2. /\ SamePlace(j, l) /\ SameRounds(j, l)
      /\ l.calls = j.calls /\ l.results = j.results /\ l.closed = j.closed
      /\ l.asked = asked /\ l.end = j.end
  BY DEF Jobs, SamePlace, SameRounds
<1> HIDE DEF l
<1>3. /\ m \in Jobs /\ m.pc = "tools" /\ SamePlace(l, m) /\ SameRounds(l, m)
      /\ SameBuffer(l, m) /\ m.end = l.end
  BY <1>1, MovedJob DEF Places, Working
<1> HIDE DEF m
<1>4. TRUE \in BOOLEAN
  OBVIOUS
<1>5. k \in Jobs
  BY <1>3, <1>4, RanJob
<1>6. /\ SamePlace(j, k) /\ SameRounds(j, k)
      /\ k.calls = j.calls /\ k.results = j.results /\ k.closed = j.closed
      /\ k.asked = asked /\ k.end = j.end /\ k.pc = "tools"
  BY <1>2, <1>3 DEF Jobs, SamePlace, SameRounds, SameBuffer
<1>7. Asking(j, asked, p, s) = k
  BY DEF k, l, m, Asking, Moved
<1> HIDE DEF k
<1> QED BY <1>5, <1>6, <1>7

LEMMA SaidType ==
  ASSUME NEW j \in Jobs
  PROVE  /\ j.said \in Seq(Sayings) /\ j.text \in Seq(Sayings)
         /\ \A s \in Seq(Calls) : s \in Seq(Sayings)
<1>1. j.said \in Seq(Sayings) /\ j.text \in Seq(Words)
  BY DEF Jobs, Sayings
<1>2. Words \subseteq Sayings /\ Calls \subseteq Sayings
  BY DEF Sayings
<1> QED BY <1>1, <1>2

LEMMA AfterRoundFits ==
  ASSUME NEW r \in Requests, NEW j \in Jobs, Fit(j), j.pc \in {"arrived", "spoken"},
         NEW q \in Replies(j)
  PROVE  Mild(j, AfterRound(r, j, q))
<1> USE BoundsAssumption
<1> DEFINE cut == q.finish = "cut"
           asked == [i \in 1..q.calls |-> <<"call", r, j.used, i>>]
           next == Closed(j, cut, q.reported)
           said == j.said \o j.text
           saids == j.said \o j.text \o asked
<1>1. /\ q.calls \in Nat /\ q.finish \in {"stop", "cut", "refused"}
      /\ q.reported \in BOOLEAN /\ q.parallel \in BOOLEAN /\ cut \in BOOLEAN
  BY DEF Replies
<1>2. /\ j.used \in Nat /\ j.calls \in Seq(Calls) /\ j.results \in Seq(Calls)
      /\ MaxToolRounds \in Nat /\ j.nudged \in BOOLEAN
  BY DEF Jobs
<1>3. MayLoop(j) /\ j.calls = <<>> /\ Len(j.results) = 0 /\ j.end \notin Ends /\ Sound(j)
  BY <1>2 DEF Fit, At, Looping, Streaming, Sound
<1>4. /\ next \in Jobs /\ SamePlace(j, next) /\ next.used = j.used + 1 /\ next.nudged = j.nudged
      /\ next.calls = j.calls /\ next.results = j.results /\ next.asked = j.asked
      /\ next.closed = TRUE /\ next.end = j.end /\ next.pc = j.pc
  <2> DEFINE b == q.reported
  <2>1. b \in BOOLEAN /\ cut \in BOOLEAN
    BY <1>1
  <2> HIDE DEF cut, b
  <2>2. /\ Closed(j, cut, b) \in Jobs /\ SamePlace(j, Closed(j, cut, b))
        /\ Closed(j, cut, b).used = j.used + 1 /\ Closed(j, cut, b).nudged = j.nudged
    BY ONLY j \in Jobs, <2>1, ClosedJob, ZenonT(60)
  <2>3. Closed(j, cut, b).calls = j.calls /\ Closed(j, cut, b).results = j.results
    BY ONLY j \in Jobs, <2>1, ClosedJob, ZenonT(60)
  <2>6. Closed(j, cut, b).asked = j.asked
    BY ONLY j \in Jobs, <2>1, ClosedJob, ZenonT(60)
  <2>4. Closed(j, cut, b).closed = TRUE
    BY ONLY j \in Jobs, <2>1, ClosedJob
  <2>5. Closed(j, cut, b).end = j.end /\ Closed(j, cut, b).pc = j.pc
    BY ONLY j \in Jobs, <2>1, ClosedJob, ZenonT(60)
  <2> QED BY <2>2, <2>3, <2>4, <2>5, <2>6 DEF b
<1>5. asked \in Seq(Calls) /\ Len(asked) = q.calls
  <2>1. r \in Speakers
    BY DEF Speakers
  <2>2. ASSUME NEW i \in 1..q.calls PROVE <<"call", r, j.used, i>> \in Calls
    BY <1>1, <1>2, <2>1 DEF Calls
  <2> QED BY <1>1, <2>2
<1>6. said \in Seq(Sayings) /\ saids \in Seq(Sayings)
  <2> HIDE DEF asked
  <2>1. j.said \in Seq(Sayings) /\ j.text \in Seq(Sayings) /\ asked \in Seq(Sayings)
    BY <1>5, SaidType
  <2> QED BY <2>1
<1>7. Sound(next) /\ next.end \notin Ends
  BY <1>2, <1>3, <1>4 DEF Sound, SamePlace, MayLoop
<1> HIDE DEF cut, asked, next, said, saids
<1>8. Mild(j, Moved(next, "finish"))
  <2> DEFINE k == Moved(next, "finish")
  <2>1. /\ k \in Jobs /\ k.pc = "finish" /\ SamePlace(next, k) /\ SameRounds(next, k)
        /\ SameBuffer(next, k) /\ k.end = next.end
    BY <1>4, MovedJob DEF Places, Working
  <2> HIDE DEF k
  <2>2. Fit(k) /\ k.pc \in Working
    BY <1>3, <1>4, <1>7, <2>1 DEF Fit, At, Sound, SamePlace, SameRounds, SameBuffer, Looping, Streaming, Working
  <2>3. Mild(j, k)
    BY <1>4, <1>7, <2>1, <2>2 DEF Mild, Told, SamePlace
  <2> QED BY <2>3 DEF k
<1>9. CASE ~Final(j) /\ q.calls > 0
  <2> DEFINE k == Asking(next, asked, q.parallel, saids)
  <2>1. /\ k \in Jobs /\ SamePlace(next, k) /\ SameRounds(next, k)
        /\ k.calls = next.calls /\ k.results = next.results /\ k.closed = next.closed
        /\ k.asked = asked /\ k.end = next.end /\ k.pc = "tools"
    BY <1>1, <1>4, <1>5, <1>6, AskingJob
  <2> HIDE DEF k
  <2>2. MayLoop(k)
    BY <1>2, <1>4, <1>9, <2>1 DEF MayLoop, SameRounds, Final
  <2>3. Fit(k) /\ k.pc \in Working
    BY <1>1, <1>3, <1>4, <1>5, <1>7, <1>9, <2>1, <2>2
       DEF Fit, At, Sound, SamePlace, SameRounds, Looping, Streaming, Working
  <2>4. Mild(j, k)
    BY <1>4, <1>7, <2>1, <2>3 DEF Mild, Told, SamePlace
  <2>5. AfterRound(r, j, q) = IF q.finish = "refused" THEN Moved(next, "finish") ELSE k
    BY <1>9 DEF AfterRound, next, k, asked, cut, saids, Closed, Moved, Asking
  <2> QED BY <1>8, <2>4, <2>5
<1>10. CASE Final(j) \/ q.calls = 0
  <2> DEFINE kc == Flush(Continued(next, said), "none", "check")
             kn == Flush(Nudged(next), "none", "check")
  <2>1. AfterRound(r, j, q) =
          IF q.finish = "refused" THEN Moved(next, "finish")
          ELSE IF ~Final(j) /\ Continues(j, q) THEN kc
          ELSE IF Nudges(j, q) THEN kn ELSE Moved(next, "finish")
    BY <1>1, <1>10 DEF AfterRound, next, cut, said, Closed, Moved, Continued, Nudged
  <2>2. ASSUME ~Final(j) PROVE Mild(j, kc)
    <3> DEFINE l == Continued(next, said)
    <3>1. l \in Jobs /\ SameRest(next, l) /\ l.pc = next.pc
      BY <1>4, <1>6, ContinuedJob
    <3> HIDE DEF l
    <3>2. Sound(l) /\ l.end \notin Ends /\ MayLoop(l)
      BY <1>2, <1>4, <1>7, <2>2, <3>1
         DEF SameRest, SamePlace, SameRounds, SameBuffer, Sound, MayLoop, Final
    <3>3. Mild(l, Flush(l, "none", "check"))
      BY <3>1, <3>2, FlushFits DEF Errors, Stages
    <3>4. Mild(j, Flush(l, "none", "check"))
      BY <1>4, <1>7, <3>1, <3>2, <3>3 DEF Mild, Told, SameRest, SamePlace
    <3> QED BY <3>4 DEF l
  <2>3. ASSUME ~j.nudged PROVE Mild(j, kn)
    <3> DEFINE l == Nudged(next)
    <3>1. /\ l \in Jobs /\ SamePlace(next, l) /\ SameBuffer(next, l) /\ l.used = next.used
          /\ l.nudged = TRUE /\ l.end = next.end /\ l.pc = next.pc
      BY <1>4, NudgedJob
    <3> HIDE DEF l
    <3>2. Sound(l) /\ l.end \notin Ends /\ MayLoop(l)
      BY <1>2, <1>3, <1>4, <1>7, <2>3, <3>1 DEF SamePlace, SameBuffer, Sound, MayLoop
    <3>3. Mild(l, Flush(l, "none", "check"))
      BY <3>1, <3>2, FlushFits DEF Errors, Stages
    <3>4. Mild(j, Flush(l, "none", "check"))
      BY <1>4, <1>7, <3>1, <3>2, <3>3 DEF Mild, Told, SamePlace
    <3> QED BY <3>4 DEF l
  <2>4. Nudges(j, q) => ~j.nudged
    BY DEF Nudges
  <2> HIDE DEF kc, kn
  <2> QED BY <1>8, <2>1, <2>2, <2>3, <2>4
<1> QED BY <1>1, <1>9, <1>10

Called(j, calls) == [j EXCEPT !.calls = calls]
Returned(j, results, s) == [j EXCEPT !.results = results, !.said = s]
Rested(j) == [j EXCEPT !.pc = "check", !.asked = <<>>, !.parallel = FALSE]
Ended(j, e) == [j EXCEPT !.end = e]

LEMMA CalledFits ==
  ASSUME NEW j \in Jobs, Fit(j), j.pc = "tools", NEW calls \in Seq(Calls),
         Len(j.results) <= Len(calls), Len(calls) <= Len(j.asked)
  PROVE  Mild(j, Called(j, calls))
<1> DEFINE k == Called(j, calls)
<1>1. k \in Jobs
  BY ZenonT(60) DEF Jobs, Called
<1>2. /\ SamePlace(j, k) /\ SameRounds(j, k) /\ k.end = j.end /\ k.pc = j.pc
      /\ k.calls = calls /\ k.results = j.results /\ k.closed = j.closed /\ k.asked = j.asked
  BY DEF Jobs, Called, SamePlace, SameRounds
<1> HIDE DEF k
<1>3. Fit(k) /\ k.end \notin Ends /\ k.pc \in Working
  BY <1>2 DEF Fit, At, SamePlace, SameRounds, MayLoop, Working, Looping, Streaming
<1> QED BY <1>1, <1>2, <1>3 DEF Mild, Told, k

LEMMA ReturnedJob ==
  ASSUME NEW j \in Jobs, NEW results \in Seq(Calls), NEW s \in Seq(Sayings)
  PROVE  LET k == Returned(j, results, s)
         IN  /\ k \in Jobs /\ SamePlace(j, k) /\ SameRounds(j, k) /\ k.end = j.end /\ k.pc = j.pc
             /\ k.calls = j.calls /\ k.results = results /\ k.closed = j.closed /\ k.asked = j.asked
<1> DEFINE k == Returned(j, results, s)
<1>1. k \in Jobs
  BY ZenonT(60) DEF Jobs, Returned, Sayings
<1>2. /\ SamePlace(j, k) /\ SameRounds(j, k) /\ k.end = j.end /\ k.pc = j.pc
      /\ k.calls = j.calls /\ k.results = results /\ k.closed = j.closed /\ k.asked = j.asked
  BY DEF Jobs, Returned, SamePlace, SameRounds
<1> QED BY <1>1, <1>2

LEMMA AskedJob ==
  ASSUME NEW j \in Jobs, NEW a \in Seq(Calls) PROVE [j EXCEPT !.asked = a] \in Jobs
  BY ZenonT(60) DEF Jobs

LEMMA ParallelJob ==
  ASSUME NEW j \in Jobs, NEW f \in BOOLEAN PROVE [j EXCEPT !.parallel = f] \in Jobs
  BY ZenonT(60) DEF Jobs

LEMMA RestedJob ==
  ASSUME NEW j \in Jobs
  PROVE  LET k == Rested(j)
         IN  /\ k \in Jobs /\ SamePlace(j, k) /\ SameRounds(j, k) /\ k.end = j.end /\ k.pc = "check"
             /\ k.calls = j.calls /\ k.results = j.results /\ k.closed = j.closed
<1> DEFINE l == Moved(j, "check")
           m == [l EXCEPT !.asked = <<>>]
           k == [m EXCEPT !.parallel = FALSE]
<1>1. /\ l \in Jobs /\ l.pc = "check" /\ SamePlace(j, l) /\ SameRounds(j, l)
      /\ SameBuffer(j, l) /\ l.end = j.end
  BY MovedJob DEF Places, Working
<1> HIDE DEF l
<1>2. m \in Jobs
  <2>1. <<>> \in Seq(Calls)
    OBVIOUS
  <2> QED BY <1>1, <2>1, AskedJob
<1>3. /\ SamePlace(j, m) /\ SameRounds(j, m) /\ m.end = j.end /\ m.pc = "check"
      /\ m.calls = j.calls /\ m.results = j.results /\ m.closed = j.closed
  BY <1>1 DEF Jobs, SamePlace, SameRounds, SameBuffer
<1> HIDE DEF m
<1>4. k \in Jobs
  <2>1. FALSE \in BOOLEAN
    OBVIOUS
  <2> QED BY <1>2, <2>1, ParallelJob
<1>5. /\ SamePlace(j, k) /\ SameRounds(j, k) /\ k.end = j.end /\ k.pc = "check"
      /\ k.calls = j.calls /\ k.results = j.results /\ k.closed = j.closed
  BY <1>2, <1>3 DEF Jobs, SamePlace, SameRounds
<1>6. Rested(j) = k
  BY DEF k, l, m, Rested, Moved
<1> HIDE DEF k
<1> QED BY <1>4, <1>5, <1>6

LEMMA ReturnedFits ==
  ASSUME NEW j \in Jobs, Fit(j), j.pc = "tools", Len(j.results) < Len(j.calls)
  PROVE  LET call == j.calls[Len(j.results) + 1]
             returned == [j EXCEPT !.results = Append(@, call),
                                   !.said = Append(@, <<"result", call>>)]
         IN  /\ Len(returned.results) < Len(j.asked) => Mild(j, returned)
             /\ Mild(j, [returned EXCEPT !.pc = "check", !.asked = <<>>, !.parallel = FALSE])
                  \/ Len(returned.results) < Len(j.asked)
<1> DEFINE call == j.calls[Len(j.results) + 1]
           results == Append(j.results, call)
           s == Append(j.said, <<"result", call>>)
           k == Returned(j, results, s)
           l == Rested(k)
<1>1. /\ j.calls \in Seq(Calls) /\ j.results \in Seq(Calls) /\ j.said \in Seq(Sayings)
      /\ j.asked \in Seq(Calls)
  BY DEF Jobs, Sayings
<1>2. call \in Calls
  BY <1>1
<1> HIDE DEF call
<1>3. results \in Seq(Calls) /\ Len(results) = Len(j.results) + 1
  BY <1>1, <1>2
<1>4. s \in Seq(Sayings)
  <2>1. <<"result", call>> \in Sayings
    BY <1>2 DEF Sayings
  <2> QED BY <1>1, <2>1
<1>5. k = [j EXCEPT !.results = Append(@, call), !.said = Append(@, <<"result", call>>)]
  BY DEF k, results, s, Returned
<1>6. l = [k EXCEPT !.pc = "check", !.asked = <<>>, !.parallel = FALSE]
  BY DEF Rested
<1> HIDE DEF results, s
<1>7. /\ k \in Jobs /\ SamePlace(j, k) /\ SameRounds(j, k) /\ k.end = j.end /\ k.pc = j.pc
      /\ k.calls = j.calls /\ k.results = results /\ k.closed = j.closed /\ k.asked = j.asked
  BY <1>3, <1>4, ReturnedJob
<1> HIDE DEF k
<1>8. /\ l \in Jobs /\ SamePlace(k, l) /\ SameRounds(k, l) /\ l.end = k.end /\ l.pc = "check"
      /\ l.calls = k.calls /\ l.results = k.results /\ l.closed = k.closed
  BY <1>7, RestedJob
<1> HIDE DEF l
<1>9. MayLoop(j) /\ j.closed /\ j.end \notin Ends /\ Sound(j)
  BY DEF Fit, At, Looping, Sound
<1>10. Len(k.results) < Len(j.asked) => Mild(j, k)
  <2> SUFFICES ASSUME Len(k.results) < Len(j.asked) PROVE Mild(j, k)
    OBVIOUS
  <2>1. Len(k.results) <= Len(k.calls)
    BY <1>1, <1>3, <1>7
  <2>2. Fit(k) /\ k.pc \in Working
    BY <1>7, <1>9, <2>1 DEF Fit, At, SamePlace, SameRounds, MayLoop, Working, Looping, Streaming
  <2> QED BY <1>7, <1>9, <2>2 DEF Mild, Told
<1>11. Mild(j, l)
  <2>1. Len(l.results) <= Len(l.calls)
    BY <1>1, <1>3, <1>7, <1>8
  <2>2. Fit(l) /\ l.pc \in Working
    BY <1>7, <1>8, <1>9, <2>1 DEF Fit, Sound, At, SamePlace, SameRounds, MayLoop, Working, Looping, Streaming
  <2> QED BY <1>7, <1>8, <1>9, <2>2 DEF Mild, Told, SamePlace
<1> QED BY <1>5, <1>6, <1>10, <1>11 DEF call

LEMMA EndedFits ==
  ASSUME NEW j, NEW l, Mild(j, l), l.end \notin Ends,
         NEW e \in {"none", "acted", "answered", "stopped", "failed", "budget", "lost"}, e \notin Ends
  PROVE  Mild(j, Ended(l, e))
<1> DEFINE k == Ended(l, e)
<1>1. l \in Jobs /\ Fit(l)
  BY DEF Mild
<1>2. k \in Jobs
  BY <1>1, ZenonT(60) DEF Jobs, Ended
<1>3. /\ SamePlace(l, k) /\ SameRounds(l, k) /\ SameBuffer(l, k)
      /\ k.end = e /\ k.pc = l.pc /\ k.then = l.then /\ k.todo = l.todo
  BY <1>1 DEF Jobs, Ended, SamePlace, SameRounds, SameBuffer
<1> HIDE DEF k
<1>4. Fit(k)
  BY <1>1, <1>3 DEF Fit, At, SamePlace, SameRounds, SameBuffer, MayLoop
<1> QED BY <1>2, <1>3, <1>4 DEF Mild, Told, SamePlace, k

LEMMA FinishFits ==
  ASSUME NEW j \in Jobs, Fit(j), j.pc = "finish"
  PROVE  Mild(j, [Flush(j, "none", "release") EXCEPT !.end = "answered"])
<1> DEFINE l == Flush(j, "none", "release")
<1>1. Sound(j) /\ j.end \notin Ends
  BY FitIsSound DEF Fit
<1>2. Mild(j, l)
  BY <1>1, FlushFits DEF Errors, Stages, Looping, Streaming
<1>3. l.end = j.end
  <2>1. "none" \in Errors /\ "release" \in Stages
    BY DEF Errors, Stages
  <2>2. Flushed(j, Flush(j, "none", "release"), "none", "release")
    BY <2>1, FlushJob
  <2> QED BY <2>2 DEF Flushed
<1> HIDE DEF l
<1>4. Mild(j, Ended(l, "answered"))
  BY <1>1, <1>2, <1>3, EndedFits DEF Ends
<1> QED BY <1>4 DEF Ended, l

LEMMA ArriveFits ==
  ASSUME NEW j \in Jobs, Fit(j), j.pc = "stream"
  PROVE  Mild(j, [IF j.closed THEN Flush(j, "none", "arrived")
                  ELSE [j EXCEPT !.pc = "arrived"] EXCEPT !.attempt = 0])
<1> DEFINE l == IF j.closed THEN Flush(j, "none", "arrived") ELSE Moved(j, "arrived")
           k == Tried(l, 0)
<1>1. Sound(j) /\ j.end \notin Ends /\ MayLoop(j)
  BY FitIsSound DEF Fit, At, Looping, Streaming
<1>2. Mild(j, Flush(j, "none", "arrived"))
  BY <1>1, FlushFits DEF Errors, Stages
<1>3. Flush(j, "none", "arrived").end = j.end
  <2>1. "none" \in Errors /\ "arrived" \in Stages
    BY DEF Errors, Stages
  <2>2. Flushed(j, Flush(j, "none", "arrived"), "none", "arrived")
    BY <2>1, FlushJob
  <2> QED BY <2>2 DEF Flushed
<1>4. ~j.closed => Mild(j, Moved(j, "arrived"))
  BY <1>1, MoveFits DEF Looping, Streaming, Sound
<1>5. Moved(j, "arrived").end = j.end
  BY MovedJob DEF Places, Working, Streaming
<1>6. Mild(j, l) /\ l.end = j.end
  BY <1>2, <1>3, <1>4, <1>5
<1>7. k = [IF j.closed THEN Flush(j, "none", "arrived")
           ELSE [j EXCEPT !.pc = "arrived"] EXCEPT !.attempt = 0]
  BY DEF Tried, Moved
<1> HIDE DEF l
<1>8. l \in Jobs /\ Fit(l) /\ l.pc \in Working
  BY <1>6 DEF Mild
<1>9. k \in Jobs /\ SameRest(l, k) /\ k.pc = l.pc
  BY <1>8, TriedJob
<1> HIDE DEF k
<1>10. Mild(l, k)
  BY <1>8, <1>9, RestFits
<1>11. Mild(j, k)
  BY <1>1, <1>6, <1>10, MildThen
<1> QED BY <1>7, <1>11

-----------------------------------------------------------------------------
(* The recursive functions of the tree: they exist, because parents are    *)
(* written before their children.                                          *)

LEMMA Least ==
  ASSUME NEW S, S \subseteq Nat, S # {}
  PROVE  \E m \in S : \A n \in S : m <= n
<1> DEFINE R == OpToRel(<, Nat)
<1>1. IsWellFoundedOn(R, Nat)
  BY NatLessThanWellFounded, Zenon
<1>2. R = {ss \in Nat \X Nat : ss[1] < ss[2]}
  BY Zenon DEF OpToRel
<1> HIDE DEF R
<1>3. PICK m \in S : \A n \in S : ~ (<<n, m>> \in R)
  BY <1>1, WFMin, Zenon
<1>4. ASSUME NEW n \in S PROVE m <= n
  <2>1. <<n, m>> \notin R
    BY <1>3
  <2> QED BY <1>2, <2>1
<1> QED BY <1>3, <1>4

PathUpTo(p, m, g) ==
  /\ g \in [0..m -> Seq(Nat)] /\ g[0] = <<>>
  /\ \A i \in 1..m : g[i] = Append(g[p[i]], i)

DeepestFrom(next, N, f, g) ==
  /\ g \in [f..N -> 1..N]
  /\ \A i \in f..N : g[i] = IF next[i] = 0 THEN i ELSE g[next[i]]

LEMMA PathsExist ==
  ASSUME NEW N \in Nat, NEW p \in [1..N -> Nat], \A i \in 1..N : p[i] < i
  PROVE  \E g : g = [i \in 0..N |-> IF i = 0 THEN <<>> ELSE Append(g[p[i]], i)]
<1> DEFINE Bad == {m \in 0..N : ~\E g : PathUpTo(p, m, g)}
<1>1. ASSUME Bad # {} PROVE FALSE
  <2>1. PICK m \in Bad : \A n \in Bad : m <= n
    <3>1. Bad \subseteq Nat
      OBVIOUS
    <3> HIDE DEF Bad
    <3> QED BY <1>1, <3>1, Least
  <2>2. m \in 0..N /\ ~\E g : PathUpTo(p, m, g)
    OBVIOUS
  <2>3. CASE m = 0
    <3>1. PathUpTo(p, 0, [i \in 0..0 |-> <<>>])
      BY DEF PathUpTo
    <3> QED BY <2>2, <2>3, <3>1
  <2>4. CASE m > 0
    <3>1. \E g : PathUpTo(p, m - 1, g)
      <4>1. m - 1 \in 0..N /\ ~(m <= m - 1)
        BY <2>2, <2>4
      <4> QED BY <2>1, <4>1
    <3>2. PICK g : PathUpTo(p, m - 1, g)
      BY <3>1
    <3> DEFINE h == [i \in 0..m |-> IF i < m THEN g[i] ELSE Append(g[p[m]], m)]
    <3>3. p[m] \in 0..(m - 1) /\ m \in Nat
      BY <2>2, <2>4
    <3>4. g \in [0..(m - 1) -> Seq(Nat)] /\ g[0] = <<>>
      BY <3>2 DEF PathUpTo
    <3>5. g[p[m]] \in Seq(Nat) /\ Append(g[p[m]], m) \in Seq(Nat)
      BY <3>3, <3>4
    <3>6. h \in [0..m -> Seq(Nat)] /\ h[0] = <<>>
      BY <2>4, <3>3, <3>4, <3>5
    <3>7. ASSUME NEW i \in 1..m PROVE h[i] = Append(h[p[i]], i)
      <4>1. p[i] \in 0..(i - 1)
        BY <2>2
      <4>2. CASE i = m
        BY <3>3, <4>1, <4>2
      <4>3. CASE i < m
        <5>1. g[i] = Append(g[p[i]], i)
          <6>1. i \in 1..(m - 1)
            BY <3>3, <4>3
          <6> QED BY <3>2, <6>1 DEF PathUpTo
        <5> QED BY <3>3, <4>1, <4>3, <5>1, SMTT(30)
      <4>4. i = m \/ i < m
        BY <3>3
      <4> HIDE DEF h
      <4> QED BY <4>2, <4>3, <4>4
    <3>8. PathUpTo(p, m, h)
      <4> HIDE DEF h
      <4> QED BY <3>6, <3>7 DEF PathUpTo
    <3> QED BY <2>2, <3>8
  <2> QED BY <2>2, <2>3, <2>4
<1>2. PICK g : PathUpTo(p, N, g)
  <2>1. N \in 0..N
    OBVIOUS
  <2> QED BY <1>1, <2>1
<1>3. g = [i \in 0..N |-> IF i = 0 THEN <<>> ELSE Append(g[p[i]], i)]
  <2>1. g \in [0..N -> Seq(Nat)]
    BY <1>2 DEF PathUpTo
  <2>2. ASSUME NEW i \in 0..N PROVE g[i] = IF i = 0 THEN <<>> ELSE Append(g[p[i]], i)
    <3>1. CASE i = 0
      BY <1>2, <3>1 DEF PathUpTo
    <3>2. CASE i \in 1..N
      BY <1>2, <3>2 DEF PathUpTo
    <3> QED BY <3>1, <3>2
  <2> QED BY <2>1, <2>2
<1> QED BY <1>3

LEMMA DeepestExists ==
  ASSUME NEW N \in Nat, NEW next \in [1..N -> 0..N],
         \A i \in 1..N : next[i] = 0 \/ next[i] > i
  PROVE  \E g : /\ g = [i \in 1..N |-> IF next[i] = 0 THEN i ELSE g[next[i]]]
                /\ g \in [1..N -> 1..N]
<1> DEFINE Bad == {m \in 0..N : ~\E g : DeepestFrom(next, N, N + 1 - m, g)}
<1>1. ASSUME Bad # {} PROVE FALSE
  <2>1. PICK m \in Bad : \A n \in Bad : m <= n
    <3>1. Bad \subseteq Nat
      OBVIOUS
    <3> HIDE DEF Bad
    <3> QED BY <1>1, <3>1, Least
  <2>2. m \in 0..N /\ ~\E g : DeepestFrom(next, N, N + 1 - m, g)
    OBVIOUS
  <2>3. CASE m = 0
    <3>1. DeepestFrom(next, N, N + 1 - 0, [i \in (N + 1)..N |-> 1])
      BY DEF DeepestFrom
    <3> QED BY <2>2, <2>3, <3>1
  <2>4. CASE m > 0
    <3>1. \E g : DeepestFrom(next, N, N + 1 - (m - 1), g)
      <4>1. m - 1 \in 0..N /\ ~(m <= m - 1)
        BY <2>2, <2>4
      <4> QED BY <2>1, <4>1
    <3>2. PICK g : DeepestFrom(next, N, N + 1 - (m - 1), g)
      BY <3>1
    <3> DEFINE f == N + 1 - m
               top == IF next[f] = 0 THEN f ELSE g[next[f]]
               h == [i \in f..N |-> IF i = f THEN top ELSE g[i]]
    <3>3. f \in 1..N /\ m \in Nat
      BY <2>2, <2>4
    <3>4. g \in [(f + 1)..N -> 1..N]
      BY <3>2, <3>3 DEF DeepestFrom
    <3>5. ASSUME NEW i \in (f + 1)..N PROVE g[i] = IF next[i] = 0 THEN i ELSE g[next[i]]
      BY <3>2, <3>3 DEF DeepestFrom
    <3> HIDE DEF f
    <3>6. top \in 1..N
      BY <3>3, <3>4
    <3> HIDE DEF top
    <3>7. h \in [f..N -> 1..N]
      BY <3>3, <3>4, <3>6
    <3>8. ASSUME NEW i \in f..N PROVE h[i] = IF next[i] = 0 THEN i ELSE h[next[i]]
      <4>1. i \in 1..N /\ (next[i] = 0 \/ next[i] \in (i + 1)..N)
        BY <3>3
      <4>2. next[i] # 0 => h[next[i]] = g[next[i]]
        BY <3>3, <4>1
      <4>3. CASE i = f
        BY <3>3, <4>2, <4>3 DEF top
      <4>4. CASE i # f
        BY <3>3, <3>5, <4>2, <4>4
      <4> QED BY <4>3, <4>4
    <3>9. DeepestFrom(next, N, N + 1 - m, h)
      BY <3>7, <3>8 DEF f, DeepestFrom
    <3> QED BY <2>2, <3>9
  <2> QED BY <2>2, <2>3, <2>4
<1>2. PICK g : DeepestFrom(next, N, N + 1 - N, g)
  <2>1. N \in 0..N
    OBVIOUS
  <2> QED BY <1>1, <2>1
<1>3. N + 1 - N = 1
  OBVIOUS
<1>4. g \in [1..N -> 1..N] /\ \A i \in 1..N : g[i] = IF next[i] = 0 THEN i ELSE g[next[i]]
  BY <1>2, <1>3 DEF DeepestFrom
<1>5. g = [i \in 1..N |-> IF next[i] = 0 THEN i ELSE g[next[i]]]
  BY <1>4
<1> QED BY <1>4, <1>5

LEMMA Greatest ==
  ASSUME NEW N \in Nat, NEW S, S \subseteq 1..N, S # {}
  PROVE  Max(S) \in S /\ \A c \in S : c <= Max(S)
<1> DEFINE T == {N - c : c \in S}
<1>1. T \subseteq Nat /\ T # {}
  <2>1. ASSUME NEW c \in S PROVE N - c \in Nat
    OBVIOUS
  <2>2. PICK c \in S : TRUE
    OBVIOUS
  <2>3. N - c \in T
    OBVIOUS
  <2>4. T # {}
    BY <2>3
  <2> QED BY <2>1, <2>4
<1>2. PICK m \in T : \A n \in T : m <= n
  <2> HIDE DEF T
  <2> QED BY <1>1, Least
<1>3. PICK x \in S : m = N - x
  OBVIOUS
<1>4. \A y \in S : x >= y
  <2>1. ASSUME NEW y \in S PROVE x >= y
    <3>1. N - y \in T
      OBVIOUS
    <3> QED BY <1>2, <1>3, <3>1
  <2> QED BY <2>1
<1>5. Max(S) \in S /\ \A y \in S : Max(S) >= y
  BY <1>3, <1>4 DEF Max
<1> QED BY <1>5

(* Below a row the newest children are always found, and are rows.         *)
LEMMA DeepestIsRow ==
  ASSUME rows \in Seq(Rows), \A i \in Ids : rows[i].parent < i, NEW id \in Ids
  PROVE  Deepest[id] \in Ids
<1> DEFINE N == Len(rows)
           next == [i \in 1..N |-> IF Below(i) = {} THEN 0 ELSE Max(Below(i))]
<1>1. N \in Nat /\ Ids = 1..N
  BY DEF Ids
<1>2. ASSUME NEW i \in 1..N, Below(i) # {} PROVE Max(Below(i)) \in (i + 1)..N
  <2>1. Below(i) \subseteq 1..N
    BY DEF Below, Ids
  <2>2. Max(Below(i)) \in Below(i)
    BY <1>1, <1>2, <2>1, Greatest
  <2>3. rows[Max(Below(i))].parent = i /\ Max(Below(i)) \in Ids
    BY <2>2 DEF Below
  <2> QED BY <1>1, <2>3
<1>3. /\ next \in [1..N -> 0..N]
      /\ \A i \in 1..N : next[i] = 0 \/ next[i] > i
      /\ \A i \in 1..N : next[i] = IF Below(i) = {} THEN 0 ELSE Max(Below(i))
  BY <1>1, <1>2
<1>4. ASSUME NEW i \in 1..N PROVE Below(i) = {} <=> next[i] = 0
  BY <1>1, <1>2, <1>3
<1> HIDE DEF N, next
<1>5. PICK g : g = [i \in 1..N |-> IF next[i] = 0 THEN i ELSE g[next[i]]]
  <2>1. \E g : /\ g = [i \in 1..N |-> IF next[i] = 0 THEN i ELSE g[next[i]]]
               /\ g \in [1..N -> 1..N]
    BY <1>1, <1>3, DeepestExists
  <2> QED BY <2>1
<1>6. g = [i \in Ids |-> IF Below(i) = {} THEN i ELSE g[Max(Below(i))]]
  <2>1. ASSUME NEW i \in 1..N
        PROVE  (IF next[i] = 0 THEN i ELSE g[next[i]])
                 = IF Below(i) = {} THEN i ELSE g[Max(Below(i))]
    BY <1>3, <1>4
  <2> QED BY <1>1, <1>5, <2>1
<1>7. Deepest = [i \in Ids |-> IF Below(i) = {} THEN i ELSE Deepest[Max(Below(i))]]
  BY <1>6, Zenon DEF Deepest
<1> DEFINE Bad == {i \in 1..N : Deepest[i] \notin Ids}
<1>8. ASSUME Bad # {} PROVE FALSE
  <2>1. Max(Bad) \in Bad /\ \A c \in Bad : c <= Max(Bad)
    <3>1. Bad \subseteq 1..N
      OBVIOUS
    <3> HIDE DEF Bad
    <3> QED BY <1>1, <1>8, <3>1, Greatest
  <2>2. PICK b \in Bad : \A c \in Bad : c <= b
    BY <2>1
  <2>3. b \in 1..N /\ Deepest[b] \notin Ids
    OBVIOUS
  <2>4. Deepest[b] = IF Below(b) = {} THEN b ELSE Deepest[Max(Below(b))]
    BY <1>1, <1>7, <2>3
  <2>5. Below(b) # {} /\ Deepest[b] = Deepest[Max(Below(b))]
    BY <1>1, <2>3, <2>4
  <2>6. Max(Below(b)) \in (b + 1)..N
    BY <1>2, <2>3, <2>5
  <2>7. Max(Below(b)) \notin Bad
    BY <1>1, <2>2, <2>3, <2>6
  <2> QED BY <1>1, <2>3, <2>5, <2>6, <2>7
<1> QED BY <1>1, <1>8

(* The paths of any rows, as Path has the session's.                       *)
PathIn(rs) ==
  LET P[i \in 0..Len(rs)] == IF i = 0 THEN <<>> ELSE Append(P[rs[i].parent], i)
  IN  P

Parented(rs) == rs \in Seq(Rows) /\ \A i \in 1..Len(rs) : rs[i].parent < i

PathIsAt(rs, k) ==
  PathIn(rs)[k] = IF k = 0 THEN <<>> ELSE Append(PathIn(rs)[rs[k].parent], k)

LEMMA PathInIsOne ==
  ASSUME NEW rs, Parented(rs), NEW k \in 0..Len(rs)
  PROVE  PathIsAt(rs, k)
<1> DEFINE N == Len(rs)
           p == [c \in 1..N |-> rs[c].parent]
<1>1. N \in Nat /\ rs \in Seq(Rows) /\ \A c \in 1..N : rs[c].parent < c
  BY DEF Parented
<1>2. p \in [1..N -> Nat] /\ (\A c \in 1..N : p[c] < c) /\ \A c \in 1..N : p[c] = rs[c].parent
  <2>1. ASSUME NEW c \in 1..N PROVE rs[c].parent \in Nat /\ rs[c].parent < c
    <3>1. rs[c] \in Rows
      BY <1>1
    <3> QED BY <1>1, <3>1 DEF Rows
  <2> QED BY <2>1
<1> HIDE DEF N, p
<1>3. PICK g : g = [c \in 0..N |-> IF c = 0 THEN <<>> ELSE Append(g[p[c]], c)]
  BY <1>1, <1>2, PathsExist
<1>4. g = [c \in 0..N |-> IF c = 0 THEN <<>> ELSE Append(g[rs[c].parent], c)]
  <2>1. ASSUME NEW c \in 0..N
        PROVE  (IF c = 0 THEN <<>> ELSE Append(g[p[c]], c))
                 = IF c = 0 THEN <<>> ELSE Append(g[rs[c].parent], c)
    BY <1>1, <1>2
  <2> QED BY <1>3, <2>1
<1>5. PathIn(rs) = [c \in 0..N |-> IF c = 0 THEN <<>> ELSE Append(PathIn(rs)[rs[c].parent], c)]
  BY <1>4, Zenon DEF PathIn, N
<1> QED BY <1>5 DEF PathIsAt, N

LEMMA PathInRoot ==
  ASSUME NEW rs, Parented(rs) PROVE PathIn(rs)[0] = <<>>
<1>1. 0 \in 0..Len(rs)
  BY DEF Parented
<1> QED BY <1>1, PathInIsOne DEF PathIsAt

LEMMA PathInIs ==
  ASSUME NEW rs, Parented(rs), NEW i \in 1..Len(rs)
  PROVE  /\ PathIn(rs)[i] = Append(PathIn(rs)[rs[i].parent], i)
         /\ PathIn(rs)[rs[i].parent] \in Seq(Nat) /\ PathIn(rs)[i] \in Seq(Nat)
<1> DEFINE N == Len(rs)
<1>1. /\ N \in Nat /\ i \in 1..N
      /\ \A k \in 1..N : rs[k].parent \in Nat /\ rs[k].parent < k
  <2>1. \A k \in 1..Len(rs) : rs[k] \in Rows
    BY DEF Parented
  <2> QED BY <2>1 DEF Parented, Rows
<1>5. \A k \in 0..N : PathIsAt(rs, k)
  BY PathInIsOne
<1> HIDE DEF N
<1> DEFINE Bad == {k \in 0..N : PathIn(rs)[k] \notin Seq(Nat)}
<1>6. ASSUME Bad # {} PROVE FALSE
  <2>1. PICK b \in Bad : \A c \in Bad : b <= c
    <3>1. Bad \subseteq Nat
      BY <1>1
    <3> HIDE DEF Bad
    <3> QED BY <1>6, <3>1, Least
  <2>2. b \in 0..N /\ PathIn(rs)[b] \notin Seq(Nat)
    OBVIOUS
  <2>3. PathIn(rs)[b] = IF b = 0 THEN <<>> ELSE Append(PathIn(rs)[rs[b].parent], b)
    BY <1>5, <2>2 DEF PathIsAt
  <2>4. b # 0
    BY <2>2, <2>3
  <2>5. rs[b].parent \in 0..(b - 1)
    BY <1>1, <2>2, <2>4
  <2>6. PathIn(rs)[rs[b].parent] \in Seq(Nat)
    <3> DEFINE c == rs[b].parent
    <3>1. c \in 0..N /\ ~(b <= c)
      BY <1>1, <2>2, <2>5
    <3>2. c \notin Bad
      BY <2>1, <3>1
    <3> HIDE DEF c
    <3>3. PathIn(rs)[c] \in Seq(Nat)
      BY <3>1, <3>2
    <3> QED BY <3>3 DEF c
  <2> QED BY <1>1, <2>2, <2>3, <2>4, <2>6
<1>7. rs[i].parent \in 0..N /\ i \in 0..N /\ i # 0
  BY <1>1
<1>8. PathIn(rs)[i] = IF i = 0 THEN <<>> ELSE Append(PathIn(rs)[rs[i].parent], i)
  BY <1>5, <1>7 DEF PathIsAt
<1> QED BY <1>6, <1>7, <1>8

(* A path ends in its row and goes on from the parent's.                   *)
LEMMA PathIs ==
  ASSUME rows \in Seq(Rows), \A i \in Ids : rows[i].parent < i, NEW i \in Ids
  PROVE  /\ Path[i] = Append(Path[rows[i].parent], i)
         /\ Path[rows[i].parent] \in Seq(Nat) /\ Path[i] \in Seq(Nat)
<1>1. Parented(rows) /\ i \in 1..Len(rows)
  BY DEF Parented, Ids
<1>2. Path = PathIn(rows)
  BY DEF Path, PathIn
<1> QED BY <1>1, <1>2, PathInIs

-----------------------------------------------------------------------------
(* The inductive invariant.                                                *)

HasRow(r) == \E i \in Ids : rows[i].turn = r

Leased ==
  \A r \in Requests : lease = r <=> job[r].pc \in Working \cup {"ask", "act"}

(* A turn's rows follow each other, each under the one before it.          *)
Chained ==
  \A i \in 2..Len(rows) :
    rows[i].turn # Nobody /\ (\E k \in 1..i - 1 : rows[k].turn = rows[i].turn)
      => rows[i - 1].turn = rows[i].turn /\ rows[i].parent = i - 1

(* A turn that has not begun has no rows; one that writes them wrote the   *)
(* last of all.                                                            *)
Newest ==
  \A r \in Requests :
    /\ job[r].pc \in {"idle", "checked", "ask", "act"} => ~HasRow(r)
    /\ job[r].pc \in Working /\ HasRow(r) =>
         /\ leaf = Len(rows) /\ job[r].parent = Len(rows)
         /\ rows[Len(rows)].turn = r

Targets == \A r \in Requests : job[r].target <= Len(rows) \/ gone

(* How a turn ended is said by a row of its own, or by the next it writes. *)
Endings ==
  \A r \in Requests :
    job[r].end \in Ends =>
      \/ gone
      \/ \E i \in Ids : rows[i].turn = r /\ rows[i].error = job[r].end
      \/ job[r].pc = "write" /\ Head(job[r].todo).error = job[r].end

AllFit == \A r \in Requests : Fit(job[r])

ChatInv == /\ TypeOK /\ AllFit /\ Leased /\ Chained /\ Newest /\ Targets /\ Endings

JobsMove(r, k) == job' = [job EXCEPT ![r] = k]

LEMMA MovedJobs ==
  ASSUME job \in [Requests -> Jobs], NEW r \in Requests, NEW k \in Jobs, JobsMove(r, k)
  PROVE  /\ job' \in [Requests -> Jobs] /\ job'[r] = k
         /\ \A s \in Requests : s # r => job'[s] = job[s]
  BY DEF JobsMove

(* A step of a worker that writes no row.                                  *)
LEMMA WorkStep ==
  ASSUME ChatInv, NEW r \in Requests, NEW k, Mild(job[r], k), JobsMove(r, k),
         job[r].pc \in Working,
         UNCHANGED <<rows, leaf, gone, lease>>, mishaps' \in 0..MaxMishaps
  PROVE  ChatInv'
<1>1. /\ TypeOK /\ AllFit /\ Leased /\ Chained /\ Newest /\ Targets /\ Endings
  BY DEF ChatInv
<1>2. k \in Jobs /\ Fit(k) /\ k.pc \in Working /\ SamePlace(job[r], k) /\ Told(job[r], k)
  BY DEF Mild
<1>3. /\ job' \in [Requests -> Jobs] /\ job'[r] = k
      /\ \A s \in Requests : s # r => job'[s] = job[s]
  BY <1>1, <1>2, MovedJobs DEF TypeOK
<1>4. /\ rows' = rows /\ leaf' = leaf /\ gone' = gone /\ lease' = lease /\ Ids' = Ids
  BY DEF Ids
<1>5. AllFit'
  BY <1>1, <1>2, <1>3 DEF AllFit
<1>6. TypeOK'
  <2>1. ASSUME NEW s \in Requests
        PROVE  /\ job'[s].parent <= Len(rows) \/ gone
               /\ Len(job'[s].results) <= Len(job'[s].calls)
    BY <1>1, <1>2, <1>3 DEF TypeOK, SamePlace, Fit
  <2> QED BY <1>1, <1>3, <1>4, <2>1 DEF TypeOK
<1>7. Leased'
  BY <1>1, <1>2, <1>3, <1>4 DEF Leased
<1>8. Chained'
  BY <1>1, <1>4 DEF Chained
<1>9. Newest'
  <2>1. \A s \in Requests : HasRow(s)' <=> HasRow(s)
    BY <1>4 DEF HasRow
  <2>2. k.pc \notin {"idle", "checked", "ask", "act"}
    BY <1>2 DEF Working, Streaming
  <2> QED BY <1>1, <1>2, <1>3, <1>4, <2>1, <2>2 DEF Newest, SamePlace
<1>10. Targets'
  BY <1>1, <1>2, <1>3, <1>4 DEF Targets, SamePlace
<1>11. Endings'
  <2> SUFFICES ASSUME NEW s \in Requests, job'[s].end \in Ends
               PROVE  \/ gone
                      \/ \E i \in Ids : rows[i].turn = s /\ rows[i].error = job'[s].end
                      \/ job'[s].pc = "write" /\ Head(job'[s].todo).error = job'[s].end
    BY <1>4 DEF Endings
  <2>1. CASE s = r
    BY <1>1, <1>2, <1>3, <2>1 DEF Endings, Told
  <2>2. CASE s # r
    BY <1>1, <1>3, <2>2 DEF Endings
  <2> QED BY <2>1, <2>2
<1> QED BY <1>5, <1>6, <1>7, <1>8, <1>9, <1>10, <1>11 DEF ChatInv

(* Who works holds the lease, and nobody else works.                       *)
LEMMA Alone ==
  ASSUME ChatInv, NEW r \in Requests, job[r].pc \in Working \cup {"ask", "act"},
         NEW s \in Requests, s # r
  PROVE  lease = r /\ job[s].pc \notin Working \cup {"ask", "act"}
  BY DEF ChatInv, Leased

LEMMA JobIsFit ==
  ASSUME ChatInv, NEW r \in Requests
  PROVE  job[r] \in Jobs /\ Fit(job[r]) /\ Sound(job[r])
  BY FitIsSound DEF ChatInv, TypeOK, AllFit

(* Every step of the worker that writes no row is one.                     *)
LEMMA WorkerSteps ==
  ASSUME ChatInv, NEW r \in Requests,
         \/ MakeClient(r) \/ Load(r) \/ NextRound(r) \/ OverBudget(r) \/ Arrive(r) \/ Speak(r)
         \/ Retry(r) \/ StreamFails(r) \/ RoundEnds(r) \/ CallTool(r) \/ ToolReturns(r)
         \/ ToolsStopped(r) \/ Finish(r) \/ WriteFails(r) \/ Stop(r)
  PROVE  /\ job[r].pc \in Working /\ \E k : Mild(job[r], k) /\ JobsMove(r, k)
         /\ UNCHANGED <<rows, leaf, gone, lease>> /\ mishaps' \in 0..MaxMishaps
<1> DEFINE j == job[r]
           Moves == \E k : Mild(j, k) /\ JobsMove(r, k)
           Rest == UNCHANGED <<rows, leaf, gone, lease>> /\ mishaps' \in 0..MaxMishaps
<1>1. j \in Jobs /\ Fit(j) /\ Sound(j)
  BY JobIsFit
<1>2. mishaps \in 0..MaxMishaps /\ MaxMishaps \in Nat /\ (Mishap => mishaps' \in 0..MaxMishaps)
  <2>1. mishaps \in 0..MaxMishaps
    BY DEF ChatInv, TypeOK
  <2>2. MaxMishaps \in Nat
    BY BoundsAssumption
  <2> QED BY <2>1, <2>2 DEF Mishap
<1>3. j.pc \in Looping => MayLoop(j) /\ j.end \notin Ends
  BY <1>1 DEF Fit, At, Looping, Streaming
<1>4. Mild(j, Raise(j)) /\ Mild(j, Lost(j)) /\ Mild(j, Fail(j, "failed"))
  BY <1>1, RaiseFits, LostFits, FailFits DEF Ends
<1>5. CASE MakeClient(r)
  <2>1. Mild(j, Moved(j, "load"))
    BY <1>1, <1>3, <1>5, MoveFits DEF MakeClient, Looping, Streaming
  <2> QED BY <1>2, <1>4, <1>5, <2>1 DEF MakeClient, Working, JobsMove, Moved
<1>6. CASE Load(r)
  <2>1. Mild(j, Moved(j, "check"))
    BY <1>1, <1>3, <1>6, MoveFits DEF Load, Looping, Streaming
  <2> QED BY <1>2, <1>4, <1>6, <2>1 DEF Load, Working, JobsMove, Moved
<1>7. CASE NextRound(r)
  <2>1. MayLoop(j) /\ j.end \notin Ends /\ j.pc = "check"
    BY <1>3, <1>7 DEF NextRound, Looping
  <2>2. Mild(j, Moved(j, "stream"))
    BY <1>1, <2>1, MoveFits DEF Looping, Streaming
  <2>3. Mild(j, Flush(j, "none", "overbudget")) /\ Mild(j, Flush(j, "none", "stream"))
    BY <1>1, <2>1, FlushFits DEF Errors, Stages
  <2> QED BY <1>2, <1>4, <1>7, <2>1, <2>2, <2>3 DEF NextRound, Working, JobsMove, Moved
<1>8. CASE OverBudget(r)
  <2> DEFINE notice == [Row("assistant", 0, Nobody) EXCEPT
                          !.text = <<<<"budget", r>>>>, !.error = "budget"]
             todo == <<notice>>
  <2>1. notice \in Rows /\ notice.error = "budget"
    <3>1. Row("assistant", 0, Nobody) \in Rows
      BY RowType DEF Speakers
    <3>2. <<<<"budget", r>>>> \in Seq(Words)
      BY DEF Words, Speakers
    <3> DEFINE row == Row("assistant", 0, Nobody)
               t == <<<<"budget", r>>>>
    <3> HIDE DEF row, t
    <3>3. ASSUME NEW e \in {"none", "stopped", "failed", "budget"}
          PROVE  [row EXCEPT !.text = t, !.error = e] \in Rows
      BY <3>1, <3>2, ZenonT(60) DEF Rows, row, t
    <3>4. [row EXCEPT !.text = t, !.error = "budget"].error = "budget"
      BY <3>1 DEF Rows, row
    <3> QED BY <3>3, <3>4 DEF row, t
  <2> HIDE DEF notice
  <2>2. todo \in Seq(Rows) /\ todo # <<>> /\ Head(todo).error = "budget"
    BY <2>1
  <2> HIDE DEF todo
  <2>3. Mild(j, [Writing(j, todo, "release") EXCEPT !.end = "budget"])
    BY <1>1, <2>2, NoticeFits
  <2>4. JobsMove(r, [Writing(j, todo, "release") EXCEPT !.end = "budget"])
    BY <1>8 DEF OverBudget, JobsMove, Writing, todo, notice
  <2> QED BY <1>2, <1>8, <2>3, <2>4 DEF OverBudget, Working
<1>9. CASE Arrive(r)
  BY <1>1, <1>2, <1>9, ArriveFits DEF Arrive, Working, Streaming, JobsMove
<1>10. CASE Speak(r)
  <2>1. <<<<"text", r, j.used>>>> \in Seq(Words)
    BY <1>1 DEF Words, Speakers, Jobs
  <2>2. Mild(j, Heard(j, <<<<"text", r, j.used>>>>))
    BY <1>1, <1>10, <2>1, HeardFits DEF Speak
  <2> QED BY <1>2, <1>10, <2>2 DEF Speak, Working, Streaming, JobsMove, Heard
<1>11. CASE Retry(r)
  <2>1. j.pc \in Working
    BY <1>11 DEF Retry, Working, Streaming
  <2>2. Tried(j, 1) \in Jobs /\ SameRest(j, Tried(j, 1)) /\ Tried(j, 1).pc = j.pc
    BY <1>1, TriedJob
  <2>3. Mild(j, Tried(j, 1))
    BY <1>1, <2>1, <2>2, RestFits
  <2> QED BY <1>2, <1>11, <2>1, <2>3 DEF Retry, JobsMove, Tried
<1>12. CASE StreamFails(r)
  BY <1>2, <1>4, <1>12 DEF StreamFails, Working, Streaming, JobsMove
<1>13. CASE RoundEnds(r)
  <2>1. j.pc \in {"arrived", "spoken"}
    BY <1>13 DEF RoundEnds
  <2>2. PICK q \in Replies(j) : job' = [job EXCEPT ![r] = AfterRound(r, @, q)]
    BY <1>13 DEF RoundEnds
  <2>3. Mild(j, AfterRound(r, j, q))
    BY <1>1, <2>1, AfterRoundFits
  <2> QED BY <1>2, <1>13, <2>1, <2>2, <2>3 DEF RoundEnds, Working, Streaming, JobsMove
<1>14. CASE CallTool(r)
  <2> DEFINE calls == IF j.parallel THEN j.asked ELSE Append(j.calls, j.asked[Len(j.calls) + 1])
  <2>1. /\ j.calls \in Seq(Calls) /\ j.results \in Seq(Calls) /\ j.asked \in Seq(Calls)
    BY <1>1 DEF Jobs
  <2>2. Len(j.results) < Len(j.asked) /\ Len(j.results) = Len(j.calls) /\ j.pc = "tools"
    BY <1>1, <1>14 DEF CallTool, Fit
  <2>3. calls \in Seq(Calls) /\ Len(j.results) <= Len(calls) /\ Len(calls) <= Len(j.asked)
    BY <2>1, <2>2
  <2>4. JobsMove(r, Called(j, calls))
    BY <1>14 DEF CallTool, JobsMove, Called
  <2> HIDE DEF calls
  <2>5. Mild(j, Called(j, calls))
    BY <1>1, <2>2, <2>3, CalledFits
  <2> QED BY <1>2, <1>14, <2>2, <2>4, <2>5 DEF CallTool, Working
<1>15. CASE ToolReturns(r)
  <2>1. j.pc = "tools" /\ Len(j.results) < Len(j.calls)
    BY <1>15 DEF ToolReturns
  <2>2. LET call == j.calls[Len(j.results) + 1]
            returned == [j EXCEPT !.results = Append(@, call),
                                  !.said = Append(@, <<"result", call>>)]
        IN  /\ Len(returned.results) < Len(j.asked) => Mild(j, returned)
            /\ Mild(j, [returned EXCEPT !.pc = "check", !.asked = <<>>, !.parallel = FALSE])
                 \/ Len(returned.results) < Len(j.asked)
    BY <1>1, <2>1, ReturnedFits
  <2> QED BY <1>2, <1>15, <2>1, <2>2 DEF ToolReturns, Working, JobsMove
<1>16. CASE ToolsStopped(r)
  BY <1>2, <1>4, <1>16 DEF ToolsStopped, Working, JobsMove
<1>17. CASE Finish(r)
  BY <1>1, <1>2, <1>17, FinishFits DEF Finish, Working, JobsMove
<1>18. CASE WriteFails(r)
  BY <1>2, <1>4, <1>18 DEF WriteFails, Working, JobsMove
<1>19. CASE Stop(r)
  <2>1. TRUE \in BOOLEAN /\ j.pc \in Working
    BY <1>19 DEF Stop
  <2>2. Stopped(j, TRUE) \in Jobs /\ SameRest(j, Stopped(j, TRUE)) /\ Stopped(j, TRUE).pc = j.pc
    BY <1>1, <2>1, StoppedJob
  <2>3. Mild(j, Stopped(j, TRUE))
    BY <1>1, <2>1, <2>2, RestFits
  <2> QED BY <1>2, <1>19, <2>1, <2>3 DEF Stop, JobsMove, Stopped
<1> QED BY <1>5, <1>6, <1>7, <1>8, <1>9, <1>10, <1>11, <1>12, <1>13, <1>14, <1>15,
           <1>16, <1>17, <1>18, <1>19

-----------------------------------------------------------------------------
(* The steps that take the lease or give it back, and those that write.    *)

LEMMA OverFits ==
  /\ NewJob \in Jobs /\ Fit(NewJob) /\ NewJob.pc = "idle"
  /\ NewJob.target = 0 /\ NewJob.parent = 0 /\ NewJob.end = "none"
  /\ Over \in Jobs /\ Fit(Over) /\ Over.pc = "done"
  /\ Over.target = 0 /\ Over.parent = 0 /\ Over.end = "none"
<1>1. NewJob \in Jobs
  BY DEF Jobs, NewJob, Working, Turns
<1>2. MaxToolRounds \in Nat
  BY BoundsAssumption
<1>3. /\ NewJob.pc = "idle" /\ NewJob.op = "none" /\ NewJob.target = 0 /\ NewJob.parent = 0
      /\ NewJob.end = "none" /\ NewJob.used = 0 /\ NewJob.closed = FALSE
      /\ NewJob.calls = <<>> /\ NewJob.results = <<>>
  BY DEF NewJob
<1>4. Fit(NewJob)
  BY <1>2, <1>3 DEF Fit, At, MayLoop, Looping, Streaming, Ends
<1>5. Over = Moved(NewJob, "done")
  BY DEF Over, Moved
<1>6. LET k == Moved(NewJob, "done")
      IN  /\ k \in Jobs /\ k.pc = "done" /\ SamePlace(NewJob, k) /\ SameRounds(NewJob, k)
          /\ SameBuffer(NewJob, k) /\ k.end = NewJob.end
  BY <1>1, MovedJob DEF Places
<1>7. /\ Over \in Jobs /\ Over.pc = "done" /\ SamePlace(NewJob, Over) /\ SameRounds(NewJob, Over)
      /\ SameBuffer(NewJob, Over) /\ Over.end = NewJob.end
  BY <1>5, <1>6
<1>8. Fit(Over)
  BY <1>2, <1>3, <1>7 DEF Fit, At, MayLoop, Looping, Streaming, Ends, SamePlace, SameRounds, SameBuffer
<1> QED BY <1>1, <1>3, <1>4, <1>7, <1>8 DEF SamePlace

LEMMA InitInv == Init => ChatInv
<1> SUFFICES ASSUME Init PROVE ChatInv
  OBVIOUS
<1>1. \A r \in Requests : job[r] = NewJob
  BY DEF Init
<1>2. job \in [Requests -> Jobs]
  BY OverFits DEF Init
<1>3. rows \in Seq(Rows) /\ \A i \in Ids : rows[i].turn = Nobody /\ rows[i].parent < i
  BY SeedAssumption DEF Init, Ids
<1>4. MaxMishaps \in Nat
  BY BoundsAssumption
<1>5. TypeOK
  <2>1. Len(NewJob.results) <= Len(NewJob.calls) /\ NewJob.parent = 0 /\ Len(rows) \in Nat
    BY <1>3, OverFits DEF Fit
  <2>2. /\ rows \in Seq(Rows) /\ leaf = Len(rows) /\ gone = FALSE /\ lease = Nobody
        /\ mishaps = 0 /\ \A i \in Ids : rows[i].parent < i
    BY <1>3 DEF Init
  <2>3. gone \in BOOLEAN
    BY <2>2
  <2>4. \A r \in Requests : /\ job[r].parent <= Len(rows) \/ gone
                           /\ Len(job[r].results) <= Len(job[r].calls)
    BY <1>1, <2>1
  <2> HIDE DEF Init
  <2>5. leaf \in 0..Len(rows) /\ mishaps \in 0..MaxMishaps /\ lease \in Requests \cup {Nobody}
    BY <1>4, <2>1, <2>2
  <2> QED BY <1>2, <2>2, <2>3, <2>4, <2>5 DEF TypeOK
<1>6. AllFit
  BY <1>1, OverFits DEF AllFit
<1>7. Leased
  BY <1>1, OverFits, NobodyAssumption DEF Leased, Init, Working, Streaming
<1>8. Chained
  BY <1>3 DEF Chained, Ids
<1>9. Newest
  <2>1. \A r \in Requests : ~HasRow(r) /\ job[r].pc = "idle"
    BY <1>1, <1>3, OverFits, NobodyAssumption DEF HasRow
  <2> QED BY <2>1 DEF Newest, Working, Streaming
<1>10. Targets
  BY <1>1, <1>3, OverFits DEF Targets
<1>11. Endings
  BY <1>1, OverFits DEF Endings, Ends
<1> QED BY <1>5, <1>6, <1>7, <1>8, <1>9, <1>10, <1>11 DEF ChatInv

(* The rows stay, one request moves and no turn's ending changes.          *)
LEMMA QuietStep ==
  ASSUME ChatInv, NEW r \in Requests, NEW k \in Jobs, Fit(k), JobsMove(r, k),
         UNCHANGED <<rows, leaf, gone>>, mishaps' \in 0..MaxMishaps,
         lease' \in Requests \cup {Nobody},
         k.target <= Len(rows) \/ gone, k.parent <= Len(rows) \/ gone, k.end \notin Ends,
         \A s \in Requests : lease' = s <=> job'[s].pc \in Working \cup {"ask", "act"},
         k.pc \in {"idle", "checked", "ask", "act"} => ~HasRow(r),
         k.pc \in Working => ~HasRow(r) \/ (job[r].pc \in Working /\ k.parent = job[r].parent)
  PROVE  ChatInv'
<1>1. /\ TypeOK /\ AllFit /\ Leased /\ Chained /\ Newest /\ Targets /\ Endings
  BY DEF ChatInv
<1>3. /\ job' \in [Requests -> Jobs] /\ job'[r] = k
      /\ \A s \in Requests : s # r => job'[s] = job[s]
  BY <1>1, MovedJobs DEF TypeOK
<1>4. /\ rows' = rows /\ leaf' = leaf /\ gone' = gone /\ Ids' = Ids
  BY DEF Ids
<1>5. AllFit'
  BY <1>1, <1>3 DEF AllFit
<1>6. TypeOK'
  <2>1. ASSUME NEW s \in Requests
        PROVE  /\ job'[s].parent <= Len(rows) \/ gone
               /\ Len(job'[s].results) <= Len(job'[s].calls)
    BY <1>1, <1>3 DEF TypeOK, Fit
  <2> QED BY <1>1, <1>3, <1>4, <2>1 DEF TypeOK
<1>7. Leased'
  BY DEF Leased
<1>8. Chained'
  BY <1>1, <1>4 DEF Chained
<1>9. Newest'
  <2>1. \A s \in Requests : HasRow(s)' <=> HasRow(s)
    BY <1>4 DEF HasRow
  <2> QED BY <1>1, <1>3, <1>4, <2>1 DEF Newest
<1>10. Targets'
  BY <1>1, <1>3, <1>4 DEF Targets
<1>11. Endings'
  <2> SUFFICES ASSUME NEW s \in Requests, job'[s].end \in Ends
               PROVE  \/ gone
                      \/ \E i \in Ids : rows[i].turn = s /\ rows[i].error = job'[s].end
                      \/ job'[s].pc = "write" /\ Head(job'[s].todo).error = job'[s].end
    BY <1>4 DEF Endings
  <2>1. s # r
    BY <1>3
  <2> QED BY <1>1, <1>3, <2>1 DEF Endings
<1> QED BY <1>5, <1>6, <1>7, <1>8, <1>9, <1>10, <1>11 DEF ChatInv

LEMMA Kept ==
  ASSUME ChatInv
  PROVE  /\ job \in [Requests -> Jobs] /\ mishaps \in 0..MaxMishaps
         /\ lease \in Requests \cup {Nobody} /\ rows \in Seq(Rows) /\ Len(rows) \in Nat
         /\ leaf \in 0..Len(rows) /\ gone \in BOOLEAN /\ MaxMishaps \in Nat
         /\ \A i \in Ids : rows[i].parent < i /\ rows[i] \in Rows /\ rows[i].parent \in Nat
<1>1. /\ job \in [Requests -> Jobs] /\ mishaps \in 0..MaxMishaps
      /\ lease \in Requests \cup {Nobody} /\ rows \in Seq(Rows)
      /\ leaf \in 0..Len(rows) /\ gone \in BOOLEAN
      /\ \A i \in Ids : rows[i].parent < i
  BY DEF ChatInv, TypeOK
<1>2. \A i \in Ids : rows[i] \in Rows
  BY <1>1 DEF Ids
<1>3. \A i \in Ids : rows[i].parent \in Nat
  BY <1>2 DEF Rows
<1>4. MaxMishaps \in Nat
  BY BoundsAssumption
<1> QED BY <1>1, <1>2, <1>3, <1>4

Placed(j, v, op, t) == [j EXCEPT !.pc = v, !.op = op, !.target = t]
Started(j, v, n) == [j EXCEPT !.pc = v, !.start = n, !.parent = n]

LEMMA PlacedJob ==
  ASSUME NEW j \in Jobs, NEW v \in Places, NEW op \in {"none", "branch", "delete"} \cup Turns,
         NEW t \in Nat
  PROVE  LET k == Placed(j, v, op, t)
         IN  /\ k \in Jobs /\ k.pc = v /\ k.op = op /\ k.target = t /\ k.parent = j.parent
             /\ SameRounds(j, k) /\ SameBuffer(j, k) /\ k.end = j.end
<1> DEFINE k == Placed(j, v, op, t)
<1>1. k \in Jobs
  BY ZenonT(60) DEF Jobs, Places, Placed
<1>2. /\ k.pc = v /\ k.op = op /\ k.target = t /\ k.parent = j.parent
      /\ SameRounds(j, k) /\ SameBuffer(j, k) /\ k.end = j.end
  BY DEF Jobs, Placed, SameRounds, SameBuffer
<1> QED BY <1>1, <1>2

LEMMA StartedJob ==
  ASSUME NEW j \in Jobs, NEW v \in Places, NEW n \in Nat
  PROVE  LET k == Started(j, v, n)
         IN  /\ k \in Jobs /\ k.pc = v /\ k.op = j.op /\ k.target = j.target /\ k.parent = n
             /\ SameRounds(j, k) /\ SameBuffer(j, k) /\ k.end = j.end
<1> DEFINE k == Started(j, v, n)
<1>1. k \in Jobs
  BY ZenonT(60) DEF Jobs, Places, Started
<1>2. /\ k.pc = v /\ k.op = j.op /\ k.target = j.target /\ k.parent = n
      /\ SameRounds(j, k) /\ SameBuffer(j, k) /\ k.end = j.end
  BY DEF Jobs, Started, SameRounds, SameBuffer
<1> QED BY <1>1, <1>2

LEMMA PreflightStep ==
  ASSUME ChatInv, NEW r \in Requests, Begin(r) PROVE ChatInv'
<1>1. PICK op \in Ops[r], t \in 0..Len(rows) : Preflight(r, op, t)
  BY DEF Begin
<1> DEFINE j == job[r]
           k == Placed(j, "checked", op, t)
<1>2. op \in {"branch", "delete"} \cup Turns /\ op # "none"
  BY OpsAssumption DEF Turns
<1>3. j \in Jobs /\ Fit(j) /\ j.pc = "idle"
  BY <1>1, JobIsFit DEF Preflight
<1>4. t \in Nat /\ t <= Len(rows) /\ (op \in {"edit", "branch"} => t > 0)
  <2>1. Len(rows) \in Nat /\ t \in 0..Len(rows) /\ Valid(op, t)
    BY <1>1, Kept DEF Preflight
  <2>2. op = "edit" => t \in Ids
    BY <2>1 DEF Valid
  <2>3. op = "branch" => t \in Ids
    BY <2>1 DEF Valid
  <2> QED BY <2>1, <2>2, <2>3 DEF Ids
<1>5. /\ k \in Jobs /\ k.pc = "checked" /\ k.op = op /\ k.target = t /\ k.parent = j.parent
      /\ SameRounds(j, k) /\ SameBuffer(j, k) /\ k.end = j.end
  <2>1. "checked" \in Places /\ op \in {"none", "branch", "delete"} \cup Turns
    BY <1>2 DEF Places
  <2> QED BY <1>3, <1>4, <2>1, PlacedJob
<1>6. JobsMove(r, k)
  BY <1>1 DEF JobsMove, Preflight, Placed
<1>7. /\ UNCHANGED <<rows, leaf, gone, lease, mishaps>>
  BY <1>1 DEF Preflight
<1> HIDE DEF k
<1>8. Fit(k) /\ k.end \notin Ends
  BY <1>2, <1>3, <1>4, <1>5 DEF Fit, At, SameRounds, SameBuffer, MayLoop, Looping, Streaming
<1>9. job'[r] = k /\ \A s \in Requests : s # r => job'[s] = job[s]
  BY <1>5, <1>6, Kept, MovedJobs
<1>10. \A s \in Requests : lease' = s <=> job'[s].pc \in Working \cup {"ask", "act"}
  BY <1>3, <1>5, <1>7, <1>9 DEF ChatInv, Leased, Working, Streaming
<1>11. ~HasRow(r) /\ k.pc \notin Working
  BY <1>3, <1>5 DEF ChatInv, Newest, Working, Streaming
<1>12. k.target <= Len(rows) \/ gone
  BY <1>4, <1>5
<1>13. k.parent <= Len(rows) \/ gone
  BY <1>5 DEF ChatInv, TypeOK
<1>14. mishaps' \in 0..MaxMishaps /\ lease' \in Requests \cup {Nobody}
  BY <1>7, Kept
<1> QED BY <1>5, <1>6, <1>7, <1>8, <1>10, <1>11, <1>12, <1>13, <1>14, QuietStep

LEMMA RefusedStep ==
  ASSUME ChatInv, NEW r \in Requests, Refused(r) PROVE ChatInv'
<1>1. JobsMove(r, Over) /\ UNCHANGED <<rows, leaf, gone, lease, mishaps>> /\ job[r].pc = "checked"
  BY DEF Refused, JobsMove
<1>2. job'[r] = Over /\ \A s \in Requests : s # r => job'[s] = job[s]
  BY <1>1, Kept, OverFits, MovedJobs
<1>3. \A s \in Requests : lease' = s <=> job'[s].pc \in Working \cup {"ask", "act"}
  BY <1>1, <1>2, OverFits DEF ChatInv, Leased, Working, Streaming
<1>4. /\ Over.pc \notin {"idle", "checked", "ask", "act"} /\ Over.pc \notin Working
      /\ Over.target <= Len(rows) /\ Over.parent <= Len(rows) /\ Over.end \notin Ends
  BY Kept, OverFits DEF Working, Streaming, Ends
<1>5. mishaps' \in 0..MaxMishaps /\ lease' \in Requests \cup {Nobody}
  BY <1>1, Kept
<1> QED BY <1>1, <1>3, <1>4, <1>5, OverFits, QuietStep

LEMMA ReleaseStep ==
  ASSUME ChatInv, NEW r \in Requests, Release(r) PROVE ChatInv'
<1>1. JobsMove(r, Over) /\ UNCHANGED <<rows, leaf, gone, mishaps>> /\ job[r].pc = "release"
  BY DEF Release, JobsMove
<1>2. job'[r] = Over /\ \A s \in Requests : s # r => job'[s] = job[s]
  BY <1>1, Kept, OverFits, MovedJobs
<1>6. lease = r /\ lease' = Nobody
  BY <1>1 DEF ChatInv, Leased, Working, Release
<1>3. \A s \in Requests : lease' = s <=> job'[s].pc \in Working \cup {"ask", "act"}
  <2>1. Over.pc \notin Working \cup {"ask", "act"}
    BY OverFits DEF Working, Streaming
  <2>2. \A s \in Requests : s # Nobody
    BY NobodyAssumption
  <2> QED BY <1>2, <1>6, <2>1, <2>2 DEF ChatInv, Leased
<1>4. /\ Over.pc \notin {"idle", "checked", "ask", "act"} /\ Over.pc \notin Working
      /\ Over.target <= Len(rows) /\ Over.parent <= Len(rows) /\ Over.end \notin Ends
  BY Kept, OverFits DEF Working, Streaming, Ends
<1>5. mishaps' \in 0..MaxMishaps /\ lease' \in Requests \cup {Nobody}
  BY <1>1, <1>6, Kept
<1> QED BY <1>1, <1>3, <1>4, <1>5, OverFits, QuietStep

LEMMA AcquireStep ==
  ASSUME ChatInv, NEW r \in Requests, Acquire(r) PROVE ChatInv'
<1> DEFINE j == job[r]
           v == CASE j.op \in {"send", "edit"} -> "ask"
                  [] j.op \in {"regenerate", "continue"} -> "client"
                  [] OTHER -> "act"
           k == Started(j, v, j.target)
<1>1. j \in Jobs /\ Fit(j) /\ j.pc = "checked" /\ lease = Nobody /\ lease' = r
  BY JobIsFit DEF Acquire
<1>2. JobsMove(r, k) /\ UNCHANGED <<rows, leaf, gone, mishaps>>
  BY DEF Acquire, JobsMove, Started
<1>3. /\ v \in {"ask", "client", "act"} /\ (v = "ask" => j.op \in {"send", "edit"})
      /\ (v = "act" => j.op \in {"branch", "delete"})
  BY <1>1 DEF Fit, Jobs, Turns
<1> HIDE DEF v
<1>4. v \in Places /\ v \in Working \cup {"ask", "act"} /\ j.target \in Nat
  BY <1>1, <1>3 DEF Places, Working, Jobs
<1>5. /\ k \in Jobs /\ k.pc = v /\ k.op = j.op /\ k.target = j.target /\ k.parent = j.target
      /\ SameRounds(j, k) /\ SameBuffer(j, k) /\ k.end = j.end
  BY <1>1, <1>4, StartedJob
<1> HIDE DEF k
<1>6. Fit(k) /\ k.end \notin Ends
  BY <1>1, <1>3, <1>5 DEF Fit, At, SameRounds, SameBuffer, MayLoop, Looping, Streaming
<1>7. job'[r] = k /\ \A s \in Requests : s # r => job'[s] = job[s]
  BY <1>2, <1>5, Kept, MovedJobs
<1>8. \A s \in Requests : lease' = s <=> job'[s].pc \in Working \cup {"ask", "act"}
  <2>1. \A s \in Requests : job[s].pc \notin Working \cup {"ask", "act"}
    BY <1>1, NobodyAssumption DEF ChatInv, Leased
  <2> QED BY <1>1, <1>4, <1>5, <1>7, <2>1
<1>9. ~HasRow(r)
  BY <1>1 DEF ChatInv, Newest
<1>10. (k.target <= Len(rows) \/ gone) /\ (k.parent <= Len(rows) \/ gone)
  BY <1>5 DEF ChatInv, Targets
<1>11. mishaps' \in 0..MaxMishaps /\ lease' \in Requests \cup {Nobody}
  BY <1>1, <1>2, Kept
<1> QED BY <1>2, <1>5, <1>6, <1>8, <1>9, <1>10, <1>11, QuietStep

LEMMA AskFailsStep ==
  ASSUME ChatInv, NEW r \in Requests, AskFails(r) PROVE ChatInv'
<1> DEFINE j == job[r]
           k == Lost(j)
<1>1. j \in Jobs /\ Sound(j) /\ j.pc = "ask"
  BY JobIsFit DEF AskFails
<1>2. JobsMove(r, k) /\ UNCHANGED <<rows, leaf, gone, lease>>
  BY DEF AskFails, JobsMove
<1>3. Mild(j, k) /\ k.pc = "release" /\ k.end = "lost"
  <2>1. k.pc = "release" /\ k.end = "lost"
    BY <1>1 DEF Lost, Jobs
  <2> QED BY <1>1, <2>1, LostFits
<1> HIDE DEF k
<1>4. /\ k \in Jobs /\ Fit(k) /\ k.pc \in Working /\ k.end \notin Ends
      /\ k.target = j.target /\ k.parent = j.parent
  BY <1>3 DEF Mild, SamePlace, Ends
<1>5. job'[r] = k /\ \A s \in Requests : s # r => job'[s] = job[s]
  BY <1>2, <1>4, Kept, MovedJobs
<1>6. \A s \in Requests : lease' = s <=> job'[s].pc \in Working \cup {"ask", "act"}
  BY <1>1, <1>2, <1>4, <1>5 DEF ChatInv, Leased
<1>7. ~HasRow(r)
  BY <1>1 DEF ChatInv, Newest
<1>8. (k.target <= Len(rows) \/ gone) /\ (k.parent <= Len(rows) \/ gone)
  BY <1>4 DEF ChatInv, Targets, TypeOK
<1>9. mishaps' \in 0..MaxMishaps /\ lease' \in Requests \cup {Nobody}
  <2>1. mishaps' = mishaps \/ Mishap
    BY DEF AskFails
  <2> QED BY <1>2, <2>1, Kept DEF Mishap
<1> QED BY <1>2, <1>4, <1>6, <1>7, <1>8, <1>9, QuietStep

-----------------------------------------------------------------------------
(* The steps that write a row.                                             *)

Under(row, p, r) == [row EXCEPT !.parent = p, !.turn = r]

LEMMA WrittenRow ==
  ASSUME NEW row \in Rows, NEW p \in Nat, NEW r \in Speakers
  PROVE  /\ Under(row, p, r) \in Rows
         /\ Under(row, p, r).parent = p /\ Under(row, p, r).turn = r
         /\ Under(row, p, r).error = row.error
<1>1. Under(row, p, r) \in Rows
  BY ZenonT(60) DEF Rows, Under
<1>2. /\ Under(row, p, r).parent = p /\ Under(row, p, r).turn = r
      /\ Under(row, p, r).error = row.error
  BY DEF Rows, Under
<1> QED BY <1>1, <1>2

LEMMA RowStep ==
  ASSUME ChatInv, NEW r \in Requests, job[r].pc \in Working \cup {"ask"},
         NEW row \in Rows, NEW p \in 0..Len(rows), Append1(row, p, r),
         HasRow(r) => p = Len(rows) /\ rows[Len(rows)].turn = r,
         NEW k \in Jobs, JobsMove(r, k), Fit(k), k.pc \in Working,
         k.parent = Len(rows) + 1, k.target = job[r].target,
         UNCHANGED <<gone, lease, mishaps>>,
         k.end \in Ends =>
           \/ row.error = k.end
           \/ \E i \in Ids : rows[i].turn = r /\ rows[i].error = k.end
           \/ k.pc = "write" /\ Head(k.todo).error = k.end
  PROVE  ChatInv'
<1> DEFINE N == Len(rows)
           x == Under(row, p, r)
<1>1. /\ TypeOK /\ AllFit /\ Leased /\ Chained /\ Newest /\ Targets /\ Endings
  BY DEF ChatInv
<1>2. /\ rows \in Seq(Rows) /\ N \in Nat /\ p \in Nat /\ r \in Speakers
      /\ \A i \in 1..N : rows[i].parent < i
  BY Kept DEF Speakers, Ids
<1>3. x \in Rows /\ x.parent = p /\ x.turn = r /\ x.error = row.error
  <2>1. p \in Nat /\ r \in Speakers
    BY <1>2
  <2>2. x \in Rows
    BY <2>1, WrittenRow
  <2>3. x.parent = p /\ x.turn = r /\ x.error = row.error
    BY <2>1, WrittenRow
  <2> QED BY <2>2, <2>3
<1>4. rows' = Append(rows, x) /\ leaf' = N + 1 /\ ~gone
  BY DEF Append1, Under
<1> HIDE DEF x
<1>5. /\ rows' \in Seq(Rows) /\ Len(rows') = N + 1 /\ rows'[N + 1] = x
      /\ \A i \in 1..N : rows'[i] = rows[i]
      /\ Ids = 1..N /\ Ids' = 1..(N + 1)
  BY <1>2, <1>3, <1>4 DEF Ids
<1>6. /\ job' \in [Requests -> Jobs] /\ job'[r] = k
      /\ \A s \in Requests : s # r => job'[s] = job[s]
  BY <1>1, MovedJobs DEF TypeOK
<1>7. gone' = gone /\ lease' = lease /\ mishaps' = mishaps
  OBVIOUS
<1> HIDE DEF N
<1>8. AllFit'
  BY <1>1, <1>6 DEF AllFit
<1>9. TypeOK'
  <2>1. ASSUME NEW s \in Requests
        PROVE  /\ job'[s].parent <= N + 1 \/ gone
               /\ Len(job'[s].results) <= Len(job'[s].calls)
    <3>1. CASE s = r
      BY <1>2, <1>6, <3>1 DEF Fit, N
    <3>2. CASE s # r
      <4>1. job'[s] = job[s] /\ job[s].parent \in Nat
        BY <1>1, <1>6, <3>2 DEF TypeOK, Jobs
      <4> QED BY <1>1, <1>2, <4>1 DEF TypeOK, N
    <3> QED BY <3>1, <3>2
  <2>2. \A i \in Ids' : rows'[i].parent < i
    BY <1>2, <1>3, <1>5 DEF N
  <2>3. leaf' \in 0..Len(rows')
    BY <1>2, <1>4, <1>5
  <2> QED BY <1>1, <1>5, <1>6, <1>7, <2>1, <2>2, <2>3 DEF TypeOK
<1>10. Leased'
  BY <1>1, <1>6, <1>7, Alone DEF Leased, Ask, Write
<1>11. \A s \in Requests : HasRow(s)' <=> (HasRow(s) \/ s = r)
  <2> SUFFICES ASSUME NEW s \in Requests PROVE HasRow(s)' <=> (HasRow(s) \/ s = r)
    OBVIOUS
  <2>1. HasRow(s)' <=> \E i \in 1..(N + 1) : rows'[i].turn = s
    BY <1>5 DEF HasRow
  <2>2. HasRow(s) <=> \E i \in 1..N : rows'[i].turn = s
    BY <1>5 DEF HasRow
  <2>3. (N + 1) \in 1..(N + 1) /\ rows'[N + 1].turn = r
    BY <1>2, <1>3, <1>5
  <2>4. \A i \in 1..(N + 1) : i \in 1..N \/ i = N + 1
    BY <1>2
  <2>5. \A i \in 1..N : i \in 1..(N + 1)
    BY <1>2
  <2> QED BY <2>1, <2>2, <2>3, <2>4, <2>5
<1>12. Chained'
  <2> SUFFICES ASSUME NEW i \in 2..(N + 1), rows'[i].turn # Nobody,
                      NEW l \in 1..(i - 1), rows'[l].turn = rows'[i].turn
               PROVE  rows'[i - 1].turn = rows'[i].turn /\ rows'[i].parent = i - 1
    BY <1>5 DEF Chained
  <2>1. CASE i = N + 1
    <3>1. l \in 1..N /\ i - 1 = N /\ N \in 1..N
      BY <1>2, <2>1
    <3>2. rows[l].turn = r /\ l \in Ids
      BY <1>3, <1>5, <2>1, <3>1
    <3>3. p = N /\ rows[N].turn = r
      BY <3>2 DEF HasRow, N
    <3> QED BY <1>3, <1>5, <2>1, <3>1, <3>3
  <2>2. CASE i # N + 1
    <3>1. i \in 2..N /\ l \in 1..N /\ i \in 1..N /\ (i - 1) \in 1..N
      BY <1>2, <2>2
    <3>2. rows[i].turn # Nobody /\ rows[l].turn = rows[i].turn
      BY <1>5, <3>1
    <3>3. rows[i - 1].turn = rows[i].turn /\ rows[i].parent = i - 1
      BY <1>1, <3>1, <3>2 DEF Chained, N
    <3> QED BY <1>5, <3>1, <3>3
  <2> QED BY <2>1, <2>2
<1>13. Newest'
  <2> SUFFICES ASSUME NEW s \in Requests
               PROVE  /\ job'[s].pc \in {"idle", "checked", "ask", "act"} => ~HasRow(s)'
                      /\ job'[s].pc \in Working /\ HasRow(s)' =>
                           /\ leaf' = Len(rows') /\ job'[s].parent = Len(rows')
                           /\ rows'[Len(rows')].turn = s
    BY DEF Newest
  <2>1. CASE s = r
    <3>1. job'[s].pc \notin {"idle", "checked", "ask", "act"}
      BY <1>6, <2>1 DEF Working, Streaming
    <3> QED BY <1>3, <1>4, <1>5, <1>6, <2>1, <3>1 DEF N
  <2>2. CASE s # r
    <3>1. job[s].pc \notin Working
      BY <2>2, Alone
    <3> QED BY <1>1, <1>6, <1>11, <2>2, <3>1 DEF Newest
  <2> QED BY <2>1, <2>2
<1>14. Targets'
  <2> SUFFICES ASSUME NEW s \in Requests PROVE job'[s].target <= N + 1 \/ gone
    BY <1>5, <1>7 DEF Targets
  <2>1. job'[s].target = job[s].target /\ job[s].target \in Nat
    BY <1>1, <1>6 DEF TypeOK, Jobs
  <2> QED BY <1>1, <1>2, <2>1 DEF Targets, N
<1>15. Endings'
  <2> SUFFICES ASSUME NEW s \in Requests, job'[s].end \in Ends
               PROVE  \/ gone
                      \/ \E i \in Ids' : rows'[i].turn = s /\ rows'[i].error = job'[s].end
                      \/ job'[s].pc = "write" /\ Head(job'[s].todo).error = job'[s].end
    BY <1>7 DEF Endings
  <2>1. ASSUME NEW i \in Ids, rows[i].turn = s, rows[i].error = job'[s].end
        PROVE  i \in Ids' /\ rows'[i].turn = s /\ rows'[i].error = job'[s].end
    BY <1>2, <1>5, <2>1
  <2>2. CASE s = r
    <3>1. (N + 1) \in Ids' /\ rows'[N + 1].turn = r /\ rows'[N + 1].error = row.error
      BY <1>2, <1>3, <1>5
    <3> QED BY <1>6, <2>1, <2>2, <3>1
  <2>3. CASE s # r
    BY <1>1, <1>6, <2>1, <2>3 DEF Endings
  <2> QED BY <2>2, <2>3
<1> QED BY <1>8, <1>9, <1>10, <1>12, <1>13, <1>14, <1>15 DEF ChatInv

LEMMA AskStep ==
  ASSUME ChatInv, NEW r \in Requests, Ask(r) PROVE ChatInv'
<1> DEFINE j == job[r]
           p == IF j.op = "edit" THEN rows[j.target].parent ELSE ActiveLeaf
           question == [Row("user", 0, r) EXCEPT !.text = <<<<"ask", r>>>>]
           k == Started(j, "client", Len(rows) + 1)
<1>1. /\ j \in Jobs /\ Fit(j) /\ j.pc = "ask" /\ Append1(question, p, r) /\ ~gone
      /\ UNCHANGED <<gone, lease, mishaps>>
  BY JobIsFit DEF Ask, Append1
<1>2. JobsMove(r, k)
  BY DEF Ask, JobsMove, Started
<1>3. question \in Rows
  <2> DEFINE row == Row("user", 0, r)
             t == <<<<"ask", r>>>>
  <2>1. row \in Rows
    BY RowType DEF Speakers
  <2>2. t \in Seq(Words)
    BY DEF Words, Speakers
  <2> HIDE DEF row, t
  <2>3. [row EXCEPT !.text = t] \in Rows
    BY <2>1, <2>2, ZenonT(60) DEF Rows
  <2> QED BY <2>3 DEF row, t
<1>4. p \in 0..Len(rows)
  <2>1. CASE j.op = "edit"
    <3>1. j.target \in Ids
      BY <1>1, <2>1, Kept, SMTT(30) DEF ChatInv, Targets, Fit, Ids, Jobs
    <3> QED BY <2>1, <3>1, Kept DEF Ids
  <2>2. CASE j.op # "edit"
    BY <2>2, Kept DEF ActiveLeaf, Ids
  <2> QED BY <2>1, <2>2
<1> HIDE DEF question, p
<1>5. /\ k \in Jobs /\ k.pc = "client" /\ k.op = j.op /\ k.target = j.target
      /\ k.parent = Len(rows) + 1 /\ SameRounds(j, k) /\ SameBuffer(j, k) /\ k.end = j.end
  <2>1. "client" \in Places /\ Len(rows) + 1 \in Nat
    BY Kept DEF Places, Working
  <2> DEFINE n == Len(rows) + 1
  <2> HIDE DEF n
  <2>2. LET m == Started(j, "client", n)
        IN  /\ m \in Jobs /\ m.pc = "client" /\ m.op = j.op /\ m.target = j.target /\ m.parent = n
            /\ SameRounds(j, m) /\ SameBuffer(j, m) /\ m.end = j.end
    BY <1>1, <2>1, StartedJob DEF n
  <2> QED BY <2>2 DEF n
<1> HIDE DEF k
<1>6. Fit(k) /\ k.end \notin Ends /\ k.pc \in Working
  BY <1>1, <1>5 DEF Fit, At, SameRounds, SameBuffer, MayLoop, Looping, Streaming, Working
<1>7. ~HasRow(r)
  BY <1>1 DEF ChatInv, Newest
<1> QED BY <1>1, <1>2, <1>3, <1>4, <1>5, <1>6, <1>7, RowStep

Wrote(j, n) == [j EXCEPT !.parent = n, !.todo = Tail(@)]
WroteLast(j, v) == [j EXCEPT !.pc = v, !.then = "none"]

LEMMA WroteJob ==
  ASSUME NEW j \in Jobs, j.todo # <<>>, NEW n \in Nat
  PROVE  LET k == Wrote(j, n)
         IN  /\ k \in Jobs /\ k.pc = j.pc /\ k.op = j.op /\ k.target = j.target /\ k.parent = n
             /\ SameRounds(j, k) /\ SameBuffer(j, k) /\ k.end = j.end
             /\ k.todo = Tail(j.todo) /\ k.then = j.then
<1> DEFINE t == Tail(j.todo)
           k == [j EXCEPT !.parent = n, !.todo = t]
<1>1. t \in Seq(Rows)
  BY DEF Jobs
<1>2. Wrote(j, n) = k
  BY DEF Wrote
<1> HIDE DEF t
<1>3. k \in Jobs
  BY <1>1, ZenonT(60) DEF Jobs
<1>4. /\ k.pc = j.pc /\ k.op = j.op /\ k.target = j.target /\ k.parent = n
      /\ SameRounds(j, k) /\ SameBuffer(j, k) /\ k.end = j.end
      /\ k.todo = t /\ k.then = j.then
  BY DEF Jobs, SameRounds, SameBuffer
<1> HIDE DEF k
<1> QED BY <1>2, <1>3, <1>4 DEF t

LEMMA WroteLastJob ==
  ASSUME NEW j \in Jobs, NEW v \in Places
  PROVE  LET k == WroteLast(j, v)
         IN  /\ k \in Jobs /\ k.pc = v /\ SamePlace(j, k)
             /\ SameRounds(j, k) /\ SameBuffer(j, k) /\ k.end = j.end
<1> DEFINE l == Moved(j, v)
           k == [l EXCEPT !.then = "none"]
<1>1. /\ l \in Jobs /\ l.pc = v /\ SamePlace(j, l)
      /\ SameRounds(j, l) /\ SameBuffer(j, l) /\ l.end = j.end
  BY MovedJob
<1> HIDE DEF l
<1>2. ASSUME NEW t \in {"none"} \cup Working PROVE [l EXCEPT !.then = t] \in Jobs
  BY <1>1, ZenonT(60) DEF Jobs
<1>3. k \in Jobs
  BY <1>2
<1>4. /\ k.pc = v /\ SamePlace(j, k) /\ SameRounds(j, k) /\ SameBuffer(j, k) /\ k.end = j.end
  BY <1>1 DEF Jobs, SamePlace, SameRounds, SameBuffer
<1>5. WroteLast(j, v) = k
  BY DEF k, l, WroteLast, Moved
<1> HIDE DEF k
<1> QED BY <1>3, <1>4, <1>5

LEMMA TailIsLeft ==
  ASSUME NEW s \in Seq(Rows), Len(s) > 1 PROVE Tail(s) # <<>>
<1>1. Tail(s) \in Seq(Rows) /\ Len(Tail(s)) = Len(s) - 1 /\ Len(s) \in Nat
  OBVIOUS
<1>2. Len(Tail(s)) # 0 /\ Len(<<>>) = 0
  BY <1>1
<1> QED
  <2> SUFFICES ASSUME Tail(s) = <<>> PROVE FALSE
    OBVIOUS
  <2> QED BY <1>2

LEMMA WriteStep ==
  ASSUME ChatInv, NEW r \in Requests, Write(r) PROVE ChatInv'
<1> DEFINE j == job[r]
           n == Len(rows) + 1
           row == Head(j.todo)
           l == Wrote(j, n)
           k == IF Len(j.todo) > 1 THEN l ELSE WroteLast(Emptied(l), j.then)
<1>1. /\ j \in Jobs /\ Fit(j) /\ j.pc = "write" /\ Append1(row, j.parent, r) /\ ~gone
      /\ UNCHANGED <<gone, lease, mishaps>>
  BY JobIsFit DEF Write, Append1
<1>2. JobsMove(r, k)
  BY DEF Write, JobsMove, Wrote, WroteLast
<1>3. /\ j.todo # <<>> /\ j.then \in Stages /\ j.todo \in Seq(Rows) /\ row \in Rows
  BY <1>1 DEF Fit, Jobs, Stages
<1>4. j.parent \in 0..Len(rows) /\ n \in Nat
  BY <1>1, Kept DEF ChatInv, TypeOK, Jobs
<1>5. j.pc \in Working
  BY <1>1 DEF Working
<1>6. HasRow(r) => j.parent = Len(rows) /\ rows[Len(rows)].turn = r
  BY <1>5 DEF ChatInv, Newest
<1> HIDE DEF n
<1>7. /\ l \in Jobs /\ l.pc = j.pc /\ l.op = j.op /\ l.target = j.target /\ l.parent = n
      /\ SameRounds(j, l) /\ SameBuffer(j, l) /\ l.end = j.end
      /\ l.todo = Tail(j.todo) /\ l.then = j.then
  BY <1>1, <1>3, <1>4, WroteJob
<1> HIDE DEF l
<1>8. /\ k \in Jobs /\ Fit(k) /\ k.pc \in Working
      /\ k.target = j.target /\ k.parent = n /\ k.end = j.end
  <2>1. CASE Len(j.todo) > 1
    <3>1. l.todo # <<>>
      <4>3. Tail(j.todo) # <<>>
        BY <1>3, <2>1, TailIsLeft
      <4> QED BY <1>7, <4>3
    <3>2. Fit(l)
      BY <1>1, <1>7, <3>1 DEF Fit, At, SameRounds, SameBuffer, MayLoop
    <3> QED BY <1>5, <1>7, <2>1, <3>2
  <2>2. CASE ~(Len(j.todo) > 1)
    <3> DEFINE m == Emptied(l)
               e == WroteLast(m, j.then)
    <3>1. /\ m \in Jobs /\ SamePlace(l, m) /\ SameRounds(l, m)
          /\ m.calls = <<>> /\ m.results = <<>> /\ m.closed = FALSE /\ m.end = l.end
      BY <1>7, EmptiedJob
    <3> HIDE DEF m
    <3>2. j.then \in Places /\ j.then \in Working /\ j.then # "write" /\ j.then # "tools"
          /\ j.then # "ask" /\ j.then # "act" /\ j.then # "idle" /\ j.then # "checked"
      BY <1>3 DEF Stages, Places, Working, Streaming
    <3>3. /\ e \in Jobs /\ e.pc = j.then /\ SamePlace(m, e)
          /\ SameRounds(m, e) /\ SameBuffer(m, e) /\ e.end = m.end
      BY <3>1, <3>2, WroteLastJob
    <3> HIDE DEF e
    <3>4. At(e) = At(j) /\ At(j) = j.then
      BY <1>1, <3>2, <3>3 DEF At
    <3>5. Fit(e)
      BY <1>1, <1>7, <3>1, <3>2, <3>3, <3>4
         DEF Fit, SamePlace, SameRounds, SameBuffer, MayLoop
    <3>6. e.pc \in Working /\ e.target = j.target /\ e.parent = n /\ e.end = j.end
      BY <1>7, <3>1, <3>2, <3>3 DEF SamePlace
    <3> QED BY <2>2, <3>3, <3>5, <3>6 DEF e, m
  <2> QED BY <2>1, <2>2
<1>9. k.end \in Ends => row.error = k.end \/ \E i \in Ids : rows[i].turn = r /\ rows[i].error = k.end
  BY <1>1, <1>8 DEF ChatInv, Endings
<1> HIDE DEF k, row
<1> QED BY <1>1, <1>2, <1>3, <1>4, <1>5, <1>6, <1>8, <1>9, RowStep DEF n

LEMMA ActStep ==
  ASSUME ChatInv, NEW r \in Requests, Act(r) PROVE ChatInv'
<1> DEFINE j == job[r]
           k == Ended(Moved(j, "release"), "acted")
<1>1. /\ j \in Jobs /\ Fit(j) /\ Sound(j) /\ j.pc = "act" /\ j.op \in {"branch", "delete"}
      /\ UNCHANGED <<lease, mishaps>>
  BY JobIsFit DEF Act, Fit
<1>2. JobsMove(r, k)
  BY DEF Act, JobsMove, Moved, Ended
<1>3. /\ k \in Jobs /\ Fit(k) /\ k.pc = "release" /\ k.end = "acted"
      /\ k.target = j.target /\ k.parent = j.parent
  <2> DEFINE l == Moved(j, "release")
  <2>1. /\ l \in Jobs /\ l.pc = "release" /\ SamePlace(j, l)
        /\ SameRounds(j, l) /\ SameBuffer(j, l) /\ l.end = j.end
    BY <1>1, MovedJob DEF Places, Working
  <2> HIDE DEF l
  <2>2. "acted" \in {"none", "acted", "answered", "stopped", "failed", "budget", "lost"}
    OBVIOUS
  <2>3. ASSUME NEW e \in {"none", "acted", "answered", "stopped", "failed", "budget", "lost"}
        PROVE  Ended(l, e) \in Jobs
    BY <2>1, ZenonT(60) DEF Jobs, Ended
  <2> DEFINE m == Ended(l, "acted")
  <2>4. /\ m.pc = "release" /\ m.end = "acted" /\ SamePlace(l, m)
        /\ SameRounds(l, m) /\ SameBuffer(l, m)
    BY <2>1 DEF Jobs, Ended, SamePlace, SameRounds, SameBuffer
  <2>5. m \in Jobs
    BY <2>2, <2>3
  <2> HIDE DEF m
  <2>6. Fit(m)
    BY <1>1, <2>1, <2>4
       DEF Fit, At, Sound, SamePlace, SameRounds, SameBuffer, MayLoop, Looping, Streaming, Ends
  <2>7. m.target = j.target /\ m.parent = j.parent
    BY <2>1, <2>4 DEF SamePlace
  <2> QED BY <2>4, <2>5, <2>6, <2>7 DEF m, l
<1> HIDE DEF k
<1>4. /\ job' \in [Requests -> Jobs] /\ job'[r] = k
      /\ \A s \in Requests : s # r => job'[s] = job[s]
  BY <1>2, <1>3, Kept, MovedJobs
<1>5. ~HasRow(r)
  BY <1>1 DEF ChatInv, Newest
<1>6. /\ TypeOK /\ AllFit /\ Leased /\ Chained /\ Newest /\ Targets /\ Endings
  BY DEF ChatInv
<1>7. k.pc \in Working /\ k.end \notin Ends /\ k.pc \notin {"idle", "checked", "ask", "act"}
  BY <1>3 DEF Working, Ends
<1>8. AllFit'
  BY <1>3, <1>4, <1>6 DEF AllFit
<1>9. Leased'
  BY <1>1, <1>4, <1>6, <1>7 DEF Leased
<1>10. \A s \in Requests : s # r => job[s].pc \notin Working \cup {"ask", "act"}
  BY <1>1, Alone
<1>11. CASE gone /\ UNCHANGED <<rows, leaf, gone>>
  <2>1. \A s \in Requests : lease' = s <=> job'[s].pc \in Working \cup {"ask", "act"}
    BY <1>9 DEF Leased
  <2>2. mishaps' \in 0..MaxMishaps /\ lease' \in Requests \cup {Nobody}
    BY <1>1, Kept
  <2> QED BY <1>2, <1>3, <1>5, <1>7, <1>11, <2>1, <2>2, QuietStep
<1>12. CASE ~gone /\ j.op = "branch" /\ leaf' = Deepest[j.target] /\ UNCHANGED <<rows, gone>>
  <2>1. j.target \in Ids
    BY <1>1, <1>6, <1>12, Kept DEF Targets, Fit, Ids, Jobs
  <2>2. leaf' \in Ids
    BY <1>12, <2>1, Kept, DeepestIsRow
  <2>3. Ids' = Ids /\ rows' = rows /\ gone' = gone
    BY <1>12 DEF Ids
  <2>4. TypeOK'
    <3>1. ASSUME NEW s \in Requests
          PROVE  /\ job'[s].parent <= Len(rows) \/ gone
                 /\ Len(job'[s].results) <= Len(job'[s].calls)
      BY <1>3, <1>4, <1>6 DEF TypeOK, Fit
    <3>2. leaf' \in 0..Len(rows)
      BY <2>2, Kept DEF Ids
    <3> QED BY <1>1, <1>4, <1>6, <2>3, <3>1, <3>2 DEF TypeOK
  <2>5. Chained'
    BY <1>6, <2>3 DEF Chained
  <2>6. Newest'
    <3>1. \A s \in Requests : HasRow(s)' <=> HasRow(s)
      BY <2>3 DEF HasRow
    <3> QED BY <1>4, <1>5, <1>6, <1>7, <1>10, <3>1 DEF Newest
  <2>7. Targets'
    BY <1>3, <1>4, <1>6, <2>3 DEF Targets
  <2>8. Endings'
    <3> SUFFICES ASSUME NEW s \in Requests, job'[s].end \in Ends
                 PROVE  \/ gone
                        \/ \E i \in Ids : rows[i].turn = s /\ rows[i].error = job'[s].end
                        \/ job'[s].pc = "write" /\ Head(job'[s].todo).error = job'[s].end
      BY <2>3 DEF Endings
    <3>1. s # r
      BY <1>4, <1>7
    <3> QED BY <1>4, <1>6, <3>1 DEF Endings
  <2> QED BY <1>8, <1>9, <2>4, <2>5, <2>6, <2>7, <2>8 DEF ChatInv
<1>13. CASE ~gone /\ j.op = "delete" /\ rows' = <<>> /\ leaf' = 0 /\ gone' = TRUE
  <2>1. Len(rows') = 0 /\ rows' \in Seq(Rows) /\ gone'
    BY <1>13
  <2>2. Ids' = {}
    BY <2>1 DEF Ids
  <2>3. TypeOK'
    <3>1. \A s \in Requests : Len(job'[s].results) <= Len(job'[s].calls)
      BY <1>8 DEF AllFit, Fit
    <3>2. gone' \in BOOLEAN
      BY <1>13
    <3>3. leaf' \in 0..Len(rows')
      BY <1>13, <2>1
    <3> QED BY <1>1, <1>4, <1>6, <2>1, <2>2, <3>1, <3>2, <3>3 DEF TypeOK
  <2>4. Chained'
    BY <2>1 DEF Chained
  <2>5. Newest'
    BY <2>2 DEF Newest, HasRow
  <2>6. Targets'
    BY <2>1 DEF Targets
  <2>7. Endings'
    BY <2>1 DEF Endings
  <2> QED BY <1>8, <1>9, <2>3, <2>4, <2>5, <2>6, <2>7 DEF ChatInv
<1> QED BY <1>11, <1>12, <1>13 DEF Act

LEMMA CrashStep ==
  ASSUME ChatInv, Crash PROVE ChatInv'
<1>1. /\ TypeOK /\ AllFit /\ Leased /\ Chained /\ Newest /\ Targets /\ Endings
  BY DEF ChatInv
<1>2. /\ rows' = rows /\ leaf' = leaf /\ gone' = gone /\ Ids' = Ids /\ lease' = Nobody
  BY DEF Crash, Ids
<1>3. mishaps' \in 0..MaxMishaps
  BY Kept DEF Crash, Mishap
<1>4. job' = [r \in Requests |-> IF job[r].pc \in {"idle", "done"} THEN job[r] ELSE Over]
  BY DEF Crash
<1>5. job' \in [Requests -> Jobs]
  BY <1>4, Kept, OverFits
<1>6. ASSUME NEW r \in Requests
      PROVE  /\ (job'[r] = job[r] /\ job[r].pc \in {"idle", "done"}) \/ job'[r] = Over
             /\ job'[r].pc \in {"idle", "done"}
  BY <1>4, OverFits
<1>7. AllFit'
  BY <1>1, <1>6, OverFits DEF AllFit
<1>8. TypeOK'
  <2>1. ASSUME NEW s \in Requests
        PROVE  /\ job'[s].parent <= Len(rows) \/ gone
               /\ Len(job'[s].results) <= Len(job'[s].calls)
    BY <1>1, <1>6, OverFits, Kept DEF TypeOK, Fit
  <2> QED BY <1>1, <1>2, <1>3, <1>5, <2>1 DEF TypeOK
<1>9. Leased'
  BY <1>2, <1>6, NobodyAssumption DEF Leased, Working, Streaming
<1>10. Chained'
  BY <1>1, <1>2 DEF Chained
<1>11. Newest'
  <2>1. \A s \in Requests : HasRow(s)' <=> HasRow(s)
    BY <1>2 DEF HasRow
  <2>2. \A s \in Requests : job'[s].pc \notin Working
    BY <1>6 DEF Working, Streaming
  <2>3. \A s \in Requests : job'[s].pc = "idle" => job[s].pc = "idle"
    BY <1>6, OverFits
  <2>4. \A s \in Requests : job'[s].pc \notin {"checked", "ask", "act"}
    BY <1>6
  <2> QED BY <1>1, <2>1, <2>2, <2>3, <2>4 DEF Newest
<1>12. Targets'
  BY <1>1, <1>2, <1>6, OverFits, Kept DEF Targets
<1>13. Endings'
  <2>1. \A s \in Requests : job'[s].end \notin Ends
    BY <1>1, <1>6, OverFits DEF AllFit, Fit, Ends
  <2> QED BY <2>1 DEF Endings
<1> QED BY <1>7, <1>8, <1>9, <1>10, <1>11, <1>12, <1>13 DEF ChatInv

LEMMA StutterStep ==
  ASSUME ChatInv, UNCHANGED vars PROVE ChatInv'
<1>1. /\ rows' = rows /\ leaf' = leaf /\ gone' = gone /\ Ids' = Ids /\ lease' = lease
      /\ job' = job /\ mishaps' = mishaps
  BY DEF vars, Ids
<1>2. \A r \in Requests : HasRow(r)' <=> HasRow(r)
  BY <1>1 DEF HasRow
<1> QED BY <1>1, <1>2 DEF ChatInv, TypeOK, AllFit, Leased, Chained, Newest, Targets, Endings

LEMMA NextInv == ChatInv /\ [Next]_vars => ChatInv'
<1> SUFFICES ASSUME ChatInv, [Next]_vars PROVE ChatInv'
  OBVIOUS
<1>1. CASE Crash
  BY <1>1, CrashStep
<1>2. ASSUME NEW r \in Requests, Begin(r) PROVE ChatInv'
  BY <1>2, PreflightStep
<1>3. ASSUME NEW r \in Requests, Work(r) \/ Stop(r) PROVE ChatInv'
  <2>1. CASE \/ MakeClient(r) \/ Load(r) \/ NextRound(r) \/ OverBudget(r) \/ Arrive(r) \/ Speak(r)
             \/ Retry(r) \/ StreamFails(r) \/ RoundEnds(r) \/ CallTool(r) \/ ToolReturns(r)
             \/ ToolsStopped(r) \/ Finish(r) \/ WriteFails(r) \/ Stop(r)
    <3>1. /\ job[r].pc \in Working /\ \E k : Mild(job[r], k) /\ JobsMove(r, k)
          /\ UNCHANGED <<rows, leaf, gone, lease>> /\ mishaps' \in 0..MaxMishaps
      BY <2>1, WorkerSteps
    <3>2. PICK k : Mild(job[r], k) /\ JobsMove(r, k)
      BY <3>1
    <3> QED BY <3>1, <3>2, WorkStep
  <2>2. CASE Refused(r)
    BY <2>2, RefusedStep
  <2>3. CASE Acquire(r)
    BY <2>3, AcquireStep
  <2>4. CASE Ask(r)
    BY <2>4, AskStep
  <2>5. CASE AskFails(r)
    BY <2>5, AskFailsStep
  <2>6. CASE Act(r)
    BY <2>6, ActStep
  <2>7. CASE Write(r)
    BY <2>7, WriteStep
  <2>8. CASE Release(r)
    BY <2>8, ReleaseStep
  <2> QED BY <1>3, <2>1, <2>2, <2>3, <2>4, <2>5, <2>6, <2>7, <2>8 DEF Work
<1>4. CASE UNCHANGED vars
  BY <1>4, StutterStep
<1> QED BY <1>1, <1>2, <1>3, <1>4 DEF Next

(* A turn's own variables fit its stage, the lease belongs to the one      *)
(* request that works, its rows are the newest and each is under the one   *)
(* before it (ChatInv), in every state.                                    *)
THEOREM ChatInvariance == Spec => []ChatInv
  BY InitInv, NextInv, PTL DEF Spec

-----------------------------------------------------------------------------
LEMMA RangeAppended ==
  ASSUME NEW s \in Seq(Nat), NEW b PROVE Range(Append(s, b)) = Range(s) \cup {b}
<1>1. /\ DOMAIN s = 1..Len(s) /\ Len(s) \in Nat
      /\ DOMAIN Append(s, b) = 1..(Len(s) + 1) /\ Append(s, b)[Len(s) + 1] = b
      /\ \A i \in 1..Len(s) : Append(s, b)[i] = s[i]
  OBVIOUS
<1>2. \A i \in 1..(Len(s) + 1) : i \in 1..Len(s) \/ i = Len(s) + 1
  BY <1>1
<1>3. \A i \in 1..Len(s) : i \in 1..(Len(s) + 1)
  BY <1>1
<1>4. Len(s) + 1 \in 1..(Len(s) + 1)
  BY <1>1
<1> QED BY <1>1, <1>2, <1>3, <1>4 DEF Range

(* A turn's rows, from the first to the last of all, are on one path.      *)
LEMMA RowsAreOnPath ==
  ASSUME ChatInv, NEW r \in Requests, job[r].pc \in Working, NEW i \in Ids, rows[i].turn = r
  PROVE  /\ leaf = Len(rows) /\ Len(rows) \in Ids
         /\ i \in Range(Path[Len(rows)])
<1> DEFINE N == Len(rows)
<1>1. /\ rows \in Seq(Rows) /\ N \in Nat /\ \A k \in Ids : rows[k].parent < k
      /\ Ids = 1..N /\ i \in 1..N
  BY Kept DEF Ids
<1>2. leaf = N /\ rows[N].turn = r
  BY DEF ChatInv, Newest, HasRow
<1>3. ASSUME NEW k \in (i + 1)..N, rows[k].turn = r
      PROVE  rows[k - 1].turn = r /\ rows[k].parent = k - 1
  <2>1. k \in 2..N /\ i \in 1..(k - 1) /\ rows[i].turn = rows[k].turn
    BY <1>1, <1>3
  <2>2. r # Nobody
    BY NobodyAssumption
  <2> QED BY <1>3, <2>1, <2>2 DEF ChatInv, Chained
<1> HIDE DEF N
<1> DEFINE Strange == {N - k : k \in {c \in i..N : rows[c].turn # r}}
<1>4. ASSUME NEW k \in i..N PROVE rows[k].turn = r
  <2> SUFFICES ASSUME rows[k].turn # r PROVE FALSE
    OBVIOUS
  <2>1. Strange \subseteq Nat /\ Strange # {}
    BY <1>1
  <2>2. PICK m \in Strange : \A n \in Strange : m <= n
    <3> HIDE DEF Strange
    <3> QED BY <2>1, Least
  <2>3. PICK c \in i..N : rows[c].turn # r /\ m = N - c
    OBVIOUS
  <2>4. c # N
    BY <1>2, <2>3 DEF N
  <2>5. c + 1 \in (i + 1)..N
    BY <1>1, <2>4
  <2>6. rows[c + 1].turn # r
    BY <1>1, <1>3, <2>3, <2>5
  <2>7. N - (c + 1) \in Strange
    BY <1>1, <2>5, <2>6
  <2>8. m <= N - (c + 1)
    <3> HIDE DEF Strange
    <3> QED BY <2>2, <2>7
  <2> QED BY <1>1, <2>3, <2>5, <2>8
<1> DEFINE Off == {k \in i..N : i \notin Range(Path[k])}
<1>5. ASSUME Off # {} PROVE FALSE
  <2>1. PICK b \in Off : \A c \in Off : b <= c
    <3>1. Off \subseteq Nat
      BY <1>1
    <3> HIDE DEF Off
    <3> QED BY <1>5, <3>1, Least
  <2>2. b \in i..N /\ i \notin Range(Path[b]) /\ b \in Ids
    BY <1>1
  <2>3. /\ Path[b] = Append(Path[rows[b].parent], b)
        /\ Path[rows[b].parent] \in Seq(Nat) /\ Path[b] \in Seq(Nat)
    BY <1>1, <2>2, PathIs
  <2> DEFINE up == Path[rows[b].parent]
  <2>4. Range(Append(up, b)) = Range(up) \cup {b}
    <3> HIDE DEF up
    <3> QED BY <2>3, RangeAppended DEF up
  <2>5. CASE b = i
    BY <2>2, <2>3, <2>4, <2>5
  <2>6. CASE b # i
    <3>1. b \in (i + 1)..N /\ rows[b].turn = r
      BY <1>1, <1>4, <2>2, <2>6
    <3>2. rows[b].parent = b - 1 /\ b - 1 \in i..N
      BY <1>1, <1>3, <3>1
    <3>3. b - 1 \notin Off
      BY <1>1, <2>1, <2>2
    <3>4. i \in Range(Path[b - 1])
      BY <3>2, <3>3
    <3> QED BY <2>2, <2>3, <2>4, <3>2, <3>4
  <2> QED BY <2>5, <2>6
<1>6. N \in i..N
  BY <1>1
<1> QED BY <1>1, <1>2, <1>5, <1>6 DEF N

(***************************************************************************)
(* The session's lease is held by exactly the request that works on it,    *)
(* through every answer, stop, failure, refused write and crash, and no    *)
(* turn runs more than two rounds past max_tool_rounds (LeaseIsHeld).      *)
(***************************************************************************)
THEOREM SessionIsHeld == Spec => []LeaseIsHeld
<1>1. ChatInv => LeaseIsHeld
  BY DEF ChatInv, LeaseIsHeld, Leased, AllFit, Fit
<1> QED BY <1>1, ChatInvariance, PTL

(***************************************************************************)
(* The rows a turn writes, each in a transaction of its own, are the       *)
(* newest, each under the one before it, and the session shows the last,   *)
(* whatever branches, deletions and other requests are tried meanwhile     *)
(* (TurnsAreChains).                                                       *)
(***************************************************************************)
THEOREM TurnsAreContiguous == Spec => []TurnsAreChains
<1>1. ChatInv => TurnsAreChains
  <2> SUFFICES ASSUME ChatInv PROVE TurnsAreChains
    OBVIOUS
  <2>1. TypeOK /\ Chained
    BY DEF ChatInv
  <2>2. ASSUME NEW r \in Requests, job[r].pc \in Working, \E i \in Ids : rows[i].turn = r
        PROVE  leaf = job[r].parent /\ leaf = Len(rows)
    BY <2>2 DEF ChatInv, Newest, HasRow
  <2> QED BY <2>1, <2>2 DEF TurnsAreChains, Chained
<1> QED BY <1>1, ChatInvariance, PTL

(***************************************************************************)
(* A turn that was stopped, failed or ran over a budget has, when it gives *)
(* the session back, a row that says so on the path a refresh reads        *)
(* (EndingsShown).                                                         *)
(***************************************************************************)
THEOREM EndingsAreRead == Spec => []EndingsShown
<1>1. ChatInv => EndingsShown
  <2> SUFFICES ASSUME ChatInv, NEW r \in Requests, job[r].pc = "release", job[r].end \in Ends, ~gone
               PROVE  \E i \in Range(PathTo(ActiveLeaf)) :
                        rows[i].turn = r /\ rows[i].error = job[r].end
    BY DEF EndingsShown, Ends
  <2>1. PICK i \in Ids : rows[i].turn = r /\ rows[i].error = job[r].end
    BY DEF ChatInv, Endings
  <2>2. job[r].pc \in Working
    BY DEF Working
  <2>3. leaf = Len(rows) /\ Len(rows) \in Ids /\ i \in Range(Path[Len(rows)])
    BY <2>1, <2>2, RowsAreOnPath
  <2>4. PathTo(ActiveLeaf) = Path[Len(rows)]
    BY <2>3 DEF ActiveLeaf, PathTo
  <2> QED BY <2>1, <2>3, <2>4
<1> QED BY <1>1, ChatInvariance, PTL

-----------------------------------------------------------------------------
(* The partial concatenations of the first n of a sequence of sequences.   *)
Glued(f, s, i) == f[i] = f[i - 1] \o s[i]

Steps(s, n, T, f) ==
  /\ f \in [0..n -> Seq(T)] /\ f[0] = <<>>
  /\ \A i \in 1..n : Glued(f, s, i)

LEMMA StepIs ==
  ASSUME NEW T, NEW s, NEW n \in Nat, NEW f, Steps(s, n, T, f), NEW i \in 1..n
  PROVE  Glued(f, s, i) /\ f[i] \in Seq(T) /\ f[i - 1] \in Seq(T)
<1>1. Glued(f, s, i)
  BY DEF Steps
<1>2. f \in [0..n -> Seq(T)] /\ i \in 0..n /\ i - 1 \in 0..n
  BY DEF Steps
<1> QED BY <1>1, <1>2

LEMMA StepsExist ==
  ASSUME NEW T, NEW N \in Nat, NEW s \in [1..N -> Seq(T)]
  PROVE  \E f : Steps(s, N, T, f)
<1> DEFINE Bad == {m \in 0..N : ~\E f : Steps(s, m, T, f)}
<1>1. ASSUME Bad # {} PROVE FALSE
  <2>1. PICK m \in Bad : \A n \in Bad : m <= n
    <3>1. Bad \subseteq Nat
      OBVIOUS
    <3> HIDE DEF Bad
    <3> QED BY <1>1, <3>1, Least
  <2>2. m \in 0..N /\ ~\E f : Steps(s, m, T, f)
    OBVIOUS
  <2>3. CASE m = 0
    <3>1. Steps(s, 0, T, [i \in 0..0 |-> <<>>])
      BY DEF Steps
    <3> QED BY <2>2, <2>3, <3>1
  <2>4. CASE m > 0
    <3>1. \E f : Steps(s, m - 1, T, f)
      <4>1. m - 1 \in 0..N /\ ~(m <= m - 1)
        BY <2>2, <2>4
      <4> QED BY <2>1, <4>1
    <3>2. PICK f : Steps(s, m - 1, T, f)
      BY <3>1
    <3> DEFINE top == f[m - 1] \o s[m]
               h == [i \in 0..m |-> IF i < m THEN f[i] ELSE top]
    <3>0. f \in [0..(m - 1) -> Seq(T)] /\ f[0] = <<>> /\ m \in Nat
      BY <2>2, <3>2 DEF Steps
    <3>3. f[m - 1] \in Seq(T) /\ s[m] \in Seq(T)
      BY <2>2, <2>4, <3>0
    <3>4. top \in Seq(T)
      BY <3>3
    <3> HIDE DEF top
    <3>5. h \in [0..m -> Seq(T)] /\ h[0] = <<>>
      BY <2>4, <3>0, <3>4
    <3>6. ASSUME NEW i \in 1..m PROVE Glued(h, s, i)
      <4>1. CASE i = m
        <5>1. h[i] = top /\ h[i - 1] = f[m - 1]
          BY <2>4, <3>0, <4>1
        <5> QED BY <4>1, <5>1 DEF top, Glued
      <4>2. CASE i < m
        <5>1. i \in 1..(m - 1) /\ m - 1 \in Nat
          BY <2>4, <3>0, <4>2
        <5>2. Glued(f, s, i)
          BY <3>2, <5>1, StepIs
        <5>0. i \in 0..m /\ i - 1 \in 0..m /\ i < m /\ i - 1 < m
          BY <3>0, <4>2
        <5>3. h[i] = f[i] /\ h[i - 1] = f[i - 1]
          BY <5>0
        <5> QED BY <5>2, <5>3 DEF Glued
      <4>3. i = m \/ i < m
        BY <3>0
      <4> QED BY <4>1, <4>2, <4>3
    <3>7. Steps(s, m, T, h)
      <4> HIDE DEF h
      <4> QED BY <3>5, <3>6, Zenon DEF Steps
    <3> QED BY <2>2, <3>7
  <2> QED BY <2>2, <2>3, <2>4
<1>2. N \in 0..N
  OBVIOUS
<1> QED BY <1>1, <1>2

LEMMA FlatSteps ==
  ASSUME NEW T, NEW s \in Seq(Seq(T))
  PROVE  \E f : Steps(s, Len(s), T, f) /\ FlattenSeq(s) = f[Len(s)]
<1> DEFINE N == Len(s)
<1>1. N \in Nat /\ s \in [1..N -> Seq(T)]
  OBVIOUS
<1>2. PICK f : Steps(s, N, T, f)
  <2> HIDE DEF N
  <2> QED BY <1>1, StepsExist
<1>0. f[0] = <<>>
  BY <1>2 DEF Steps
<1>3. CASE N = 0
  <2>1. FlattenSeq(s) = s /\ s = <<>>
    BY <1>1, <1>3 DEF FlattenSeq
  <2> QED BY <1>0, <1>2, <1>3, <2>1
<1>4. CASE N # 0
  <2> DEFINE flat == CHOOSE g : g = [i \in 1..N |-> IF i = 1 THEN s[i] ELSE g[i - 1] \o s[i]]
  <2>1. FlattenSeq(s) = flat[N]
    BY <1>4 DEF FlattenSeq
  <2> HIDE DEF N
  <2>0. ASSUME NEW i \in 1..N PROVE f[i] = IF i = 1 THEN s[i] ELSE f[i - 1] \o s[i]
    <3>0. Glued(f, s, i)
      BY <1>1, <1>2, StepIs
    <3>1. f[i] = f[i - 1] \o s[i]
      BY <3>0 DEF Glued
    <3>2. CASE i = 1
      <4>1. s[1] \in Seq(T) /\ 1 - 1 = 0
        BY <1>1, <3>2
      <4>2. <<>> \o s[1] = s[1]
        BY <4>1
      <4> QED BY <1>0, <3>1, <3>2, <4>1, <4>2
    <3> QED BY <3>1, <3>2
  <2>2. \E g : g = [i \in 1..N |-> IF i = 1 THEN s[i] ELSE g[i - 1] \o s[i]]
    <3> DEFINE g == [i \in 1..N |-> f[i]]
    <3>1. ASSUME NEW i \in 1..N PROVE g[i] = IF i = 1 THEN s[i] ELSE g[i - 1] \o s[i]
      <4>1. i # 1 => i - 1 \in 1..N
        BY <1>1
      <4> QED BY <2>0, <4>1
    <3>2. g = [i \in 1..N |-> IF i = 1 THEN s[i] ELSE g[i - 1] \o s[i]]
      <4>1. g = [i \in 1..N |-> g[i]]
        OBVIOUS
      <4> HIDE DEF g
      <4> QED BY <3>1, <4>1
    <3> QED BY <3>2
  <2>3. flat = [i \in 1..N |-> IF i = 1 THEN s[i] ELSE flat[i - 1] \o s[i]]
    BY <2>2, Zenon
  <2> HIDE DEF flat
  <2> DEFINE Bad == {i \in 1..N : flat[i] # f[i]}
  <2>4. ASSUME Bad # {} PROVE FALSE
    <3>1. PICK m \in Bad : \A n \in Bad : m <= n
      <4>1. Bad \subseteq Nat
        OBVIOUS
      <4> HIDE DEF Bad
      <4> QED BY <2>4, <4>1, Least
    <3>2. m \in 1..N /\ flat[m] # f[m]
      OBVIOUS
    <3>3. flat[m] = IF m = 1 THEN s[m] ELSE flat[m - 1] \o s[m]
      BY <2>3, <3>2
    <3>4. f[m] = IF m = 1 THEN s[m] ELSE f[m - 1] \o s[m]
      BY <2>0, <3>2
    <3>5. m # 1
      BY <3>2, <3>3, <3>4
    <3>6. m - 1 \in 1..N /\ ~(m <= m - 1)
      BY <1>1, <3>2, <3>5
    <3>7. flat[m - 1] = f[m - 1]
      BY <3>1, <3>6
    <3> QED BY <3>2, <3>3, <3>4, <3>5, <3>7
  <2>5. N \in 1..N
    BY <1>1, <1>4
  <2>6. flat[N] = f[N]
    BY <2>4, <2>5
  <2> QED BY <1>2, <2>1, <2>6 DEF N
<1> QED BY <1>3, <1>4

-----------------------------------------------------------------------------
(* Counting what is kept: it grows by nothing or by one.                   *)

Climbs(d, n) ==
  /\ d \in [0..n -> Nat] /\ d[0] = 0
  /\ \A i \in 1..n : d[i] = d[i - 1] \/ d[i] = d[i - 1] + 1

LEMMA NeverFalls ==
  ASSUME NEW n \in Nat, NEW d, Climbs(d, n), NEW i \in 0..n, NEW k \in i..n
  PROVE  d[i] <= d[k]
<1>0. d \in [0..n -> Nat] /\ \A l \in 1..n : d[l] = d[l - 1] \/ d[l] = d[l - 1] + 1
  BY DEF Climbs
<1> DEFINE Bad == {m \in i..n : d[m] < d[i]}
<1>1. ASSUME Bad # {} PROVE FALSE
  <2>1. PICK m \in Bad : \A l \in Bad : m <= l
    <3>1. Bad \subseteq Nat
      OBVIOUS
    <3> HIDE DEF Bad
    <3> QED BY <1>1, <3>1, Least
  <2>2. m \in i..n /\ d[m] < d[i]
    OBVIOUS
  <2>3. m # i
    BY <1>0, <2>2
  <2>4. m - 1 \in i..n /\ m \in 1..n /\ ~(m <= m - 1)
    BY <2>2, <2>3
  <2>5. ~(d[m - 1] < d[i])
    BY <2>1, <2>4
  <2>6. d[m] \in Nat /\ d[m - 1] \in Nat /\ d[i] \in Nat
    BY <1>0, <2>4
  <2> QED BY <1>0, <2>2, <2>4, <2>5, <2>6
<1>2. ~(d[k] < d[i])
  BY <1>1
<1>3. d[i] \in Nat /\ d[k] \in Nat
  BY <1>0
<1> QED BY <1>2, <1>3

(* Every count up to the last is reached, at a step.                       *)
LEMMA IsReached ==
  ASSUME NEW n \in Nat, NEW d, Climbs(d, n), NEW c \in 1..d[n]
  PROVE  \E i \in 1..n : d[i] = c /\ d[i - 1] = c - 1
<1>0. d \in [0..n -> Nat] /\ d[0] = 0 /\ \A l \in 1..n : d[l] = d[l - 1] \/ d[l] = d[l - 1] + 1
  BY DEF Climbs
<1> DEFINE High == {m \in 0..n : d[m] >= c}
<1>1. High \subseteq Nat /\ High # {}
  <2>1. n \in High
    BY <1>0
  <2> QED BY <2>1
<1>2. PICK m \in High : \A l \in High : m <= l
  <2> HIDE DEF High
  <2> QED BY <1>1, Least
<1>3. m \in 0..n /\ d[m] >= c /\ m # 0
  BY <1>0
<1>4. m - 1 \in 0..n /\ m \in 1..n /\ ~(m <= m - 1)
  BY <1>3
<1>5. ~(d[m - 1] >= c)
  BY <1>2, <1>4
<1>6. d[m] \in Nat /\ d[m - 1] \in Nat /\ d[n] \in Nat
  BY <1>0, <1>4
<1>7. d[m] = d[m - 1] \/ d[m] = d[m - 1] + 1
  BY <1>0, <1>4
<1>8. c \in Nat
  BY <1>6
<1>9. d[m] = c /\ d[m - 1] = c - 1
  BY <1>3, <1>5, <1>6, <1>7, <1>8
<1> QED BY <1>4, <1>9

-----------------------------------------------------------------------------
(* What is in a concatenation, and where.                                  *)

LEMMA RangeFlat ==
  ASSUME NEW T, NEW s \in Seq(Seq(T)), NEW x
  PROVE  x \in Range(FlattenSeq(s)) <=> \E i \in 1..Len(s) : x \in Range(s[i])
<1> DEFINE N == Len(s)
<1>1. N \in Nat /\ \A i \in 1..N : s[i] \in Seq(T)
  OBVIOUS
<1>2. PICK f : Steps(s, N, T, f) /\ FlattenSeq(s) = f[N]
  BY FlatSteps
<1>3. f \in [0..N -> Seq(T)] /\ f[0] = <<>>
  BY <1>2 DEF Steps
<1> HIDE DEF N
<1>4. ASSUME NEW i \in 1..N
      PROVE  x \in Range(f[i]) <=> x \in Range(f[i - 1]) \/ x \in Range(s[i])
  <2>1. Glued(f, s, i) /\ f[i - 1] \in Seq(T) /\ s[i] \in Seq(T)
    BY <1>1, <1>2, StepIs
  <2>2. Range(f[i - 1] \o s[i]) = Range(f[i - 1]) \cup Range(s[i])
    BY <2>1, RangeConcatenation
  <2> QED BY <2>1, <2>2 DEF Glued
<1> DEFINE Bad == {m \in 0..N : ~(x \in Range(f[m]) <=> \E i \in 1..m : x \in Range(s[i]))}
<1>5. ASSUME Bad # {} PROVE FALSE
  <2>1. PICK m \in Bad : \A l \in Bad : m <= l
    <3>1. Bad \subseteq Nat
      OBVIOUS
    <3> HIDE DEF Bad
    <3> QED BY <1>5, <3>1, Least
  <2>2. m \in 0..N /\ ~(x \in Range(f[m]) <=> \E i \in 1..m : x \in Range(s[i]))
    OBVIOUS
  <2>3. m # 0
    <3>1. Range(<<>>) = {}
      BY DEF Range
    <3> QED BY <1>3, <2>2, <3>1
  <2>4. m - 1 \in 0..N /\ m \in 1..N /\ ~(m <= m - 1)
    BY <1>1, <2>2, <2>3
  <2>5. x \in Range(f[m - 1]) <=> \E i \in 1..(m - 1) : x \in Range(s[i])
    BY <2>1, <2>4
  <2>6. (\E i \in 1..m : x \in Range(s[i]))
          <=> (\E i \in 1..(m - 1) : x \in Range(s[i])) \/ x \in Range(s[m])
    <3>1. \A i \in 1..m : i \in 1..(m - 1) \/ i = m
      BY <2>4
    <3>2. m \in 1..m /\ \A i \in 1..(m - 1) : i \in 1..m
      BY <2>4
    <3> QED BY <3>1, <3>2
  <2>7. x \in Range(f[m]) <=> x \in Range(f[m - 1]) \/ x \in Range(s[m])
    BY <1>4, <2>4
  <2> QED BY <2>2, <2>5, <2>6, <2>7
<1>6. N \in 0..N
  BY <1>1
<1>7. x \in Range(f[N]) <=> \E i \in 1..N : x \in Range(s[i])
  BY <1>5, <1>6
<1> QED BY <1>2, <1>7 DEF N

(* Of pieces that are empty or single: d[i] of the first i are left, and   *)
(* the i-th, if it is, stands at d[i].                                     *)
Same(s, h, d, i) ==
  \/ s[i] = <<>> /\ d[i] = d[i - 1]
  \/ /\ Len(s[i]) = 1 /\ d[i] = d[i - 1] + 1
     /\ d[i] \in 1..Len(h) /\ h[d[i]] = s[i][1]

Places1(s, h, d) ==
  /\ Climbs(d, Len(s)) /\ d[Len(s)] = Len(h)
  /\ \A i \in 1..Len(s) : Same(s, h, d, i)

LEMMA NoneOrOne ==
  ASSUME NEW n \in Nat, n <= 1
  PROVE  n \in 0..1
  OBVIOUS

LEMMA FlatPlaces ==
  ASSUME NEW T, NEW s \in Seq(Seq(T)), \A i \in 1..Len(s) : Len(s[i]) <= 1
  PROVE  /\ FlattenSeq(s) \in Seq(T)
         /\ \E d : Places1(s, FlattenSeq(s), d)
<1> DEFINE N == Len(s)
<1>1. N \in Nat /\ (\A i \in 1..N : s[i] \in Seq(T)) /\ \A i \in 1..N : Len(s[i]) <= 1
  OBVIOUS
<1>2. PICK f : Steps(s, N, T, f) /\ FlattenSeq(s) = f[N]
  BY FlatSteps
<1>3. f \in [0..N -> Seq(T)] /\ f[0] = <<>>
  BY <1>2 DEF Steps
<1> DEFINE d == [i \in 0..N |-> Len(f[i])]
<1> HIDE DEF N
<1>4. d \in [0..N -> Nat] /\ d[0] = 0 /\ \A i \in 0..N : d[i] = Len(f[i])
  BY <1>1, <1>3
<1> HIDE DEF d
<1>5. ASSUME NEW i \in 1..N
      PROVE  /\ \/ s[i] = <<>> /\ d[i] = d[i - 1] /\ f[i] = f[i - 1]
                \/ Len(s[i]) = 1 /\ d[i] = d[i - 1] + 1 /\ f[i][d[i]] = s[i][1]
             /\ \A l \in 1..d[i - 1] : l \in 1..d[i] /\ f[i][l] = f[i - 1][l]
  <2>1. Glued(f, s, i) /\ f[i - 1] \in Seq(T) /\ s[i] \in Seq(T) /\ Len(s[i]) <= 1
    BY <1>1, <1>2, StepIs
  <2>2. i \in 0..N /\ i - 1 \in 0..N
    BY <1>1
  <2>3. d[i] = Len(f[i]) /\ d[i - 1] = Len(f[i - 1])
    BY <1>4, <2>2
  <2>4. f[i] = f[i - 1] \o s[i]
    BY <2>1 DEF Glued
  <2> DEFINE p == f[i - 1]
             q == s[i]
  <2>5. p \in Seq(T) /\ q \in Seq(T) /\ Len(q) <= 1
    BY <2>1
  <2> HIDE DEF p, q
  <2>6. Len(p) \in Nat /\ Len(q) \in 0..1
    <3>1. Len(p) \in Nat /\ Len(q) \in Nat
      BY <2>5, LenProperties
    <3>2. Len(q) <= 1
      BY <2>5
    <3>3. Len(q) \in 0..1
      BY <3>1, <3>2, NoneOrOne, Zenon
    <3> QED BY <3>1, <3>3
  <2>9. Len(p \o q) = Len(p) + Len(q)
    BY <2>5, ConcatProperties
  <2>10. ASSUME NEW l \in 1..Len(p) PROVE (p \o q)[l] = p[l]
    <3>1. l \in 1..(Len(p) + Len(q)) /\ l <= Len(p)
      BY <2>6
    <3> QED BY <2>5, <3>1, ConcatProperties
  <2>11. \A l \in 1..d[i - 1] : l \in 1..d[i] /\ f[i][l] = f[i - 1][l]
    <3>1. \A l \in 1..Len(p) : l \in 1..(Len(p) + Len(q))
      BY <2>6
    <3> QED BY <2>3, <2>4, <2>9, <2>10, <3>1 DEF p, q
  <2>7. CASE Len(q) = 0
    <3>1. q = <<>>
      BY <2>5, <2>7
    <3>2. p \o q = p
      BY <2>5, <3>1, ConcatEmptySeq
    <3>3. d[i] = d[i - 1] /\ f[i] = f[i - 1]
      BY <2>3, <2>4, <3>2 DEF p, q
    <3>4. s[i] = <<>>
      BY <3>1 DEF q
    <3> QED BY <2>11, <3>3, <3>4
  <2>8. CASE Len(q) = 1
    <3>2. Len(p) + 1 \in 1..(Len(p) + Len(q)) /\ ~(Len(p) + 1 <= Len(p)) /\ Len(p) + 1 - Len(p) = 1
      BY <2>6, <2>8
    <3>1. (p \o q)[Len(p) + 1] = q[1]
      BY <2>5, <3>2, ConcatProperties
    <3>3. d[i] = Len(p) + 1 /\ d[i - 1] = Len(p) /\ f[i] = p \o q
      BY <2>3, <2>4, <2>8, <2>9 DEF p, q
    <3>4. f[i][d[i]] = q[1]
      BY <3>1, <3>3
    <3>5. Len(s[i]) = 1 /\ d[i] = d[i - 1] + 1 /\ f[i][d[i]] = s[i][1]
      BY <2>8, <3>3, <3>4 DEF q
    <3> QED BY <2>11, <3>5
  <2> QED BY <2>6, <2>7, <2>8
<1>6. Climbs(d, N)
  BY <1>4, <1>5 DEF Climbs
<1>7. ASSUME NEW i \in 1..N, NEW k \in i..N PROVE \A l \in 1..d[i] : l \in 1..d[k] /\ f[k][l] = f[i][l]
  <2> DEFINE Bad == {m \in i..N : ~\A l \in 1..d[i] : l \in 1..d[m] /\ f[m][l] = f[i][l]}
  <2>1. ASSUME Bad # {} PROVE FALSE
    <3>1. PICK m \in Bad : \A l \in Bad : m <= l
      <4>1. Bad \subseteq Nat
        BY <1>1
      <4> HIDE DEF Bad
      <4> QED BY <2>1, <4>1, Least
    <3>2. m \in i..N /\ ~\A l \in 1..d[i] : l \in 1..d[m] /\ f[m][l] = f[i][l]
      OBVIOUS
    <3>3. m # i
      BY <3>2
    <3>4. m - 1 \in i..N /\ m \in 1..N /\ ~(m <= m - 1)
      BY <1>1, <3>2, <3>3
    <3>5. \A l \in 1..d[i] : l \in 1..d[m - 1] /\ f[m - 1][l] = f[i][l]
      BY <3>1, <3>4
    <3>6. \A l \in 1..d[m - 1] : l \in 1..d[m] /\ f[m][l] = f[m - 1][l]
      BY <1>5, <3>4
    <3> QED BY <3>2, <3>5, <3>6
  <2> QED BY <2>1
<1>8. ASSUME NEW i \in 1..N PROVE Same(s, f[N], d, i)
  <2>1. d[i] \in 1..d[i] => d[i] \in 1..d[N] /\ f[N][d[i]] = f[i][d[i]]
    <3>1. N \in i..N
      BY <1>1
    <3> QED BY <1>7, <3>1
  <2>2. d[i] \in Nat /\ d[i - 1] \in Nat /\ d[N] = Len(f[N])
    BY <1>1, <1>4
  <2> QED BY <1>5, <2>1, <2>2 DEF Same
<1>9. Places1(s, f[N], d)
  <2>1. d[N] = Len(f[N])
    BY <1>1, <1>4
  <2> QED BY <1>6, <1>8, <2>1 DEF Places1, N
<1> QED BY <1>1, <1>2, <1>3, <1>9

(* The greatest of a set that has zero.                                    *)
LEMMA GreatestOrNone ==
  ASSUME NEW N \in Nat, NEW S, S \subseteq 1..N
  PROVE  LET m == Max({0} \cup S)
         IN  (m = 0 \/ m \in S) /\ \A c \in S : c <= m
<1> DEFINE T == {0} \cup S
<1>1. \E x \in T : \A y \in T : x >= y
  <2>1. CASE S = {}
    <3>1. 0 \in T /\ \A y \in T : 0 >= y
      BY <2>1
    <3> QED BY <3>1
  <2>2. CASE S # {}
    <3>1. Max(S) \in S /\ \A c \in S : c <= Max(S)
      BY <2>2, Greatest
    <3> DEFINE m == Max(S)
    <3>3. m \in S /\ \A c \in S : c <= m
      BY <3>1
    <3> HIDE DEF m
    <3>4. m \in 1..N
      BY <3>3
    <3>5. \A c \in S : c \in Int
      OBVIOUS
    <3>2. m \in T /\ \A y \in T : m >= y
      BY <3>3, <3>4, <3>5
    <3> QED BY <3>2
  <2> QED BY <2>1, <2>2
<1>2. Max(T) \in T /\ \A y \in T : Max(T) >= y
  <2> HIDE DEF T
  <2> QED BY <1>1 DEF Max
<1>3. Max(T) \in Int
  <2>1. \A x \in T : x \in Int
    OBVIOUS
  <2> HIDE DEF T
  <2> QED BY <1>2, <2>1
<1> HIDE DEF T
<1>4. \A c \in S : c <= Max(T)
  BY <1>2, <1>3 DEF T
<1> QED BY <1>2, <1>4 DEF T

LEMMA AnnouncerIs ==
  ASSUME NEW M \in Seq(Rows), NEW i \in 1..Len(M)
  PROVE  LET a == Announcer(M, i)
         IN  /\ a \in 0..(i - 1)
             /\ a > 0 => M[a].role # "tool" /\ M[a].error # "budget"
             /\ \A j \in (a + 1)..(i - 1) : M[j].role = "tool" \/ M[j].error = "budget"
<1> DEFINE S == {j \in 1..i - 1 : M[j].role # "tool" /\ M[j].error # "budget"}
           a == Max({0} \cup S)
<1>1. S \subseteq 1..(i - 1) /\ i - 1 \in Nat
  OBVIOUS
<1>2. (a = 0 \/ a \in S) /\ \A c \in S : c <= a
  <2> HIDE DEF S
  <2> QED BY <1>1, GreatestOrNone
<1>3. a = Announcer(M, i)
  BY DEF Announcer
<1> HIDE DEF a
<1>4. a \in 0..(i - 1)
  BY <1>2
<1>5. ASSUME NEW j \in (a + 1)..(i - 1) PROVE M[j].role = "tool" \/ M[j].error = "budget"
  <2>1. j \in 1..(i - 1) /\ ~(j <= a)
    BY <1>4
  <2> QED BY <1>2, <2>1
<1> QED BY <1>2, <1>3, <1>4, <1>5

LEMMA AnsweredIs ==
  ASSUME NEW M \in Seq(Rows), NEW j \in 1..Len(M)
  PROVE  /\ Answered(M, j) \in Seq(Calls)
         /\ \A c : c \in Range(Answered(M, j))
                     <=> \E i \in 1..Len(M) : Answers(M, i, j) /\ M[i].call = c
<1> DEFINE calls == M[j].calls
           Has(k) == \E i \in DOMAIN M : Answers(M, i, j) /\ M[i].call = calls[k]
           s == [k \in DOMAIN calls |-> IF Has(k) THEN <<calls[k]>> ELSE <<>>]
<1>1. calls \in Seq(Calls)
  <2>1. M[j] \in Rows
    OBVIOUS
  <2> QED BY <2>1 DEF Rows
<1> HIDE DEF Has, calls
<1>2. s \in Seq(Seq(Calls)) /\ Len(s) = Len(calls)
  <2>1. DOMAIN calls = 1..Len(calls) /\ Len(calls) \in Nat
    BY <1>1
  <2>2. ASSUME NEW k \in 1..Len(calls) PROVE s[k] \in Seq(Calls)
    <3>1. calls[k] \in Calls
      BY <1>1
    <3>2. <<calls[k]>> \in Seq(Calls) /\ <<>> \in Seq(Calls)
      BY <3>1
    <3> QED BY <2>1, <3>2
  <2>3. s \in [1..Len(calls) -> Seq(Calls)]
    BY <2>1, <2>2
  <2> HIDE DEF s
  <2> QED BY <2>1, <2>3
<1>3. \A k \in 1..Len(s) : Len(s[k]) <= 1
  BY <1>1, <1>2
<1>4. Answered(M, j) = FlattenSeq(s)
  BY DEF Answered, Has, calls
<1>5. Answered(M, j) \in Seq(Calls)
  <2> HIDE DEF s
  <2> QED BY <1>2, <1>3, <1>4, FlatPlaces
<1>6. ASSUME NEW c
      PROVE  c \in Range(Answered(M, j))
                <=> \E i \in 1..Len(M) : Answers(M, i, j) /\ M[i].call = c
  <2>1. c \in Range(FlattenSeq(s)) <=> \E k \in 1..Len(s) : c \in Range(s[k])
    <3> HIDE DEF s
    <3> QED BY <1>2, RangeFlat
  <2>2. ASSUME NEW k \in 1..Len(s)
        PROVE  c \in Range(s[k]) <=> Has(k) /\ c = calls[k]
    <3>1. k \in DOMAIN calls
      BY <1>1, <1>2
    <3>2. s[k] = IF Has(k) THEN <<calls[k]>> ELSE <<>>
      BY <3>1
    <3>3. Range(<<calls[k]>>) = {calls[k]} /\ Range(<<>>) = {}
      BY DEF Range
    <3> QED BY <3>2, <3>3
  <2>3. ASSUME NEW i \in 1..Len(M), Answers(M, i, j)
        PROVE  \E k \in 1..Len(s) : M[i].call = calls[k]
    <3>1. M[i].call \in Range(calls)
      BY <2>3 DEF Answers, calls
    <3> QED BY <1>1, <1>2, <3>1 DEF Range
  <2>4. ASSUME NEW k \in 1..Len(s)
        PROVE  Has(k) <=> \E i \in 1..Len(M) : Answers(M, i, j) /\ M[i].call = calls[k]
    BY DEF Has
  <2> HIDE DEF s
  <2> QED BY <1>4, <2>1, <2>2, <2>3, <2>4
<1> QED BY <1>5, <1>6

(* What is shown of a message, and why one is not.                         *)
Shows(M, i, x) ==
  /\ x.role = M[i].role /\ x.text = M[i].text /\ x.call = M[i].call
  /\ M[i].error # "budget"
  /\ M[i].role = "tool" => Answers(M, i, Announcer(M, i))
  /\ M[i].role # "assistant" => x = M[i]
  /\ M[i].role = "assistant" =>
       x.calls = Answered(M, i) /\ (M[i].text # <<>> \/ Answered(M, i) # <<>>)

Drops(M, i) ==
  \/ M[i].error = "budget"
  \/ M[i].role = "tool" /\ ~Answers(M, i, Announcer(M, i))
  \/ M[i].role = "assistant" /\ M[i].text = <<>> /\ Answered(M, i) = <<>>

LEMMA SeenIs ==
  ASSUME NEW M \in Seq(Rows), NEW i \in 1..Len(M)
  PROVE  /\ Seen(M, i) \in Seq(Rows)
         /\ Drops(M, i) => Seen(M, i) = <<>>
         /\ ~Drops(M, i) => Len(Seen(M, i)) = 1 /\ Shows(M, i, Seen(M, i)[1])
<1> DEFINE m == M[i]
           a == Answered(M, i)
           x == IF m.role = "assistant" THEN [m EXCEPT !.calls = a] ELSE m
<1>1. m \in Rows /\ a \in Seq(Calls)
  BY AnsweredIs
<1>2. Seen(M, i) = IF Drops(M, i) THEN <<>> ELSE <<x>>
  BY DEF Seen, Drops
<1> HIDE DEF a, m
<1>3. /\ x \in Rows /\ x.role = m.role /\ x.text = m.text /\ x.call = m.call
      /\ m.role = "assistant" => x.calls = a
      /\ m.role # "assistant" => x = m
  BY <1>1 DEF Rows
<1> HIDE DEF x
<1>4. <<x>> \in Seq(Rows) /\ Len(<<x>>) = 1 /\ <<x>>[1] = x /\ <<>> \in Seq(Rows)
  BY <1>3
<1>5. ~Drops(M, i) => Shows(M, i, x)
  BY <1>3 DEF Drops, Shows, m, a
<1> QED BY <1>2, <1>4, <1>5

(* Where a message that a provider sees comes from.                        *)
Sights(M) == [i \in DOMAIN M |-> Seen(M, i)]

LEMMA SightsAre ==
  ASSUME NEW M \in Seq(Rows)
  PROVE  /\ Sights(M) \in Seq(Seq(Rows)) /\ Len(Sights(M)) = Len(M)
         /\ \A i \in 1..Len(M) : Sights(M)[i] = Seen(M, i)
         /\ \A i \in 1..Len(M) : Len(Sights(M)[i]) <= 1
<1>1. DOMAIN M = 1..Len(M) /\ Len(M) \in Nat
  OBVIOUS
<1>2. \A i \in 1..Len(M) : Seen(M, i) \in Seq(Rows) /\ Len(Seen(M, i)) <= 1
  <2> SUFFICES ASSUME NEW i \in 1..Len(M)
              PROVE  Seen(M, i) \in Seq(Rows) /\ Len(Seen(M, i)) <= 1
    OBVIOUS
  <2>1. CASE Drops(M, i)
    <3>1. Seen(M, i) = <<>> /\ Seen(M, i) \in Seq(Rows)
      BY <2>1, SeenIs
    <3> QED BY <3>1
  <2>2. CASE ~Drops(M, i)
    <3>1. Len(Seen(M, i)) = 1 /\ Seen(M, i) \in Seq(Rows)
      BY <2>2, SeenIs
    <3> QED BY <3>1
  <2> QED BY <2>1, <2>2
<1> QED BY <1>1, <1>2 DEF Sights

Source(M, h, d, k, i) ==
  /\ i \in 1..Len(M) /\ d[i] = k /\ d[i - 1] = k - 1
  /\ ~Drops(M, i) /\ Shows(M, i, h[k])

Sift(M, h, d) == Places1(Sights(M), h, d)

LEMMA SanitizedIs ==
  ASSUME NEW M \in Seq(Rows)
  PROVE  Sanitized(M) \in Seq(Rows) /\ \E d : Sift(M, Sanitized(M), d)
<1>1. Sanitized(M) = FlattenSeq(Sights(M))
  BY DEF Sanitized, Sights
<1> QED BY <1>1, SightsAre, FlatPlaces DEF Sift

LEMMA SiftIs ==
  ASSUME NEW M \in Seq(Rows), NEW h \in Seq(Rows), NEW d, Sift(M, h, d)
  PROVE  /\ Climbs(d, Len(M)) /\ d[Len(M)] = Len(h)
         /\ \A i \in 1..Len(M) :
              /\ Drops(M, i) => d[i] = d[i - 1]
              /\ ~Drops(M, i) => /\ d[i] = d[i - 1] + 1 /\ d[i] \in 1..Len(h)
                                 /\ Shows(M, i, h[d[i]])
<1>1. Climbs(d, Len(M)) /\ d[Len(M)] = Len(h)
  BY SightsAre DEF Sift, Places1
<1>2. ASSUME NEW i \in 1..Len(M)
      PROVE  /\ Drops(M, i) => d[i] = d[i - 1]
             /\ ~Drops(M, i) => /\ d[i] = d[i - 1] + 1 /\ d[i] \in 1..Len(h)
                                /\ Shows(M, i, h[d[i]])
  <2>1. Same(Sights(M), h, d, i) /\ Sights(M)[i] = Seen(M, i)
    BY SightsAre DEF Sift, Places1
  <2>2. Len(<<>>) = 0
    OBVIOUS
  <2>3. CASE Drops(M, i)
    <3>1. Len(Seen(M, i)) = 0
      BY <2>2, <2>3, SeenIs
    <3> QED BY <2>1, <2>3, <3>1 DEF Same
  <2>4. CASE ~Drops(M, i)
    <3>1. Len(Seen(M, i)) = 1 /\ Shows(M, i, Seen(M, i)[1])
      BY <2>4, SeenIs
    <3>2. ASSUME Seen(M, i) = <<>> PROVE FALSE
      BY <2>2, <3>1, <3>2
    <3> QED BY <2>1, <2>4, <3>1, <3>2 DEF Same
  <2> QED BY <2>3, <2>4
<1> QED BY <1>1, <1>2

LEMMA HasSource ==
  ASSUME NEW M \in Seq(Rows), NEW h \in Seq(Rows), NEW d, Sift(M, h, d),
         NEW k \in 1..Len(h)
  PROVE  \E i : Source(M, h, d, k, i)
<1>1. Climbs(d, Len(M)) /\ d[Len(M)] = Len(h) /\ Len(M) \in Nat
  BY SiftIs
<1>2. k \in 1..d[Len(M)]
  BY <1>1
<1>3. PICK i \in 1..Len(M) : d[i] = k /\ d[i - 1] = k - 1
  BY <1>1, <1>2, IsReached
<1>4. ~Drops(M, i)
  <2>1. k # k - 1
    OBVIOUS
  <2> QED BY <1>3, <2>1, SiftIs
<1>5. Shows(M, i, h[k])
  BY <1>3, <1>4, SiftIs
<1> QED BY <1>3, <1>4, <1>5 DEF Source

LEMMA Ascends ==
  ASSUME NEW M \in Seq(Rows), NEW h \in Seq(Rows), NEW d, Sift(M, h, d),
         NEW i \in 0..Len(M), NEW k \in 0..Len(M), d[i] < d[k]
  PROVE  i < k
<1>0. Climbs(d, Len(M)) /\ Len(M) \in Nat
  BY SiftIs
<1>1. d[i] \in Nat /\ d[k] \in Nat
  BY <1>0 DEF Climbs
<1>2. ASSUME k <= i PROVE FALSE
  <2>1. i \in k..Len(M)
    BY <1>2
  <2>2. d[k] <= d[i]
    BY <1>0, <2>1, NeverFalls
  <2> QED BY <1>1, <2>2
<1> QED BY <1>2

(* A tool's message that is seen comes after its call's reply, and the     *)
(* reply is seen too.                                                      *)
LEMMA CallIsSeen ==
  ASSUME NEW M \in Seq(Rows), NEW h \in Seq(Rows), NEW d, Sift(M, h, d),
         NEW t \in 1..Len(M), NEW a, Answers(M, t, a)
  PROVE  /\ a \in 1..(t - 1) /\ M[a].role = "assistant" /\ Announcer(M, t) = a
         /\ \A j \in (a + 1)..(t - 1) : M[j].role = "tool" \/ M[j].error = "budget"
         /\ ~Drops(M, t) /\ ~Drops(M, a)
<1>1. a > 0 /\ Announcer(M, t) = a /\ M[a].role = "assistant" /\ M[t].role = "tool"
      /\ M[t].error # "budget"
  BY DEF Answers
<1>2. /\ a \in 0..(t - 1) /\ M[a].error # "budget"
      /\ \A j \in (a + 1)..(t - 1) : M[j].role = "tool" \/ M[j].error = "budget"
  BY <1>1, AnnouncerIs
<1>3. a \in 1..(t - 1) /\ a \in 1..Len(M)
  BY <1>1, <1>2
<1>4. Answered(M, a) # <<>>
  <2>1. M[t].call \in Range(Answered(M, a))
    BY <1>3, AnsweredIs
  <2>2. Range(<<>>) = {}
    BY DEF Range
  <2> QED BY <2>1, <2>2
<1> QED BY <1>1, <1>2, <1>3, <1>4 DEF Drops

Following(h, i) == {k \in i + 1..Len(h) : \A m \in i + 1..k : h[m].role = "tool"}

LEMMA ResultsFollow ==
  ASSUME NEW M \in Seq(Rows), NEW h \in Seq(Rows), NEW d, Sift(M, h, d),
         NEW k \in 1..Len(h), h[k].role = "assistant"
  PROVE  {h[m].call : m \in Following(h, k)} = Range(h[k].calls)
<1>1. PICK i : Source(M, h, d, k, i)
  BY HasSource
<1>2. /\ i \in 1..Len(M) /\ d[i] = k /\ d[i - 1] = k - 1 /\ ~Drops(M, i)
      /\ M[i].role = "assistant" /\ M[i].error # "budget" /\ h[k].calls = Answered(M, i)
  BY <1>1 DEF Source, Shows
<1>0. Climbs(d, Len(M)) /\ d \in [0..Len(M) -> Nat] /\ Len(M) \in Nat /\ Len(h) \in Nat
  BY SiftIs DEF Climbs
<1>3. ASSUME NEW m \in Following(h, k) PROVE h[m].call \in Range(h[k].calls)
  <2>1. m \in (k + 1)..Len(h) /\ m \in 1..Len(h) /\ \A l \in k + 1..m : h[l].role = "tool"
    BY DEF Following
  <2>2. PICK t : Source(M, h, d, m, t)
    BY <2>1, HasSource
  <2> DEFINE a == Announcer(M, t)
  <2>3. /\ t \in 1..Len(M) /\ d[t] = m /\ d[t - 1] = m - 1 /\ h[m].call = M[t].call
        /\ M[t].role = "tool" => Answers(M, t, a)
        /\ h[m].role = M[t].role
    BY <2>2 DEF Source, Shows
  <2>4. h[m].role = "tool"
    BY <2>1
  <2> HIDE DEF a
  <2>5. Answers(M, t, a)
    BY <2>3, <2>4
  <2>6. /\ a \in 1..(t - 1) /\ M[a].role = "assistant" /\ Announcer(M, t) = a /\ ~Drops(M, a)
        /\ \A j \in (a + 1)..(t - 1) : M[j].role = "tool" \/ M[j].error = "budget"
    BY <2>3, <2>5, CallIsSeen
  <2>7. i < t
    <3>1. d[i] < d[t] /\ i \in 0..Len(M) /\ t \in 0..Len(M)
      BY <1>2, <2>1, <2>3
    <3> QED BY <3>1, Ascends
  <2>8. ~(a < i)
    <3>1. a < i => i \in (a + 1)..(t - 1)
      BY <1>2, <2>3, <2>6, <2>7
    <3> QED BY <1>2, <2>6, <3>1
  <2>9. ~(i < a)
    <3> SUFFICES ASSUME i < a PROVE FALSE
      OBVIOUS
    <3>1. a \in 1..Len(M) /\ a - 1 \in i..Len(M) /\ i \in 0..Len(M)
      BY <1>2, <2>3, <2>6
    <3>2. d[a] = d[a - 1] + 1 /\ d[a] \in 1..Len(h) /\ h[d[a]].role = "assistant"
      BY <2>6, <3>1, SiftIs DEF Shows
    <3>3. d[i] <= d[a - 1]
      BY <1>0, <3>1, NeverFalls
    <3>4. t - 1 \in a..Len(M) /\ a \in 0..Len(M)
      BY <2>3, <2>6
    <3>5. d[a] <= d[t - 1]
      BY <1>0, <3>4, NeverFalls
    <3>7. d[a - 1] \in Nat /\ d[a] \in Nat /\ k \in Nat /\ m \in Nat
      <4>1. a - 1 \in 0..Len(M)
        BY <3>1
      <4> QED BY <1>0, <2>1, <3>2, <4>1
    <3>8. k <= d[a - 1] /\ d[a] <= m - 1 /\ d[a] = d[a - 1] + 1
      BY <1>2, <2>3, <3>2, <3>3, <3>5
    <3>6. d[a] \in k + 1..m
      BY <3>7, <3>8
    <3> QED BY <2>1, <3>2, <3>6
  <2>10. a = i
    BY <1>2, <2>6, <2>8, <2>9
  <2> QED BY <1>2, <2>3, <2>5, <2>10, AnsweredIs
<1>4. ASSUME NEW c \in Range(h[k].calls) PROVE \E m \in Following(h, k) : h[m].call = c
  <2>1. PICK t \in 1..Len(M) : Answers(M, t, i) /\ M[t].call = c
    BY <1>2, AnsweredIs
  <2>2. /\ i \in 1..(t - 1) /\ ~Drops(M, t)
        /\ \A j \in (i + 1)..(t - 1) : M[j].role = "tool" \/ M[j].error = "budget"
    BY <2>1, CallIsSeen
  <2> DEFINE m == d[t]
  <2>3. m = d[t - 1] + 1 /\ m \in 1..Len(h) /\ Shows(M, t, h[m])
    BY <2>2, SiftIs
  <2>4. t - 1 \in i..Len(M) /\ t - 1 \in 0..Len(M) /\ i \in 0..Len(M) /\ t \in 0..Len(M)
    BY <1>2, <2>2
  <2>5. d[i] <= d[t - 1]
    BY <1>0, <2>4, NeverFalls
  <2>6. d[t - 1] \in Nat
    BY <1>0, <2>4
  <2> HIDE DEF m
  <2>7. m \in k + 1..Len(h)
    BY <1>0, <1>2, <2>3, <2>5, <2>6
  <2>8. ASSUME NEW l \in k + 1..m PROVE h[l].role = "tool"
    <3>1. l \in 1..Len(h)
      BY <1>0, <1>2, <2>7
    <3>2. PICK u : Source(M, h, d, l, u)
      BY <3>1, HasSource
    <3>3. /\ u \in 1..Len(M) /\ d[u] = l /\ d[u - 1] = l - 1
          /\ h[l].role = M[u].role /\ M[u].error # "budget"
      BY <3>2 DEF Source, Shows
    <3>4. u \in 0..Len(M) /\ u - 1 \in 0..Len(M)
      BY <1>0, <3>3
    <3>5. i < u
      <4>1. d[i] < d[u]
        BY <1>2, <3>1, <3>3
      <4> QED BY <2>4, <3>4, <4>1, Ascends
    <3>6. u - 1 < t
      <4>1. d[u - 1] < d[t]
        BY <1>2, <2>3, <3>1, <3>3 DEF m
      <4> QED BY <2>4, <3>4, <4>1, Ascends
    <3>7. CASE u = t
      <4>1. M[t].role = "tool"
        BY <2>1 DEF Answers
      <4> QED BY <3>3, <3>7, <4>1
    <3>8. CASE u # t
      <4>1. u \in (i + 1)..(t - 1)
        BY <1>2, <3>3, <3>5, <3>6, <3>8
      <4> QED BY <2>2, <3>3, <4>1
    <3> QED BY <3>7, <3>8
  <2>9. m \in Following(h, k)
    BY <2>7, <2>8 DEF Following
  <2>10. h[m].call = c
    BY <2>1, <2>3 DEF Shows
  <2> QED BY <2>9, <2>10
<1> QED BY <1>3, <1>4

LEMMA ResultHasCall ==
  ASSUME NEW M \in Seq(Rows), NEW h \in Seq(Rows), NEW d, Sift(M, h, d),
         NEW k \in 1..Len(h), h[k].role = "tool"
  PROVE  k > 1 /\ h[k - 1].role # "user"
<1>1. PICK t : Source(M, h, d, k, t)
  BY HasSource
<1> DEFINE a == Announcer(M, t)
<1>2. t \in 1..Len(M) /\ d[t] = k /\ d[t - 1] = k - 1 /\ Answers(M, t, a)
  BY <1>1 DEF Source, Shows
<1>0. Climbs(d, Len(M)) /\ d \in [0..Len(M) -> Nat] /\ Len(M) \in Nat /\ Len(h) \in Nat
  BY SiftIs DEF Climbs
<1> HIDE DEF a
<1>3. /\ a \in 1..(t - 1) /\ M[a].role = "assistant" /\ ~Drops(M, a)
      /\ \A j \in (a + 1)..(t - 1) : M[j].role = "tool" \/ M[j].error = "budget"
  BY <1>2, CallIsSeen
<1>4. a \in 1..Len(M) /\ t - 1 \in a..Len(M) /\ a \in 0..Len(M) /\ a - 1 \in 0..Len(M)
  BY <1>2, <1>3
<1>5. d[a] = d[a - 1] + 1 /\ d[a] \in 1..Len(h)
  BY <1>3, <1>4, SiftIs
<1>6. d[a] <= d[t - 1]
  BY <1>0, <1>4, NeverFalls
<1>7. k > 1 /\ k - 1 \in 1..Len(h)
  BY <1>0, <1>2, <1>5, <1>6
<1>8. PICK u : Source(M, h, d, k - 1, u)
  BY <1>7, HasSource
<1>9. /\ u \in 1..Len(M) /\ d[u] = k - 1 /\ d[u - 1] = k - 1 - 1
      /\ h[k - 1].role = M[u].role /\ M[u].error # "budget"
  BY <1>8 DEF Source, Shows
<1>10. u \in 0..Len(M) /\ t \in 0..Len(M)
  BY <1>2, <1>9
<1>11. u < t
  <2>1. d[u] < d[t]
    BY <1>2, <1>9
  <2> QED BY <1>10, <2>1, Ascends
<1>12. a - 1 < u
  <2>1. d[a - 1] < d[u]
    <3>1. d[a - 1] \in Nat
      BY <1>0, <1>4
    <3> QED BY <1>2, <1>5, <1>6, <1>9, <3>1
  <2> QED BY <1>4, <1>10, <2>1, Ascends
<1>13. CASE u = a
  BY <1>3, <1>7, <1>9, <1>13
<1>14. CASE u # a
  <2>1. u \in (a + 1)..(t - 1)
    BY <1>2, <1>3, <1>9, <1>11, <1>12, <1>14
  <2> QED BY <1>3, <1>7, <1>9, <2>1
<1> QED BY <1>13, <1>14

(* Whatever the messages were, what a provider sees again is sendable:     *)
(* every call has its result right behind it, no result is without its     *)
(* call, no reply is empty.                                                *)
THEOREM SanitizedIsSendable ==
  ASSUME NEW M \in Seq(Rows)
  PROVE  Sendable(Sanitized(M))
<1> DEFINE h == Sanitized(M)
<1>1. h \in Seq(Rows) /\ DOMAIN h = 1..Len(h)
  BY SanitizedIs
<1>2. PICK d : Sift(M, h, d)
  BY SanitizedIs
<1> HIDE DEF h
<1>3. ASSUME NEW k \in 1..Len(h), h[k].role = "assistant"
      PROVE  /\ h[k].text # <<>> \/ h[k].calls # <<>>
             /\ {h[m].call : m \in Following(h, k)} = Range(h[k].calls)
  <2>1. PICK i : Source(M, h, d, k, i)
    BY <1>1, <1>2, HasSource
  <2>2. h[k].text # <<>> \/ h[k].calls # <<>>
    BY <1>3, <2>1 DEF Source, Shows
  <2>3. {h[m].call : m \in Following(h, k)} = Range(h[k].calls)
    BY <1>1, <1>2, <1>3, ResultsFollow
  <2> QED BY <2>2, <2>3
<1>4. ASSUME NEW k \in 1..Len(h), h[k].role = "tool"
      PROVE  k > 1 /\ h[k - 1].role # "user"
  BY <1>1, <1>2, <1>4, ResultHasCall
<1> QED BY <1>1, <1>3, <1>4 DEF Sendable, Following, h

-----------------------------------------------------------------------------
(* The merging of continued replies, message by message.                   *)

Merging(u, M, i) == u[i] = MergedRow(u[i - 1], M[i])

Merges(u, M, n) ==
  /\ u \in [0..n -> Seq(Rows)] /\ u[0] = <<>>
  /\ \A i \in 1..n : Merging(u, M, i)

(* A message is put after the others or joins the last of them.            *)
Added(g, done, m) ==
  /\ Len(g) = Len(done) + 1 /\ g[Len(done) + 1] = m
  /\ \A l \in 1..Len(done) : g[l] = done[l]

Extended(x, m) == [x EXCEPT !.text = @ \o m.text, !.calls = m.calls]

Joined(g, done, m) ==
  /\ Len(done) > 0 /\ Joins(done[Len(done)], m)
  /\ Len(g) = Len(done) /\ g[Len(done)] = Extended(done[Len(done)], m)
  /\ \A l \in 1..(Len(done) - 1) : g[l] = done[l]

LEMMA ExtendedIs ==
  ASSUME NEW x \in Rows, NEW m \in Rows
  PROVE  LET y == Extended(x, m)
         IN  /\ y \in Rows /\ y.role = x.role /\ y.call = x.call /\ y.error = x.error
             /\ y.text = x.text \o m.text /\ y.calls = m.calls
<1>1. x.text \in Seq(Words) /\ m.text \in Seq(Words) /\ m.calls \in Seq(Calls)
  BY DEF Rows
<1>2. x.text \o m.text \in Seq(Words)
  BY <1>1, ConcatProperties
<1> DEFINE t == x.text \o m.text
           y == Extended(x, m)
<1>3. y = [x EXCEPT !.text = t, !.calls = m.calls]
  BY DEF Extended
<1>4. t \in Seq(Words)
  BY <1>2
<1> HIDE DEF t
<1>5. /\ y \in Rows /\ y.role = x.role /\ y.call = x.call /\ y.error = x.error
      /\ y.text = t /\ y.calls = m.calls
  <2> HIDE DEF y
  <2> QED BY <1>1, <1>3, <1>4 DEF Rows
<1> QED BY <1>5 DEF t

LEMMA MergedRowIs ==
  ASSUME NEW done \in Seq(Rows), NEW m \in Rows
  PROVE  LET g == MergedRow(done, m)
         IN  /\ g \in Seq(Rows)
             /\ Added(g, done, m) \/ Joined(g, done, m)
<1> DEFINE n == Len(done)
           g == MergedRow(done, m)
<1>1. n \in Nat /\ DOMAIN done = 1..n /\ done \in [1..n -> Rows]
  BY LenProperties
<1>2. CASE n > 0 /\ Joins(done[n], m)
  <2>1. g = [done EXCEPT ![n] = Extended(done[n], m)]
    BY <1>2, Zenon DEF MergedRow, Extended
  <2>6. n \in 1..n /\ done[n] \in Rows
    BY <1>1, <1>2
  <2>2. Extended(done[n], m) \in Rows /\ n \in 1..n
    BY <2>6, ExtendedIs
  <2> DEFINE y == Extended(done[n], m)
  <2>3. g = [done EXCEPT ![n] = y] /\ y \in Rows
    BY <2>1, <2>2
  <2> HIDE DEF g, y
  <2>4. g \in Seq(Rows) /\ Len(g) = n /\ g[n] = y /\ \A l \in 1..(n - 1) : g[l] = done[l]
    <3>1. g \in [1..n -> Rows] /\ g[n] = y /\ \A l \in 1..(n - 1) : g[l] = done[l]
      <4>1. \A l \in 1..(n - 1) : l \in 1..n /\ l # n
        <5> HIDE DEF n
        <5> QED BY <1>1
      <4> QED BY <1>1, <2>2, <2>3, <4>1, Zenon
    <3>2. g \in Seq(Rows) /\ Len(g) = n
      BY <1>1, <3>1
    <3> QED BY <3>1, <3>2
  <2>5. Joined(g, done, m)
    BY <1>2, <2>4 DEF Joined, y
  <2> QED BY <2>4, <2>5 DEF g
<1>3. CASE ~(n > 0 /\ Joins(done[n], m))
  <2>1. g = Append(done, m)
    BY <1>3 DEF MergedRow
  <2>2. /\ Append(done, m) \in Seq(Rows) /\ Len(Append(done, m)) = n + 1
        /\ Append(done, m)[n + 1] = m
        /\ \A l \in 1..n : Append(done, m)[l] = done[l]
    BY <1>1, AppendProperties
  <2>3. Added(g, done, m)
    BY <2>1, <2>2 DEF Added
  <2> QED BY <2>1, <2>2, <2>3
<1> QED BY <1>2, <1>3

LEMMA MergesExist ==
  ASSUME NEW N \in Nat, NEW M \in [1..N -> Rows]
  PROVE  \E u : Merges(u, M, N)
<1> DEFINE Bad == {m \in 0..N : ~\E u : Merges(u, M, m)}
<1>1. ASSUME Bad # {} PROVE FALSE
  <2>1. PICK m \in Bad : \A n \in Bad : m <= n
    <3>1. Bad \subseteq Nat
      OBVIOUS
    <3> HIDE DEF Bad
    <3> QED BY <1>1, <3>1, Least
  <2>2. m \in 0..N /\ ~\E u : Merges(u, M, m)
    OBVIOUS
  <2>3. CASE m = 0
    <3>1. Merges([i \in 0..0 |-> <<>>], M, 0)
      BY DEF Merges
    <3> QED BY <2>2, <2>3, <3>1
  <2>4. CASE m > 0
    <3>1. \E u : Merges(u, M, m - 1)
      <4>1. m - 1 \in 0..N /\ ~(m <= m - 1)
        BY <2>2, <2>4
      <4> QED BY <2>1, <4>1
    <3>2. PICK u : Merges(u, M, m - 1)
      BY <3>1
    <3> DEFINE top == MergedRow(u[m - 1], M[m])
               h == [i \in 0..m |-> IF i < m THEN u[i] ELSE top]
    <3>0. u \in [0..(m - 1) -> Seq(Rows)] /\ u[0] = <<>> /\ m \in Nat
      BY <2>2, <3>2 DEF Merges
    <3>3. u[m - 1] \in Seq(Rows) /\ M[m] \in Rows
      BY <2>2, <2>4, <3>0
    <3>4. top \in Seq(Rows)
      BY <3>3, MergedRowIs
    <3> HIDE DEF top
    <3>5. h \in [0..m -> Seq(Rows)] /\ h[0] = <<>>
      BY <2>4, <3>0, <3>4
    <3>6. ASSUME NEW i \in 1..m PROVE Merging(h, M, i)
      <4>1. CASE i = m
        <5>1. h[i] = top /\ h[i - 1] = u[m - 1]
          BY <2>4, <3>0, <4>1
        <5> QED BY <4>1, <5>1 DEF top, Merging
      <4>2. CASE i < m
        <5>1. i \in 1..(m - 1) /\ m - 1 \in Nat
          BY <2>4, <3>0, <4>2
        <5>2. Merging(u, M, i)
          BY <3>2, <5>1 DEF Merges
        <5>3. h[i] = u[i] /\ h[i - 1] = u[i - 1]
          BY <3>0, <4>2
        <5> QED BY <5>2, <5>3 DEF Merging
      <4>3. i = m \/ i < m
        BY <3>0
      <4> QED BY <4>1, <4>2, <4>3
    <3>7. Merges(h, M, m)
      <4> HIDE DEF h
      <4> QED BY <3>5, <3>6, Zenon DEF Merges
    <3> QED BY <2>2, <3>7
  <2> QED BY <2>2, <2>3, <2>4
<1>2. N \in 0..N
  OBVIOUS
<1> QED BY <1>1, <1>2

(* Two mergings agree as far as their messages do.                         *)
Alike(s, z, n) == \A i \in 1..n : s[i] = z[i]

LEMMA MergesAgree ==
  ASSUME NEW n \in Nat, NEW M, NEW K, NEW u, NEW v, Merges(u, M, n), Merges(v, K, n),
         Alike(M, K, n), NEW k \in 0..n
  PROVE  u[k] = v[k]
<1>1. u[0] = <<>> /\ v[0] = <<>> /\ \A i \in 1..n : Merging(u, M, i) /\ Merging(v, K, i)
  BY DEF Merges
<1> DEFINE Bad == {m \in 0..n : u[m] # v[m]}
<1>2. ASSUME Bad # {} PROVE FALSE
  <2>1. PICK m \in Bad : \A l \in Bad : m <= l
    <3>1. Bad \subseteq Nat
      OBVIOUS
    <3> HIDE DEF Bad
    <3> QED BY <1>2, <3>1, Least
  <2>2. m \in 0..n /\ u[m] # v[m] /\ m # 0
    BY <1>1
  <2>3. m \in 1..n /\ m - 1 \in 0..n /\ ~(m <= m - 1)
    BY <2>2
  <2>4. u[m - 1] = v[m - 1]
    BY <2>1, <2>3
  <2> QED BY <1>1, <2>2, <2>3, <2>4 DEF Merging, Alike
<1> QED BY <1>2

LEMMA MergedIs ==
  ASSUME NEW M \in Seq(Rows)
  PROVE  \E u : Merges(u, M, Len(M)) /\ Merged(M) = u[Len(M)]
<1> DEFINE N == Len(M)
<1>1. N \in Nat /\ M \in [1..N -> Rows]
  BY LenProperties
<1>2. PICK u : Merges(u, M, N)
  <2> HIDE DEF N
  <2> QED BY <1>1, MergesExist
<1> DEFINE Upto == CHOOSE g : g = [i \in 0..N |->
                     IF i = 0 THEN <<>> ELSE MergedRow(g[i - 1], M[i])]
<1>3. Merged(M) = Upto[N]
  BY DEF Merged
<1> HIDE DEF N
<1>4. u[0] = <<>> /\ u \in [0..N -> Seq(Rows)]
  BY <1>2 DEF Merges
<1>5. ASSUME NEW i \in 0..N
      PROVE  u[i] = IF i = 0 THEN <<>> ELSE MergedRow(u[i - 1], M[i])
  <2>1. CASE i = 0
    BY <1>4, <2>1
  <2>2. CASE i # 0
    <3>1. i \in 1..N
      BY <1>1, <2>2
    <3>2. Merging(u, M, i)
      BY <1>2, <3>1 DEF Merges
    <3> QED BY <2>2, <3>2 DEF Merging
  <2> QED BY <2>1, <2>2
<1>6. u = [i \in 0..N |-> IF i = 0 THEN <<>> ELSE MergedRow(u[i - 1], M[i])]
  <2>1. u = [i \in 0..N |-> u[i]]
    BY <1>4
  <2> QED BY <1>5, <2>1
<1>7. Upto = [i \in 0..N |-> IF i = 0 THEN <<>> ELSE MergedRow(Upto[i - 1], M[i])]
  BY <1>6, Zenon
<1> HIDE DEF Upto
<1> DEFINE Bad == {i \in 0..N : Upto[i] # u[i]}
<1>8. ASSUME Bad # {} PROVE FALSE
  <2>1. PICK m \in Bad : \A l \in Bad : m <= l
    <3>1. Bad \subseteq Nat
      OBVIOUS
    <3> HIDE DEF Bad
    <3> QED BY <1>8, <3>1, Least
  <2>2. m \in 0..N /\ Upto[m] # u[m]
    OBVIOUS
  <2>3. Upto[m] = IF m = 0 THEN <<>> ELSE MergedRow(Upto[m - 1], M[m])
    BY <1>7, <2>2
  <2>4. u[m] = IF m = 0 THEN <<>> ELSE MergedRow(u[m - 1], M[m])
    BY <1>5, <2>2
  <2>5. m # 0
    BY <2>2, <2>3, <2>4
  <2>6. m - 1 \in 0..N /\ ~(m <= m - 1)
    BY <1>1, <2>2, <2>5
  <2>7. Upto[m - 1] = u[m - 1]
    BY <2>1, <2>6
  <2> QED BY <2>2, <2>3, <2>4, <2>5, <2>7
<1>9. N \in 0..N
  BY <1>1
<1>10. Upto[N] = u[N]
  BY <1>8, <1>9
<1> QED BY <1>2, <1>3, <1>10 DEF N

(* Where the messages of a merging stand.                                  *)
Counts(u, n) == [i \in 0..n |-> Len(u[i])]

LEMMA MergeStep ==
  ASSUME NEW M \in Seq(Rows), NEW n \in 0..Len(M), NEW u, Merges(u, M, n), NEW i \in 1..n
  PROVE  /\ u[i] \in Seq(Rows) /\ u[i - 1] \in Seq(Rows) /\ M[i] \in Rows
         /\ Added(u[i], u[i - 1], M[i]) \/ Joined(u[i], u[i - 1], M[i])
         /\ Counts(u, n)[i] = Len(u[i]) /\ Counts(u, n)[i - 1] = Len(u[i - 1])
         /\ Len(u[i]) \in Nat /\ Len(u[i - 1]) \in Nat
<1>1. i \in 0..n /\ i - 1 \in 0..n /\ i \in 1..Len(M)
  OBVIOUS
<1>2. u[i] \in Seq(Rows) /\ u[i - 1] \in Seq(Rows) /\ M[i] \in Rows
  BY <1>1 DEF Merges
<1>3. u[i] = MergedRow(u[i - 1], M[i])
  BY DEF Merges, Merging
<1>4. Added(u[i], u[i - 1], M[i]) \/ Joined(u[i], u[i - 1], M[i])
  BY <1>2, <1>3, MergedRowIs
<1>5. Counts(u, n)[i] = Len(u[i]) /\ Counts(u, n)[i - 1] = Len(u[i - 1])
  BY <1>1 DEF Counts
<1>6. Len(u[i]) \in Nat /\ Len(u[i - 1]) \in Nat
  BY <1>2, LenProperties
<1> QED BY <1>2, <1>4, <1>5, <1>6

LEMMA CountsClimb ==
  ASSUME NEW M \in Seq(Rows), NEW n \in 0..Len(M), NEW u, Merges(u, M, n)
  PROVE  /\ Climbs(Counts(u, n), n)
         /\ \A i \in 0..n : Counts(u, n)[i] = Len(u[i])
<1> DEFINE d == Counts(u, n)
<1>1. u \in [0..n -> Seq(Rows)] /\ u[0] = <<>> /\ n \in Nat
  BY DEF Merges
<1>2. \A i \in 0..n : Len(u[i]) \in Nat
  BY <1>1, LenProperties
<1>3. d \in [0..n -> Nat] /\ \A i \in 0..n : d[i] = Len(u[i])
  BY <1>2 DEF Counts
<1>4. d[0] = 0
  <2>1. Len(<<>>) = 0 /\ 0 \in 0..n
    BY <1>1
  <2> QED BY <1>1, <1>3, <2>1
<1>5. ASSUME NEW i \in 1..n PROVE d[i] = d[i - 1] \/ d[i] = d[i - 1] + 1
  BY MergeStep DEF Added, Joined
<1> QED BY <1>3, <1>4, <1>5 DEF Climbs

(* What the message x of a merging keeps of a message m that is in it.     *)
Standing(x, m) ==
  /\ x \in Rows /\ x.role = m.role /\ (x.error = "budget" <=> m.error = "budget")
  /\ m.role = "tool" => x.call = m.call
  /\ Range(m.text) \subseteq Range(x.text)
  /\ m.calls # <<>> => x.calls = m.calls

LEMMA StandsWhenAdded ==
  ASSUME NEW M \in Seq(Rows), NEW n \in 0..Len(M), NEW u, Merges(u, M, n), NEW k \in 1..n
  PROVE  /\ Len(u[k]) > 0 /\ Standing(u[k][Len(u[k])], M[k])
         /\ M[k].role = "tool" => Len(u[k]) = Len(u[k - 1]) + 1
<1> DEFINE g == u[k]
           done == u[k - 1]
           m == M[k]
<1>1. /\ g \in Seq(Rows) /\ done \in Seq(Rows) /\ m \in Rows
      /\ Added(g, done, m) \/ Joined(g, done, m)
      /\ Len(g) \in Nat /\ Len(done) \in Nat
  BY MergeStep
<1> HIDE DEF g, done, m
<1>2. CASE Added(g, done, m)
  <2>1. Len(g) = Len(done) + 1 /\ g[Len(g)] = m
    BY <1>2 DEF Added
  <2>2. Standing(m, m)
    BY <1>1 DEF Standing
  <2> QED BY <1>1, <2>1, <2>2 DEF g, done, m
<1>3. CASE Joined(g, done, m)
  <2> DEFINE x == done[Len(done)]
  <2>1. /\ Len(done) > 0 /\ Joins(x, m) /\ Len(g) = Len(done) /\ g[Len(g)] = Extended(x, m)
    BY <1>3 DEF Joined
  <2>2. x \in Rows
    BY <1>1, <2>1
  <2> HIDE DEF x
  <2>3. /\ Extended(x, m) \in Rows /\ Extended(x, m).role = x.role
        /\ Extended(x, m).error = x.error
        /\ Extended(x, m).text = x.text \o m.text /\ Extended(x, m).calls = m.calls
    BY <1>1, <2>2, ExtendedIs
  <2>4. x.text \in Seq(Words) /\ m.text \in Seq(Words)
    BY <1>1, <2>2 DEF Rows
  <2>5. Range(x.text \o m.text) = Range(x.text) \cup Range(m.text)
    BY <2>4, RangeConcatenation
  <2>6. Standing(Extended(x, m), m) /\ m.role # "tool"
    BY <2>1, <2>3, <2>5 DEF Standing, Joins
  <2> QED BY <1>1, <2>1, <2>6 DEF g, m
<1> QED BY <1>1, <1>2, <1>3

LEMMA StandsOn ==
  ASSUME NEW M \in Seq(Rows), NEW n \in 0..Len(M), NEW u, Merges(u, M, n), NEW i \in 1..n,
         NEW m, NEW p \in 1..Len(u[i - 1]), Standing(u[i - 1][p], m)
  PROVE  p \in 1..Len(u[i]) /\ Standing(u[i][p], m)
<1> DEFINE g == u[i]
           done == u[i - 1]
           y == M[i]
           x == done[p]
<1>1. /\ g \in Seq(Rows) /\ done \in Seq(Rows) /\ y \in Rows
      /\ Added(g, done, y) \/ Joined(g, done, y)
      /\ Len(g) \in Nat /\ Len(done) \in Nat /\ p \in 1..Len(done)
  BY MergeStep
<1>0. Standing(x, m)
  OBVIOUS
<1> HIDE DEF g, done, y
<1>2. CASE Added(g, done, y)
  BY <1>0, <1>1, <1>2 DEF Added, g
<1>3. CASE Joined(g, done, y) /\ p # Len(done)
  <2>1. p \in 1..(Len(done) - 1)
    BY <1>1, <1>3
  <2> QED BY <1>0, <1>1, <1>3, <2>1 DEF Joined, g
<1>4. CASE Joined(g, done, y) /\ p = Len(done)
  <2>1. /\ Joins(x, y) /\ Len(g) = Len(done) /\ g[p] = Extended(x, y)
    BY <1>4 DEF Joined
  <2> HIDE DEF x
  <2>2. x \in Rows
    BY <1>0 DEF Standing
  <2>3. /\ Extended(x, y) \in Rows /\ Extended(x, y).role = x.role
        /\ Extended(x, y).error = x.error /\ Extended(x, y).call = x.call
        /\ Extended(x, y).text = x.text \o y.text
    BY <1>1, <2>2, ExtendedIs
  <2>4. x.text \in Seq(Words) /\ y.text \in Seq(Words)
    BY <1>1, <2>2 DEF Rows
  <2>5. Range(x.text \o y.text) = Range(x.text) \cup Range(y.text)
    BY <2>4, RangeConcatenation
  <2>6. m.calls = <<>>
    BY <1>0, <2>1 DEF Standing, Joins
  <2>7. Standing(Extended(x, y), m)
    BY <1>0, <2>3, <2>5, <2>6 DEF Standing
  <2> QED BY <1>1, <2>1, <2>7 DEF g
<1> QED BY <1>1, <1>2, <1>3, <1>4

(* A message goes on standing where it was put.                            *)
LEMMA StandsIn ==
  ASSUME NEW M \in Seq(Rows), NEW n \in 0..Len(M), NEW u, Merges(u, M, n), NEW k \in 1..n
  PROVE  Len(u[k]) \in 1..Len(u[n]) /\ Standing(u[n][Len(u[k])], M[k])
<1> DEFINE p == Len(u[k])
           Bad == {i \in k..n : ~(p \in 1..Len(u[i]) /\ Standing(u[i][p], M[k]))}
<1>0. p \in Nat /\ n \in Nat
  BY MergeStep
<1>1. ASSUME Bad # {} PROVE FALSE
  <2>1. PICK b \in Bad : \A c \in Bad : b <= c
    <3>1. Bad \subseteq Nat
      BY <1>0
    <3> HIDE DEF Bad
    <3> QED BY <1>1, <3>1, Least
  <2>2. b \in k..n /\ ~(p \in 1..Len(u[b]) /\ Standing(u[b][p], M[k]))
    OBVIOUS
  <2>3. b # k
    <3>1. p > 0 /\ Standing(u[k][p], M[k])
      BY StandsWhenAdded
    <3>2. p \in 1..p
      BY <1>0, <3>1
    <3> QED BY <2>2, <3>1, <3>2
  <2>4. b \in 1..n /\ b - 1 \in k..n /\ ~(b <= b - 1)
    BY <1>0, <2>2, <2>3
  <2>5. p \in 1..Len(u[b - 1]) /\ Standing(u[b - 1][p], M[k])
    BY <2>1, <2>4
  <2> HIDE DEF Bad, p
  <2>6. p \in 1..Len(u[b]) /\ Standing(u[b][p], M[k])
    BY <2>4, <2>5, StandsOn
  <2> QED BY <2>2, <2>6
<1>2. n \in k..n
  BY <1>0
<1> QED BY <1>1, <1>2

-----------------------------------------------------------------------------
(* A result that follows its call among the messages follows it merged.    *)

ResultOf(M, q, k) ==
  /\ q \in 1..(k - 1) /\ M[q].role = "assistant" /\ M[q].error # "budget"
  /\ \A l \in (q + 1)..k : M[l].role = "tool"
  /\ M[k].error # "budget" /\ M[k].call \in Range(M[q].calls)

LEMMA ResultStaysWithCall ==
  ASSUME NEW M \in Seq(Rows), NEW u, Merges(u, M, Len(M)),
         NEW k \in 1..Len(M), NEW q, ResultOf(M, q, k)
  PROVE  Answers(u[Len(M)], Len(u[k]), Len(u[q]))
<1> DEFINE N == Len(M)
           g == u[N]
           d == Counts(u, N)
           a == Len(u[q])
           t == Len(u[k])
<1>1. N \in Nat /\ N \in 0..N /\ k \in 1..N /\ q \in 1..N /\ q < k /\ k - 1 \in q..N
      /\ k \in q..N /\ k \in 0..N /\ q \in 0..N
  BY DEF ResultOf
<1> HIDE DEF N
<1>2. Merges(u, M, N)
  BY DEF N
<1>3. Climbs(d, N) /\ \A i \in 0..N : d[i] = Len(u[i])
  BY <1>1, <1>2, CountsClimb DEF N
<1>4. d \in [0..N -> Nat]
  BY <1>3 DEF Climbs
<1>5. a \in 1..Len(g) /\ Standing(g[a], M[q]) /\ t \in 1..Len(g) /\ Standing(g[t], M[k])
  BY <1>1, <1>2, StandsIn DEF N
<1> HIDE DEF d
<1>6. d[q] = a /\ d[k] = t /\ d[k] = d[k - 1] + 1
  <2>1. M[k].role = "tool"
    BY <1>1 DEF ResultOf
  <2>2. Len(u[k]) = Len(u[k - 1]) + 1
    BY <1>1, <1>2, <2>1, StandsWhenAdded DEF N
  <2>3. k - 1 \in 0..N
    BY <1>1
  <2> QED BY <1>1, <1>3, <2>2, <2>3
<1>7. d[q] <= d[k - 1] /\ d[k - 1] \in Nat /\ d[q] \in Nat
  <2>1. d[q] <= d[k - 1]
    BY <1>1, <1>3, NeverFalls
  <2> QED BY <1>1, <1>4, <2>1
<1> HIDE DEF a, t, g
<1>8. a < t /\ a \in Nat /\ t \in Nat
  BY <1>6, <1>7
<1>9. /\ g[a].role = "assistant" /\ g[a].error # "budget"
      /\ g[t].role = "tool" /\ g[t].error # "budget" /\ g[t].call \in Range(g[a].calls)
  <2>1. /\ M[q].role = "assistant" /\ M[q].error # "budget" /\ M[k].role = "tool"
        /\ M[k].error # "budget" /\ M[k].call \in Range(M[q].calls)
    BY <1>1 DEF ResultOf
  <2>2. M[q].calls # <<>>
    <3>1. Range(<<>>) = {}
      BY DEF Range
    <3> QED BY <2>1, <3>1
  <2> QED BY <1>5, <2>1, <2>2 DEF Standing
<1>10. ASSUME NEW l \in (a + 1)..(t - 1) PROVE g[l].role = "tool"
  <2>1. l \in 1..d[N]
    <3>1. N \in k..N
      BY <1>1
    <3>2. d[k] <= d[N]
      BY <1>1, <1>3, <3>1, NeverFalls
    <3>3. d[N] \in Nat
      BY <1>1, <1>4
    <3> QED BY <1>6, <1>8, <3>2, <3>3
  <2>2. PICK i \in 1..N : d[i] = l /\ d[i - 1] = l - 1
    BY <1>1, <1>3, <2>1, IsReached
  <2>3. q < i
    <3> SUFFICES ASSUME i <= q PROVE FALSE
      BY <1>1
    <3>1. q \in i..N /\ i \in 0..N
      BY <1>1
    <3>2. d[i] <= d[q]
      BY <1>1, <1>3, <3>1, NeverFalls
    <3> QED BY <1>6, <1>8, <2>2, <3>2
  <2>4. i < k
    <3> SUFFICES ASSUME k <= i PROVE FALSE
      BY <1>1
    <3>1. i \in k..N
      BY <1>1
    <3>2. d[k] <= d[i]
      BY <1>1, <1>3, <3>1, NeverFalls
    <3> QED BY <1>6, <1>8, <2>2, <3>2
  <2>5. i \in (q + 1)..k /\ i \in 0..N
    BY <1>1, <2>2, <2>3, <2>4
  <2>6. M[i].role = "tool"
    BY <2>5 DEF ResultOf
  <2>7. Len(u[i]) = l
    BY <1>3, <2>2, <2>5
  <2>8. Standing(g[l], M[i])
    BY <1>1, <1>2, <2>2, <2>7, StandsIn DEF N, g
  <2> QED BY <2>6, <2>8 DEF Standing
<1>11. Announcer(g, t) = a
  <2>0. g \in Seq(Rows)
    BY <1>1, <1>2 DEF g, Merges
  <2> DEFINE b == Announcer(g, t)
  <2>1. /\ b \in 0..(t - 1) /\ (b > 0 => g[b].role # "tool" /\ g[b].error # "budget")
        /\ \A j \in (b + 1)..(t - 1) : g[j].role = "tool" \/ g[j].error = "budget"
    BY <1>5, <2>0, AnnouncerIs
  <2> HIDE DEF b
  <2>2. ~(b < a)
    <3>1. b < a => a \in (b + 1)..(t - 1)
      BY <1>8, <2>1
    <3>2. g[a].role # "tool"
      BY <1>9
    <3> QED BY <1>9, <2>1, <3>1, <3>2
  <2>3. ~(a < b)
    <3>1. a < b => b \in (a + 1)..(t - 1) /\ b > 0
      BY <1>8, <2>1
    <3> QED BY <1>10, <2>1, <3>1
  <2> QED BY <1>8, <2>1, <2>2, <2>3 DEF b
<1>12. a > 0
  BY <1>5
<1> QED BY <1>9, <1>11, <1>12 DEF Answers, a, t, g, N

(* What one message says.                                                  *)
Tokens == Words \cup Calls \cup ({"result"} \X (Calls \cup {<<>>}))

ResultSaid(m) == IF m.role = "tool" THEN <<<<"result", m.call>>>> ELSE <<>>

SaidOf(m) == m.text \o m.calls \o ResultSaid(m)

LEMMA SaidOfIs ==
  ASSUME NEW m \in Rows
  PROVE  /\ SaidOf(m) \in Seq(Tokens)
         /\ m.text \in Seq(Tokens) /\ m.calls \in Seq(Tokens) /\ ResultSaid(m) \in Seq(Tokens)
         /\ Range(m.text) \subseteq Range(SaidOf(m))
         /\ m.role = "tool" => <<"result", m.call>> \in Range(SaidOf(m))
<1> DEFINE t == m.text
           c == m.calls
           r == ResultSaid(m)
<1>1. t \in Seq(Tokens) /\ c \in Seq(Tokens)
  <2>1. t \in Seq(Words) /\ c \in Seq(Calls)
    BY DEF Rows
  <2>2. Words \subseteq Tokens /\ Calls \subseteq Tokens
    BY DEF Tokens
  <2> HIDE DEF t, c
  <2> QED BY <2>1, <2>2
<1>2. <<"result", m.call>> \in Tokens
  <2>1. m.call \in Calls \cup {<<>>}
    BY DEF Rows
  <2> QED BY <2>1 DEF Tokens
<1>3. r \in Seq(Tokens)
  <2>1. <<<<"result", m.call>>>> \in Seq(Tokens) /\ <<>> \in Seq(Tokens)
    BY <1>2
  <2> QED BY <2>1 DEF ResultSaid
<1>4. m.role = "tool" => <<"result", m.call>> \in Range(r)
  <2>1. <<"result", m.call>> \in Range(<<<<"result", m.call>>>>)
    BY DEF Range
  <2> QED BY <2>1 DEF ResultSaid
<1>5. SaidOf(m) = t \o c \o r
  BY DEF SaidOf
<1> HIDE DEF t, c, r
<1>6. t \o c \in Seq(Tokens) /\ Range(t \o c) = Range(t) \cup Range(c)
  BY <1>1, ConcatProperties, RangeConcatenation
<1> DEFINE tc == t \o c
<1>9. tc \in Seq(Tokens) /\ Range(tc) = Range(t) \cup Range(c)
  BY <1>6
<1> HIDE DEF tc
<1>7. tc \o r \in Seq(Tokens)
  BY <1>3, <1>9, ConcatProperties
<1>8. Range(tc \o r) = Range(tc) \cup Range(r)
  BY <1>3, <1>9, RangeConcatenation
<1>10. SaidOf(m) = tc \o r
  BY <1>5 DEF tc
<1> QED BY <1>1, <1>3, <1>4, <1>7, <1>8, <1>9, <1>10 DEF t, c, r

Pieces(h) == [k \in DOMAIN h |-> SaidOf(h[k])]

LEMMA SaidIs ==
  ASSUME NEW h \in Seq(Rows)
  PROVE  /\ Said(h) = FlattenSeq(Pieces(h))
         /\ Pieces(h) \in Seq(Seq(Tokens)) /\ Len(Pieces(h)) = Len(h)
         /\ Said(h) \in Seq(Tokens)
         /\ \A x : x \in Range(Said(h)) <=> \E k \in 1..Len(h) : x \in Range(SaidOf(h[k]))
<1>0. DOMAIN h = 1..Len(h) /\ Len(h) \in Nat /\ \A k \in 1..Len(h) : h[k] \in Rows
  OBVIOUS
<1>1. Said(h) = FlattenSeq(Pieces(h))
  BY DEF Said, Pieces, SaidOf, ResultSaid
<1>2. Pieces(h) \in Seq(Seq(Tokens)) /\ Len(Pieces(h)) = Len(h)
      /\ \A k \in 1..Len(h) : Pieces(h)[k] = SaidOf(h[k])
  <2>1. \A k \in 1..Len(h) : SaidOf(h[k]) \in Seq(Tokens)
    BY <1>0, SaidOfIs
  <2> QED BY <1>0, <2>1 DEF Pieces
<1>3. ASSUME NEW x
      PROVE  x \in Range(Said(h)) <=> \E k \in 1..Len(h) : x \in Range(SaidOf(h[k]))
  <2>1. x \in Range(FlattenSeq(Pieces(h)))
          <=> \E k \in 1..Len(Pieces(h)) : x \in Range(Pieces(h)[k])
    BY <1>2, RangeFlat
  <2> QED BY <1>1, <1>2, <2>1
<1>4. Said(h) \in Seq(Tokens)
  <2> DEFINE s == Pieces(h)
             n == Len(s)
  <2>1. n \in Nat /\ n \in 0..n
    BY <1>0, <1>2
  <2>2. PICK f : Steps(s, n, Tokens, f) /\ FlattenSeq(s) = f[n]
    BY <1>2, FlatSteps
  <2> HIDE DEF n
  <2>3. f[n] \in Seq(Tokens)
    BY <2>1, <2>2 DEF Steps
  <2> QED BY <1>1, <2>2, <2>3
<1> QED BY <1>1, <1>2, <1>3, <1>4

(* What was written is said to the provider again.                         *)
LEMMA NothingIsLost ==
  ASSUME NEW M \in Seq(Rows), NEW k \in 1..Len(M), M[k].error # "budget",
         M[k].role = "tool" => \E q : ResultOf(M, q, k)
  PROVE  LET said == Range(Said(Sanitized(Merged(M))))
         IN  /\ Range(M[k].text) \subseteq said
             /\ M[k].role = "tool" => <<"result", M[k].call>> \in said
<1> DEFINE N == Len(M)
           h == Sanitized(Merged(M))
<1>1. PICK u : Merges(u, M, N) /\ Merged(M) = u[N]
  BY MergedIs
<1> DEFINE g == u[N]
           p == Len(u[k])
<1>2. N \in 0..N /\ N \in Nat
  BY LenProperties
<1>3. g \in Seq(Rows) /\ h \in Seq(Rows) /\ h = Sanitized(g)
  <2>1. g \in Seq(Rows)
    BY <1>1, <1>2 DEF Merges
  <2> QED BY <1>1, <2>1, SanitizedIs
<1>4. p \in 1..Len(g) /\ Standing(g[p], M[k])
  BY <1>1, <1>2, StandsIn
<1>5. ASSUME M[k].role = "tool" PROVE Answers(g, p, Announcer(g, p))
  <2>1. PICK q : ResultOf(M, q, k)
    BY <1>5
  <2>2. Answers(g, p, Len(u[q]))
    BY <1>1, <2>1, ResultStaysWithCall
  <2> QED BY <2>2 DEF Answers
<1>6. PICK d : Sift(g, h, d)
  BY <1>3, SanitizedIs
<1>7. /\ g[p] \in Rows /\ g[p].role = M[k].role /\ g[p].error # "budget"
      /\ Range(M[k].text) \subseteq Range(g[p].text)
      /\ M[k].role = "tool" => g[p].call = M[k].call
  BY <1>4 DEF Standing
<1> HIDE DEF g, p, h, N
<1>8. ASSUME ~Drops(g, p)
      PROVE  /\ Range(M[k].text) \subseteq Range(Said(h))
             /\ M[k].role = "tool" => <<"result", M[k].call>> \in Range(Said(h))
  <2>1. d[p] \in 1..Len(h) /\ Shows(g, p, h[d[p]])
    BY <1>3, <1>4, <1>6, <1>8, SiftIs
  <2> DEFINE x == h[d[p]]
  <2>2. x \in Rows /\ x.role = g[p].role /\ x.text = g[p].text /\ x.call = g[p].call
    BY <1>3, <2>1 DEF Shows
  <2>3. /\ Range(x.text) \subseteq Range(SaidOf(x))
        /\ x.role = "tool" => <<"result", x.call>> \in Range(SaidOf(x))
    BY <2>2, SaidOfIs
  <2>4. \A y : y \in Range(SaidOf(x)) => y \in Range(Said(h))
    BY <1>3, <2>1, SaidIs
  <2> HIDE DEF x
  <2> QED BY <1>7, <2>2, <2>3, <2>4
<1>9. CASE Drops(g, p)
  <2>1. g[p].role = "assistant" /\ g[p].text = <<>>
    BY <1>5, <1>7, <1>9 DEF Drops
  <2>2. Range(M[k].text) = {}
    <3>1. Range(<<>>) = {}
      BY DEF Range
    <3> QED BY <1>7, <2>1, <3>1
  <2> QED BY <1>7, <2>1, <2>2
<1> QED BY <1>8, <1>9 DEF h

-----------------------------------------------------------------------------
(* A path, and what the rows' parents say of it.                           *)

Linked(rs, p) ==
  \A k \in 1..Len(p) :
    /\ p[k] \in 1..Len(rs)
    /\ IF k = 1 THEN rs[p[k]].parent = 0 ELSE rs[p[k]].parent = p[k - 1]

LEMMA PathIsLinked ==
  ASSUME NEW rs, Parented(rs), NEW id \in 1..Len(rs)
  PROVE  LET p == PathIn(rs)[id]
         IN  p \in Seq(Nat) /\ Len(p) > 0 /\ p[Len(p)] = id /\ Linked(rs, p)
<1> DEFINE N == Len(rs)
           LeadsTo(p, b) == p \in Seq(Nat) /\ Len(p) > 0 /\ p[Len(p)] = b /\ Linked(rs, p)
           Good(b) == LeadsTo(PathIn(rs)[b], b)
           Bad == {b \in 1..N : ~Good(b)}
<1>1. N \in Nat /\ 1..Len(rs) = 1..N /\ \A i \in 1..N : rs[i].parent \in Nat /\ rs[i].parent < i
  <2>1. N \in Nat /\ \A i \in 1..N : rs[i] \in Rows
    BY LenProperties DEF Parented
  <2>2. \A i \in 1..N : rs[i].parent < i
    BY DEF Parented
  <2> HIDE DEF N
  <2>3. \A i \in 1..N : rs[i].parent \in Nat
    BY <2>1 DEF Rows
  <2> QED BY <2>1, <2>2, <2>3 DEF N
<1> HIDE DEF N
<1>2. ASSUME Bad # {} PROVE FALSE
  <2>1. PICK b \in Bad : \A c \in Bad : b <= c
    <3>1. Bad \subseteq Nat
      OBVIOUS
    <3> HIDE DEF Bad
    <3> QED BY <1>2, <3>1, Least
  <2>2. b \in 1..N /\ ~Good(b)
    OBVIOUS
  <2> DEFINE up == rs[b].parent
             s == PathIn(rs)[up]
  <2>3. PathIn(rs)[b] = Append(s, b) /\ s \in Seq(Nat) /\ PathIn(rs)[0] = <<>>
    BY <1>1, <2>2, PathInIs, PathInRoot
  <2>4. up \in Nat /\ up < b /\ b \in Nat
    BY <1>1, <2>2
  <2>5. IF up = 0 THEN s = <<>> ELSE Good(up) /\ up \in 1..N
    <3>1. up # 0 => up \in 1..N /\ ~(b <= up)
      BY <1>1, <2>2, <2>4
    <3> HIDE DEF Good, up
    <3> QED BY <2>1, <2>3, <3>1 DEF up
  <2> HIDE DEF up
  <2>6. Linked(rs, s) /\ (up = 0 => Len(s) = 0) /\ (up # 0 => Len(s) > 0 /\ s[Len(s)] = up)
    <3>1. CASE up = 0
      <4>1. Len(<<>>) = 0
        OBVIOUS
      <4> QED BY <2>5, <3>1, <4>1 DEF Linked
    <3>2. CASE up # 0
      BY <2>5, <3>2
    <3> QED BY <3>1, <3>2
  <2> HIDE DEF s
  <2>7. /\ Append(s, b) \in Seq(Nat) /\ Len(Append(s, b)) = Len(s) + 1
        /\ Append(s, b)[Len(s) + 1] = b
        /\ \A l \in 1..Len(s) : Append(s, b)[l] = s[l]
    BY <2>3, <2>4, AppendProperties
  <2> DEFINE p == Append(s, b)
  <2>8. ASSUME NEW k \in 1..Len(p)
        PROVE  /\ p[k] \in 1..Len(rs)
               /\ IF k = 1 THEN rs[p[k]].parent = 0 ELSE rs[p[k]].parent = p[k - 1]
    <3>0. Len(s) \in Nat
      BY <2>3
    <3>1. CASE k = Len(s) + 1
      <4>1. p[k] = b /\ rs[p[k]].parent = up
        BY <2>7, <3>1 DEF up
      <4>2. CASE up = 0
        BY <1>1, <2>2, <2>6, <3>1, <4>1, <4>2
      <4>3. CASE up # 0
        <5>1. k > 1 /\ k - 1 = Len(s) /\ Len(s) \in 1..Len(s)
          BY <2>6, <3>0, <3>1, <4>3
        <5>2. p[k - 1] = up
          BY <2>6, <2>7, <4>3, <5>1
        <5> QED BY <1>1, <2>2, <4>1, <5>1, <5>2
      <4> QED BY <4>2, <4>3
    <3>2. CASE k # Len(s) + 1
      <4>1. k \in 1..Len(s) /\ (k > 1 => k - 1 \in 1..Len(s))
        BY <2>7, <3>0, <3>2
      <4>2. p[k] = s[k] /\ (k > 1 => p[k - 1] = s[k - 1])
        BY <2>7, <4>1
      <4> HIDE DEF p
      <4> QED BY <2>6, <4>1, <4>2 DEF Linked
    <3> QED BY <3>1, <3>2
  <2>9. Linked(rs, p)
    BY <2>8 DEF Linked
  <2>10. Len(s) \in Nat
    BY <2>3
  <2> QED BY <2>2, <2>3, <2>7, <2>9, <2>10
<1>3. id \in 1..N
  BY <1>1
<1>4. Good(id)
  <2> HIDE DEF Good
  <2> QED BY <1>2, <1>3
<1> QED BY <1>4

(* Rows that follow each other's ids are neighbours on every path.         *)
InARow(rs, a, i) == a \in 1..i /\ \A l \in a + 1..i : rs[l].parent = l - 1

IsOn(p, k, i) == k \in 1..Len(p) /\ p[k] = i

LEMMA NeighboursOnPath ==
  ASSUME NEW rs, NEW p \in Seq(Nat), Linked(rs, p), NEW k, NEW i, IsOn(p, k, i),
         NEW a, InARow(rs, a, i), NEW j \in 0..(i - a)
  PROVE  IsOn(p, k - j, i - j)
<1>0. /\ a \in 1..p[k] /\ (\A l \in a + 1..p[k] : rs[l].parent = l - 1)
      /\ k \in 1..Len(p) /\ p[k] = i /\ j \in 0..(p[k] - a)
  BY DEF InARow, IsOn
<1> DEFINE n == p[k] - a
           Bad == {m \in 0..n : ~(k - m \in 1..Len(p) /\ p[k - m] = p[k] - m)}
<1>1. p[k] \in Nat /\ n \in Nat /\ Len(p) \in Nat /\ k \in Nat /\ a \in Nat /\ a > 0
  <2>1. p[k] \in Nat
    BY <1>0
  <2> QED BY <1>0, <2>1
<1>2. ASSUME Bad # {} PROVE FALSE
  <2>1. PICK b \in Bad : \A c \in Bad : b <= c
    <3>1. Bad \subseteq Nat
      BY <1>1
    <3> HIDE DEF Bad
    <3> QED BY <1>2, <3>1, Least
  <2>2. b \in 0..n /\ ~(k - b \in 1..Len(p) /\ p[k - b] = p[k] - b)
    OBVIOUS
  <2>3. b # 0
    BY <1>0, <1>1, <2>2
  <2>4. b - 1 \in 0..n /\ ~(b <= b - 1)
    BY <1>1, <2>2, <2>3
  <2>5. k - (b - 1) \in 1..Len(p) /\ p[k - (b - 1)] = p[k] - (b - 1)
    BY <2>1, <2>4
  <2> HIDE DEF Bad
  <2> DEFINE c == k - (b - 1)
             l == p[k] - (b - 1)
  <2>6. c \in 1..Len(p) /\ p[c] = l /\ c - 1 = k - b
    BY <1>1, <2>2, <2>5
  <2>7. l \in (a + 1)..p[k] /\ l - 1 = p[k] - b
    <3> DEFINE s == p[k]
    <3>1. b \in Nat /\ b >= 1 /\ b <= s - a /\ l = s - (b - 1)
      BY <1>1, <2>2, <2>3
    <3>2. s \in Nat /\ a \in Nat
      BY <1>1
    <3> HIDE DEF s, l
    <3>3. l \in (a + 1)..s /\ l - 1 = s - b
      BY <3>1, <3>2
    <3> QED BY <3>3 DEF s
  <2> HIDE DEF c, l, n
  <2>8. rs[l].parent = l - 1
    BY <1>0, <2>7
  <2>9. l - 1 > 0
    BY <1>1, <2>7
  <2>10. c > 1 /\ p[c - 1] = l - 1
    <3>1. IF c = 1 THEN rs[p[c]].parent = 0 ELSE rs[p[c]].parent = p[c - 1]
      BY <2>6 DEF Linked
    <3>2. rs[p[c]].parent = l - 1 /\ l - 1 # 0
      BY <2>6, <2>8, <2>9
    <3>3. c # 1 /\ p[c - 1] = l - 1
      BY <3>1, <3>2
    <3> QED BY <2>6, <3>3
  <2>11. c - 1 \in 1..Len(p)
    BY <1>1, <2>6, <2>10
  <2> QED BY <2>2, <2>6, <2>7, <2>10, <2>11
<1>3. k - j \in 1..Len(p) /\ p[k - j] = p[k] - j
  BY <1>0, <1>2
<1> QED BY <1>0, <1>3 DEF IsOn

(* The messages of a path.                                                 *)
Trail(rs, p) == [k \in DOMAIN p |-> rs[p[k]]]

ToolsFollow(rs) == \A i \in 1..Len(rs) : rs[i].role = "tool" => FollowsItsCall(rs, i)

LEMMA TrailIs ==
  ASSUME NEW rs, Parented(rs), NEW p \in Seq(Nat), Linked(rs, p)
  PROVE  /\ Trail(rs, p) \in Seq(Rows) /\ Len(Trail(rs, p)) = Len(p)
         /\ \A k \in 1..Len(p) : Trail(rs, p)[k] = rs[p[k]]
<1>1. DOMAIN p = 1..Len(p) /\ Len(p) \in Nat
  OBVIOUS
<1>2. \A k \in 1..Len(p) : rs[p[k]] \in Rows
  BY DEF Parented, Linked
<1> QED BY <1>1, <1>2 DEF Trail

LEMMA TrailKeepsCalls ==
  ASSUME NEW rs, Parented(rs), ToolsFollow(rs), NEW p \in Seq(Nat), Linked(rs, p),
         NEW k \in 1..Len(p), rs[p[k]].role = "tool"
  PROVE  \E q : ResultOf(Trail(rs, p), q, k)
<1> DEFINE i == p[k]
           M == Trail(rs, p)
<1>1. i \in 1..Len(rs) /\ i \in Nat
  BY DEF Linked
<1>2. PICK a \in 1..i - 1 :
        /\ rs[a].role = "assistant" /\ rs[a].error # "budget"
        /\ rs[i].call \in Range(rs[a].calls) /\ rs[i].error # "budget"
        /\ \A l \in a + 1..i : rs[l].role = "tool" /\ rs[l].parent = l - 1
  BY <1>1 DEF ToolsFollow, FollowsItsCall
<1>3. a \in 1..i /\ a \in Nat /\ i - a \in Nat /\ a < i
  <2>1. a \in 1..i - 1 /\ i \in Nat
    BY <1>1, <1>2
  <2> HIDE DEF i
  <2> QED BY <2>1
<1>10. IsOn(p, k, i) /\ InARow(rs, a, i)
  BY <1>2, <1>3 DEF IsOn, InARow
<1> HIDE DEF i
<1>4. ASSUME NEW j \in 0..(i - a) PROVE k - j \in 1..Len(p) /\ p[k - j] = i - j
  <2>1. IsOn(p, k - j, i - j)
    BY <1>10, NeighboursOnPath
  <2> QED BY <2>1 DEF IsOn
<1> DEFINE q == k - (i - a)
<1>5. q \in 1..Len(p) /\ p[q] = a
  <2>1. i - a \in 0..(i - a) /\ i - (i - a) = a
    BY <1>1, <1>3
  <2> QED BY <1>4, <2>1
<1>6. k \in Nat /\ Len(p) \in Nat
  OBVIOUS
<1>7. q \in 1..(k - 1)
  BY <1>1, <1>3, <1>5, <1>6
<1>8. ASSUME NEW l \in (q + 1)..k PROVE M[l].role = "tool"
  <2>1. k - l \in 0..(i - a) /\ k - (k - l) = l
    BY <1>1, <1>3, <1>6, <1>7
  <2>2. l \in 1..Len(p) /\ p[l] = i - (k - l)
    BY <1>4, <2>1
  <2>3. i - (k - l) \in (a + 1)..i
    <3>1. k - l \in Nat /\ k - l <= i - a - 1
      BY <1>1, <1>3, <1>6, <1>7
    <3> QED BY <1>1, <1>3, <3>1
  <2>4. rs[p[l]].role = "tool"
    BY <1>2, <2>2, <2>3
  <2> QED BY <2>2, <2>4, TrailIs
<1>9. M[q] = rs[a] /\ M[k] = rs[i]
  BY <1>5, TrailIs DEF i
<1> QED BY <1>2, <1>7, <1>8, <1>9 DEF ResultOf

(* The history that starts from a row of any rows; 0 is before the first.  *)
HistoryIn(rs, id) == Sanitized(Merged(Trail(rs, PathIn(rs)[id])))

LEMMA HistoryIs ==
  ASSUME Parented(rows), NEW id \in 0..Len(rows)
  PROVE  PathTo(id) = PathIn(rows)[id] /\ History(id) = HistoryIn(rows, id)
<1>1. Path = PathIn(rows)
  BY DEF Path, PathIn
<1>2. PathTo(id) = PathIn(rows)[id]
  <2>1. id \notin Ids => id = 0
    BY DEF Ids, Parented
  <2> QED BY <1>1, <2>1, PathInRoot DEF PathTo
<1>3. History(id) = Sanitized(Merged(Trail(rows, PathTo(id))))
  BY DEF History, Trail
<1> QED BY <1>2, <1>3 DEF HistoryIn

LEMMA MergedType == ASSUME NEW M \in Seq(Rows) PROVE Merged(M) \in Seq(Rows)
<1>1. PICK u : Merges(u, M, Len(M)) /\ Merged(M) = u[Len(M)]
  BY MergedIs
<1>2. Len(M) \in 0..Len(M)
  OBVIOUS
<1> QED BY <1>1, <1>2 DEF Merges

(* The history of any row is sendable and leaves nothing written out.      *)
LEMMA HistoryIsSendable ==
  ASSUME Parented(rows), ToolsFollow(rows), NEW id \in Ids
  PROVE  LET said == Range(Said(History(id)))
         IN  /\ Sendable(History(id))
             /\ \A i \in Range(PathTo(id)) :
                  rows[i].error # "budget" =>
                    /\ Range(rows[i].text) \subseteq said
                    /\ rows[i].role = "tool" => <<"result", rows[i].call>> \in said
<1> DEFINE p == PathIn(rows)[id]
           M == Trail(rows, p)
<1>0. id \in 1..Len(rows) /\ id \in 0..Len(rows)
  BY DEF Ids
<1>1. p \in Seq(Nat) /\ Linked(rows, p)
  BY <1>0, PathIsLinked
<1>3. PathTo(id) = p /\ History(id) = Sanitized(Merged(M))
  BY <1>0, HistoryIs DEF HistoryIn
<1> HIDE DEF p
<1>2. M \in Seq(Rows) /\ Len(M) = Len(p) /\ \A k \in 1..Len(p) : M[k] = rows[p[k]]
  BY <1>1, TrailIs
<1> HIDE DEF M
<1>5. Sendable(History(id))
  BY <1>2, <1>3, MergedType, SanitizedIsSendable
<1>6. ASSUME NEW i \in Range(p), rows[i].error # "budget"
      PROVE  /\ Range(rows[i].text) \subseteq Range(Said(History(id)))
             /\ rows[i].role = "tool" => <<"result", rows[i].call>> \in Range(Said(History(id)))
  <2>1. PICK k \in 1..Len(p) : p[k] = i
    BY <1>1 DEF Range
  <2>2. M[k] = rows[i] /\ k \in 1..Len(M)
    BY <1>2, <2>1
  <2>3. M[k].role = "tool" => \E q : ResultOf(M, q, k)
    BY <1>1, <2>1, <2>2, TrailKeepsCalls DEF M
  <2> QED BY <1>2, <1>3, <1>6, <2>2, <2>3, NothingIsLost
<1> QED BY <1>3, <1>5, <1>6

-----------------------------------------------------------------------------
(* What is said grows with the messages, one after the other.              *)
Glue(z, x, y) == z = x \o y

LEMMA StepsAgree ==
  ASSUME NEW T, NEW s, NEW z, NEW n1 \in Nat, NEW n2 \in Nat, NEW f, NEW g,
         Steps(s, n1, T, f), Steps(z, n2, T, g),
         NEW n \in Nat, n <= n1, n <= n2, Alike(s, z, n),
         NEW k \in 0..n
  PROVE  f[k] = g[k]
<1>1. f[0] = <<>> /\ g[0] = <<>> /\ \A i \in 1..n : Glued(f, s, i) /\ Glued(g, z, i)
  <2>1. \A i \in 1..n : i \in 1..n1 /\ i \in 1..n2
    OBVIOUS
  <2> QED BY <2>1 DEF Steps
<1> DEFINE Bad == {m \in 0..n : f[m] # g[m]}
<1>2. ASSUME Bad # {} PROVE FALSE
  <2>1. PICK m \in Bad : \A l \in Bad : m <= l
    <3>1. Bad \subseteq Nat
      OBVIOUS
    <3> HIDE DEF Bad
    <3> QED BY <1>2, <3>1, Least
  <2>2. m \in 0..n /\ f[m] # g[m] /\ m # 0
    BY <1>1
  <2>3. m \in 1..n /\ m - 1 \in 0..n /\ ~(m <= m - 1)
    BY <2>2
  <2>4. f[m - 1] = g[m - 1]
    BY <2>1, <2>3
  <2>5. f[m] = f[m - 1] \o s[m] /\ g[m] = g[m - 1] \o z[m] /\ s[m] = z[m]
    BY <1>1, <2>3 DEF Glued, Alike
  <2> QED BY <2>2, <2>4, <2>5
<1> QED BY <1>2

LEMMA SaidAppended ==
  ASSUME NEW h \in Seq(Rows), NEW x \in Rows
  PROVE  /\ Said(h) \in Seq(Tokens) /\ Said(Append(h, x)) \in Seq(Tokens)
         /\ Glue(Said(Append(h, x)), Said(h), SaidOf(x))
<1> DEFINE n == Len(h)
           hx == Append(h, x)
           s == Pieces(h)
           z == Pieces(hx)
<1>1. /\ n \in Nat /\ hx \in Seq(Rows) /\ Len(hx) = n + 1 /\ hx[n + 1] = x
      /\ \A i \in 1..n : hx[i] = h[i]
  BY LenProperties, AppendProperties
<1>2. /\ Said(h) = FlattenSeq(s) /\ s \in Seq(Seq(Tokens)) /\ Len(s) = n
      /\ Said(hx) = FlattenSeq(z) /\ z \in Seq(Seq(Tokens)) /\ Len(z) = n + 1
  <2> HIDE DEF hx
  <2> QED BY <1>1, SaidIs
<1>3. z[n + 1] = SaidOf(x) /\ \A i \in 1..n : s[i] = z[i]
  <2>1. DOMAIN h = 1..n /\ DOMAIN hx = 1..(n + 1)
    BY <1>1, LenProperties
  <2>2. n + 1 \in 1..(n + 1) /\ \A i \in 1..n : i \in 1..(n + 1)
    BY <1>1
  <2> HIDE DEF hx, n
  <2> QED BY <1>1, <2>1, <2>2 DEF Pieces
<1> DEFINE m == n + 1
<1>4. /\ m \in Nat /\ n <= m /\ n <= n /\ n \in 0..n /\ m - 1 = n /\ m \in 1..m
      /\ Len(z) = m /\ z[m] = SaidOf(x) /\ Alike(s, z, n)
  BY <1>1, <1>2, <1>3 DEF Alike
<1> HIDE DEF s, z, hx, n, m
<1>5. PICK f : Steps(s, n, Tokens, f) /\ FlattenSeq(s) = f[n]
  BY <1>2, FlatSteps
<1>6. PICK g : Steps(z, m, Tokens, g) /\ FlattenSeq(z) = g[m]
  BY <1>2, <1>4, FlatSteps
<1>7. f[n] = g[n]
  BY <1>1, <1>4, <1>5, <1>6, StepsAgree
<1>8. Glued(g, z, m) /\ g[m] \in Seq(Tokens) /\ g[m - 1] \in Seq(Tokens)
  BY <1>4, <1>6, StepIs
<1>9. g[m] = g[n] \o SaidOf(x)
  BY <1>4, <1>8 DEF Glued
<1> QED BY <1>2, <1>4, <1>5, <1>6, <1>7, <1>8, <1>9 DEF Glue, hx

LEMMA NothingSaid == Said(<<>>) = <<>>
<1>1. <<>> \in Seq(Rows) /\ Len(<<>>) = 0 /\ DOMAIN <<>> = {}
  OBVIOUS
<1>2. Pieces(<<>>) = <<>>
  BY <1>1 DEF Pieces
<1> QED BY <1>1, <1>2, SaidIs DEF FlattenSeq

(* What a provider is told by message i.                                   *)
SaidSeen(M, i) == IF Drops(M, i) THEN <<>> ELSE SaidOf(Seen(M, i)[1])

LEMMA SaidGlued ==
  ASSUME NEW M \in Seq(Rows), NEW f, Steps(Sights(M), Len(M), Rows, f), NEW i \in 1..Len(M)
  PROVE  Glue(Said(f[i]), Said(f[i - 1]), SaidSeen(M, i))
<1>1. /\ Glued(f, Sights(M), i) /\ f[i] \in Seq(Rows) /\ f[i - 1] \in Seq(Rows)
      /\ Sights(M)[i] = Seen(M, i) /\ Seen(M, i) \in Seq(Rows)
  <2>1. Len(M) \in Nat
    BY LenProperties
  <2> QED BY <2>1, SightsAre, SeenIs, StepIs
<1> DEFINE p == f[i - 1]
           q == Seen(M, i)
<1>2. f[i] = p \o q /\ p \in Seq(Rows) /\ q \in Seq(Rows)
  BY <1>1 DEF Glued
<1> HIDE DEF p, q
<1>3. Said(p) \in Seq(Tokens)
  BY <1>2, SaidIs
<1>4. CASE Drops(M, i)
  <2>1. q = <<>>
    BY <1>4, SeenIs DEF q
  <2>2. p \o q = p
    BY <1>2, <2>1, ConcatEmptySeq
  <2>3. Said(p) \o <<>> = Said(p)
    BY <1>3, ConcatEmptySeq
  <2> QED BY <1>2, <1>4, <2>2, <2>3 DEF Glue, SaidSeen, p
<1>5. CASE ~Drops(M, i)
  <2>1. Len(q) = 1
    BY <1>5, SeenIs DEF q
  <2>2. q = <<q[1]>> /\ q[1] \in Rows
    <3>0. 1 \in 1..Len(q)
      BY <2>1
    <3>1. q[1] \in Rows
      BY <1>2, <3>0, ElementOfSeq
    <3>2. <<q[1]>> \in Seq(Rows) /\ Len(<<q[1]>>) = 1 /\ <<q[1]>>[1] = q[1]
      BY <3>1
    <3>3. \A l \in 1..Len(q) : q[l] = <<q[1]>>[l]
      BY <2>1, <3>2
    <3>4. q = <<q[1]>>
      BY <1>2, <2>1, <3>2, <3>3, SeqEqual
    <3> QED BY <3>1, <3>4
  <2>3. p \o q = Append(p, q[1])
    BY <1>2, <2>2, AppendIsConcat
  <2>4. Glue(Said(Append(p, q[1])), Said(p), SaidOf(q[1]))
    BY <1>2, <2>2, SaidAppended
  <2>5. SaidSeen(M, i) = SaidOf(q[1])
    BY <1>5 DEF SaidSeen, q
  <2> QED BY <1>2, <2>3, <2>4, <2>5 DEF p
<1> QED BY <1>4, <1>5

LEMMA SanitizedSteps ==
  ASSUME NEW M \in Seq(Rows)
  PROVE  \E f : Steps(Sights(M), Len(M), Rows, f) /\ Sanitized(M) = f[Len(M)]
<1>1. Sanitized(M) = FlattenSeq(Sights(M))
  BY DEF Sanitized, Sights
<1>2. Sights(M) \in Seq(Seq(Rows)) /\ Len(Sights(M)) = Len(M)
  BY SightsAre
<1> HIDE DEF Sights
<1>3. \E f : Steps(Sights(M), Len(Sights(M)), Rows, f) /\ FlattenSeq(Sights(M)) = f[Len(Sights(M))]
  BY <1>2, FlatSteps
<1> QED BY <1>1, <1>2, <1>3

(* What a provider is told, message by message.                            *)
Tales(M) == [i \in 1..Len(M) |-> SaidSeen(M, i)]

LEMMA TaleIs ==
  ASSUME NEW M \in Seq(Rows), NEW i \in 1..Len(M)
  PROVE  SaidSeen(M, i) \in Seq(Tokens) /\ Tales(M)[i] = SaidSeen(M, i)
<1>1. Tales(M)[i] = SaidSeen(M, i)
  BY DEF Tales
<1>2. CASE Drops(M, i)
  BY <1>1, <1>2 DEF SaidSeen
<1>3. CASE ~Drops(M, i)
  <2>1. Seen(M, i) \in Seq(Rows) /\ Len(Seen(M, i)) = 1
    BY <1>3, SeenIs
  <2> DEFINE s == Seen(M, i)
  <2>2. s \in Seq(Rows) /\ 1 \in 1..Len(s)
    BY <2>1
  <2> HIDE DEF s
  <2>3. s[1] \in Rows
    BY <2>2, ElementOfSeq
  <2>4. SaidOf(s[1]) \in Seq(Tokens)
    BY <2>3, SaidOfIs
  <2>5. SaidSeen(M, i) = SaidOf(s[1])
    BY <1>3 DEF SaidSeen, s
  <2> QED BY <1>1, <2>4, <2>5
<1> QED BY <1>2, <1>3

LEMMA Retelling ==
  ASSUME NEW M \in Seq(Rows)
  PROVE  \E s : Steps(Tales(M), Len(M), Tokens, s) /\ Said(Sanitized(M)) = s[Len(M)]
<1> DEFINE N == Len(M)
<1>1. PICK f : Steps(Sights(M), N, Rows, f) /\ Sanitized(M) = f[N]
  BY SanitizedSteps
<1>2. N \in Nat
  BY LenProperties
<1>3. f \in [0..N -> Seq(Rows)] /\ f[0] = <<>>
  BY <1>1 DEF Steps
<1> DEFINE s == [i \in 0..N |-> Said(f[i])]
<1>4. ASSUME NEW i \in 1..N PROVE Glued(s, Tales(M), i)
  <2>1. Glue(Said(f[i]), Said(f[i - 1]), SaidSeen(M, i))
    BY <1>1, SaidGlued
  <2>2. i \in 0..N /\ i - 1 \in 0..N
    BY <1>2
  <2>3. s[i] = Said(f[i]) /\ s[i - 1] = Said(f[i - 1])
    BY <2>2
  <2>4. Tales(M)[i] = SaidSeen(M, i)
    BY TaleIs
  <2> HIDE DEF s
  <2> QED BY <2>1, <2>3, <2>4 DEF Glued, Glue
<1>5. s \in [0..N -> Seq(Tokens)]
  <2>1. \A i \in 0..N : Said(f[i]) \in Seq(Tokens)
    BY <1>3, SaidIs
  <2> QED BY <2>1
<1>6. s[0] = <<>> /\ s[N] = Said(Sanitized(M))
  <2>1. 0 \in 0..N /\ N \in 0..N
    BY <1>2
  <2> QED BY <1>1, <1>3, <2>1, NothingSaid
<1> HIDE DEF s
<1>7. Steps(Tales(M), N, Tokens, s)
  BY <1>4, <1>5, <1>6 DEF Steps
<1> QED BY <1>6, <1>7

-----------------------------------------------------------------------------
(* What is told of the messages before a reply does not depend on what     *)
(* comes after.                                                            *)
Barrier(M, q) == q > Len(M) \/ (M[q].role # "tool" /\ M[q].error # "budget")

Begins(M, K, q) ==
  /\ q \in Nat \ {0} /\ q - 1 <= Len(M) /\ q - 1 <= Len(K)
  /\ Alike(M, K, q - 1) /\ Barrier(M, q) /\ Barrier(K, q)

LEMMA AnnouncersAgree ==
  ASSUME NEW M, NEW K, NEW q, Begins(M, K, q), NEW i \in 1..(q - 1)
  PROVE  Announcer(M, i) = Announcer(K, i)
<1>1. \A j \in 1..i - 1 : M[j] = K[j]
  BY DEF Begins, Alike
<1>2. {j \in 1..i - 1 : M[j].role # "tool" /\ M[j].error # "budget"}
        = {j \in 1..i - 1 : K[j].role # "tool" /\ K[j].error # "budget"}
  BY <1>1
<1> QED BY <1>2 DEF Announcer

LEMMA AnswersBefore ==
  ASSUME NEW M \in Seq(Rows), NEW K, NEW q, Begins(M, K, q), NEW j \in 1..(q - 1),
         NEW i \in 1..Len(M), Answers(M, i, j)
  PROVE  i \in 1..(q - 1) /\ Answers(K, i, j) /\ M[i].call = K[i].call
<1>1. Announcer(M, i) = j /\ M[i].role = "tool"
  BY DEF Answers
<1>2. i \in 1..(q - 1)
  <2> SUFFICES ASSUME ~(i < q) PROVE FALSE
    BY DEF Begins
  <2>1. q \in Nat /\ q <= Len(M) /\ Barrier(M, q)
    BY DEF Begins
  <2>2. M[q].role # "tool" /\ M[q].error # "budget"
    BY <2>1 DEF Barrier
  <2>3. i # q
    BY <1>1, <2>2
  <2>4. q \in (j + 1)..(i - 1)
    BY <2>1, <2>3
  <2> QED BY <1>1, <2>2, <2>4, AnnouncerIs
<1>3. Announcer(K, i) = j
  BY <1>1, <1>2, AnnouncersAgree
<1>4. M[i] = K[i] /\ M[j] = K[j]
  BY <1>2 DEF Begins, Alike
<1> QED BY <1>2, <1>3, <1>4 DEF Answers

LEMMA BeginsBack == ASSUME NEW M, NEW K, NEW q, Begins(M, K, q) PROVE Begins(K, M, q)
  BY DEF Begins, Alike

LEMMA TalesAgree ==
  ASSUME NEW M \in Seq(Rows), NEW K \in Seq(Rows), NEW q, Begins(M, K, q), NEW j \in 1..(q - 1)
  PROVE  SaidSeen(M, j) = SaidSeen(K, j)
<1>1. /\ M[j] = K[j] /\ DOMAIN M = 1..Len(M) /\ DOMAIN K = 1..Len(K)
      /\ \A i \in 1..(q - 1) : i \in 1..Len(M) /\ i \in 1..Len(K)
  <2>1. Len(M) \in Nat /\ Len(K) \in Nat /\ DOMAIN M = 1..Len(M) /\ DOMAIN K = 1..Len(K)
    BY LenProperties
  <2> QED BY <2>1 DEF Begins, Alike
<1> DEFINE Has(X, c) == \E i \in DOMAIN X : Answers(X, i, j) /\ X[i].call = c
<1>2. ASSUME NEW c PROVE Has(M, c) <=> Has(K, c)
  <2>1. ASSUME NEW i \in DOMAIN M, Answers(M, i, j), M[i].call = c PROVE Has(K, c)
    <3>1. i \in 1..(q - 1) /\ Answers(K, i, j) /\ M[i].call = K[i].call
      BY <1>1, <2>1, AnswersBefore
    <3> QED BY <1>1, <2>1, <3>1
  <2>2. ASSUME NEW i \in DOMAIN K, Answers(K, i, j), K[i].call = c PROVE Has(M, c)
    <3>0. Begins(K, M, q)
      BY BeginsBack
    <3>1. i \in 1..(q - 1) /\ Answers(M, i, j) /\ K[i].call = M[i].call
      BY <1>1, <2>2, <3>0, AnswersBefore
    <3> QED BY <1>1, <2>2, <3>1
  <2> QED BY <2>1, <2>2
<1>3. Answered(M, j) = Answered(K, j)
  <2> DEFINE calls == M[j].calls
  <2>1. [k \in DOMAIN calls |-> IF Has(M, calls[k]) THEN <<calls[k]>> ELSE <<>>]
          = [k \in DOMAIN calls |-> IF Has(K, calls[k]) THEN <<calls[k]>> ELSE <<>>]
    <3> HIDE DEF Has, calls
    <3> QED BY <1>2
  <2>2. Answered(M, j) = FlattenSeq([k \in DOMAIN calls |->
                           IF Has(M, calls[k]) THEN <<calls[k]>> ELSE <<>>])
    BY DEF Answered
  <2>3. Answered(K, j) = FlattenSeq([k \in DOMAIN calls |->
                           IF Has(K, calls[k]) THEN <<calls[k]>> ELSE <<>>])
    BY <1>1 DEF Answered
  <2> HIDE DEF Has, calls
  <2> QED BY <2>1, <2>2, <2>3
<1>4. Answers(M, j, Announcer(M, j)) <=> Answers(K, j, Announcer(K, j))
  <2>0. Announcer(M, j) = Announcer(K, j)
    BY AnnouncersAgree
  <2> DEFINE a == Announcer(M, j)
  <2>1. a \in 0..(j - 1)
    BY <1>1, AnnouncerIs
  <2>2. a > 0 => M[a] = K[a]
    <3> HIDE DEF a
    <3> QED BY <2>1 DEF Begins, Alike
  <2> HIDE DEF a
  <2> QED BY <1>1, <2>0, <2>2 DEF Answers, a
<1>5. (Drops(M, j) <=> Drops(K, j)) /\ Seen(M, j) = Seen(K, j)
  <2> HIDE DEF Has
  <2> QED BY <1>1, <1>3, <1>4 DEF Drops, Seen
<1> QED BY <1>5 DEF SaidSeen

(* So the beginning is told alike.                                         *)
LEMMA BeginningsAgree ==
  ASSUME NEW M \in Seq(Rows), NEW K \in Seq(Rows), NEW q, Begins(M, K, q),
         NEW s, Steps(Tales(M), Len(M), Tokens, s), NEW z, Steps(Tales(K), Len(K), Tokens, z)
  PROVE  s[q - 1] = z[q - 1]
<1> DEFINE n == q - 1
<1>1. /\ n \in Nat /\ n <= Len(M) /\ n <= Len(K) /\ n \in 0..n
      /\ Len(M) \in Nat /\ Len(K) \in Nat
  BY LenProperties DEF Begins
<1>2. Alike(Tales(M), Tales(K), n)
  <2> SUFFICES ASSUME NEW i \in 1..n PROVE Tales(M)[i] = Tales(K)[i]
    BY DEF Alike
  <2>1. i \in 1..Len(M) /\ i \in 1..Len(K) /\ i \in 1..(q - 1)
    BY <1>1
  <2> QED BY <2>1, TaleIs, TalesAgree
<1> HIDE DEF n
<1>3. s[n] = z[n]
  BY <1>1, <1>2, StepsAgree
<1> QED BY <1>3 DEF n

(* Of a reply all of whose calls are answered, nothing is left out.        *)
AllAnswered(M, j) ==
  \A k \in 1..Len(M[j].calls) :
    \E i \in 1..Len(M) : Answers(M, i, j) /\ M[i].call = M[j].calls[k]

LEMMA AllKept ==
  ASSUME NEW T, NEW s \in Seq(Seq(T)), \A i \in 1..Len(s) : Len(s[i]) = 1
  PROVE  /\ FlattenSeq(s) \in Seq(T) /\ Len(FlattenSeq(s)) = Len(s)
         /\ \A i \in 1..Len(s) : FlattenSeq(s)[i] = s[i][1]
<1> DEFINE N == Len(s)
           h == FlattenSeq(s)
<1>1. N \in Nat /\ \A i \in 1..N : Len(s[i]) = 1 /\ Len(s[i]) <= 1 /\ s[i] # <<>>
  <2>1. Len(<<>>) # 1 /\ 1 <= 1
    OBVIOUS
  <2>2. N \in Nat
    BY LenProperties
  <2> QED BY <2>1, <2>2
<1>2. h \in Seq(T) /\ \E d : Places1(s, h, d)
  BY <1>1, FlatPlaces
<1>3. PICK d : Places1(s, h, d)
  BY <1>2
<1> HIDE DEF h
<1>4. /\ d \in [0..N -> Nat] /\ d[0] = 0 /\ d[N] = Len(h)
      /\ \A i \in 1..N : d[i] = d[i - 1] + 1 /\ h[d[i]] = s[i][1]
  BY <1>1, <1>3 DEF Places1, Climbs, Same
<1> HIDE DEF N
<1> DEFINE Bad == {i \in 0..N : d[i] # i}
<1>5. ASSUME Bad # {} PROVE FALSE
  <2>1. PICK m \in Bad : \A l \in Bad : m <= l
    <3>1. Bad \subseteq Nat
      OBVIOUS
    <3> HIDE DEF Bad
    <3> QED BY <1>5, <3>1, Least
  <2>2. m \in 0..N /\ d[m] # m /\ m # 0
    BY <1>4
  <2>3. m \in 1..N /\ m - 1 \in 0..N /\ ~(m <= m - 1)
    BY <1>1, <2>2
  <2>4. d[m - 1] = m - 1
    BY <2>1, <2>3
  <2>5. d[m] = d[m - 1] + 1
    BY <1>4, <2>3
  <2> QED BY <2>2, <2>3, <2>4, <2>5
<1>6. \A i \in 0..N : d[i] = i
  BY <1>5
<1>7. N \in 0..N /\ \A i \in 1..N : i \in 0..N
  BY <1>1
<1>8. Len(h) = N /\ \A i \in 1..N : h[i] = s[i][1]
  BY <1>4, <1>6, <1>7
<1> QED BY <1>2, <1>8 DEF N, h

LEMMA AnsweredInFull ==
  ASSUME NEW M \in Seq(Rows), NEW j \in 1..Len(M), AllAnswered(M, j)
  PROVE  Answered(M, j) = M[j].calls
<1> DEFINE calls == M[j].calls
           Has(k) == \E i \in DOMAIN M : Answers(M, i, j) /\ M[i].call = calls[k]
           s == [k \in DOMAIN calls |-> IF Has(k) THEN <<calls[k]>> ELSE <<>>]
<1>1. calls \in Seq(Calls) /\ DOMAIN M = 1..Len(M)
  <2>1. M[j] \in Rows /\ DOMAIN M = 1..Len(M)
    BY ElementOfSeq, LenProperties
  <2> QED BY <2>1 DEF Rows
<1>2. Answered(M, j) = FlattenSeq(s)
  BY DEF Answered
<1>3. \A k \in 1..Len(calls) : Has(k)
  BY <1>1 DEF AllAnswered
<1> HIDE DEF calls, Has
<1>4. DOMAIN calls = 1..Len(calls) /\ Len(calls) \in Nat /\ \A k \in 1..Len(calls) : calls[k] \in Calls
  BY <1>1, LenProperties, ElementOfSeq
<1>5. \A k \in 1..Len(calls) : s[k] = <<calls[k]>>
  BY <1>3, <1>4
<1>6. s \in Seq(Seq(Calls)) /\ Len(s) = Len(calls)
  <2>1. \A k \in 1..Len(calls) : <<calls[k]>> \in Seq(Calls)
    BY <1>4
  <2>2. s \in [1..Len(calls) -> Seq(Calls)]
    <3>1. DOMAIN s = 1..Len(calls) /\ s = [k \in DOMAIN s |-> s[k]]
      BY <1>4
    <3> HIDE DEF s
    <3> QED BY <1>5, <2>1, <3>1
  <2> HIDE DEF s
  <2> QED BY <1>4, <2>2
<1> HIDE DEF s
<1>7. \A k \in 1..Len(s) : Len(s[k]) = 1 /\ s[k][1] = calls[k]
  <2>1. \A k \in 1..Len(calls) : Len(<<calls[k]>>) = 1 /\ <<calls[k]>>[1] = calls[k]
    OBVIOUS
  <2> QED BY <1>5, <1>6, <2>1
<1> DEFINE h == FlattenSeq(s)
<1>8. /\ h \in Seq(Calls) /\ Len(h) = Len(s)
      /\ \A k \in 1..Len(s) : h[k] = s[k][1]
  BY <1>6, <1>7, AllKept
<1> HIDE DEF h
<1>9. Len(h) = Len(calls) /\ \A k \in 1..Len(h) : h[k] = calls[k]
  BY <1>6, <1>7, <1>8
<1>10. h = calls
  BY <1>1, <1>8, <1>9, SeqEqual
<1> QED BY <1>2, <1>10 DEF h, calls

(* Such a reply is told whole.                                             *)
LEMMA ReplyIsTold ==
  ASSUME NEW M \in Seq(Rows), NEW q \in 1..Len(M), M[q].role = "assistant",
         M[q].error # "budget", AllAnswered(M, q)
  PROVE  Glue(SaidSeen(M, q), M[q].text, M[q].calls)
<1>1. Answered(M, q) = M[q].calls
  BY AnsweredInFull
<1>2. M[q] \in Rows
  BY ElementOfSeq
<1>3. M[q].text \in Seq(Tokens) /\ M[q].calls \in Seq(Tokens)
  BY <1>2, SaidOfIs
<1>4. CASE Drops(M, q)
  <2>1. M[q].text = <<>> /\ M[q].calls = <<>>
    BY <1>1, <1>4 DEF Drops
  <2>2. <<>> \o <<>> = <<>>
    OBVIOUS
  <2> QED BY <1>4, <2>1, <2>2 DEF SaidSeen, Glue
<1>5. CASE ~Drops(M, q)
  <2> DEFINE x == Seen(M, q)[1]
  <2>1. Shows(M, q, x)
    BY <1>5, SeenIs
  <2>2. SaidSeen(M, q) = SaidOf(x)
    BY <1>5 DEF SaidSeen
  <2> HIDE DEF x
  <2>3. x.role = "assistant" /\ x.text = M[q].text /\ x.calls = M[q].calls
    BY <1>1, <2>1 DEF Shows
  <2> DEFINE tc == M[q].text \o M[q].calls
  <2>4. SaidOf(x) = tc \o <<>>
    BY <2>3 DEF SaidOf, ResultSaid
  <2>5. tc \in Seq(Tokens)
    BY <1>3, ConcatProperties
  <2> HIDE DEF tc
  <2>6. tc \o <<>> = tc
    BY <2>5, ConcatEmptySeq
  <2> QED BY <2>2, <2>4, <2>6 DEF tc, Glue
<1> QED BY <1>4, <1>5

(* Results behind their reply, the k-th of the k-th call that came back.   *)
IsResult(m, c) ==
  m.role = "tool" /\ m.call = c /\ m.error = "none" /\ m.text = <<>> /\ m.calls = <<>>

Out(s) == [i \in DOMAIN s |-> <<"result", s[i]>>]

(* The messages of M behind the q-th are the results of its calls R.       *)
EndsInResults(M, q, R) ==
  /\ q \in 1..Len(M) /\ Len(M) = q + Len(R)
  /\ M[q].role = "assistant" /\ M[q].error # "budget"
  /\ \A k \in 1..Len(R) : IsResult(M[q + k], R[k])

LEMMA ResultAnswers ==
  ASSUME NEW M \in Seq(Rows), NEW R \in Seq(Calls), NEW q, EndsInResults(M, q, R),
         NEW k \in 1..Len(R), R[k] \in Range(M[q].calls)
  PROVE  Answers(M, q + k, q) /\ q + k \in 1..Len(M) /\ M[q + k].call = R[k]
<1>1. /\ q \in Nat /\ q > 0 /\ Len(R) \in Nat /\ k \in Nat /\ Len(M) = q + Len(R)
      /\ q + k \in 1..Len(M) /\ IsResult(M[q + k], R[k])
      /\ M[q].role = "assistant" /\ M[q].error # "budget"
  <2>1. Len(R) \in Nat /\ Len(M) \in Nat
    BY LenProperties
  <2> QED BY <2>1 DEF EndsInResults
<1> DEFINE i == q + k
           a == Announcer(M, i)
<1>2. /\ a \in 0..(i - 1) /\ (a > 0 => M[a].role # "tool" /\ M[a].error # "budget")
      /\ \A j \in (a + 1)..(i - 1) : M[j].role = "tool" \/ M[j].error = "budget"
  <2> HIDE DEF i
  <2>1. i \in 1..Len(M)
    BY <1>1 DEF i
  <2> QED BY <2>1, AnnouncerIs
<1> HIDE DEF a
<1>3. ~(a < q)
  <2>1. a < q => q \in (a + 1)..(i - 1)
    BY <1>1, <1>2
  <2> QED BY <1>1, <1>2, <2>1
<1>4. ~(q < a)
  <2> SUFFICES ASSUME q < a PROVE FALSE
    OBVIOUS
  <2>1. a - q \in 1..Len(R) /\ q + (a - q) = a
    <3> DEFINE n == Len(R)
    <3>1. q \in Nat /\ a \in Nat /\ q < a /\ a <= (q + k) - 1 /\ k \in Nat /\ k <= n /\ n \in Nat
      BY <1>1, <1>2
    <3> HIDE DEF n
    <3>2. a - q \in 1..n /\ q + (a - q) = a
      BY <3>1
    <3> QED BY <3>2 DEF n
  <2>2. IsResult(M[a], R[a - q])
    BY <2>1 DEF EndsInResults
  <2> QED BY <1>1, <1>2, <2>2 DEF IsResult
<1>5. a = q
  BY <1>1, <1>2, <1>3, <1>4
<1> QED BY <1>1, <1>5 DEF Answers, IsResult, a

LEMMA ResultIsTold ==
  ASSUME NEW M \in Seq(Rows), NEW R \in Seq(Calls), NEW q, EndsInResults(M, q, R),
         NEW k \in 1..Len(R), R[k] \in Range(M[q].calls)
  PROVE  SaidSeen(M, q + k) = <<<<"result", R[k]>>>>
<1> DEFINE i == q + k
           x == Seen(M, i)[1]
<1>1. Answers(M, i, q) /\ i \in 1..Len(M) /\ M[i].call = R[k] /\ IsResult(M[i], R[k])
  BY ResultAnswers DEF EndsInResults
<1> HIDE DEF i
<1>2. ~Drops(M, i)
  BY <1>1 DEF Drops, IsResult, Answers
<1>3. Shows(M, i, x) /\ SaidSeen(M, i) = SaidOf(x)
  BY <1>1, <1>2, SeenIs DEF SaidSeen
<1>4. x = M[i]
  BY <1>1, <1>3 DEF Shows, IsResult
<1>5. SaidOf(M[i]) = (<<>> \o <<>>) \o <<<<"result", R[k]>>>>
  BY <1>1 DEF SaidOf, ResultSaid, IsResult
<1> DEFINE y == <<<<"result", R[k]>>>>
<1>6. y \in Seq({<<"result", R[k]>>})
  OBVIOUS
<1> HIDE DEF y
<1>7. <<>> \o <<>> = <<>> /\ <<>> \o y = y
  BY <1>6, ConcatEmptySeq
<1> QED BY <1>3, <1>4, <1>5, <1>7 DEF y, i

LEMMA OutIs ==
  ASSUME NEW R \in Seq(Calls)
  PROVE  /\ Out(R) \in Seq(Tokens) /\ Len(Out(R)) = Len(R)
         /\ \A k \in 1..Len(R) : Out(R)[k] = <<"result", R[k]>> /\ <<"result", R[k]>> \in Tokens
<1>1. DOMAIN R = 1..Len(R) /\ Len(R) \in Nat /\ \A k \in 1..Len(R) : R[k] \in Calls
  BY LenProperties, ElementOfSeq
<1>2. \A k \in 1..Len(R) : <<"result", R[k]>> \in Tokens
  BY <1>1 DEF Tokens
<1> QED BY <1>1, <1>2 DEF Out

LEMMA OutAppended ==
  ASSUME NEW R \in Seq(Calls), NEW c \in Calls
  PROVE  Glue(Out(Append(R, c)), Out(R), <<<<"result", c>>>>)
<1> DEFINE n == Len(R)
           S == Append(R, c)
           x == <<"result", c>>
           y == Append(Out(R), x)
<1>1. /\ n \in Nat /\ S \in Seq(Calls) /\ Len(S) = n + 1 /\ S[n + 1] = c
      /\ \A k \in 1..n : S[k] = R[k]
  BY LenProperties, AppendProperties
<1> HIDE DEF S
<1>2. /\ Out(R) \in Seq(Tokens) /\ Len(Out(R)) = n
      /\ \A k \in 1..n : Out(R)[k] = <<"result", R[k]>>
  BY OutIs
<1>3. /\ Out(S) \in Seq(Tokens) /\ Len(Out(S)) = n + 1
      /\ \A k \in 1..(n + 1) : Out(S)[k] = <<"result", S[k]>> /\ <<"result", S[k]>> \in Tokens
  BY <1>1, OutIs
<1>4. n + 1 \in 1..(n + 1) /\ \A k \in 1..n : k \in 1..(n + 1)
  BY <1>1
<1>5. x \in Tokens
  BY <1>1, <1>3, <1>4
<1> HIDE DEF x
<1>6. /\ y \in Seq(Tokens) /\ Len(y) = n + 1 /\ y[n + 1] = x
      /\ (\A k \in 1..n : y[k] = Out(R)[k]) /\ y = Out(R) \o <<x>>
  BY <1>2, <1>5, AppendProperties, AppendIsConcat
<1> HIDE DEF y, n
<1>7. \A k \in 1..(n + 1) : y[k] = Out(S)[k]
  <2>1. \A k \in 1..(n + 1) : k \in 1..n \/ k = n + 1
    BY <1>1
  <2>2. y[n + 1] = Out(S)[n + 1]
    BY <1>1, <1>3, <1>4, <1>6 DEF x
  <2>3. \A k \in 1..n : y[k] = Out(S)[k]
    BY <1>1, <1>2, <1>3, <1>4, <1>6
  <2> QED BY <2>1, <2>2, <2>3
<1>8. Len(Out(S)) = Len(y) /\ \A k \in 1..Len(Out(S)) : Out(S)[k] = y[k]
  BY <1>3, <1>6, <1>7
<1>9. Out(S) = y
  BY <1>3, <1>6, <1>8, SeqEqual
<1> QED BY <1>6, <1>9 DEF Glue, S, x

(* The first k results.                                                    *)
First(R, k) == [i \in 1..k |-> R[i]]

LEMMA FirstIs ==
  ASSUME NEW R \in Seq(Calls), NEW k \in 1..Len(R)
  PROVE  /\ First(R, k - 1) \in Seq(Calls) /\ R[k] \in Calls
         /\ First(R, k) = Append(First(R, k - 1), R[k])
<1>1. R[k] \in Calls /\ k \in Nat /\ k - 1 \in Nat /\ \A i \in 1..(k - 1) : R[i] \in Calls
  <2>1. Len(R) \in Nat /\ \A i \in 1..Len(R) : R[i] \in Calls
    BY LenProperties, ElementOfSeq
  <2> QED BY <2>1
<1> DEFINE s == First(R, k - 1)
           t == First(R, k)
           y == Append(s, R[k])
<1>2. /\ s \in Seq(Calls) /\ Len(s) = k - 1 /\ \A i \in 1..(k - 1) : s[i] = R[i]
  BY <1>1 DEF First
<1>3. t \in Seq(Calls) /\ Len(t) = k /\ \A i \in 1..k : t[i] = R[i]
  <2>1. \A i \in 1..k : R[i] \in Calls
    <3>1. \A i \in 1..k : i \in 1..(k - 1) \/ i = k
      BY <1>1
    <3> QED BY <1>1, <3>1
  <2> QED BY <1>1, <2>1 DEF First
<1> HIDE DEF s, t
<1>4. y \in Seq(Calls) /\ Len(y) = k /\ y[k] = R[k] /\ \A i \in 1..(k - 1) : y[i] = s[i]
  <2>1. Len(s) + 1 = k
    BY <1>1, <1>2
  <2> HIDE DEF y
  <2>2. /\ y \in Seq(Calls) /\ Len(y) = Len(s) + 1 /\ y[Len(s) + 1] = R[k]
        /\ \A i \in 1..Len(s) : y[i] = s[i]
    BY <1>1, <1>2, AppendProperties DEF y
  <2> QED BY <1>2, <2>1, <2>2
<1> HIDE DEF y
<1>5. Len(t) = Len(y) /\ \A i \in 1..Len(t) : t[i] = y[i]
  <2>1. \A i \in 1..k : i \in 1..(k - 1) \/ i = k
    BY <1>1
  <2> QED BY <1>2, <1>3, <1>4, <2>1
<1>6. t = y
  BY <1>3, <1>4, <1>5, SeqEqual
<1> QED BY <1>1, <1>2, <1>6 DEF s, t, y

LEMMA Regrouped ==
  ASSUME NEW a \in Seq(Tokens), NEW b \in Seq(Tokens), NEW c \in Seq(Tokens),
         NEW ab, Glue(ab, a, b), NEW z, Glue(z, ab, c), NEW bc, Glue(bc, b, c)
  PROVE  Glue(z, a, bc)
<1>1. (a \o b) \o c = a \o (b \o c)
  BY ConcatAssociative
<1> QED BY <1>1 DEF Glue

LEMMA ResultsAreTold ==
  ASSUME NEW M \in Seq(Rows), NEW R \in Seq(Calls), NEW q, EndsInResults(M, q, R),
         Range(R) \subseteq Range(M[q].calls), NEW s, Steps(Tales(M), Len(M), Tokens, s)
  PROVE  Glue(s[Len(M)], s[q], Out(R)) /\ s[q] \in Seq(Tokens)
<1> DEFINE n == Len(R)
           Bad == {k \in 0..n : ~Glue(s[q + k], s[q], Out(First(R, k)))}
<1>1. /\ n \in Nat /\ q \in 1..Len(M) /\ Len(M) = q + n /\ Len(M) \in Nat /\ q \in 0..Len(M)
      /\ \A k \in 1..n : R[k] \in Range(M[q].calls)
  <2>1. Len(R) \in Nat /\ Len(M) \in Nat /\ DOMAIN R = 1..Len(R)
    BY LenProperties
  <2>2. \A k \in 1..n : R[k] \in Range(R)
    BY <2>1 DEF Range
  <2> QED BY <2>1, <2>2 DEF EndsInResults
<1>2. s[q] \in Seq(Tokens)
  BY <1>1 DEF Steps
<1> HIDE DEF n
<1>3. ASSUME Bad # {} PROVE FALSE
  <2>1. PICK k \in Bad : \A l \in Bad : k <= l
    <3>1. Bad \subseteq Nat
      OBVIOUS
    <3> HIDE DEF Bad
    <3> QED BY <1>3, <3>1, Least
  <2>2. k \in 0..n /\ ~Glue(s[q + k], s[q], Out(First(R, k)))
    OBVIOUS
  <2>3. k # 0
    <3> SUFFICES ASSUME k = 0 PROVE FALSE
      OBVIOUS
    <3>1. Out(First(R, 0)) = <<>>
      BY DEF Out, First
    <3>2. s[q] \o <<>> = s[q]
      BY <1>2, ConcatEmptySeq
    <3>3. q + 0 = q
      BY <1>1
    <3> QED BY <2>2, <3>1, <3>2, <3>3 DEF Glue
  <2>4. k \in 1..n /\ k - 1 \in 0..n /\ ~(k <= k - 1)
    BY <1>1, <2>2, <2>3
  <2>5. Glue(s[q + (k - 1)], s[q], Out(First(R, k - 1)))
    BY <2>1, <2>4
  <2> DEFINE i == q + k
             F == First(R, k - 1)
             x == <<<<"result", R[k]>>>>
  <2>6. i \in 1..Len(M) /\ i - 1 = q + (k - 1)
    BY <1>1, <2>4
  <2>7. SaidSeen(M, i) = x
    BY <1>1, <2>4, ResultIsTold DEF n
  <2>8. F \in Seq(Calls) /\ R[k] \in Calls /\ First(R, k) = Append(F, R[k])
    BY <2>4, FirstIs DEF n
  <2>9. Glue(Out(Append(F, R[k])), Out(F), x)
    <3> HIDE DEF F
    <3> QED BY <2>8, OutAppended
  <2>10. Tales(M)[i] = SaidSeen(M, i) /\ SaidSeen(M, i) \in Seq(Tokens)
    <3> HIDE DEF i
    <3> QED BY <2>6, TaleIs
  <2>11. Glued(s, Tales(M), i)
    <3> HIDE DEF i
    <3> QED BY <1>1, <2>6, StepIs
  <2>12. Out(F) \in Seq(Tokens)
    <3> HIDE DEF F
    <3> QED BY <2>8, OutIs
  <2> HIDE DEF F, x
  <2>13. Glue(s[i], s[i - 1], x) /\ Glue(s[i - 1], s[q], Out(F))
    <3> HIDE DEF i
    <3> QED BY <2>5, <2>6, <2>7, <2>10, <2>11 DEF Glued, Glue, F
  <2>14. x \in Seq(Tokens)
    BY <2>7, <2>10
  <2> HIDE DEF i
  <2>15. Glue(s[i], s[q], Out(Append(F, R[k])))
    BY <1>2, <2>9, <2>12, <2>13, <2>14, Regrouped
  <2> QED BY <2>2, <2>8, <2>15 DEF i
<1>4. n \in 0..n
  BY <1>1
<1>5. Glue(s[q + n], s[q], Out(First(R, n)))
  BY <1>3, <1>4
<1>6. First(R, n) = R
  <2>1. R = [i \in 1..n |-> R[i]]
    BY LenProperties DEF n
  <2> QED BY <2>1 DEF First
<1> QED BY <1>1, <1>2, <1>5, <1>6

LEMMA Spread ==
  ASSUME NEW w \in Seq(Tokens), NEW t \in Seq(Tokens), NEW c \in Seq(Tokens),
         NEW tc, Glue(tc, t, c), NEW z, Glue(z, w, tc), NEW wt, Glue(wt, w, t)
  PROVE  Glue(z, wt, c)
<1>1. (w \o t) \o c = w \o (t \o c)
  BY ConcatAssociative
<1> QED BY <1>1 DEF Glue

(* The message m is the q-th of G, or joined the q-th, and is the last     *)
(* that is not in P.                                                       *)
Adding(G, P, m, q) == q = Len(P) + 1 /\ G[q] = m /\ Alike(G, P, q - 1)

Joining(G, P, m, q) ==
  /\ q = Len(P) /\ q > 0 /\ Joins(P[q], m) /\ G[q] = Extended(P[q], m)
  /\ Alike(G, P, q - 1)

(* What a round adds to what was said.                                     *)
Telling(z, said, m, R) == z = said \o m.text \o m.calls \o Out(R)

(* Every call of m has a result among R, and no other has.                 *)
SettlesAll(m, R) == R \in Seq(Calls) /\ Range(R) = Range(m.calls)

LEMMA AllAreAnswered ==
  ASSUME NEW M \in Seq(Rows), NEW R, NEW q, EndsInResults(M, q, R), SettlesAll(M[q], R)
  PROVE  AllAnswered(M, q) /\ R \in Seq(Calls) /\ Range(R) \subseteq Range(M[q].calls)
<1>1. R \in Seq(Calls) /\ DOMAIN R = 1..Len(R)
  BY LenProperties DEF SettlesAll
<1>2. M[q] \in Rows /\ q \in 1..Len(M)
  BY ElementOfSeq DEF EndsInResults
<1>3. DOMAIN M[q].calls = 1..Len(M[q].calls)
  BY <1>2, LenProperties DEF Rows
<1>4. ASSUME NEW k \in 1..Len(M[q].calls)
      PROVE  \E i \in 1..Len(M) : Answers(M, i, q) /\ M[i].call = M[q].calls[k]
  <2>1. M[q].calls[k] \in Range(M[q].calls)
    BY <1>3 DEF Range
  <2>2. PICK l \in 1..Len(R) : R[l] = M[q].calls[k]
    BY <1>1, <2>1 DEF SettlesAll, Range
  <2>3. R[l] \in Range(M[q].calls)
    BY <2>1, <2>2
  <2>4. Answers(M, q + l, q) /\ q + l \in 1..Len(M) /\ M[q + l].call = R[l]
    BY <1>1, <2>3, ResultAnswers
  <2> QED BY <2>2, <2>4
<1> QED BY <1>1, <1>4 DEF AllAnswered, SettlesAll

LEMMA RoundIsTold ==
  ASSUME NEW G \in Seq(Rows), NEW P \in Seq(Rows), NEW m \in Rows, NEW R, NEW q,
         m.role = "assistant", m.error = "none", SettlesAll(m, R),
         Adding(G, P, m, q) \/ Joining(G, P, m, q), EndsInResults(G, q, R)
  PROVE  Telling(Said(Sanitized(G)), Said(Sanitized(P)), m, R)
<1>1. PICK s : Steps(Tales(G), Len(G), Tokens, s) /\ Said(Sanitized(G)) = s[Len(G)]
  BY Retelling
<1>2. PICK z : Steps(Tales(P), Len(P), Tokens, z) /\ Said(Sanitized(P)) = z[Len(P)]
  BY Retelling
<1>3. /\ q \in 1..Len(G) /\ q \in Nat \ {0} /\ Len(G) \in Nat /\ Len(P) \in Nat
      /\ q - 1 <= Len(P) /\ q - 1 <= Len(G) /\ q - 1 \in 0..Len(G) /\ q - 1 \in 0..Len(P)
  <2>1. q \in 1..Len(G) /\ Len(G) \in Nat /\ Len(P) \in Nat
    BY LenProperties DEF EndsInResults
  <2> QED BY <2>1 DEF Adding, Joining
<1>4. m.text \in Seq(Words) /\ m.calls \in Seq(Calls) /\ m.text \in Seq(Tokens) /\ m.calls \in Seq(Tokens)
  BY SaidOfIs DEF Rows
<1>5. /\ G[q] \in Rows /\ G[q].role = "assistant" /\ G[q].error # "budget"
      /\ G[q].calls = m.calls
  <2>1. CASE Adding(G, P, m, q)
    BY <2>1 DEF Adding
  <2>2. CASE Joining(G, P, m, q)
    <3>1. P[q] \in Rows
      <4>1. q \in 1..Len(P)
        BY <1>3, <2>2 DEF Joining
      <4> QED BY <4>1, ElementOfSeq
    <3>2. /\ Extended(P[q], m) \in Rows /\ Extended(P[q], m).role = P[q].role
          /\ Extended(P[q], m).error = P[q].error /\ Extended(P[q], m).calls = m.calls
      BY <3>1, ExtendedIs
    <3> QED BY <2>2, <3>2 DEF Joining, Joins
  <2> QED BY <2>1, <2>2
<1>6. AllAnswered(G, q) /\ R \in Seq(Calls) /\ Range(R) \subseteq Range(G[q].calls)
  <2>1. SettlesAll(G[q], R)
    BY <1>5 DEF SettlesAll
  <2> QED BY <2>1, AllAreAnswered
<1>7. Glue(s[Len(G)], s[q], Out(R)) /\ s[q] \in Seq(Tokens)
  BY <1>1, <1>6, ResultsAreTold
<1>8. Glue(SaidSeen(G, q), G[q].text, G[q].calls) /\ Tales(G)[q] = SaidSeen(G, q)
  BY <1>3, <1>5, <1>6, ReplyIsTold, TaleIs
<1>9. Glue(s[q], s[q - 1], SaidSeen(G, q)) /\ s[q - 1] \in Seq(Tokens)
  <2>1. Glued(s, Tales(G), q) /\ s[q - 1] \in Seq(Tokens)
    BY <1>1, <1>3, StepIs
  <2> QED BY <1>8, <2>1 DEF Glued, Glue
<1>10. s[q - 1] = z[q - 1]
  <2>1. Begins(G, P, q)
    <3>1. Barrier(G, q)
      BY <1>5 DEF Barrier
    <3>2. Barrier(P, q)
      <4>1. CASE Adding(G, P, m, q)
        BY <1>3, <4>1 DEF Adding, Barrier
      <4>2. CASE Joining(G, P, m, q)
        BY <4>2 DEF Joining, Joins, Barrier
      <4> QED BY <4>1, <4>2
    <3> QED BY <1>3, <3>1, <3>2 DEF Begins, Adding, Joining
  <2> QED BY <1>1, <1>2, <2>1, BeginningsAgree
<1> DEFINE w == s[q - 1]
           gt == G[q].text
           y == SaidSeen(G, q)
           x == w \o gt
<1>11. w \in Seq(Tokens) /\ gt \in Seq(Tokens) /\ Glue(y, gt, m.calls) /\ Glue(s[q], w, y)
  BY <1>5, <1>8, <1>9, SaidOfIs
<1>12. Glue(x, w, gt)
  BY DEF Glue
<1> HIDE DEF w, gt, y, x
<1>13. Glue(s[q], x, m.calls)
  BY <1>4, <1>11, <1>12, Spread
<1>14. Glue(x, z[Len(P)], m.text)
  <2>1. CASE Adding(G, P, m, q)
    <3>1. z[Len(P)] = w /\ gt = m.text
      <4>1. q - 1 = Len(P)
        BY <1>3, <2>1 DEF Adding
      <4> QED BY <1>10, <2>1, <4>1 DEF Adding, w, gt
    <3> QED BY <1>12, <3>1
  <2>2. CASE Joining(G, P, m, q)
    <3>1. q = Len(P) /\ q \in 1..Len(P) /\ Joins(P[q], m) /\ G[q] = Extended(P[q], m)
      BY <1>3, <2>2 DEF Joining
    <3>2. P[q] \in Rows
      BY <3>1, ElementOfSeq
    <3>3. P[q].text \in Seq(Tokens) /\ P[q].calls = <<>> /\ P[q].role = "assistant" /\ P[q].error # "budget"
      BY <3>1, <3>2, SaidOfIs DEF Joins
    <3>4. Glue(gt, P[q].text, m.text)
      <4>1. Extended(P[q], m).text = P[q].text \o m.text
        BY <3>2, ExtendedIs
      <4> QED BY <3>1, <4>1 DEF Glue, gt
    <3>5. AllAnswered(P, q)
      <4>1. Len(<<>>) = 0
        OBVIOUS
      <4> QED BY <3>3, <4>1 DEF AllAnswered
    <3>6. Glue(SaidSeen(P, q), P[q].text, P[q].calls) /\ Tales(P)[q] = SaidSeen(P, q)
      BY <3>1, <3>3, <3>5, ReplyIsTold, TaleIs
    <3>7. SaidSeen(P, q) = P[q].text
      BY <3>3, <3>6, ConcatEmptySeq DEF Glue
    <3>8. Glued(z, Tales(P), q)
      BY <1>2, <1>3, <3>1, StepIs
    <3>9. Glue(z[q], w, P[q].text)
      BY <1>10, <3>6, <3>7, <3>8 DEF Glued, Glue, w
    <3>10. Glue(x, z[q], m.text)
      BY <1>4, <1>11, <1>12, <3>3, <3>4, <3>9, Spread
    <3> QED BY <3>1, <3>10
  <2> QED BY <2>1, <2>2
<1> QED BY <1>1, <1>2, <1>7, <1>13, <1>14 DEF Telling, Glue

-----------------------------------------------------------------------------
(* A round's rows, merged: its reply is put behind the others or joins the *)
(* last of them, its results follow.                                       *)
LEMMA MergesCut ==
  ASSUME NEW M, NEW N \in Nat, NEW u, Merges(u, M, N), NEW n \in 0..N
  PROVE  Merges([i \in 0..n |-> u[i]], M, n)
<1> DEFINE v == [i \in 0..n |-> u[i]]
<1>1. u \in [0..N -> Seq(Rows)] /\ u[0] = <<>> /\ \A i \in 1..N : Merging(u, M, i)
  BY DEF Merges
<1>2. n \in Nat /\ (\A i \in 0..n : i \in 0..N) /\ 0 \in 0..n
  OBVIOUS
<1>3. v \in [0..n -> Seq(Rows)] /\ v[0] = <<>>
  BY <1>1, <1>2
<1>4. ASSUME NEW i \in 1..n PROVE Merging(v, M, i)
  <2>1. i \in 1..N /\ i \in 0..n /\ i - 1 \in 0..n
    BY <1>2
  <2>2. v[i] = u[i] /\ v[i - 1] = u[i - 1]
    BY <2>1
  <2> HIDE DEF v
  <2> QED BY <1>1, <2>1, <2>2 DEF Merging
<1> HIDE DEF v
<1>5. Merges(v, M, n)
  BY <1>3, <1>4 DEF Merges
<1> QED BY <1>5 DEF v

Trailing(M, b, g, x, k) ==
  /\ Len(x) = Len(g) + k
  /\ \A l \in 1..Len(g) : x[l] = g[l]
  /\ \A i \in 1..k : x[Len(g) + i] = M[b + i]

LEMMA ToolsAreAdded ==
  ASSUME NEW M \in Seq(Rows), NEW u, Merges(u, M, Len(M)), NEW b \in 1..Len(M),
         \A i \in b + 1..Len(M) : M[i].role = "tool", NEW k \in 0..(Len(M) - b)
  PROVE  Trailing(M, b, u[b], u[b + k], k)
<1> DEFINE N == Len(M)
           Bad == {l \in 0..(N - b) : ~Trailing(M, b, u[b], u[b + l], l)}
<1>1. N \in Nat /\ N \in 0..N /\ b \in 0..N /\ b \in Nat /\ N - b \in Nat
  BY LenProperties
<1>2. Merges(u, M, N) /\ u[b] \in Seq(Rows) /\ Len(u[b]) \in Nat
  <2>1. u[b] \in Seq(Rows)
    BY <1>1 DEF Merges
  <2> QED BY <2>1, LenProperties
<1> DEFINE g == u[b]
           p == Len(g)
<1>3. ASSUME NEW l \in 1..(N - b), Trailing(M, b, g, u[b + (l - 1)], l - 1)
      PROVE  Trailing(M, b, g, u[b + l], l)
  <2> DEFINE i == b + l
             x == u[i - 1]
             y == u[i]
  <2>1. i \in 1..N /\ i \in b + 1..N /\ i - 1 = b + (l - 1) /\ l \in Nat /\ l - 1 \in Nat
    BY <1>1
  <2>2. M[i].role = "tool" /\ M[i] \in Rows
    <3> HIDE DEF i
    <3> QED BY <2>1, ElementOfSeq
  <2>3. Added(y, x, M[i]) \/ Joined(y, x, M[i])
    <3> HIDE DEF i, N
    <3> QED BY <1>1, <1>2, <2>1, MergeStep DEF N
  <2>4. Added(y, x, M[i])
    <3> HIDE DEF i, x, y
    <3> QED BY <2>2, <2>3 DEF Joined, Joins
  <2>5. /\ Len(x) = p + (l - 1) /\ (\A c \in 1..p : x[c] = g[c])
        /\ \A c \in 1..(l - 1) : x[p + c] = M[b + c]
    BY <1>3, <2>1 DEF Trailing
  <2>6. /\ Len(y) = Len(x) + 1 /\ y[Len(x) + 1] = M[i] /\ \A c \in 1..Len(x) : y[c] = x[c]
    BY <2>4 DEF Added
  <2> HIDE DEF x, y, g
  <2>7. Len(x) + 1 = p + l /\ p \in Nat
    BY <1>1, <1>2, <2>1, <2>5 DEF g
  <2> HIDE DEF p
  <2>8. \A c \in 1..p : y[c] = g[c]
    <3>1. \A c \in 1..p : c \in 1..Len(x)
      BY <2>1, <2>5, <2>7
    <3> QED BY <2>5, <2>6, <3>1
  <2>9. ASSUME NEW c \in 1..l PROVE y[p + c] = M[b + c]
    <3>1. CASE c = l
      BY <2>6, <2>7, <3>1
    <3>2. CASE c # l
      <4>1. c \in 1..(l - 1) /\ p + c \in 1..Len(x)
        BY <2>1, <2>5, <2>7, <3>2
      <4> QED BY <2>5, <2>6, <4>1
    <3> QED BY <3>1, <3>2
  <2> QED BY <2>6, <2>7, <2>8, <2>9 DEF Trailing, p, y
<1> HIDE DEF N
<1>4. ASSUME Bad # {} PROVE FALSE
  <2>1. PICK l \in Bad : \A c \in Bad : l <= c
    <3>1. Bad \subseteq Nat
      OBVIOUS
    <3> HIDE DEF Bad
    <3> QED BY <1>4, <3>1, Least
  <2>2. l \in 0..(N - b) /\ ~Trailing(M, b, u[b], u[b + l], l)
    OBVIOUS
  <2>3. l # 0
    <3> SUFFICES ASSUME l = 0 PROVE FALSE
      OBVIOUS
    <3>1. b + 0 = b
      BY <1>1
    <3>2. Trailing(M, b, u[b], u[b], 0)
      BY <1>2 DEF Trailing
    <3> QED BY <2>2, <3>1, <3>2
  <2>4. l \in 1..(N - b) /\ l - 1 \in 0..(N - b) /\ ~(l <= l - 1)
    BY <1>1, <2>2, <2>3
  <2>5. Trailing(M, b, u[b], u[b + (l - 1)], l - 1)
    BY <2>1, <2>4
  <2> QED BY <1>3, <2>2, <2>4, <2>5
<1> QED BY <1>4 DEF N

(* The rows M are the rows A and, from the b-th on, a round.               *)
Round(M, A, b) == b \in 1..Len(M) /\ Len(A) = b - 1 /\ Alike(M, A, b - 1)

LEMMA CutMerged ==
  ASSUME NEW M \in Seq(Rows), NEW A \in Seq(Rows), NEW b, Round(M, A, b),
         NEW u, Merges(u, M, Len(M))
  PROVE  u[b - 1] = Merged(A)
<1>1. /\ Len(M) \in Nat /\ b \in Nat /\ b - 1 \in Nat /\ b - 1 \in 0..Len(M)
      /\ Len(A) = b - 1 /\ Alike(M, A, b - 1)
  BY LenProperties DEF Round
<1>2. PICK v : Merges(v, A, Len(A)) /\ Merged(A) = v[Len(A)]
  BY MergedIs
<1> DEFINE n == b - 1
           w == [i \in 0..n |-> u[i]]
<1>3. n \in Nat /\ n \in 0..Len(M) /\ Merges(v, A, n) /\ Merged(A) = v[n] /\ Alike(M, A, n)
  BY <1>1, <1>2
<1>4. n \in 0..n /\ w[n] = u[n]
  BY <1>3
<1> HIDE DEF n
<1>5. Merges(w, M, n)
  BY <1>1, <1>3, MergesCut
<1> HIDE DEF w
<1>6. w[n] = v[n]
  BY <1>3, <1>4, <1>5, MergesAgree
<1> QED BY <1>3, <1>4, <1>6 DEF n

LEMMA ReplyIsMerged ==
  ASSUME NEW M \in Seq(Rows), NEW A \in Seq(Rows), NEW b, Round(M, A, b),
         NEW u, Merges(u, M, Len(M)), M[b].role = "assistant"
  PROVE  \E q : /\ q = Len(u[b]) /\ q > 0
                /\ Adding(u[b], Merged(A), M[b], q) \/ Joining(u[b], Merged(A), M[b], q)
<1> DEFINE P == Merged(A)
           g == u[b]
           q == Len(g)
<1>1. b \in 1..Len(M) /\ Len(M) \in 0..Len(M) /\ Len(M) \in Nat
  BY LenProperties DEF Round
<1>2. u[b - 1] = P
  BY CutMerged
<1>3. Added(g, P, M[b]) \/ Joined(g, P, M[b])
  BY <1>1, <1>2, MergeStep
<1>4. P \in Seq(Rows) /\ Len(P) \in Nat
  BY MergedType, LenProperties
<1> HIDE DEF P, g
<1>5. CASE Added(g, P, M[b])
  <2>1. q = Len(P) + 1 /\ q - 1 = Len(P) /\ q > 0
    BY <1>4, <1>5 DEF Added
  <2>2. Adding(g, P, M[b], q)
    BY <1>5, <2>1 DEF Added, Adding, Alike
  <2> QED BY <2>1, <2>2 DEF g, P
<1>6. CASE Joined(g, P, M[b])
  <2>1. q = Len(P) /\ q > 0
    BY <1>6 DEF Joined
  <2>2. Joining(g, P, M[b], q)
    BY <1>6, <2>1 DEF Joined, Joining, Alike
  <2> QED BY <2>1, <2>2 DEF g, P
<1> QED BY <1>3, <1>5, <1>6

LEMMA RoundMerged ==
  ASSUME NEW M \in Seq(Rows), NEW A \in Seq(Rows), NEW b, Round(M, A, b),
         NEW R \in Seq(Calls), EndsInResults(M, b, R)
  PROVE  \E q : /\ \/ Adding(Merged(M), Merged(A), M[b], q)
                   \/ Joining(Merged(M), Merged(A), M[b], q)
                /\ EndsInResults(Merged(M), q, R)
<1>1. PICK u : Merges(u, M, Len(M)) /\ Merged(M) = u[Len(M)]
  BY MergedIs
<1>2. /\ b \in 1..Len(M) /\ b \in Nat /\ Len(M) \in Nat /\ Len(R) \in Nat
      /\ Len(M) = b + Len(R) /\ b \in 0..Len(M) /\ M[b] \in Rows
      /\ M[b].role = "assistant" /\ M[b].error # "budget"
  <2>1. b \in 1..Len(M)
    BY DEF Round
  <2> QED BY <2>1, LenProperties, ElementOfSeq DEF EndsInResults
<1> DEFINE P == Merged(A)
           g == u[b]
           G == Merged(M)
           p == Len(g)
<1>3. p > 0 /\ (Adding(g, P, M[b], p) \/ Joining(g, P, M[b], p))
  <2>1. PICK q : /\ q = Len(u[b]) /\ q > 0
                 /\ Adding(u[b], Merged(A), M[b], q) \/ Joining(u[b], Merged(A), M[b], q)
    BY <1>1, <1>2, ReplyIsMerged
  <2> QED BY <2>1
<1>4. g \in Seq(Rows) /\ G \in Seq(Rows) /\ P \in Seq(Rows) /\ p \in Nat /\ p \in 1..p
  <2>1. g \in Seq(Rows)
    BY <1>1, <1>2 DEF Merges
  <2> HIDE DEF g
  <2> QED BY <1>3, <2>1, MergedType, LenProperties
<1>5. Trailing(M, b, g, G, Len(R))
  <2>1. Len(R) \in 0..(Len(M) - b) /\ b + Len(R) = Len(M)
    BY <1>2
  <2>2. ASSUME NEW i \in b + 1..Len(M) PROVE M[i].role = "tool"
    <3> DEFINE k == i - b
    <3>1. k \in 1..Len(R) /\ b + k = i
      BY <1>2
    <3>2. IsResult(M[b + k], R[k])
      BY <3>1 DEF EndsInResults
    <3> QED BY <3>1, <3>2 DEF IsResult
  <2>3. Trailing(M, b, u[b], u[b + Len(R)], Len(R))
    BY <1>1, <1>2, <2>1, <2>2, ToolsAreAdded
  <2> QED BY <1>1, <2>1, <2>3
<1> HIDE DEF P, g, G
<1>6. /\ Len(G) = p + Len(R) /\ (\A l \in 1..p : G[l] = g[l])
      /\ \A k \in 1..Len(R) : G[p + k] = M[b + k]
  BY <1>5 DEF Trailing
<1>7. /\ G[p] = g[p] /\ p \in 1..Len(G) /\ p - 1 \in Nat
      /\ \A l \in 1..(p - 1) : G[l] = g[l]
  <2> HIDE DEF p
  <2>1. p - 1 \in Nat /\ p \in 1..Len(G) /\ \A l \in 1..(p - 1) : l \in 1..p
    BY <1>2, <1>3, <1>4, <1>6
  <2> QED BY <1>4, <1>6, <2>1
<1>8. Adding(G, P, M[b], p) \/ Joining(G, P, M[b], p)
  <2>1. Alike(g, P, p - 1) => Alike(G, P, p - 1)
    BY <1>7 DEF Alike
  <2> HIDE DEF p
  <2> QED BY <1>3, <1>7, <2>1 DEF Adding, Joining
<1>9. G[p].role = "assistant" /\ G[p].error # "budget"
  <2>1. CASE Adding(g, P, M[b], p)
    BY <1>2, <1>7, <2>1 DEF Adding
  <2>2. CASE Joining(g, P, M[b], p)
    <3>1. P[p] \in Rows /\ p \in 1..Len(P)
      <4>1. p \in 1..Len(P)
        BY <1>4, <2>2 DEF Joining
      <4> QED BY <1>4, <4>1, ElementOfSeq
    <3> DEFINE y == Extended(P[p], M[b])
    <3>2. y.role = P[p].role /\ y.error = P[p].error
      BY <1>2, <3>1, ExtendedIs
    <3> QED BY <1>7, <2>2, <3>2 DEF Joining, Joins
  <2> QED BY <1>3, <2>1, <2>2
<1>10. EndsInResults(G, p, R)
  <2>1. \A k \in 1..Len(R) : IsResult(M[b + k], R[k])
    BY DEF EndsInResults
  <2>2. \A k \in 1..Len(R) : IsResult(G[p + k], R[k])
    BY <1>6, <2>1
  <2> QED BY <1>6, <1>7, <1>9, <2>2 DEF EndsInResults
<1> QED BY <1>8, <1>10 DEF G, P

(* What a round of rows adds to what the rows before it said.              *)
LEMMA RoundIsSaid ==
  ASSUME NEW M \in Seq(Rows), NEW A \in Seq(Rows), NEW b, Round(M, A, b),
         NEW R, EndsInResults(M, b, R), M[b].error = "none", SettlesAll(M[b], R)
  PROVE  Telling(Said(Sanitized(Merged(M))), Said(Sanitized(Merged(A))), M[b], R)
<1>1. R \in Seq(Calls)
  BY DEF SettlesAll
<1>2. M[b] \in Rows /\ M[b].role = "assistant"
  <2>1. b \in 1..Len(M)
    BY DEF Round
  <2> QED BY <2>1, ElementOfSeq DEF EndsInResults
<1>3. PICK q : /\ \/ Adding(Merged(M), Merged(A), M[b], q)
                  \/ Joining(Merged(M), Merged(A), M[b], q)
               /\ EndsInResults(Merged(M), q, R)
  BY <1>1, RoundMerged
<1>4. Merged(M) \in Seq(Rows) /\ Merged(A) \in Seq(Rows)
  BY MergedType
<1> QED BY <1>2, <1>3, <1>4, RoundIsTold

(* Rows are only added: the paths and the histories of those there were    *)
(* stay what they are.                                                     *)
Longer(rt, rs) == Len(rs) <= Len(rt) /\ Alike(rt, rs, Len(rs))

LEMMA PathStays ==
  ASSUME NEW rs, Parented(rs), NEW rt, Parented(rt), Longer(rt, rs), NEW id \in 0..Len(rs)
  PROVE  PathIn(rt)[id] = PathIn(rs)[id]
<1> DEFINE Bad == {b \in 0..Len(rs) : PathIn(rt)[b] # PathIn(rs)[b]}
<1>1. Len(rs) \in Nat /\ Len(rt) \in Nat /\ Len(rs) <= Len(rt) /\ \A i \in 1..Len(rs) : rt[i] = rs[i]
  BY LenProperties DEF Parented, Longer, Alike
<1>2. ASSUME Bad # {} PROVE FALSE
  <2>1. PICK b \in Bad : \A c \in Bad : b <= c
    <3>1. Bad \subseteq Nat
      OBVIOUS
    <3> HIDE DEF Bad
    <3> QED BY <1>2, <3>1, Least
  <2>2. b \in 0..Len(rs) /\ PathIn(rt)[b] # PathIn(rs)[b]
    OBVIOUS
  <2>3. b # 0
    BY <2>2, PathInRoot
  <2>4. b \in 1..Len(rs) /\ b \in 1..Len(rt) /\ rt[b] = rs[b]
    BY <1>1, <2>2, <2>3
  <2>5. rs[b].parent \in 0..Len(rs) /\ rs[b].parent < b
    <3>1. rs[b] \in Rows /\ rs[b].parent < b
      BY <2>4, ElementOfSeq DEF Parented
    <3> QED BY <1>1, <2>4, <3>1 DEF Rows
  <2>6. ~(b <= rs[b].parent)
    BY <2>2, <2>5
  <2>7. PathIn(rt)[rs[b].parent] = PathIn(rs)[rs[b].parent]
    BY <2>1, <2>5, <2>6
  <2>8. PathIn(rs)[b] = Append(PathIn(rs)[rs[b].parent], b)
    BY <2>4, PathInIs
  <2>9. PathIn(rt)[b] = Append(PathIn(rt)[rt[b].parent], b)
    BY <2>4, PathInIs
  <2> QED BY <2>2, <2>4, <2>7, <2>8, <2>9
<1> QED BY <1>2

(* The path of any id, 0 included.                                         *)
LEMMA PathFits ==
  ASSUME NEW rs, Parented(rs), NEW id \in 0..Len(rs)
  PROVE  PathIn(rs)[id] \in Seq(Nat) /\ Linked(rs, PathIn(rs)[id])
<1>1. CASE id = 0
  <2>1. PathIn(rs)[id] = <<>> /\ Len(<<>>) = 0 /\ <<>> \in Seq(Nat)
    BY <1>1, PathInRoot
  <2> QED BY <2>1 DEF Linked
<1>2. CASE id # 0
  <2>1. id \in 1..Len(rs)
    BY <1>2
  <2> QED BY <2>1, PathIsLinked
<1> QED BY <1>1, <1>2

LEMMA HistoryStays ==
  ASSUME NEW rs, Parented(rs), NEW rt, Parented(rt), Longer(rt, rs), NEW id \in 0..Len(rs)
  PROVE  HistoryIn(rt, id) = HistoryIn(rs, id)
<1> DEFINE p == PathIn(rs)[id]
<1>1. PathIn(rt)[id] = p /\ p \in Seq(Nat) /\ Linked(rs, p)
  BY PathStays, PathFits
<1> HIDE DEF p
<1>2. \A k \in DOMAIN p : rt[p[k]] = rs[p[k]]
  <2>1. DOMAIN p = 1..Len(p)
    BY <1>1
  <2> QED BY <1>1, <2>1 DEF Linked, Longer, Alike
<1>3. Trail(rt, p) = Trail(rs, p)
  BY <1>2 DEF Trail
<1> QED BY <1>1, <1>3 DEF HistoryIn, p

LEMMA HistorySaid ==
  ASSUME NEW rs, Parented(rs), NEW id \in 0..Len(rs)
  PROVE  Said(HistoryIn(rs, id)) \in Seq(Tokens)
<1> DEFINE M == Trail(rs, PathIn(rs)[id])
<1>1. M \in Seq(Rows)
  BY PathFits, TrailIs
<1> HIDE DEF M
<1>2. Merged(M) \in Seq(Rows)
  BY <1>1, MergedType
<1> DEFINE G == Merged(M)
<1> HIDE DEF G
<1>3. PICK s : Steps(Tales(G), Len(G), Tokens, s) /\ Said(Sanitized(G)) = s[Len(G)]
  BY <1>2, Retelling DEF G
<1>4. Len(G) \in 0..Len(G)
  BY <1>2, LenProperties DEF G
<1>5. s[Len(G)] \in Seq(Tokens)
  BY <1>3, <1>4 DEF Steps
<1> QED BY <1>3, <1>5 DEF HistoryIn, M, G

(* The last rows are a reply and, each under the row before it, the        *)
(* results R.                                                              *)
Written(rs, a, R) ==
  /\ a \in 1..Len(rs) /\ Len(rs) = a + Len(R)
  /\ rs[a].role = "assistant" /\ rs[a].error # "budget"
  /\ \A k \in 1..Len(R) : IsResult(rs[a + k], R[k]) /\ rs[a + k].parent = a + k - 1

Strand(p, s, a, n) ==
  /\ p \in Seq(Nat) /\ Len(p) = Len(s) + 1 + n /\ Alike(p, s, Len(s))
  /\ \A k \in 0..n : p[Len(s) + 1 + k] = a + k

LEMMA StrandIs ==
  ASSUME NEW rs, Parented(rs), NEW R \in Seq(Calls), NEW a, Written(rs, a, R), NEW n \in 0..Len(R)
  PROVE  Strand(PathIn(rs)[a + n], PathIn(rs)[rs[a].parent], a, n)
<1> DEFINE s == PathIn(rs)[rs[a].parent]
           Bad == {m \in 0..Len(R) : ~Strand(PathIn(rs)[a + m], s, a, m)}
<1>1. /\ Len(R) \in Nat /\ a \in Nat /\ a \in 1..Len(rs) /\ Len(rs) = a + Len(R)
      /\ \A k \in 1..Len(R) : rs[a + k].parent = a + k - 1
  BY LenProperties DEF Written, Parented
<1>2. s \in Seq(Nat) /\ Len(s) \in Nat /\ PathIn(rs)[a] = Append(s, a)
  <2>1. s \in Seq(Nat) /\ PathIn(rs)[a] = Append(s, a)
    BY <1>1, PathInIs
  <2> HIDE DEF s
  <2> QED BY <2>1, LenProperties
<1> HIDE DEF s
<1>3. ASSUME Bad # {} PROVE FALSE
  <2>1. PICK m \in Bad : \A l \in Bad : m <= l
    <3>1. Bad \subseteq Nat
      OBVIOUS
    <3> HIDE DEF Bad
    <3> QED BY <1>3, <3>1, Least
  <2>2. m \in 0..Len(R) /\ ~Strand(PathIn(rs)[a + m], s, a, m)
    OBVIOUS
  <2>3. CASE m = 0
    <3>1. /\ Append(s, a) \in Seq(Nat) /\ Len(Append(s, a)) = Len(s) + 1
          /\ Append(s, a)[Len(s) + 1] = a
          /\ \A l \in 1..Len(s) : Append(s, a)[l] = s[l]
      BY <1>1, <1>2, AppendProperties
    <3> DEFINE p == Append(s, a)
    <3> HIDE DEF p
    <3>2. a + 0 = a /\ p = PathIn(rs)[a]
      BY <1>1, <1>2 DEF p
    <3>3. Strand(p, s, a, 0)
      <4>1. Len(p) = Len(s) + 1 + 0 /\ \A k \in 0..0 : p[Len(s) + 1 + k] = a + k
        BY <1>1, <1>2, <3>1 DEF p
      <4> QED BY <3>1, <4>1 DEF Strand, Alike, p
    <3> QED BY <2>2, <2>3, <3>2, <3>3
  <2>4. CASE m # 0
    <3> DEFINE n0 == m - 1
               o == PathIn(rs)[a + n0]
               i == a + m
               p == PathIn(rs)[i]
    <3>1. n0 \in 0..Len(R) /\ ~(m <= n0) /\ m \in 1..Len(R) /\ m = n0 + 1 /\ i \in 1..Len(rs)
          /\ i \in Nat /\ n0 \in Nat
      BY <1>1, <2>2, <2>4
    <3>2. Strand(o, s, a, n0)
      BY <2>1, <3>1
    <3>3. rs[i].parent = a + n0
      BY <1>1, <3>1
    <3>4. p = Append(o, i)
      <4> HIDE DEF i, n0
      <4> QED BY <3>1, <3>3, PathInIs
    <3>5. /\ o \in Seq(Nat) /\ Len(o) = Len(s) + 1 + n0 /\ Alike(o, s, Len(s))
          /\ \A k \in 0..n0 : o[Len(s) + 1 + k] = a + k
      BY <3>2 DEF Strand
    <3> HIDE DEF n0, o, p
    <3>6. /\ p \in Seq(Nat) /\ Len(p) = Len(o) + 1 /\ p[Len(o) + 1] = i
          /\ \A l \in 1..Len(o) : p[l] = o[l]
      <4> HIDE DEF i
      <4>1. /\ Append(o, i) \in Seq(Nat) /\ Len(Append(o, i)) = Len(o) + 1
            /\ Append(o, i)[Len(o) + 1] = i
            /\ \A l \in 1..Len(o) : Append(o, i)[l] = o[l]
        <5>1. i \in Nat /\ o \in Seq(Nat)
          BY <3>1, <3>5
        <5> QED BY <5>1, AppendProperties
      <4> QED BY <3>4, <4>1
    <3>7. Len(p) = Len(s) + 1 + m
      BY <1>2, <3>1, <3>5, <3>6
    <3>8. Alike(p, s, Len(s))
      <4>1. \A l \in 1..Len(s) : l \in 1..Len(o)
        BY <1>2, <3>1, <3>5
      <4> QED BY <3>5, <3>6, <4>1 DEF Alike
    <3>9. ASSUME NEW k \in 0..m PROVE p[Len(s) + 1 + k] = a + k
      <4>1. CASE k = m
        <5>1. Len(s) + 1 + k = Len(o) + 1
          BY <1>2, <3>1, <3>5, <4>1
        <5> QED BY <3>6, <4>1, <5>1
      <4>2. CASE k # m
        <5>1. k \in 0..n0 /\ Len(s) + 1 + k \in 1..Len(o)
          BY <1>2, <3>1, <3>5, <4>2
        <5> QED BY <3>5, <3>6, <5>1
      <4> QED BY <4>1, <4>2
    <3>10. Strand(p, s, a, m)
      BY <3>6, <3>7, <3>8, <3>9 DEF Strand
    <3> QED BY <2>2, <3>10 DEF p
  <2> QED BY <2>3, <2>4
<1> QED BY <1>3 DEF s

(* A round that is in the rows adds to their history what it says.         *)
LEMMA RoundInHistory ==
  ASSUME NEW rs, Parented(rs), NEW a, NEW R, Written(rs, a, R),
         rs[a].error = "none", SettlesAll(rs[a], R)
  PROVE  Telling(Said(HistoryIn(rs, Len(rs))), Said(HistoryIn(rs, rs[a].parent)), rs[a], R)
<1> DEFINE up == rs[a].parent
           s == PathIn(rs)[up]
           p == PathIn(rs)[Len(rs)]
           M == Trail(rs, p)
           A == Trail(rs, s)
           b == Len(s) + 1
<1>1. /\ R \in Seq(Calls) /\ Len(R) \in Nat /\ a \in 1..Len(rs) /\ Len(rs) \in Nat
      /\ Len(rs) \in 0..Len(rs) /\ Len(rs) = a + Len(R)
  <2>1. R \in Seq(Calls)
    BY DEF SettlesAll
  <2> QED BY <2>1, LenProperties DEF Parented, Written
<1>2. up \in 0..Len(rs)
  <2>1. rs[a] \in Rows /\ rs[a].parent < a
    BY <1>1, ElementOfSeq DEF Parented
  <2> QED BY <1>1, <2>1 DEF Rows
<1>3. /\ s \in Seq(Nat) /\ Linked(rs, s) /\ p \in Seq(Nat) /\ Linked(rs, p)
  BY <1>1, <1>2, PathFits
<1>4. Strand(p, s, a, Len(R))
  <2>1. Len(R) \in 0..Len(R)
    BY <1>1
  <2>2. Strand(PathIn(rs)[a + Len(R)], PathIn(rs)[rs[a].parent], a, Len(R))
    BY <1>1, <2>1, StrandIs
  <2> QED BY <1>1, <2>2
<1> HIDE DEF s, p, up
<1>5. /\ A \in Seq(Rows) /\ Len(A) = Len(s) /\ \A k \in 1..Len(s) : A[k] = rs[s[k]]
  BY <1>3, TrailIs
<1>6. /\ M \in Seq(Rows) /\ Len(M) = Len(p) /\ \A k \in 1..Len(p) : M[k] = rs[p[k]]
  BY <1>3, TrailIs
<1> HIDE DEF M, A
<1>7. /\ Len(p) = b + Len(R) /\ b \in Nat /\ b \in 1..Len(p) /\ b - 1 = Len(s)
      /\ \A k \in 1..Len(R) : k \in 0..Len(R) /\ b + k \in 1..Len(p)
  BY <1>1, <1>3, <1>4, LenProperties DEF Strand
<1>8. (\A k \in 0..Len(R) : p[b + k] = a + k) /\ \A k \in 1..Len(s) : p[k] = s[k]
  BY <1>4 DEF Strand, Alike
<1> HIDE DEF b
<1>9. M[b] = rs[a]
  <2>1. p[b + 0] = a + 0
    BY <1>1, <1>8
  <2> QED BY <1>1, <1>6, <1>7, <2>1
<1>10. \A k \in 1..Len(R) : M[b + k] = rs[a + k]
  BY <1>6, <1>7, <1>8
<1>11. Round(M, A, b)
  <2>1. \A k \in 1..Len(s) : k \in 1..Len(p)
    BY <1>1, <1>3, <1>7
  <2>2. Alike(M, A, b - 1)
    BY <1>5, <1>6, <1>7, <1>8, <2>1 DEF Alike
  <2> QED BY <1>5, <1>6, <1>7, <2>2 DEF Round
<1>12. EndsInResults(M, b, R)
  BY <1>6, <1>7, <1>9, <1>10 DEF EndsInResults, Written
<1>13. M[b].error = "none" /\ SettlesAll(M[b], R)
  BY <1>9
<1>14. Telling(Said(Sanitized(Merged(M))), Said(Sanitized(Merged(A))), M[b], R)
  BY <1>5, <1>6, <1>11, <1>12, <1>13, RoundIsSaid
<1> QED BY <1>9, <1>14 DEF HistoryIn, M, A, p, s, up

-----------------------------------------------------------------------------
(* What a turn has buffered, what it is writing, and what it has said.     *)

IsReply(j, m) ==
  /\ m.role = "assistant" /\ m.text = j.text /\ m.calls = j.calls /\ m.error # "budget"
  /\ j.then # "release" => m.error = "none"

(* The rows still to be written are the whole round.                       *)
Drafted(j) ==
  /\ Len(j.todo) = Len(j.results) + 1 /\ IsReply(j, j.todo[1])
  /\ \A k \in 1..Len(j.results) : IsResult(j.todo[k + 1], j.results[k])

(* They are the notice of a budget.                                        *)
Noticed(j) == Len(j.todo) = 1 /\ j.todo[1].role = "assistant" /\ j.then = "release"

(* The reply is the row a, and after it come the first results.            *)
HalfWritten(rs, j, a) ==
  LET w == Len(rs) - a IN
  /\ j.pc = "write" /\ a \in 1..Len(rs) /\ j.parent = Len(rs) /\ IsReply(j, rs[a])
  /\ w + Len(j.todo) = Len(j.results)
  /\ \A k \in 1..w : IsResult(rs[a + k], j.results[k]) /\ rs[a + k].parent = a + k - 1
  /\ \A k \in 1..Len(j.todo) : IsResult(j.todo[k], j.results[w + k])

(* Results come in the order of the calls, calls in the order asked.       *)
Ordered(j) ==
  /\ Alike(j.results, j.calls, Len(j.results))
  /\ j.pc = "tools" => Alike(j.calls, j.asked, Len(j.calls))

Whole(j) == j.pc = "write" => Drafted(j) \/ Noticed(j)

(* S and P are what the rows said where the turn began and what they say   *)
(* now; the turn has the same in mind once the buffered round is written.  *)
Even(j, S, P) == S \o j.said = P
Due(j, S, P) == S \o j.said = P \o j.text \o j.asked \o Out(j.results)
Owed(j, S, P) == S \o j.said = P \o j.text \o j.calls \o Out(j.results)
Settled(j, S, P) == Len(j.results) = Len(j.calls) /\ Owed(j, S, P)

Blank(j) == j.text = <<>> /\ j.said = <<>> /\ ~j.closed

Speaks(j, S, P) ==
  /\ j.pc \in {"idle", "checked", "ask", "client", "load"} => Blank(j)
  /\ j.pc \in {"client", "load"} => S = P
  /\ j.pc \in {"check", "stream"} => Settled(j, S, P) /\ (~j.closed => j.text = <<>>)
  /\ j.pc \in {"arrived", "spoken"} =>
       Even(j, S, P) /\ ~j.closed /\ (j.pc = "arrived" => j.text = <<>>)
  /\ j.pc = "tools" => Due(j, S, P)
  /\ j.pc = "write" /\ j.then \in {"check", "stream", "arrived"} => Settled(j, S, P)

Before(rs, j) == Said(HistoryIn(rs, j.start))

Conversing(rs, j) ==
  /\ Ordered(j)
  /\ j.pc \in Working \cup {"ask", "act"} => j.start <= Len(rs)
  /\ \/ Whole(j) /\ Speaks(j, Before(rs, j), Said(HistoryIn(rs, j.parent)))
     \/ \E a \in 1..Len(rs) :
          HalfWritten(rs, j, a) /\ Speaks(j, Before(rs, j), Said(HistoryIn(rs, rs[a].parent)))

SameWords(j, k) == k.text = j.text /\ k.said = j.said /\ k.start = j.start

(* Nothing is promised of the rest of the turn.                            *)
Mute(k) ==
  \/ k.pc \in {"release", "finish", "overbudget"}
  \/ k.pc = "write" /\ k.then \in {"release", "overbudget"}

LEMMA MuteSpeaks == ASSUME NEW k, Mute(k), NEW S, NEW P PROVE Speaks(k, S, P)
  BY DEF Mute, Speaks

LEMMA Utterances ==
  ASSUME NEW j \in Jobs
  PROVE  /\ j.said \in Seq(Tokens) /\ j.text \in Seq(Tokens) /\ j.calls \in Seq(Tokens)
         /\ j.asked \in Seq(Tokens) /\ Out(j.results) \in Seq(Tokens)
         /\ j.calls \in Seq(Calls) /\ j.results \in Seq(Calls) /\ j.asked \in Seq(Calls)
         /\ Len(j.calls) \in Nat /\ Len(j.results) \in Nat /\ Len(j.asked) \in Nat
<1>1. /\ j.said \in Seq(Sayings) /\ j.text \in Seq(Words) /\ j.calls \in Seq(Calls)
      /\ j.asked \in Seq(Calls) /\ j.results \in Seq(Calls)
  BY DEF Jobs, Sayings
<1>2. Sayings \subseteq Tokens /\ Words \subseteq Tokens /\ Calls \subseteq Tokens
  BY DEF Sayings, Tokens
<1>3. Out(j.results) \in Seq(Tokens)
  BY <1>1, OutIs
<1>4. \A A \in SUBSET Tokens : \A s \in Seq(A) : s \in Seq(Tokens)
  OBVIOUS
<1> QED BY <1>1, <1>2, <1>3, <1>4, LenProperties

LEMMA NothingOut == Out(<<>>) = <<>>
  BY DEF Out

LEMMA NothingAdded ==
  ASSUME NEW P \in Seq(Tokens), NEW t \in Seq(Tokens)
  PROVE  /\ P \o t \o <<>> \o Out(<<>>) = P \o t
         /\ P \o <<>> \o <<>> \o Out(<<>>) = P /\ P \o <<>> = P
<1>1. P \o t \in Seq(Tokens)
  BY ConcatProperties
<1> DEFINE x == P \o t
<1> HIDE DEF x
<1>2. x \o <<>> = x /\ P \o <<>> = P
  BY <1>1, ConcatEmptySeq DEF x
<1> QED BY <1>2, NothingOut DEF x

LEMMA NoneIsEmpty ==
  ASSUME NEW s \in Seq(Calls), Len(s) = 0 PROVE s = <<>>
  OBVIOUS

(* A field that is set leaves the words alone.                             *)
LEMMA MovedWords ==
  ASSUME NEW j \in Jobs, NEW v PROVE SameWords(j, Moved(j, v))
  BY DEF Jobs, Moved, SameWords

(* What a flush leaves buffered, and what it is about to write.            *)
Holding(j, k) ==
  SameWords(j, k) /\ k.calls = j.calls /\ k.results = j.results /\ k.asked = j.asked

LEMMA RoundRowsAre ==
  ASSUME NEW j \in Jobs, NEW error \in Errors, RoundRows(j, error) # <<>>
  PROVE  LET all == RoundRows(j, error)
         IN  /\ Len(all) = Len(j.results) + 1
             /\ all[1].role = "assistant" /\ all[1].text = j.text /\ all[1].calls = j.calls
             /\ all[1].error = error
             /\ \A k \in 1..Len(j.results) : IsResult(all[k + 1], j.results[k])
<1> DEFINE reply == ReplyRow(j.text, j.calls, error, j.closed /\ j.cut)
           tool(c) == [Row("tool", 0, Nobody) EXCEPT !.call = c]
           tools == [i \in DOMAIN j.results |-> tool(j.results[i])]
           all == RoundRows(j, error)
<1>1. j.results \in Seq(Calls) /\ DOMAIN j.results = 1..Len(j.results) /\ Len(j.results) \in Nat
  BY Utterances, LenProperties
<1>2. all = <<reply>> \o tools
  BY DEF RoundRows, ReplyRow
<1>3. /\ reply.role = "assistant" /\ reply.text = j.text /\ reply.calls = j.calls
      /\ reply.error = error
  BY DEF ReplyRow, Row
<1>4. ASSUME NEW c \in Calls PROVE IsResult(tool(c), c)
  BY DEF IsResult, Row
<1> HIDE DEF tool, reply, all
<1>5. tools \in Seq({tool(c) : c \in Calls}) /\ Len(tools) = Len(j.results)
      /\ \A k \in 1..Len(j.results) : tools[k] = tool(j.results[k])
  BY <1>1
<1> DEFINE A == {reply} \cup {tool(c) : c \in Calls}
<1>6. tools \in Seq(A) /\ <<reply>> \in Seq(A) /\ Len(<<reply>>) = 1 /\ <<reply>>[1] = reply
  BY <1>5
<1> HIDE DEF tools
<1>7. /\ Len(all) = 1 + Len(tools)
      /\ \A i \in 1..(1 + Len(tools)) :
           all[i] = IF i <= 1 THEN <<reply>>[i] ELSE tools[i - 1]
  <2> HIDE DEF A
  <2> QED BY <1>2, <1>6, ConcatProperties
<1>8. all[1] = reply
  BY <1>1, <1>5, <1>6, <1>7
<1>9. ASSUME NEW k \in 1..Len(j.results) PROVE IsResult(all[k + 1], j.results[k])
  <2>1. k + 1 \in 1..(1 + Len(tools)) /\ ~(k + 1 <= 1) /\ (k + 1) - 1 = k
    BY <1>1, <1>5
  <2>2. all[k + 1] = tools[k]
    BY <1>7, <2>1
  <2>3. j.results[k] \in Calls
    BY <1>1
  <2> QED BY <1>4, <1>5, <2>2, <2>3
<1> QED BY <1>1, <1>3, <1>5, <1>7, <1>8, <1>9 DEF all

LEMMA FlushWords ==
  ASSUME NEW j \in Jobs, Len(j.results) <= Len(j.calls),
         NEW error \in Errors, error # "budget", NEW then \in Stages,
         then # "release" => error = "none"
  PROVE  LET k == Flush(j, error, then)
         IN  /\ Holding(j, k) /\ k.parent = j.parent
             /\ \/ k.pc = "write" /\ k.then = then /\ Drafted(k)
                \/ k.pc = then /\ ~k.closed /\ k.text = <<>> /\ k.calls = <<>> /\ k.results = <<>>
<1> DEFINE all == RoundRows(j, error)
<1>1. CASE all = <<>>
  <2> DEFINE l == Emptied(j)
             m == Moved(l, then)
  <2>1. j.text = <<>> /\ j.calls = <<>>
    BY <1>1 DEF RoundRows
  <2>2. j.results = <<>>
    <3>1. Len(<<>>) = 0
      OBVIOUS
    <3>2. Len(j.results) = 0 /\ j.results \in Seq(Calls)
      BY <2>1, <3>1, Utterances
    <3> QED BY <3>2, NoneIsEmpty
  <2>3. /\ l \in Jobs /\ SamePlace(j, l) /\ l.calls = <<>> /\ l.results = <<>>
        /\ l.closed = FALSE /\ l.asked = j.asked
    BY EmptiedJob
  <2>4. l.text = <<>> /\ l.said = j.said /\ l.start = j.start
    BY DEF Jobs, Emptied
  <2> HIDE DEF l
  <2>5. then \in Places
    BY DEF Stages, Places, Working, Streaming
  <2>6. m.pc = then /\ SamePlace(l, m) /\ SameBuffer(l, m)
    BY <2>3, <2>5, MovedJob
  <2>7. SameWords(l, m)
    BY <2>3, MovedWords
  <2>8. Flush(j, error, then) = m
    BY <1>1 DEF Flush, Moved, l
  <2> HIDE DEF m
  <2>9. /\ Holding(j, m) /\ m.parent = j.parent
        /\ m.pc = then /\ ~m.closed /\ m.text = <<>> /\ m.calls = <<>> /\ m.results = <<>>
    BY <2>1, <2>2, <2>3, <2>4, <2>6, <2>7 DEF Holding, SameWords, SamePlace, SameBuffer
  <2> QED BY <2>8, <2>9
<1>2. CASE all # <<>>
  <2>1. /\ Len(all) = Len(j.results) + 1
        /\ all[1].role = "assistant" /\ all[1].text = j.text /\ all[1].calls = j.calls
        /\ all[1].error = error
        /\ \A i \in 1..Len(j.results) : IsResult(all[i + 1], j.results[i])
    BY <1>2, RoundRowsAre
  <2>2. Flush(j, error, then) = Writing(j, all, then)
    BY <1>2 DEF Flush, Writing
  <2> HIDE DEF all
  <2> DEFINE k == Writing(j, all, then)
  <2>3. /\ k.pc = "write" /\ k.then = then /\ k.todo = all /\ k.parent = j.parent
        /\ k.calls = j.calls /\ k.results = j.results /\ k.asked = j.asked
        /\ k.text = j.text /\ k.said = j.said /\ k.start = j.start
    BY DEF Jobs, Writing
  <2> HIDE DEF k
  <2>4. Drafted(k)
    BY <2>1, <2>3 DEF Drafted, IsReply
  <2>5. Holding(j, k)
    BY <2>3 DEF Holding, SameWords
  <2> QED BY <2>2, <2>3, <2>4, <2>5 DEF k
<1> QED BY <1>1, <1>2

(* Two turns that differ in nothing that matters here.                     *)
SameTurn(j, k) ==
  /\ SameWords(j, k) /\ k.pc = j.pc /\ k.then = j.then /\ k.todo = j.todo
  /\ k.parent = j.parent /\ k.closed = j.closed
  /\ k.calls = j.calls /\ k.results = j.results /\ k.asked = j.asked

LEMMA SameTurnSpeaks ==
  ASSUME NEW j, NEW k, SameTurn(j, k)
  PROVE  /\ Ordered(j) => Ordered(k)
         /\ Whole(j) => Whole(k)
         /\ Mute(j) => Mute(k)
         /\ \A S, P : Speaks(j, S, P) => Speaks(k, S, P)
         /\ \A rs : Before(rs, k) = Before(rs, j)
<1>1. Ordered(j) => Ordered(k)
  BY DEF SameTurn, Ordered
<1>2. Whole(j) => Whole(k)
  BY DEF SameTurn, SameWords, Whole, Drafted, Noticed, IsReply
<1>3. Mute(j) => Mute(k)
  BY DEF SameTurn, Mute
<1>4. ASSUME NEW S, NEW P, Speaks(j, S, P) PROVE Speaks(k, S, P)
  <2>1. /\ Settled(j, S, P) => Settled(k, S, P)
        /\ Even(j, S, P) => Even(k, S, P)
        /\ Due(j, S, P) => Due(k, S, P)
        /\ Blank(j) => Blank(k)
    BY DEF SameTurn, SameWords, Settled, Owed, Even, Due, Blank
  <2> QED BY <1>4, <2>1 DEF Speaks, SameTurn, SameWords
<1>5. \A rs : Before(rs, k) = Before(rs, j)
  BY DEF Before, SameTurn, SameWords
<1> QED BY <1>1, <1>2, <1>3, <1>4, <1>5

LEMMA SameTurnHalf ==
  ASSUME NEW j, NEW k, SameTurn(j, k), NEW rs, NEW a, HalfWritten(rs, j, a)
  PROVE  HalfWritten(rs, k, a)
<1>1. IsReply(j, rs[a]) => IsReply(k, rs[a])
  BY DEF IsReply, SameTurn, SameWords
<1> QED BY <1>1 DEF HalfWritten, SameTurn

(* A step that keeps what a turn has in mind in agreement with the rows.   *)
Steady(j, k) ==
  /\ k.start = j.start /\ k.parent = j.parent /\ Ordered(k) /\ Whole(k)
  /\ \/ Mute(k)
     \/ /\ j.pc # "write"
        /\ \A S, P \in Seq(Tokens) : Speaks(j, S, P) => Speaks(k, S, P)

LEMMA SteadyThen ==
  ASSUME NEW j, NEW k, Steady(j, k), NEW l, SameTurn(k, l) PROVE Steady(j, l)
<1>1. l.start = k.start /\ l.parent = k.parent
  BY DEF SameTurn, SameWords
<1>2. Ordered(l) /\ Whole(l) /\ (Mute(k) => Mute(l))
  BY SameTurnSpeaks DEF Steady
<1>3. \A S, P : Speaks(k, S, P) => Speaks(l, S, P)
  BY SameTurnSpeaks
<1> QED BY <1>1, <1>2, <1>3 DEF Steady

FlushHolds(j, k, then) ==
  /\ Holding(j, k) /\ k.parent = j.parent
  /\ \/ k.pc = "write" /\ k.then = then /\ Drafted(k)
     \/ k.pc = then /\ ~k.closed /\ k.text = <<>> /\ k.calls = <<>> /\ k.results = <<>>

LEMMA FlushDoes ==
  ASSUME NEW j \in Jobs, Len(j.results) <= Len(j.calls),
         NEW error \in Errors, error # "budget", NEW then \in Stages,
         then # "release" => error = "none"
  PROVE  FlushHolds(j, Flush(j, error, then), then)
  BY FlushWords DEF FlushHolds

LEMMA FlushOrdered ==
  ASSUME NEW j, Ordered(j), NEW k, NEW then \in Stages, FlushHolds(j, k, then)
  PROVE  Ordered(k) /\ Whole(k) /\ k.start = j.start /\ k.parent = j.parent
         /\ (then \in {"release", "overbudget"} => Mute(k))
<1>1. then # "tools" /\ then # "write"
  BY DEF Stages
<1>2. Ordered(k)
  BY <1>1 DEF Ordered, FlushHolds, Holding
<1>3. Whole(k)
  BY <1>1 DEF Whole, FlushHolds
<1>4. then \in {"release", "overbudget"} => Mute(k)
  BY DEF Mute, FlushHolds
<1> QED BY <1>2, <1>3, <1>4 DEF FlushHolds, Holding, SameWords

LEMMA FlushSpeaks ==
  ASSUME NEW j \in Jobs, NEW k, NEW then \in {"check", "stream", "arrived"},
         FlushHolds(j, k, then), NEW S \in Seq(Tokens), NEW P \in Seq(Tokens), Settled(j, S, P)
  PROVE  Speaks(k, S, P)
<1>1. Settled(k, S, P)
  BY DEF Settled, Owed, FlushHolds, Holding, SameWords
<1>2. CASE k.pc = "write"
  BY <1>1, <1>2 DEF Speaks
<1>3. CASE k.pc # "write"
  <2>1. k.pc = then /\ ~k.closed /\ k.text = <<>> /\ k.calls = <<>> /\ k.results = <<>>
    BY <1>3 DEF FlushHolds
  <2>2. Even(k, S, P)
    <3>1. S \o k.said = P \o <<>> \o <<>> \o Out(<<>>)
      BY <1>1, <2>1 DEF Settled, Owed
    <3>2. P \o <<>> \o <<>> \o Out(<<>>) = P
      BY NothingAdded
    <3> QED BY <3>1, <3>2 DEF Even
  <2> QED BY <1>1, <2>1, <2>2 DEF Speaks
<1> QED BY <1>2, <1>3

LEMMA RaiseSteady ==
  ASSUME NEW j \in Jobs, Fit(j), Ordered(j), NEW how \in {"stopped", "failed"}
  PROVE  Steady(j, Fail(j, how))
<1> DEFINE l == Flush(j, how, "release")
           k == Signed(l, how)
<1>1. how \in Errors /\ how # "budget" /\ "release" \in Stages /\ Len(j.results) <= Len(j.calls)
  BY DEF Errors, Stages, Fit
<1>2. FlushHolds(j, l, "release") /\ l \in Jobs
  BY <1>1, FlushDoes, FlushJob
<1>3. Fail(j, how) = k
  BY DEF Fail, Signed
<1> HIDE DEF l
<1>4. Steady(j, l)
  BY <1>1, <1>2, FlushOrdered DEF Steady
<1>5. SameTurn(l, k)
  BY <1>2 DEF Jobs, Signed, SameTurn, SameWords
<1> HIDE DEF k
<1> QED BY <1>3, <1>4, <1>5, SteadyThen

LEMMA LostSteady ==
  ASSUME NEW j \in Jobs, Ordered(j) PROVE Steady(j, Lost(j))
<1> DEFINE k == Lost(j)
<1>1. /\ k.pc = "release" /\ k.start = j.start /\ k.parent = j.parent
      /\ k.calls = j.calls /\ k.results = j.results
  BY DEF Jobs, Lost
<1> HIDE DEF k
<1>2. Steady(j, k)
  BY <1>1 DEF Steady, Ordered, Whole, Mute
<1> QED BY <1>2 DEF k

Passes(j, v) ==
  \/ j.pc = "client" /\ v = "load"
  \/ j.pc = "load" /\ v = "check"
  \/ j.pc = "check" /\ v = "stream"
  \/ j.pc = "stream" /\ v = "arrived" /\ ~j.closed

LEMMA MovedSteady ==
  ASSUME NEW j \in Jobs, Fit(j), Ordered(j), NEW v, Passes(j, v)
  PROVE  Steady(j, Moved(j, v))
<1> DEFINE k == Moved(j, v)
<1>0. v \in {"load", "check", "stream", "arrived"}
  BY DEF Passes
<1>1. /\ SameWords(j, k) /\ k.pc = v /\ k.parent = j.parent /\ k.calls = j.calls
      /\ k.results = j.results /\ k.closed = j.closed /\ k.asked = j.asked
  BY DEF Jobs, Moved, SameWords
<1> HIDE DEF k
<1>2. Ordered(k) /\ Whole(k) /\ k.start = j.start
  BY <1>0, <1>1 DEF Ordered, Whole, SameWords
<1>3. ASSUME NEW S \in Seq(Tokens), NEW P \in Seq(Tokens), Speaks(j, S, P)
      PROVE  Speaks(k, S, P)
  <2>1. CASE j.pc = "client" /\ v = "load"
    <3>1. Blank(k) /\ S = P
      BY <1>1, <1>3, <2>1 DEF Speaks, Blank, SameWords
    <3> QED BY <1>1, <2>1, <3>1 DEF Speaks
  <2>2. ASSUME ~j.closed, j.pc # "write" PROVE k.calls = <<>> /\ k.results = <<>>
    <3>1. Len(<<>>) = 0 /\ j.calls = <<>> /\ Len(j.results) <= Len(j.calls)
      BY <2>2 DEF Fit
    <3>2. Len(j.results) = 0 /\ j.results \in Seq(Calls)
      BY <3>1, Utterances
    <3> QED BY <1>1, <3>1, <3>2, NoneIsEmpty
  <2>3. CASE j.pc = "load" /\ v = "check"
    <3>1. Blank(j) /\ S = P
      BY <1>3, <2>3 DEF Speaks
    <3>2. k.calls = <<>> /\ k.results = <<>> /\ k.text = <<>> /\ k.said = <<>>
      BY <1>1, <2>2, <2>3, <3>1 DEF Blank, SameWords
    <3>3. P \o <<>> \o <<>> \o Out(<<>>) = P /\ P \o <<>> = P
      BY NothingAdded
    <3>4. Owed(k, S, P)
      BY <3>1, <3>2, <3>3 DEF Owed
    <3> QED BY <1>1, <2>3, <3>2, <3>4 DEF Speaks, Settled
  <2>4. CASE j.pc = "check" /\ v = "stream"
    <3>1. Settled(k, S, P) /\ (~k.closed => k.text = <<>>)
      BY <1>1, <1>3, <2>4 DEF Speaks, Settled, Owed, SameWords
    <3> QED BY <1>1, <2>4, <3>1 DEF Speaks
  <2>5. CASE j.pc = "stream" /\ v = "arrived" /\ ~j.closed
    <3>1. k.calls = <<>> /\ k.results = <<>> /\ k.text = <<>> /\ Settled(j, S, P)
      BY <1>1, <1>3, <2>2, <2>5 DEF Speaks, SameWords
    <3>2. P \o <<>> \o <<>> \o Out(<<>>) = P
      BY NothingAdded
    <3>3. Even(k, S, P)
      BY <1>1, <3>1, <3>2 DEF Settled, Owed, Even, SameWords
    <3> QED BY <1>1, <2>5, <3>1, <3>3 DEF Speaks
  <2> QED BY <2>1, <2>3, <2>4, <2>5 DEF Passes
<1>4. Steady(j, k)
  <2>1. j.pc # "write"
    BY DEF Passes
  <2> QED BY <1>1, <1>2, <1>3, <2>1 DEF Steady
<1> QED BY <1>4 DEF k

LEMMA FlushSteady ==
  ASSUME NEW j \in Jobs, Fit(j), Ordered(j), j.pc \in {"check", "stream", "finish"},
         NEW then \in Stages,
         then = "check" => FALSE, then \in {"stream", "arrived"} => j.pc # "finish"
  PROVE  Steady(j, Flush(j, "none", then))
<1> DEFINE k == Flush(j, "none", then)
<1>1. "none" \in Errors /\ Len(j.results) <= Len(j.calls)
  BY DEF Errors, Fit
<1>2. FlushHolds(j, k, then)
  BY <1>1, FlushDoes
<1> HIDE DEF k
<1>3. /\ Ordered(k) /\ Whole(k) /\ k.start = j.start /\ k.parent = j.parent
      /\ (then \in {"release", "overbudget"} => Mute(k))
  BY <1>2, FlushOrdered
<1>4. ASSUME then \in {"stream", "arrived"},
             NEW S \in Seq(Tokens), NEW P \in Seq(Tokens), Speaks(j, S, P)
      PROVE  Speaks(k, S, P)
  <2>1. Settled(j, S, P)
    BY <1>4 DEF Speaks
  <2>2. then \in {"check", "stream", "arrived"}
    BY <1>4
  <2> QED BY <1>2, <2>1, <2>2, FlushSpeaks
<1>5. then \in {"release", "overbudget"} \/ then \in {"stream", "arrived"}
  BY DEF Stages
<1>6. Steady(j, k)
  BY <1>3, <1>4, <1>5 DEF Steady
<1> QED BY <1>6 DEF k

LEMMA NoticeSteady ==
  ASSUME NEW j \in Jobs, Ordered(j), NEW m, m.role = "assistant"
  PROVE  Steady(j, [Writing(j, <<m>>, "release") EXCEPT !.end = "budget"])
<1> DEFINE todo == <<m>>
           k == [Writing(j, todo, "release") EXCEPT !.end = "budget"]
<1>1. Len(todo) = 1 /\ todo[1] = m
  OBVIOUS
<1> HIDE DEF todo
<1>2. /\ k.pc = "write" /\ k.then = "release" /\ k.todo = todo /\ k.start = j.start
      /\ k.parent = j.parent /\ k.calls = j.calls /\ k.results = j.results
  BY DEF Jobs, Writing
<1> HIDE DEF k
<1>3. Steady(j, k)
  BY <1>1, <1>2 DEF Steady, Ordered, Whole, Noticed, Mute
<1> QED BY <1>3 DEF k, todo

LEMMA HeardSteady ==
  ASSUME NEW j \in Jobs, Ordered(j), j.pc = "arrived", NEW t
  PROVE  Steady(j, Heard(j, t))
<1> DEFINE k == Heard(j, t)
<1>1. /\ k.pc = "spoken" /\ k.start = j.start /\ k.parent = j.parent /\ k.said = j.said
      /\ k.calls = j.calls /\ k.results = j.results /\ k.closed = j.closed
  BY DEF Jobs, Heard
<1> HIDE DEF k
<1>2. Ordered(k) /\ Whole(k)
  BY <1>1 DEF Ordered, Whole
<1>3. ASSUME NEW S \in Seq(Tokens), NEW P \in Seq(Tokens), Speaks(j, S, P)
      PROVE  Speaks(k, S, P)
  <2>1. Even(k, S, P) /\ ~k.closed
    BY <1>1, <1>3 DEF Speaks, Even
  <2> QED BY <1>1, <2>1 DEF Speaks
<1>4. Steady(j, k)
  BY <1>1, <1>2, <1>3 DEF Steady
<1> QED BY <1>4 DEF k

(* A sequence that is put behind another in two pieces.                    *)
Shifted(S, a, b, x) == S \o x = (S \o a) \o b

LEMMA Shift ==
  ASSUME NEW S \in Seq(Tokens), NEW a \in Seq(Tokens), NEW b \in Seq(Tokens),
         NEW x, Glue(x, a, b)
  PROVE  Shifted(S, a, b, x)
<1>1. (S \o a) \o b = S \o (a \o b)
  BY ConcatAssociative
<1> QED BY <1>1 DEF Glue, Shifted

(* A reply, as it is taken up in what the turn has said.                   *)
ClosedSo(j, k) ==
  /\ k \in Jobs /\ SameWords(j, k) /\ k.parent = j.parent /\ k.pc = j.pc
  /\ k.calls = j.calls /\ k.results = j.results /\ k.closed = TRUE

LEMMA CloseWords ==
  ASSUME NEW j \in Jobs, NEW c \in BOOLEAN, NEW b \in BOOLEAN
  PROVE  ClosedSo(j, Closed(j, c, b))
<1> DEFINE k == Closed(j, c, b)
<1>1. /\ k \in Jobs /\ SamePlace(j, k) /\ k.calls = j.calls /\ k.results = j.results
      /\ k.closed = TRUE /\ k.pc = j.pc /\ k.said = j.said
  <2>1. k \in Jobs /\ SamePlace(j, k) /\ k.calls = j.calls
    BY ClosedJob, ZenonT(60)
  <2>2. k.results = j.results /\ k.pc = j.pc /\ k.said = j.said
    BY ClosedJob, ZenonT(60)
  <2>3. k.closed = TRUE
    BY ClosedJob
  <2> QED BY <2>1, <2>2, <2>3
<1>2. k.text = j.text /\ k.start = j.start
  BY DEF Jobs, Closed
<1> HIDE DEF k
<1> QED BY <1>1, <1>2 DEF SameWords, SamePlace, ClosedSo, k

LEMMA ReplySteady ==
  ASSUME NEW j \in Jobs, Fit(j), Ordered(j), j.pc \in {"arrived", "spoken"},
         NEW next \in Jobs, SameWords(j, next), next.parent = j.parent, next.pc = j.pc,
         next.calls = j.calls, next.results = j.results, next.closed = TRUE,
         NEW asked \in Seq(Calls), NEW p \in BOOLEAN
  PROVE  /\ Steady(j, Moved(next, "finish"))
         /\ Steady(j, Asking(next, asked, p, j.said \o j.text \o asked))
         /\ Steady(j, Flush(Continued(next, j.said \o j.text), "none", "check"))
         /\ j.text = <<>> => Steady(j, Flush(Nudged(next), "none", "check"))
<1>1. /\ j.said \in Seq(Tokens) /\ j.text \in Seq(Tokens) /\ asked \in Seq(Tokens)
      /\ next.said = j.said /\ next.text = j.text /\ next.start = j.start
  <2>1. asked \in Seq(Tokens)
    <3>1. Calls \subseteq Tokens
      BY DEF Tokens
    <3> QED BY <3>1
  <2> QED BY <2>1, Utterances DEF SameWords
<1>2. j.calls = <<>> /\ j.results = <<>> /\ Len(j.results) = Len(j.calls)
  <2>1. Len(<<>>) = 0 /\ j.calls = <<>> /\ Len(j.results) <= Len(j.calls)
    BY DEF Fit
  <2>2. Len(j.results) = 0 /\ j.results \in Seq(Calls)
    BY <2>1, Utterances
  <2> QED BY <2>1, <2>2, NoneIsEmpty
<1>3. Ordered(j) /\ \A n : Alike(<<>>, n, Len(<<>>))
  BY DEF Alike
<1>4. Steady(j, Moved(next, "finish"))
  <2> DEFINE k == Moved(next, "finish")
  <2>1. /\ k.pc = "finish" /\ k.start = j.start /\ k.parent = j.parent
        /\ k.calls = j.calls /\ k.results = j.results
    BY <1>1 DEF Jobs, Moved
  <2> HIDE DEF k
  <2>2. Steady(j, k)
    BY <2>1 DEF Steady, Ordered, Whole, Mute
  <2> QED BY <2>2 DEF k
<1>5. Steady(j, Asking(next, asked, p, j.said \o j.text \o asked))
  <2> DEFINE s == j.said \o j.text \o asked
             k == Asking(next, asked, p, s)
  <2>1. /\ k.pc = "tools" /\ k.start = j.start /\ k.parent = j.parent /\ k.asked = asked
        /\ k.calls = j.calls /\ k.results = j.results /\ k.said = s /\ k.text = j.text
    <3> HIDE DEF s
    <3> QED BY <1>1 DEF Jobs, Asking
  <2> HIDE DEF k
  <2>2. Ordered(k) /\ Whole(k)
    BY <1>2, <1>3, <2>1 DEF Ordered, Whole
  <2>3. ASSUME NEW S \in Seq(Tokens), NEW P \in Seq(Tokens), Speaks(j, S, P)
        PROVE  Speaks(k, S, P)
    <3>1. Even(j, S, P)
      BY <2>3 DEF Speaks
    <3>2. S \o s = P \o j.text \o asked
      <4> DEFINE x == j.said \o j.text
      <4>1. S \o j.said = P
        BY <3>1 DEF Even
      <4>2. x \in Seq(Tokens) /\ Glue(x, j.said, j.text)
        BY <1>1, ConcatProperties DEF Glue
      <4> HIDE DEF x
      <4>3. Shifted(S, j.said, j.text, x) /\ Shifted(S, x, asked, x \o asked)
        <5>1. Glue(x \o asked, x, asked)
          BY DEF Glue
        <5> QED BY <1>1, <4>2, <5>1, Shift
      <4> QED BY <4>1, <4>3 DEF x, Shifted
    <3> HIDE DEF s
    <3> DEFINE y == P \o j.text \o asked
    <3>3. y \in Seq(Tokens)
      BY <1>1, ConcatProperties
    <3> HIDE DEF y
    <3>4. y \o Out(<<>>) = y
      BY <3>3, NothingOut, ConcatEmptySeq
    <3>5. Due(k, S, P)
      BY <1>2, <2>1, <3>2, <3>4 DEF Due, y
    <3> QED BY <2>1, <3>5 DEF Speaks
  <2>4. Steady(j, k)
    BY <2>1, <2>2, <2>3 DEF Steady
  <2> QED BY <2>4 DEF k, s
<1>6. "check" \in Stages /\ "none" \in Errors
  BY DEF Stages, Errors
<1>7. ASSUME NEW l \in Jobs, l.start = j.start, l.parent = j.parent, l.pc = j.pc,
             l.calls = j.calls, l.results = j.results,
             \A S, P \in Seq(Tokens) : Even(j, S, P) => Settled(l, S, P)
      PROVE  Steady(j, Flush(l, "none", "check"))
  <2> DEFINE k == Flush(l, "none", "check")
  <2>1. FlushHolds(l, k, "check")
    <3>1. Len(l.results) <= Len(l.calls)
      BY <1>7 DEF Fit
    <3> QED BY <1>6, <3>1, FlushDoes
  <2> HIDE DEF k
  <2>2. Ordered(l)
    BY <1>7 DEF Ordered
  <2>3. Ordered(k) /\ Whole(k) /\ k.start = j.start /\ k.parent = j.parent
    BY <1>6, <1>7, <2>1, <2>2, FlushOrdered
  <2>4. ASSUME NEW S \in Seq(Tokens), NEW P \in Seq(Tokens), Speaks(j, S, P)
        PROVE  Speaks(k, S, P)
    <3>1. Even(j, S, P)
      BY <2>4 DEF Speaks
    <3>2. Settled(l, S, P) /\ "check" \in {"check", "stream", "arrived"}
      BY <1>7, <3>1
    <3> QED BY <2>1, <3>2, FlushSpeaks
  <2>5. Steady(j, k)
    BY <2>3, <2>4 DEF Steady
  <2> QED BY <2>5 DEF k
<1>8. Steady(j, Flush(Continued(next, j.said \o j.text), "none", "check"))
  <2> DEFINE s == j.said \o j.text
             l == Continued(next, s)
  <2>1. s \in Seq(Sayings)
    BY SaidType, ConcatProperties
  <2>2. l \in Jobs
    <3> HIDE DEF s
    <3> QED BY <2>1, ContinuedJob
  <2>3. /\ l.start = j.start /\ l.parent = j.parent /\ l.pc = j.pc /\ l.said = s
        /\ l.calls = j.calls /\ l.results = j.results /\ l.text = j.text
    <3> HIDE DEF s
    <3> QED BY <1>1 DEF Jobs, Continued
  <2> HIDE DEF l
  <2>4. ASSUME NEW S \in Seq(Tokens), NEW P \in Seq(Tokens), Even(j, S, P)
        PROVE  Settled(l, S, P)
    <3>1. S \o s = P \o j.text
      <4>1. Glue(s, j.said, j.text)
        BY DEF Glue
      <4> HIDE DEF s
      <4>2. Shifted(S, j.said, j.text, s)
        BY <1>1, <4>1, Shift
      <4> QED BY <2>4, <4>2 DEF Even, Shifted
    <3>2. P \o j.text \o <<>> \o Out(<<>>) = P \o j.text
      BY <1>1, NothingAdded
    <3> HIDE DEF s
    <3> QED BY <1>2, <2>3, <3>1, <3>2 DEF Settled, Owed
  <2>5. Steady(j, Flush(l, "none", "check"))
    BY <1>7, <2>2, <2>3, <2>4
  <2> QED BY <2>5 DEF l
<1>9. ASSUME j.text = <<>> PROVE Steady(j, Flush(Nudged(next), "none", "check"))
  <2> DEFINE l == Nudged(next)
  <2>1. l \in Jobs
    BY NudgedJob
  <2>2. /\ l.start = j.start /\ l.parent = j.parent /\ l.pc = j.pc /\ l.said = j.said
        /\ l.calls = j.calls /\ l.results = j.results /\ l.text = j.text
    BY <1>1 DEF Jobs, Nudged
  <2> HIDE DEF l
  <2>3. ASSUME NEW S \in Seq(Tokens), NEW P \in Seq(Tokens), Even(j, S, P)
        PROVE  Settled(l, S, P)
    <3>1. P \o <<>> \o <<>> \o Out(<<>>) = P
      BY NothingAdded
    <3> QED BY <1>2, <1>9, <2>2, <2>3, <3>1 DEF Settled, Owed, Even
  <2>4. Steady(j, Flush(l, "none", "check"))
    BY <1>7, <2>1, <2>2, <2>3
  <2> QED BY <2>4 DEF l
<1> QED BY <1>4, <1>5, <1>8, <1>9

LEMMA AfterRoundSteady ==
  ASSUME NEW r \in Requests, NEW j \in Jobs, Fit(j), Ordered(j), j.pc \in {"arrived", "spoken"},
         NEW q \in Replies(j)
  PROVE  Steady(j, AfterRound(r, j, q))
<1> DEFINE cut == q.finish = "cut"
           asked == [i \in 1..q.calls |-> <<"call", r, j.used, i>>]
           next == Closed(j, cut, q.reported)
           said == j.said \o j.text
           saids == j.said \o j.text \o asked
<1>1. /\ q.calls \in Nat /\ q.finish \in {"stop", "cut", "refused"}
      /\ q.reported \in BOOLEAN /\ q.parallel \in BOOLEAN /\ cut \in BOOLEAN
  BY BoundsAssumption DEF Replies
<1>2. /\ next \in Jobs /\ SameWords(j, next) /\ next.parent = j.parent /\ next.pc = j.pc
      /\ next.calls = j.calls /\ next.results = j.results /\ next.closed = TRUE
  <2> DEFINE b == q.reported
  <2>1. b \in BOOLEAN /\ cut \in BOOLEAN
    BY <1>1
  <2> HIDE DEF cut, b
  <2>2. ClosedSo(j, Closed(j, cut, b))
    BY <2>1, CloseWords
  <2> QED BY <2>2 DEF b, ClosedSo
<1>3. asked \in Seq(Calls)
  <2>1. r \in Speakers /\ j.used \in Nat
    BY DEF Speakers, Jobs
  <2>2. ASSUME NEW i \in 1..q.calls PROVE <<"call", r, j.used, i>> \in Calls
    BY <1>1, <2>1 DEF Calls
  <2> QED BY <1>1, <2>2
<1> HIDE DEF cut, asked, next
<1> DEFINE kc == Flush(Continued(next, said), "none", "check")
           kn == Flush(Nudged(next), "none", "check")
           ka == Asking(next, asked, q.parallel, saids)
           kf == Moved(next, "finish")
<1>4. /\ Steady(j, kf) /\ Steady(j, ka) /\ Steady(j, kc)
      /\ j.text = <<>> => Steady(j, kn)
  BY <1>1, <1>2, <1>3, ReplySteady
<1>5. CASE ~Final(j) /\ q.calls > 0
  <2>1. AfterRound(r, j, q) = IF q.finish = "refused" THEN kf ELSE ka
    BY <1>5 DEF AfterRound, next, asked, cut, Closed, Moved, Asking
  <2> HIDE DEF kf, ka
  <2> QED BY <1>4, <2>1
<1>6. CASE Final(j) \/ q.calls = 0
  <2>1. AfterRound(r, j, q) =
          IF q.finish = "refused" THEN kf
          ELSE IF ~Final(j) /\ Continues(j, q) THEN kc
          ELSE IF Nudges(j, q) THEN kn ELSE kf
    BY <1>1, <1>6 DEF AfterRound, next, cut, Closed, Moved, Continued, Nudged
  <2>2. Nudges(j, q) => j.text = <<>>
    BY DEF Nudges
  <2> HIDE DEF kc, kn, kf, ka
  <2> QED BY <1>4, <2>1, <2>2
<1> QED BY <1>1, <1>5, <1>6

LEMMA CalledSteady ==
  ASSUME NEW j \in Jobs, Ordered(j), j.pc = "tools", NEW calls, Len(j.results) = Len(j.calls),
         Alike(calls, j.asked, Len(calls)), Alike(calls, j.calls, Len(j.calls))
  PROVE  Steady(j, Called(j, calls))
<1> DEFINE k == Called(j, calls)
<1>1. /\ SameWords(j, k) /\ k.pc = j.pc /\ k.parent = j.parent /\ k.calls = calls
      /\ k.results = j.results /\ k.asked = j.asked
  BY DEF Jobs, Called, SameWords
<1> HIDE DEF k
<1>2. Ordered(k)
  <2>1. Alike(j.results, calls, Len(j.results))
    BY DEF Ordered, Alike
  <2> QED BY <1>1, <2>1 DEF Ordered
<1>3. ASSUME NEW S \in Seq(Tokens), NEW P \in Seq(Tokens), Speaks(j, S, P)
      PROVE  Speaks(k, S, P)
  <2>1. Due(k, S, P)
    BY <1>1, <1>3 DEF Speaks, Due, SameWords
  <2> QED BY <1>1, <2>1 DEF Speaks
<1>4. Steady(j, k)
  BY <1>1, <1>2, <1>3 DEF Steady, Whole, SameWords
<1> QED BY <1>4 DEF k

Level(S, s, P, t) == S \o s = P \o t

LEMMA SaidAlso ==
  ASSUME NEW S \in Seq(Tokens), NEW P \in Seq(Tokens), NEW s \in Seq(Tokens),
         NEW R \in Seq(Calls), NEW c \in Calls, Level(S, s, P, Out(R))
  PROVE  Level(S, Append(s, <<"result", c>>), P, Out(Append(R, c)))
<1> DEFINE x == <<"result", c>>
           xs == <<x>>
<1>1. x \in Tokens /\ xs \in Seq(Tokens)
  BY DEF Tokens
<1>2. Append(s, x) = s \o xs
  BY <1>1, AppendIsConcat
<1>3. Out(Append(R, c)) = Out(R) \o xs /\ Out(R) \in Seq(Tokens)
  <2>1. Glue(Out(Append(R, c)), Out(R), <<<<"result", c>>>>)
    BY OutAppended
  <2> QED BY <2>1, OutIs DEF Glue
<1> HIDE DEF xs, x
<1>4. Shifted(S, s, xs, s \o xs) /\ Shifted(P, Out(R), xs, Out(R) \o xs)
  <2>1. Glue(s \o xs, s, xs) /\ Glue(Out(R) \o xs, Out(R), xs)
    BY DEF Glue
  <2> QED BY <1>1, <1>3, <2>1, Shift
<1>5. S \o s = P \o Out(R)
  BY DEF Level
<1>6. S \o Append(s, x) = P \o Out(Append(R, c))
  BY <1>2, <1>3, <1>4, <1>5 DEF Shifted
<1> QED BY <1>6 DEF Level, x

LEMMA ReturnedSteady ==
  ASSUME NEW j \in Jobs, Fit(j), Ordered(j), j.pc = "tools", Len(j.results) < Len(j.calls)
  PROVE  LET call == j.calls[Len(j.results) + 1]
             returned == [j EXCEPT !.results = Append(@, call),
                                   !.said = Append(@, <<"result", call>>)]
         IN  /\ Len(returned.results) < Len(j.asked) => Steady(j, returned)
             /\ Steady(j, [returned EXCEPT !.pc = "check", !.asked = <<>>, !.parallel = FALSE])
                  \/ Len(returned.results) < Len(j.asked)
<1> DEFINE n == Len(j.results) + 1
           call == j.calls[n]
           results == Append(j.results, call)
           s == Append(j.said, <<"result", call>>)
           k == Returned(j, results, s)
           l == Rested(k)
<1>1. /\ j.calls \in Seq(Calls) /\ j.results \in Seq(Calls) /\ j.said \in Seq(Tokens)
      /\ j.asked \in Seq(Calls) /\ j.text \in Seq(Tokens) /\ j.asked \in Seq(Tokens)
      /\ Len(j.results) \in Nat /\ Len(j.calls) \in Nat /\ Len(j.asked) \in Nat
  BY Utterances
<1>2. call \in Calls /\ n \in 1..Len(j.calls)
  <2>1. n \in 1..Len(j.calls)
    BY <1>1
  <2> QED BY <1>1, <2>1, ElementOfSeq
<1>3. /\ results \in Seq(Calls) /\ Len(results) = n /\ results[n] = call
      /\ \A i \in 1..Len(j.results) : results[i] = j.results[i]
  <2> HIDE DEF call
  <2> QED BY <1>1, <1>2, AppendProperties
<1>4. k = [j EXCEPT !.results = Append(@, call), !.said = Append(@, <<"result", call>>)]
  BY DEF k, results, s, Returned
<1>5. l = [k EXCEPT !.pc = "check", !.asked = <<>>, !.parallel = FALSE]
  BY DEF Rested
<1>6. Alike(results, j.calls, n)
  <2>1. \A i \in 1..n : i \in 1..Len(j.results) \/ i = n
    <3> DEFINE m == Len(j.results)
    <3>1. m \in Nat
      BY <1>1
    <3> HIDE DEF m
    <3>2. \A i \in 1..m + 1 : i \in 1..m \/ i = m + 1
      BY <3>1
    <3> QED BY <3>2 DEF m
  <2>2. \A i \in 1..Len(j.results) : j.results[i] = j.calls[i]
    BY DEF Ordered, Alike
  <2> HIDE DEF results, n
  <2> QED BY <1>3, <2>1, <2>2 DEF Alike, call
<1>7. ASSUME NEW S \in Seq(Tokens), NEW P \in Seq(Tokens), Speaks(j, S, P)
      PROVE  S \o s = P \o j.text \o j.asked \o Out(results)
  <2> DEFINE y == P \o j.text \o j.asked
  <2>1. y \in Seq(Tokens)
    BY <1>1, ConcatProperties
  <2>2. S \o j.said = y \o Out(j.results)
    BY <1>7 DEF Speaks, Due
  <2> HIDE DEF y, call
  <2>4. Level(S, j.said, y, Out(j.results))
    BY <2>2 DEF Level
  <2>3. Level(S, s, y, Out(results))
    BY <1>1, <1>2, <2>1, <2>4, SaidAlso
  <2> QED BY <2>3 DEF y, Level
<1> HIDE DEF results, s
<1>8. /\ k.pc = "tools" /\ k.text = j.text /\ k.said = s /\ k.start = j.start
      /\ k.parent = j.parent /\ k.calls = j.calls /\ k.results = results
      /\ k.closed = j.closed /\ k.asked = j.asked
  BY DEF Jobs, Returned
<1>9. /\ l.pc = "check" /\ l.text = j.text /\ l.said = s /\ l.start = j.start
      /\ l.parent = j.parent /\ l.calls = j.calls /\ l.results = results /\ l.closed = j.closed
  BY DEF Jobs, Returned, Rested
<1> HIDE DEF k, l, n, call
<1>10. Steady(j, k)
  <2>1. Ordered(k) /\ Whole(k)
    BY <1>3, <1>6, <1>8 DEF Ordered, Whole
  <2>2. ASSUME NEW S \in Seq(Tokens), NEW P \in Seq(Tokens), Speaks(j, S, P)
        PROVE  Speaks(k, S, P)
    <3>1. Due(k, S, P)
      BY <1>7, <1>8, <2>2 DEF Due
    <3> QED BY <1>8, <3>1 DEF Speaks
  <2> QED BY <1>8, <2>1, <2>2 DEF Steady
<1>11. ASSUME ~(Len(results) < Len(j.asked)) PROVE Steady(j, l)
  <2>1. Ordered(l) /\ Whole(l)
    BY <1>3, <1>6, <1>9 DEF Ordered, Whole
  <2>2. Len(j.calls) <= Len(j.asked) /\ j.closed
    BY DEF Fit
  <2>3. Len(results) = Len(j.calls) /\ Len(j.calls) = Len(j.asked)
    BY <1>1, <1>2, <1>3, <1>11, <2>2
  <2>4. j.calls = j.asked
    <3>1. \A i \in 1..Len(j.calls) : j.calls[i] = j.asked[i]
      BY DEF Ordered, Alike
    <3> QED BY <1>1, <2>3, <3>1, SeqEqual
  <2>5. ASSUME NEW S \in Seq(Tokens), NEW P \in Seq(Tokens), Speaks(j, S, P)
        PROVE  Speaks(l, S, P)
    <3>1. Settled(l, S, P)
      BY <1>7, <1>9, <2>3, <2>4, <2>5 DEF Settled, Owed
    <3> QED BY <1>9, <2>2, <3>1 DEF Speaks
  <2> QED BY <1>9, <2>1, <2>5 DEF Steady
<1>12. k.results = results
  BY <1>8
<1> QED BY <1>4, <1>5, <1>10, <1>11, <1>12 DEF call, n

(* The steps of the worker that write no row keep its words in step.       *)
LEMMA TurnSteps ==
  ASSUME ChatInv, NEW r \in Requests, Ordered(job[r]),
         \/ MakeClient(r) \/ Load(r) \/ NextRound(r) \/ OverBudget(r) \/ Arrive(r) \/ Speak(r)
         \/ Retry(r) \/ StreamFails(r) \/ RoundEnds(r) \/ CallTool(r) \/ ToolReturns(r)
         \/ ToolsStopped(r) \/ Finish(r) \/ WriteFails(r) \/ Stop(r)
  PROVE  \E k : JobsMove(r, k) /\ (Steady(job[r], k) \/ SameTurn(job[r], k))
<1> DEFINE j == job[r]
           Moves == \E k : JobsMove(r, k) /\ (Steady(j, k) \/ SameTurn(j, k))
<1>1. j \in Jobs /\ Fit(j) /\ Sound(j)
  BY JobIsFit
<1>2. Steady(j, Raise(j)) /\ Steady(j, Lost(j)) /\ Steady(j, Fail(j, "failed"))
  <2>1. Steady(j, Fail(j, "failed")) /\ Steady(j, Fail(j, "stopped"))
    BY <1>1, RaiseSteady
  <2> QED BY <1>1, <2>1, LostSteady DEF Raise
<1>3. CASE MakeClient(r)
  <2>1. Steady(j, Moved(j, "load"))
    <3>1. Passes(j, "load")
      BY <1>3 DEF MakeClient, Passes
    <3> QED BY <1>1, <3>1, MovedSteady
  <2> QED BY <1>2, <1>3, <2>1 DEF MakeClient, JobsMove, Moved
<1>4. CASE Load(r)
  <2>1. Steady(j, Moved(j, "check"))
    <3>1. Passes(j, "check")
      BY <1>4 DEF Load, Passes
    <3> QED BY <1>1, <3>1, MovedSteady
  <2> QED BY <1>2, <1>4, <2>1 DEF Load, JobsMove, Moved
<1>5. CASE NextRound(r)
  <2>1. Steady(j, Moved(j, "stream"))
    <3>1. Passes(j, "stream")
      BY <1>5 DEF NextRound, Passes
    <3> QED BY <1>1, <3>1, MovedSteady
  <2>2. Steady(j, Flush(j, "none", "overbudget")) /\ Steady(j, Flush(j, "none", "stream"))
    BY <1>1, <1>5, FlushSteady DEF NextRound, Stages
  <2> QED BY <1>2, <1>5, <2>1, <2>2 DEF NextRound, JobsMove, Moved
<1>6. CASE OverBudget(r)
  <2> DEFINE notice == [Row("assistant", 0, Nobody) EXCEPT
                          !.text = <<<<"budget", r>>>>, !.error = "budget"]
  <2>1. notice.role = "assistant"
    BY DEF Row
  <2>2. JobsMove(r, [Writing(j, <<notice>>, "release") EXCEPT !.end = "budget"])
    BY <1>6 DEF OverBudget, JobsMove, Writing
  <2> HIDE DEF notice
  <2>3. Steady(j, [Writing(j, <<notice>>, "release") EXCEPT !.end = "budget"])
    BY <1>1, <2>1, NoticeSteady
  <2> QED BY <2>2, <2>3
<1>7. CASE Arrive(r)
  <2> DEFINE l == IF j.closed THEN Flush(j, "none", "arrived") ELSE Moved(j, "arrived")
             k == Tried(l, 0)
  <2>1. j.pc = "stream" /\ "none" \in Errors /\ "arrived" \in Stages /\ "arrived" \in Places
    BY <1>7 DEF Arrive, Errors, Stages, Places, Working, Streaming
  <2>2. Flush(j, "none", "arrived") \in Jobs /\ Moved(j, "arrived") \in Jobs
    BY <1>1, <2>1, FlushJob, MovedJob
  <2>3. Steady(j, Flush(j, "none", "arrived")) /\ (~j.closed => Steady(j, Moved(j, "arrived")))
    <3>1. ~j.closed => Passes(j, "arrived")
      BY <2>1 DEF Passes
    <3>2. ~j.closed => Steady(j, Moved(j, "arrived"))
      BY <1>1, <3>1, MovedSteady
    <3> QED BY <1>1, <2>1, <3>2, FlushSteady
  <2>4. l \in Jobs /\ Steady(j, l)
    BY <2>2, <2>3
  <2>5. JobsMove(r, k)
    BY <1>7 DEF Arrive, JobsMove, Tried, Moved
  <2> HIDE DEF l
  <2>6. SameTurn(l, k)
    BY <2>4 DEF Jobs, Tried, SameTurn, SameWords
  <2> HIDE DEF k
  <2>7. Steady(j, k)
    BY <2>4, <2>6, SteadyThen
  <2> QED BY <2>5, <2>7
<1>8. CASE Speak(r)
  <2>1. Steady(j, Heard(j, <<<<"text", r, j.used>>>>))
    BY <1>1, <1>8, HeardSteady DEF Speak
  <2> QED BY <1>8, <2>1 DEF Speak, JobsMove, Heard
<1>9. CASE Retry(r)
  <2>1. SameTurn(j, Tried(j, 1))
    BY <1>1 DEF Jobs, Tried, SameTurn, SameWords
  <2> QED BY <1>9, <2>1 DEF Retry, JobsMove, Tried
<1>10. CASE StreamFails(r)
  BY <1>2, <1>10 DEF StreamFails, JobsMove
<1>11. CASE RoundEnds(r)
  <2>1. j.pc \in {"arrived", "spoken"}
    BY <1>11 DEF RoundEnds
  <2>2. PICK q \in Replies(j) : job' = [job EXCEPT ![r] = AfterRound(r, @, q)]
    BY <1>11 DEF RoundEnds
  <2>3. Steady(j, AfterRound(r, j, q))
    BY <1>1, <2>1, AfterRoundSteady
  <2> QED BY <2>2, <2>3 DEF JobsMove
<1>12. CASE CallTool(r)
  <2> DEFINE x == j.asked[Len(j.calls) + 1]
             calls == IF j.parallel THEN j.asked ELSE Append(j.calls, x)
  <2>1. /\ j.calls \in Seq(Calls) /\ j.results \in Seq(Calls) /\ j.asked \in Seq(Calls)
        /\ Len(j.calls) \in Nat /\ Len(j.asked) \in Nat
    BY <1>1, Utterances
  <2>2. Len(j.results) < Len(j.asked) /\ Len(j.results) = Len(j.calls) /\ j.pc = "tools"
    BY <1>1, <1>12 DEF CallTool, Fit
  <2>3. Alike(j.calls, j.asked, Len(j.calls))
    BY <2>2 DEF Ordered
  <2>4. Alike(calls, j.asked, Len(calls)) /\ Alike(calls, j.calls, Len(j.calls))
    <3>1. CASE j.parallel
      BY <2>3, <3>1 DEF Alike
    <3>2. CASE ~j.parallel
      <4>1. x \in Calls
        BY <2>1, <2>2
      <4> HIDE DEF x
      <4>2. /\ Len(Append(j.calls, x)) = Len(j.calls) + 1
            /\ Append(j.calls, x)[Len(j.calls) + 1] = x
            /\ \A i \in 1..Len(j.calls) : Append(j.calls, x)[i] = j.calls[i]
        BY <2>1, <4>1, AppendProperties
      <4> DEFINE s == Append(j.calls, x)
                 n == Len(j.calls)
      <4> HIDE DEF s, n
      <4>3. Len(s) = n + 1 /\ s[n + 1] = j.asked[n + 1] /\ n \in Nat
            /\ \A i \in 1..n : s[i] = j.calls[i] /\ j.calls[i] = j.asked[i]
        BY <2>1, <2>3, <4>2 DEF Alike, s, n, x
      <4>4. \A i \in 1..n + 1 : s[i] = j.asked[i]
        BY <4>3
      <4>5. Alike(s, j.asked, Len(s)) /\ Alike(s, j.calls, n)
        BY <4>3, <4>4 DEF Alike
      <4>6. calls = s
        BY <3>2 DEF s
      <4> QED BY <4>5, <4>6 DEF n
    <3> QED BY <3>1, <3>2
  <2>5. JobsMove(r, Called(j, calls))
    BY <1>12 DEF CallTool, JobsMove, Called
  <2> HIDE DEF calls
  <2>6. Steady(j, Called(j, calls))
    BY <1>1, <2>2, <2>4, CalledSteady
  <2> QED BY <2>5, <2>6
<1>13. CASE ToolReturns(r)
  <2>1. j.pc = "tools" /\ Len(j.results) < Len(j.calls)
    BY <1>13 DEF ToolReturns
  <2>2. LET call == j.calls[Len(j.results) + 1]
            returned == [j EXCEPT !.results = Append(@, call),
                                  !.said = Append(@, <<"result", call>>)]
        IN  /\ Len(returned.results) < Len(j.asked) => Steady(j, returned)
            /\ Steady(j, [returned EXCEPT !.pc = "check", !.asked = <<>>, !.parallel = FALSE])
                 \/ Len(returned.results) < Len(j.asked)
    BY <1>1, <2>1, ReturnedSteady
  <2> QED BY <1>13, <2>2 DEF ToolReturns, JobsMove
<1>14. CASE ToolsStopped(r)
  BY <1>2, <1>14 DEF ToolsStopped, JobsMove
<1>15. CASE Finish(r)
  <2> DEFINE l == Flush(j, "none", "release")
             k == Ended(l, "answered")
  <2>1. j.pc = "finish" /\ "none" \in Errors /\ "release" \in Stages
    BY <1>15 DEF Finish, Errors, Stages
  <2>2. l \in Jobs /\ Steady(j, l)
    BY <1>1, <2>1, FlushJob, FlushSteady
  <2>3. JobsMove(r, k)
    BY <1>15 DEF Finish, JobsMove, Ended
  <2> HIDE DEF l
  <2>4. SameTurn(l, k)
    BY <2>2 DEF Jobs, Ended, SameTurn, SameWords
  <2> HIDE DEF k
  <2> QED BY <2>2, <2>3, <2>4, SteadyThen
<1>16. CASE WriteFails(r)
  BY <1>2, <1>16 DEF WriteFails, JobsMove
<1>17. CASE Stop(r)
  <2>1. SameTurn(j, Stopped(j, TRUE))
    BY <1>1 DEF Jobs, Stopped, SameTurn, SameWords
  <2> QED BY <1>17, <2>1 DEF Stop, JobsMove, Stopped
<1> QED BY <1>3, <1>4, <1>5, <1>6, <1>7, <1>8, <1>9, <1>10, <1>11, <1>12, <1>13, <1>14,
           <1>15, <1>16, <1>17

-----------------------------------------------------------------------------
(* What such steps leave of the rows' agreement with a turn.               *)

LEMMA SteadyConverses ==
  ASSUME NEW rs, Parented(rs), NEW j \in Jobs, j.pc \in Working \cup {"ask", "act"},
         j.parent <= Len(rs), Conversing(rs, j), NEW k, Steady(j, k)
  PROVE  Conversing(rs, k)
<1>1. j.start \in Nat /\ j.parent \in Nat /\ j.start <= Len(rs) /\ Len(rs) \in Nat
  BY LenProperties DEF Jobs, Conversing, Parented
<1>2. j.start \in 0..Len(rs) /\ j.parent \in 0..Len(rs)
  BY <1>1
<1>3. k.start = j.start /\ k.parent = j.parent /\ Ordered(k) /\ Whole(k)
  BY DEF Steady
<1> DEFINE S == Before(rs, j)
           P == Said(HistoryIn(rs, j.parent))
<1>4. S \in Seq(Tokens) /\ P \in Seq(Tokens)
  BY <1>2, HistorySaid DEF Before
<1>5. Before(rs, k) = S
  BY <1>3 DEF Before
<1> HIDE DEF S, P
<1>6. Speaks(k, S, P)
  <2>1. CASE Mute(k)
    BY <2>1, MuteSpeaks
  <2>2. CASE ~Mute(k)
    <3>1. j.pc # "write"
      BY <2>2 DEF Steady
    <3>2. Speaks(j, S, P)
      BY <3>1 DEF Conversing, HalfWritten, S, P
    <3> QED BY <1>4, <2>2, <3>2 DEF Steady
  <2> QED BY <2>1, <2>2
<1> QED BY <1>1, <1>3, <1>5, <1>6 DEF Conversing, P

LEMMA SameConverses ==
  ASSUME NEW rs, NEW j, NEW k, SameTurn(j, k), Conversing(rs, j)
  PROVE  Conversing(rs, k)
<1>1. /\ Ordered(k) /\ (Whole(j) => Whole(k)) /\ Before(rs, k) = Before(rs, j)
      /\ \A S, P : Speaks(j, S, P) => Speaks(k, S, P)
  BY SameTurnSpeaks DEF Conversing
<1>2. k.pc = j.pc /\ k.start = j.start /\ k.parent = j.parent
  BY DEF SameTurn, SameWords
<1>3. \A a \in 1..Len(rs) : HalfWritten(rs, j, a) => HalfWritten(rs, k, a)
  BY SameTurnHalf
<1> QED BY <1>1, <1>2, <1>3 DEF Conversing

(* A request that does not work yet, or no more, is in step with any rows. *)
LEMMA IdleConverses ==
  ASSUME NEW rs, NEW j, Ordered(j), j.pc \notin Working \cup {"ask", "act"},
         j.pc \in {"idle", "checked"} => Blank(j)
  PROVE  Conversing(rs, j)
<1>1. /\ j.pc \notin {"client", "load", "check", "stream", "arrived", "spoken", "tools", "write"}
  BY DEF Working, Streaming
<1>2. Whole(j) /\ \A S, P : Speaks(j, S, P)
  BY <1>1 DEF Whole, Speaks
<1> QED BY <1>2 DEF Conversing

LEMMA IdleIsBlank ==
  ASSUME NEW rs, NEW j, Conversing(rs, j), j.pc \notin Working
  PROVE  Ordered(j) /\ (j.pc \in {"idle", "checked", "ask"} => Blank(j))
  BY DEF Conversing, Speaks

-----------------------------------------------------------------------------
(* The rows of a round, one by one.                                        *)

Grown(rt, rs, x) ==
  Len(rt) = Len(rs) + 1 /\ rt[Len(rs) + 1] = x /\ Alike(rt, rs, Len(rs))

Copied(x, m, n) ==
  /\ x.role = m.role /\ x.text = m.text /\ x.calls = m.calls /\ x.call = m.call
  /\ x.error = m.error /\ x.parent = n

(* The turn after a row that was not the last of its round, and after the  *)
(* last.                                                                   *)
GoesOn(j, k, n) ==
  /\ Holding(j, k) /\ k.pc = j.pc /\ k.then = j.then /\ k.closed = j.closed
  /\ k.parent = n /\ k.todo = Tail(j.todo)

IsOver(j, k, n) ==
  /\ k.said = j.said /\ k.start = j.start /\ k.pc = j.then /\ k.parent = n
  /\ k.text = <<>> /\ k.calls = <<>> /\ k.results = <<>> /\ ~k.closed

LEMMA GoesOnSpeaks ==
  ASSUME NEW j, NEW k, NEW n, GoesOn(j, k, n), NEW S, NEW P, Speaks(j, S, P)
  PROVE  Speaks(k, S, P)
<1>1. /\ Settled(j, S, P) => Settled(k, S, P)
      /\ Even(j, S, P) => Even(k, S, P)
      /\ Due(j, S, P) => Due(k, S, P)
      /\ Blank(j) => Blank(k)
  BY DEF GoesOn, Holding, SameWords, Settled, Owed, Even, Due, Blank
<1> QED BY <1>1 DEF Speaks, GoesOn, Holding, SameWords

LEMMA OverOrdered ==
  ASSUME NEW j, j.then \in Stages, NEW k, NEW n, IsOver(j, k, n)
  PROVE  Ordered(k) /\ Whole(k)
<1>1. k.pc # "tools" /\ k.pc # "write" /\ k.results = <<>> /\ Len(<<>>) = 0
  BY DEF IsOver, Stages
<1>2. Alike(k.results, k.calls, Len(k.results))
  BY <1>1 DEF Alike
<1> QED BY <1>1, <1>2 DEF Ordered, Whole

(* Once its round is written a turn has in mind what the rows say.         *)
LEMMA RoundDone ==
  ASSUME NEW rt, Parented(rt), NEW j \in Jobs, j.pc = "write", j.then \in Stages, Ordered(j),
         NEW a, Written(rt, a, j.results), IsReply(j, rt[a]),
         NEW S \in Seq(Tokens), Speaks(j, S, Said(HistoryIn(rt, rt[a].parent))),
         NEW k, IsOver(j, k, Len(rt))
  PROVE  Speaks(k, S, Said(HistoryIn(rt, Len(rt))))
<1>1. CASE j.then \in {"overbudget", "release"}
  BY <1>1, MuteSpeaks DEF Mute, IsOver
<1>2. CASE j.then \notin {"overbudget", "release"}
  <2> DEFINE P == Said(HistoryIn(rt, rt[a].parent))
             Q == Said(HistoryIn(rt, Len(rt)))
             R == j.results
  <2>1. j.then \in {"check", "stream", "arrived"} /\ j.then # "release"
    BY <1>2 DEF Stages
  <2>2. Settled(j, S, P)
    BY <2>1 DEF Speaks
  <2>3. R = j.calls /\ R \in Seq(Calls)
    <3>1. /\ j.calls \in Seq(Calls) /\ j.results \in Seq(Calls)
          /\ Len(j.results) = Len(j.calls)
          /\ \A i \in 1..Len(j.results) : j.results[i] = j.calls[i]
      BY <2>2, Utterances DEF Settled, Ordered, Alike
    <3> QED BY <3>1, SeqEqual
  <2>4. rt[a].error = "none" /\ rt[a].text = j.text /\ rt[a].calls = j.calls
    BY <2>1 DEF IsReply
  <2>5. SettlesAll(rt[a], R)
    BY <2>3, <2>4 DEF SettlesAll
  <2>6. Telling(Q, P, rt[a], R)
    BY <2>4, <2>5, RoundInHistory
  <2>7. Q \in Seq(Tokens)
    <3>1. Len(rt) \in 0..Len(rt)
      BY LenProperties DEF Parented
    <3> QED BY <3>1, HistorySaid
  <2> HIDE DEF P, Q, R
  <2>8. Even(k, S, Q)
    <3>1. Owed(j, S, P)
      BY <2>2 DEF Settled
    <3>2. S \o j.said = Q
      BY <2>4, <2>6, <3>1 DEF Owed, Telling, R
    <3> QED BY <3>2 DEF Even, IsOver
  <2>9. Settled(k, S, Q)
    <3>1. Q \o <<>> \o <<>> \o Out(<<>>) = Q
      BY <2>7, NothingAdded
    <3> QED BY <2>8, <3>1 DEF Settled, Owed, Even, IsOver
  <2>10. Speaks(k, S, Q)
    BY <2>1, <2>8, <2>9 DEF Speaks, IsOver
  <2> QED BY <2>10 DEF Q
<1> QED BY <1>1, <1>2

LEMMA FollowsStill ==
  ASSUME NEW rs, Parented(rs), NEW rt, NEW x, Grown(rt, rs, x), NEW i \in 1..Len(rs),
         FollowsItsCall(rs, i)
  PROVE  FollowsItsCall(rt, i)
<1>1. Len(rs) \in Nat /\ \A l \in 1..Len(rs) : rt[l] = rs[l]
  BY LenProperties DEF Grown, Alike, Parented
<1>2. PICK a \in 1..i - 1 :
        /\ rs[a].role = "assistant" /\ rs[a].error # "budget"
        /\ rs[i].call \in Range(rs[a].calls) /\ rs[i].error # "budget"
        /\ \A l \in a + 1..i : rs[l].role = "tool" /\ rs[l].parent = l - 1
  BY DEF FollowsItsCall
<1>3. a \in 1..Len(rs) /\ \A l \in a + 1..i : l \in 1..Len(rs)
  BY <1>1
<1> QED BY <1>1, <1>2, <1>3 DEF FollowsItsCall

LEMMA ToolsStillFollow ==
  ASSUME NEW rs, Parented(rs), ToolsFollow(rs), NEW rt, NEW x, Grown(rt, rs, x),
         x.role = "tool" => FollowsItsCall(rt, Len(rs) + 1)
  PROVE  ToolsFollow(rt)
<1>1. Len(rs) \in Nat
  BY LenProperties DEF Parented
<1> SUFFICES ASSUME NEW i \in 1..Len(rt), rt[i].role = "tool" PROVE FollowsItsCall(rt, i)
  BY DEF ToolsFollow
<1>2. CASE i = Len(rs) + 1
  BY <1>2 DEF Grown
<1>3. CASE i # Len(rs) + 1
  <2>1. i \in 1..Len(rs)
    BY <1>1, <1>3 DEF Grown
  <2>2. rs[i].role = "tool"
    BY <2>1 DEF Grown, Alike
  <2>3. FollowsItsCall(rs, i)
    BY <2>1, <2>2 DEF ToolsFollow
  <2> QED BY <2>1, <2>3, FollowsStill
<1> QED BY <1>2, <1>3

(* Behind a reply and its first results, the next result follows its call. *)
LEMMA ResultFollows ==
  ASSUME NEW rs, Parented(rs), NEW j \in Jobs, Len(j.results) <= Len(j.calls), Ordered(j),
         NEW a, HalfWritten(rs, j, a), j.todo # <<>>,
         NEW rt, NEW x, Grown(rt, rs, x), Copied(x, j.todo[1], j.parent)
  PROVE  /\ FollowsItsCall(rt, Len(rs) + 1) /\ a \in 1..Len(rs)
         /\ IsResult(x, j.results[Len(rs) + 1 - a]) /\ Len(rs) + 1 - a \in 1..Len(j.results)
<1> DEFINE N == Len(rs)
           w == N - a
<1>1. /\ N \in Nat /\ a \in 1..N /\ a \in Nat /\ w \in Nat /\ w + Len(j.todo) = Len(j.results)
      /\ Len(j.todo) \in Nat /\ Len(j.results) \in Nat /\ Len(j.calls) \in Nat /\ N + 1 - a = w + 1
  <2>1. N \in Nat /\ Len(j.todo) \in Nat /\ Len(j.results) \in Nat /\ Len(j.calls) \in Nat
    <3>1. j.todo \in Seq(Rows)
      BY DEF Jobs
    <3> QED BY <3>1, Utterances, LenProperties DEF Parented
  <2> QED BY <2>1 DEF HalfWritten
<1>2. Len(j.todo) > 0
  <2>1. j.todo \in Seq(Rows)
    BY DEF Jobs
  <2> QED BY <2>1
<1>3. w + 1 \in 1..Len(j.results) /\ w + 1 \in 1..Len(j.calls)
  BY <1>1, <1>2
<1>4. /\ j.parent = N /\ IsReply(j, rs[a])
      /\ \A k \in 1..w : IsResult(rs[a + k], j.results[k]) /\ rs[a + k].parent = a + k - 1
      /\ \A k \in 1..Len(j.todo) : IsResult(j.todo[k], j.results[w + k])
  BY DEF HalfWritten
<1>5. IsResult(x, j.results[w + 1])
  <2>1. 1 \in 1..Len(j.todo)
    BY <1>1, <1>2
  <2>2. IsResult(j.todo[1], j.results[w + 1])
    BY <1>4, <2>1
  <2> QED BY <2>2 DEF Copied, IsResult
<1>6. j.results[w + 1] \in Range(rs[a].calls)
  <2>1. j.results[w + 1] = j.calls[w + 1]
    BY <1>3 DEF Ordered, Alike
  <2>2. DOMAIN j.calls = 1..Len(j.calls)
    BY Utterances, LenProperties
  <2>3. j.calls[w + 1] \in Range(j.calls)
    BY <1>3, <2>2 DEF Range
  <2> QED BY <1>4, <2>1, <2>3 DEF IsReply
<1>7. rt[N + 1] = x /\ \A l \in 1..N : rt[l] = rs[l]
  BY DEF Grown, Alike
<1> HIDE DEF w
<1>8. ASSUME NEW l \in a + 1..N + 1 PROVE rt[l].role = "tool" /\ rt[l].parent = l - 1
  <2>1. CASE l = N + 1
    <3>1. l - 1 = N
      BY <1>1, <2>1
    <3> QED BY <1>4, <1>5, <1>7, <2>1, <3>1 DEF IsResult, Copied
  <2>2. CASE l # N + 1
    <3> DEFINE o == l - a
    <3>1. o \in 1..w /\ a + o = l /\ l \in 1..N
      BY <1>1, <2>2 DEF w
    <3> HIDE DEF o
    <3>2. IsResult(rs[a + o], j.results[o]) /\ rs[a + o].parent = a + o - 1
      BY <1>4, <3>1
    <3>3. rs[a + o] = rs[l] /\ a + o - 1 = l - 1
      BY <1>1, <3>1
    <3>4. IsResult(rs[l], j.results[o])
      BY <3>2, <3>3
    <3>5. rs[l].parent = l - 1
      BY <3>2, <3>3
    <3> QED BY <1>7, <3>1, <3>4, <3>5 DEF IsResult
  <2> QED BY <2>1, <2>2
<1>9. a \in 1..(N + 1) - 1 /\ rt[a] = rs[a]
  BY <1>1, <1>7
<1>10. FollowsItsCall(rt, N + 1)
  BY <1>4, <1>5, <1>6, <1>7, <1>8, <1>9 DEF FollowsItsCall, IsReply, IsResult
<1> QED BY <1>1, <1>3, <1>5, <1>10 DEF w

(* What a half-written round looks like one row later.                     *)
LEMMA HalfGoesOn ==
  ASSUME NEW rs, Parented(rs), NEW j \in Jobs, j.todo # <<>>, NEW a, HalfWritten(rs, j, a),
         NEW rt, NEW x, Grown(rt, rs, x), x.parent = j.parent,
         IsResult(x, j.results[Len(rs) + 1 - a]),
         NEW k, GoesOn(j, k, Len(rs) + 1)
  PROVE  HalfWritten(rt, k, a)
<1> DEFINE N == Len(rs)
           w == N - a
           v == w + 1
<1>1. /\ N \in Nat /\ a \in 1..N /\ a \in Nat /\ w \in Nat /\ w + Len(j.todo) = Len(j.results)
      /\ j.todo \in Seq(Rows) /\ Len(j.todo) \in Nat /\ N + 1 - a = v /\ v \in Nat
  <2>1. N \in Nat /\ j.todo \in Seq(Rows)
    BY LenProperties DEF Jobs, Parented
  <2> QED BY <2>1, LenProperties DEF HalfWritten
<1>2. Len(k.todo) = Len(j.todo) - 1 /\ \A i \in 1..Len(k.todo) : k.todo[i] = j.todo[i + 1]
  BY <1>1 DEF GoesOn
<1>3. /\ j.parent = N /\ IsReply(j, rs[a]) /\ j.pc = "write"
      /\ \A i \in 1..w : IsResult(rs[a + i], j.results[i]) /\ rs[a + i].parent = a + i - 1
      /\ \A i \in 1..Len(j.todo) : IsResult(j.todo[i], j.results[w + i])
  BY DEF HalfWritten
<1>4. /\ k.pc = "write" /\ k.parent = N + 1 /\ k.results = j.results
      /\ k.text = j.text /\ k.calls = j.calls /\ k.then = j.then
  BY <1>3 DEF GoesOn, Holding, SameWords
<1>5. rt[N + 1] = x /\ Len(rt) = N + 1 /\ \A l \in 1..N : rt[l] = rs[l]
  BY DEF Grown, Alike
<1>6. IsReply(k, rt[a])
  BY <1>1, <1>3, <1>4, <1>5 DEF IsReply
<1>7. v + Len(k.todo) = Len(j.results)
  <2> DEFINE p == Len(j.todo)
             q == Len(k.todo)
             o == Len(j.results)
  <2>1. p \in Nat /\ w \in Nat /\ w + p = o /\ q = p - 1
    BY <1>1, <1>2
  <2> HIDE DEF p, q, o, w
  <2>2. (w + 1) + q = o
    BY <2>1
  <2> QED BY <2>2 DEF p, q, o
<1>8. ASSUME NEW i \in 1..v
      PROVE  IsResult(rt[a + i], j.results[i]) /\ rt[a + i].parent = a + i - 1
  <2>1. CASE i = v
    <3>1. a + i = N + 1 /\ a + i - 1 = N
      BY <1>1, <2>1
    <3> QED BY <1>1, <1>3, <1>5, <2>1, <3>1
  <2>2. CASE i # v
    <3>1. i \in 1..w /\ a + i \in 1..N
      BY <1>1, <2>2
    <3>2. IsResult(rs[a + i], j.results[i]) /\ rs[a + i].parent = a + i - 1
      BY <1>3, <3>1
    <3> QED BY <1>5, <3>1, <3>2
  <2> QED BY <2>1, <2>2
<1>9. ASSUME NEW i \in 1..Len(k.todo) PROVE IsResult(k.todo[i], j.results[v + i])
  <2>1. i + 1 \in 1..Len(j.todo) /\ w + (i + 1) = v + i
    BY <1>1, <1>2
  <2>2. IsResult(j.todo[i + 1], j.results[w + (i + 1)])
    BY <1>3, <2>1
  <2> QED BY <1>2, <2>1, <2>2
<1>10. v = Len(rt) - a /\ a \in 1..Len(rt)
  BY <1>1, <1>5
<1> HIDE DEF v, w
<1> QED BY <1>4, <1>5, <1>6, <1>7, <1>8, <1>9, <1>10 DEF HalfWritten

(* The round's rows are all there with the last of them.                   *)
LEMMA HalfEnds ==
  ASSUME NEW rs, Parented(rs), NEW j \in Jobs, Len(j.todo) = 1, NEW a, HalfWritten(rs, j, a),
         NEW rt, NEW x, Grown(rt, rs, x), x.parent = j.parent,
         IsResult(x, j.results[Len(rs) + 1 - a])
  PROVE  Written(rt, a, j.results) /\ IsReply(j, rt[a]) /\ rt[a] = rs[a]
<1> DEFINE N == Len(rs)
           w == N - a
           v == w + 1
<1>1. /\ N \in Nat /\ a \in 1..N /\ a \in Nat /\ w \in Nat /\ v = Len(j.results)
      /\ N + 1 - a = v
  <2>1. N \in Nat
    BY LenProperties DEF Parented
  <2> QED BY <2>1 DEF HalfWritten
<1>3. /\ j.parent = N /\ IsReply(j, rs[a])
      /\ \A i \in 1..w : IsResult(rs[a + i], j.results[i]) /\ rs[a + i].parent = a + i - 1
  BY DEF HalfWritten
<1>5. rt[N + 1] = x /\ Len(rt) = N + 1 /\ \A l \in 1..N : rt[l] = rs[l]
  BY DEF Grown, Alike
<1>6. IsReply(j, rt[a]) /\ rt[a] = rs[a]
  BY <1>1, <1>3, <1>5
<1>8. ASSUME NEW i \in 1..v
      PROVE  IsResult(rt[a + i], j.results[i]) /\ rt[a + i].parent = a + i - 1
  <2>1. CASE i = v
    <3>1. a + i = N + 1 /\ a + i - 1 = N
      BY <1>1, <2>1
    <3> QED BY <1>1, <1>3, <1>5, <2>1, <3>1
  <2>2. CASE i # v
    <3>1. i \in 1..w /\ a + i \in 1..N
      BY <1>1, <2>2
    <3>2. IsResult(rs[a + i], j.results[i]) /\ rs[a + i].parent = a + i - 1
      BY <1>3, <3>1
    <3> QED BY <1>5, <3>1, <3>2
  <2> QED BY <2>1, <2>2
<1>9. Len(rt) = a + Len(j.results) /\ a \in 1..Len(rt)
  BY <1>1, <1>5
<1>10. \A i \in 1..Len(j.results) :
         IsResult(rt[a + i], j.results[i]) /\ rt[a + i].parent = a + i - 1
  BY <1>1, <1>8
<1> HIDE DEF v, w
<1> QED BY <1>6, <1>9, <1>10 DEF Written, IsReply

(* The same for the reply itself, the first row of its round.              *)
LEMMA DraftGoesOn ==
  ASSUME NEW rs, Parented(rs), NEW j \in Jobs, j.pc = "write", j.todo # <<>>, Drafted(j),
         NEW rt, NEW x, Grown(rt, rs, x), Copied(x, j.todo[1], j.parent),
         NEW k, GoesOn(j, k, Len(rs) + 1)
  PROVE  HalfWritten(rt, k, Len(rs) + 1)
<1> DEFINE n == Len(rs) + 1
<1>1. /\ n \in Nat /\ n \in 1..n /\ n - n = 0 /\ j.todo \in Seq(Rows) /\ Len(j.todo) \in Nat
      /\ Len(j.results) \in Nat
  <2>1. Len(rs) \in Nat /\ j.todo \in Seq(Rows)
    BY LenProperties DEF Jobs, Parented
  <2> QED BY <2>1, LenProperties, Utterances
<1>2. Len(k.todo) = Len(j.todo) - 1 /\ \A i \in 1..Len(k.todo) : k.todo[i] = j.todo[i + 1]
  BY <1>1 DEF GoesOn
<1>3. /\ Len(j.todo) = Len(j.results) + 1 /\ IsReply(j, j.todo[1])
      /\ \A i \in 1..Len(j.results) : IsResult(j.todo[i + 1], j.results[i])
  BY DEF Drafted
<1>4. /\ k.pc = "write" /\ k.parent = n /\ k.results = j.results
      /\ k.text = j.text /\ k.calls = j.calls /\ k.then = j.then
  BY DEF GoesOn, Holding, SameWords
<1>5. rt[n] = x /\ Len(rt) = n
  BY DEF Grown
<1>6. IsReply(k, rt[n])
  BY <1>3, <1>4, <1>5 DEF IsReply, Copied
<1> HIDE DEF n
<1>7. 0 + Len(k.todo) = Len(j.results) /\ Len(k.todo) = Len(j.results)
  BY <1>1, <1>2, <1>3
<1>9. ASSUME NEW i \in 1..Len(k.todo) PROVE IsResult(k.todo[i], j.results[0 + i])
  <2>1. 0 + i = i /\ i \in 1..Len(j.results)
    BY <1>7
  <2> QED BY <1>2, <1>3, <2>1
<1>10. Len(rt) - n = 0 /\ n \in 1..Len(rt)
  BY <1>1, <1>5
<1>11. HalfWritten(rt, k, n)
  <2>1. \A i \in 1..0 : FALSE
    OBVIOUS
  <2> QED BY <1>4, <1>5, <1>6, <1>7, <1>9, <1>10, <2>1 DEF HalfWritten
<1> QED BY <1>11 DEF n

LEMMA DraftEnds ==
  ASSUME NEW rs, Parented(rs), NEW j \in Jobs, Len(j.todo) = 1, Drafted(j),
         NEW rt, NEW x, Grown(rt, rs, x), Copied(x, j.todo[1], j.parent)
  PROVE  Written(rt, Len(rs) + 1, j.results) /\ IsReply(j, rt[Len(rs) + 1])
<1>1. Len(rs) \in Nat /\ Len(j.results) \in Nat
  BY LenProperties, Utterances DEF Parented
<1>2. Len(j.results) = 0 /\ IsReply(j, j.todo[1])
  BY <1>1 DEF Drafted
<1>3. rt[Len(rs) + 1] = x /\ Len(rt) = Len(rs) + 1
  BY DEF Grown
<1>4. IsReply(j, x)
  BY <1>2 DEF IsReply, Copied
<1>5. Len(rs) + 1 \in 1..Len(rt) /\ Len(rt) = (Len(rs) + 1) + Len(j.results)
  BY <1>1, <1>2, <1>3
<1>6. \A i \in 1..Len(j.results) : FALSE
  BY <1>2
<1> QED BY <1>3, <1>4, <1>5, <1>6 DEF Written, IsReply

-----------------------------------------------------------------------------
(* A turn that writes a row stays in step with the rows.                   *)
LEMMA WriteConverses ==
  ASSUME NEW rs, Parented(rs), ToolsFollow(rs), NEW rt, Parented(rt),
         NEW j \in Jobs, Fit(j), j.pc = "write", j.parent <= Len(rs), Conversing(rs, j),
         NEW x, Grown(rt, rs, x), Copied(x, j.todo[1], j.parent), NEW k,
         Len(j.todo) > 1 => GoesOn(j, k, Len(rs) + 1),
         Len(j.todo) = 1 => IsOver(j, k, Len(rs) + 1)
  PROVE  ToolsFollow(rt) /\ Conversing(rt, k)
<1> DEFINE N == Len(rs)
           n == N + 1
           S == Before(rs, j)
           Goes == Len(j.todo) > 1 /\ GoesOn(j, k, n)
           Ends1 == Len(j.todo) = 1 /\ IsOver(j, k, n)
<1>1. /\ N \in Nat /\ j.todo \in Seq(Rows) /\ j.todo # <<>> /\ j.then \in Stages
      /\ Len(j.results) <= Len(j.calls) /\ Ordered(j) /\ j.start <= N
      /\ j.start \in Nat /\ j.parent \in Nat
  BY LenProperties DEF Jobs, Parented, Fit, Stages, Conversing, Working
<1>2. /\ j.start \in 0..N /\ j.parent \in 0..N /\ n \in Nat /\ Len(rt) = n /\ rt[n] = x
      /\ Longer(rt, rs)
  BY <1>1 DEF Grown, Longer
<1>3. Goes \/ Ends1
  <2> DEFINE m == Len(j.todo)
  <2>1. m \in Nat /\ m # 0
    BY <1>1
  <2> HIDE DEF m
  <2>2. m > 1 \/ m = 1
    BY <2>1
  <2>3. Len(j.todo) > 1 \/ Len(j.todo) = 1
    BY <2>2 DEF m
  <2> QED BY <2>3
<1>4. k.start = j.start /\ k.parent = n
  BY <1>3 DEF GoesOn, Holding, SameWords, IsOver
<1>5. S \in Seq(Tokens) /\ Before(rt, k) = S /\ k.start <= Len(rt)
  <2>1. Before(rt, k) = S
    BY <1>2, <1>4, HistoryStays DEF Before
  <2>2. S \in Seq(Tokens)
    BY <1>2, HistorySaid DEF Before
  <2> QED BY <1>1, <1>2, <1>4, <2>1, <2>2
<1>6. Ordered(k)
  <2>1. Goes => Ordered(k)
    BY <1>1 DEF Ordered, GoesOn, Holding
  <2>2. Ends1 => Ordered(k)
    BY <1>1, OverOrdered
  <2> QED BY <1>3, <2>1, <2>2
<1> HIDE DEF S
<1>7. CASE Noticed(j)
  <2>1. Ends1 /\ j.todo[1].role = "assistant" /\ j.then = "release"
    BY <1>3, <1>7 DEF Noticed
  <2>2. ToolsFollow(rt)
    <3>1. x.role # "tool"
      BY <2>1 DEF Copied
    <3> QED BY <3>1, ToolsStillFollow
  <2>3. Mute(k) /\ Whole(k)
    BY <1>1, <2>1, OverOrdered DEF Mute, IsOver
  <2> QED BY <1>5, <1>6, <2>2, <2>3, MuteSpeaks DEF Conversing
<1>8. ASSUME Drafted(j), Speaks(j, S, Said(HistoryIn(rs, j.parent)))
      PROVE  ToolsFollow(rt) /\ Conversing(rt, k)
  <2>1. ToolsFollow(rt)
    <3>1. x.role # "tool"
      BY <1>8 DEF Drafted, IsReply, Copied
    <3> QED BY <3>1, ToolsStillFollow
  <2> DEFINE P == Said(HistoryIn(rt, rt[n].parent))
  <2>2. Speaks(j, S, P)
    <3>1. rt[n].parent = j.parent
      BY <1>2 DEF Copied
    <3>2. HistoryIn(rt, j.parent) = HistoryIn(rs, j.parent)
      BY <1>2, HistoryStays
    <3> QED BY <1>8, <3>1, <3>2
  <2>3. CASE Goes
    <3>1. HalfWritten(rt, k, n)
      BY <1>1, <1>8, <2>3, DraftGoesOn
    <3>2. Speaks(k, S, P)
      BY <2>2, <2>3, GoesOnSpeaks
    <3>3. n \in 1..Len(rt)
      BY <1>1, <1>2
    <3> HIDE DEF n
    <3> QED BY <1>5, <1>6, <2>1, <3>1, <3>2, <3>3 DEF Conversing
  <2>4. CASE Ends1
    <3>1. Written(rt, n, j.results) /\ IsReply(j, rt[n])
      BY <1>8, <2>4, DraftEnds
    <3>2. IsOver(j, k, Len(rt)) /\ Whole(k)
      BY <1>1, <1>2, <2>4, OverOrdered
    <3> HIDE DEF n
    <3>3. Speaks(k, S, Said(HistoryIn(rt, Len(rt))))
      BY <1>1, <1>5, <2>2, <3>1, <3>2, RoundDone
    <3> QED BY <1>2, <1>4, <1>5, <1>6, <2>1, <3>2, <3>3 DEF Conversing
  <2> QED BY <1>3, <2>3, <2>4
<1>9. ASSUME NEW a \in 1..N, HalfWritten(rs, j, a), Speaks(j, S, Said(HistoryIn(rs, rs[a].parent)))
      PROVE  ToolsFollow(rt) /\ Conversing(rt, k)
  <2>1. FollowsItsCall(rt, n) /\ IsResult(x, j.results[n - a]) /\ x.parent = j.parent
    BY <1>1, <1>9, ResultFollows DEF Copied
  <2>2. ToolsFollow(rt)
    BY <2>1, ToolsStillFollow
  <2>3. rt[a] = rs[a] /\ a \in 1..Len(rt)
    BY <1>1, <1>2 DEF Grown, Alike
  <2> DEFINE P == Said(HistoryIn(rt, rt[a].parent))
  <2>4. Speaks(j, S, P)
    <3>1. rs[a].parent \in 0..N
      <4>1. rs[a] \in Rows /\ rs[a].parent < a
        BY ElementOfSeq DEF Parented
      <4> QED BY <1>1, <4>1 DEF Rows
    <3>2. HistoryIn(rt, rs[a].parent) = HistoryIn(rs, rs[a].parent)
      BY <1>2, <3>1, HistoryStays
    <3> QED BY <1>9, <2>3, <3>2
  <2>5. CASE Goes
    <3>1. HalfWritten(rt, k, a)
      <4>1. IsResult(x, j.results[Len(rs) + 1 - a]) /\ GoesOn(j, k, Len(rs) + 1)
        BY <2>1, <2>5
      <4> QED BY <1>1, <1>9, <2>1, <4>1, HalfGoesOn
    <3>2. Speaks(k, S, P)
      BY <2>4, <2>5, GoesOnSpeaks
    <3> QED BY <1>5, <1>6, <2>2, <2>3, <3>1, <3>2 DEF Conversing
  <2>6. CASE Ends1
    <3>1. Written(rt, a, j.results) /\ IsReply(j, rt[a])
      <4>1. IsResult(x, j.results[Len(rs) + 1 - a]) /\ Len(j.todo) = 1
        BY <2>1, <2>6
      <4> QED BY <1>9, <2>1, <4>1, HalfEnds
    <3>2. IsOver(j, k, Len(rt)) /\ Whole(k)
      BY <1>1, <1>2, <2>6, OverOrdered
    <3> HIDE DEF n
    <3>3. Speaks(k, S, Said(HistoryIn(rt, Len(rt))))
      BY <1>1, <1>5, <2>4, <3>1, <3>2, RoundDone
    <3> QED BY <1>2, <1>4, <1>5, <1>6, <2>2, <3>2, <3>3 DEF Conversing
  <2> QED BY <1>3, <2>5, <2>6
<1> QED BY <1>7, <1>8, <1>9 DEF Conversing, Whole, S

-----------------------------------------------------------------------------
(* Every result in the rows follows its call, and every turn has in mind   *)
(* what the rows say.                                                      *)

Conversed == ToolsFollow(rows) /\ (gone \/ \A r \in Requests : Conversing(rows, job[r]))

LEMMA InitConverses == Init => Conversed
<1> SUFFICES ASSUME Init PROVE Conversed
  OBVIOUS
<1>1. ToolsFollow(rows)
  BY SeedAssumption DEF Init, ToolsFollow
<1>2. NewJob.pc = "idle" /\ Ordered(NewJob) /\ Blank(NewJob)
  <2>1. Len(<<>>) = 0
    OBVIOUS
  <2> QED BY <2>1 DEF NewJob, Ordered, Alike, Blank
<1>3. NewJob.pc \notin Working \cup {"ask", "act"}
  BY <1>2 DEF Working, Streaming
<1>4. Conversing(rows, NewJob)
  BY <1>2, <1>3, IdleConverses
<1>5. \A r \in Requests : job[r] = NewJob
  BY DEF Init
<1> QED BY <1>1, <1>4, <1>5 DEF Conversed

LEMMA OverConverses == ASSUME NEW rs PROVE Conversing(rs, Over)
<1>1. Over.pc = "done" /\ Ordered(Over)
  <2>1. Len(<<>>) = 0
    OBVIOUS
  <2> QED BY <2>1 DEF Over, NewJob, Ordered, Alike
<1>2. Over.pc \notin Working \cup {"ask", "act"}
  BY <1>1 DEF Working, Streaming
<1> QED BY <1>1, <1>2, IdleConverses

LEMMA RowsParented == ASSUME ChatInv PROVE Parented(rows) /\ Len(rows) \in Nat
  BY Kept DEF Parented, Ids

(* The rows stay and one turn moves.                                       *)
LEMMA OneConverses ==
  ASSUME ChatInv, Conversed, NEW r \in Requests, NEW k, JobsMove(r, k),
         rows' = rows, gone' = gone, ~gone => Conversing(rows, k)
  PROVE  Conversed'
<1>1. job'[r] = k /\ \A s \in Requests : s # r => job'[s] = job[s]
  BY Kept DEF JobsMove
<1>2. ToolsFollow(rows')
  BY DEF Conversed
<1>3. ~gone => \A s \in Requests : Conversing(rows', job'[s])
  BY <1>1 DEF Conversed
<1> QED BY <1>2, <1>3 DEF Conversed

(* A row is written by the one turn that works.                            *)
LEMMA RowConverses ==
  ASSUME ChatInv, Conversed, NEW r \in Requests, job[r].pc \in Working \cup {"ask"},
         ~gone, NEW k, JobsMove(r, k), ToolsFollow(rows'), Conversing(rows', k)
  PROVE  Conversed'
<1>1. job'[r] = k /\ \A s \in Requests : s # r => job'[s] = job[s]
  BY Kept DEF JobsMove
<1>2. ASSUME NEW s \in Requests PROVE Conversing(rows', job'[s])
  <2>1. CASE s # r
    <3>1. job[s].pc \notin Working \cup {"ask", "act"} /\ job'[s] = job[s]
      BY <1>1, <2>1, Alone
    <3>2. Conversing(rows, job[s])
      BY DEF Conversed
    <3>3. Ordered(job[s]) /\ (job[s].pc \in {"idle", "checked"} => Blank(job[s]))
      BY <3>1, <3>2, IdleIsBlank
    <3> QED BY <3>1, <3>3, IdleConverses
  <2> QED BY <1>1, <2>1
<1> QED BY <1>2 DEF Conversed

LEMMA TurnConverses ==
  ASSUME ChatInv, Conversed, NEW r \in Requests,
         \/ MakeClient(r) \/ Load(r) \/ NextRound(r) \/ OverBudget(r) \/ Arrive(r) \/ Speak(r)
         \/ Retry(r) \/ StreamFails(r) \/ RoundEnds(r) \/ CallTool(r) \/ ToolReturns(r)
         \/ ToolsStopped(r) \/ Finish(r) \/ WriteFails(r) \/ Stop(r)
  PROVE  Conversed'
<1> DEFINE j == job[r]
<1>1. j.pc \in Working /\ rows' = rows /\ gone' = gone
  BY WorkerSteps
<1>2. CASE gone
  BY <1>1, <1>2 DEF Conversed
<1>3. CASE ~gone
  <2>1. Conversing(rows, j) /\ Ordered(j)
    BY <1>3 DEF Conversed, Conversing
  <2>2. PICK k : JobsMove(r, k) /\ (Steady(j, k) \/ SameTurn(j, k))
    BY <2>1, TurnSteps
  <2>3. j \in Jobs /\ j.parent <= Len(rows)
    BY <1>3, Kept DEF ChatInv, TypeOK
  <2>4. Conversing(rows, k)
    <3>1. Steady(j, k) => Conversing(rows, k)
      BY <1>1, <2>1, <2>3, RowsParented, SteadyConverses
    <3>2. SameTurn(j, k) => Conversing(rows, k)
      BY <2>1, SameConverses
    <3> QED BY <2>2, <3>1, <3>2
  <2> QED BY <1>1, <2>2, <2>4, OneConverses
<1> QED BY <1>2, <1>3

-----------------------------------------------------------------------------
LEMMA PreflightConverses ==
  ASSUME ChatInv, Conversed, NEW r \in Requests, Begin(r) PROVE Conversed'
<1>1. PICK op \in Ops[r], t \in 0..Len(rows) : Preflight(r, op, t)
  BY DEF Begin
<1> DEFINE j == job[r]
           k == Placed(j, "checked", op, t)
<1>2. JobsMove(r, k) /\ rows' = rows /\ gone' = gone /\ ~gone /\ j.pc = "idle"
  BY <1>1 DEF JobsMove, Preflight, Placed
<1>3. j \in Jobs /\ Conversing(rows, j)
  BY <1>2, Kept DEF Conversed
<1>4. Ordered(j) /\ Blank(j)
  <2>1. j.pc \notin Working
    BY <1>2 DEF Working, Streaming
  <2> QED BY <1>2, <1>3, <2>1, IdleIsBlank
<1>5. /\ k.pc = "checked" /\ k.text = j.text /\ k.said = j.said /\ k.closed = j.closed
      /\ k.results = j.results /\ k.calls = j.calls
  BY <1>3 DEF Jobs, Placed
<1> HIDE DEF k
<1>6. Ordered(k) /\ Blank(k)
  BY <1>4, <1>5 DEF Ordered, Blank
<1>7. k.pc \notin Working \cup {"ask", "act"}
  BY <1>5 DEF Working, Streaming
<1>8. Conversing(rows, k)
  BY <1>6, <1>7, IdleConverses
<1> QED BY <1>2, <1>8, OneConverses

LEMMA OverMoves ==
  ASSUME ChatInv, Conversed, NEW r \in Requests, Refused(r) \/ Release(r) PROVE Conversed'
<1>1. JobsMove(r, Over) /\ rows' = rows /\ gone' = gone
  BY DEF Refused, Release, JobsMove
<1> QED BY <1>1, OverConverses, OneConverses

LEMMA CrashConverses == ASSUME ChatInv, Conversed, Crash PROVE Conversed'
<1>1. rows' = rows /\ gone' = gone
  BY DEF Crash
<1>2. \A r \in Requests : job'[r] = job[r] \/ job'[r] = Over
  BY DEF Crash
<1>3. ToolsFollow(rows')
  BY <1>1 DEF Conversed
<1>4. ~gone => \A r \in Requests : Conversing(rows', job'[r])
  BY <1>1, <1>2, OverConverses DEF Conversed
<1> QED BY <1>1, <1>3, <1>4 DEF Conversed

LEMMA StutterConverses == ASSUME Conversed, UNCHANGED vars PROVE Conversed'
<1>1. rows' = rows /\ gone' = gone /\ job' = job
  BY DEF vars
<1>2. ToolsFollow(rows')
  BY <1>1 DEF Conversed
<1>3. gone' \/ \A r \in Requests : Conversing(rows', job'[r])
  BY <1>1 DEF Conversed
<1> QED BY <1>2, <1>3 DEF Conversed

(* A turn begins, or is about to.                                          *)
LEMMA StartConverses ==
  ASSUME NEW rs, NEW j \in Jobs, Ordered(j), Blank(j), j.pc # "tools", NEW n, n <= Len(rs),
         NEW v \in {"ask", "client", "act"}
  PROVE  Conversing(rs, Started(j, v, n))
<1> DEFINE k == Started(j, v, n)
           S == Before(rs, k)
<1>1. /\ k.pc = v /\ k.start = n /\ k.parent = n /\ k.text = j.text /\ k.said = j.said
      /\ k.closed = j.closed /\ k.results = j.results /\ k.calls = j.calls
  BY DEF Jobs, Started
<1> HIDE DEF k
<1>2. Ordered(k) /\ Blank(k) /\ Whole(k)
  BY <1>1 DEF Ordered, Blank, Whole
<1>3. Said(HistoryIn(rs, k.parent)) = S
  BY <1>1 DEF Before
<1> HIDE DEF S
<1>4. Speaks(k, S, S)
  BY <1>1, <1>2 DEF Speaks
<1> QED BY <1>1, <1>2, <1>3, <1>4 DEF Conversing, S, k

LEMMA AcquireConverses ==
  ASSUME ChatInv, Conversed, NEW r \in Requests, Acquire(r) PROVE Conversed'
<1> DEFINE j == job[r]
           v == CASE j.op \in {"send", "edit"} -> "ask"
                  [] j.op \in {"regenerate", "continue"} -> "client"
                  [] OTHER -> "act"
           k == Started(j, v, j.target)
<1>1. j \in Jobs /\ Fit(j) /\ j.pc = "checked"
  BY JobIsFit DEF Acquire
<1>2. JobsMove(r, k) /\ rows' = rows /\ gone' = gone
  BY DEF Acquire, JobsMove, Started
<1>3. v \in {"ask", "client", "act"}
  BY <1>1 DEF Fit, Jobs, Turns
<1> HIDE DEF v
<1>4. ASSUME ~gone PROVE Conversing(rows, k)
  <2>1. Conversing(rows, j) /\ j.pc \notin Working
    BY <1>1, <1>4 DEF Conversed, Working, Streaming
  <2>2. Ordered(j) /\ Blank(j) /\ j.pc # "tools"
    BY <1>1, <2>1, IdleIsBlank
  <2>3. j.target <= Len(rows)
    BY <1>4 DEF ChatInv, Targets
  <2> QED BY <1>1, <1>3, <2>2, <2>3, StartConverses
<1> HIDE DEF k
<1> QED BY <1>2, <1>4, OneConverses

LEMMA AskFailsConverses ==
  ASSUME ChatInv, Conversed, NEW r \in Requests, AskFails(r) PROVE Conversed'
<1> DEFINE j == job[r]
<1>1. j \in Jobs /\ j.pc = "ask"
  BY Kept DEF AskFails
<1>2. JobsMove(r, Lost(j)) /\ rows' = rows /\ gone' = gone
  BY DEF AskFails, JobsMove
<1>3. ASSUME ~gone PROVE Conversing(rows, Lost(j))
  <2>1. Conversing(rows, j) /\ Ordered(j) /\ j.parent <= Len(rows)
    BY <1>3 DEF Conversed, Conversing, ChatInv, TypeOK
  <2>2. Steady(j, Lost(j))
    BY <1>1, <2>1, LostSteady
  <2> QED BY <1>1, <2>1, <2>2, RowsParented, SteadyConverses
<1> QED BY <1>2, <1>3, OneConverses

LEMMA ActConverses ==
  ASSUME ChatInv, Conversed, NEW r \in Requests, Act(r) PROVE Conversed'
<1> DEFINE j == job[r]
           k == Ended(Moved(j, "release"), "acted")
<1>1. j \in Jobs /\ j.pc = "act"
  BY Kept DEF Act
<1>2. JobsMove(r, k)
  BY DEF Act, JobsMove, Moved, Ended
<1>3. CASE rows' = rows /\ gone' = gone
  <2>1. ASSUME ~gone PROVE Conversing(rows, k)
    <3>1. Conversing(rows, j) /\ Ordered(j) /\ j.parent <= Len(rows)
      BY <2>1 DEF Conversed, Conversing, ChatInv, TypeOK
    <3>2. /\ k.pc = "release" /\ k.start = j.start /\ k.parent = j.parent
          /\ k.results = j.results /\ k.calls = j.calls
      BY <1>1 DEF Jobs, Moved, Ended
    <3> HIDE DEF k
    <3>3. Steady(j, k)
      BY <3>1, <3>2 DEF Steady, Ordered, Whole, Mute
    <3> QED BY <1>1, <3>1, <3>3, RowsParented, SteadyConverses
  <2> HIDE DEF k
  <2> QED BY <1>2, <1>3, <2>1, OneConverses
<1>4. CASE rows' = <<>> /\ gone'
  <2>1. ToolsFollow(rows')
    <3>1. Len(<<>>) = 0
      OBVIOUS
    <3> QED BY <1>4, <3>1 DEF ToolsFollow
  <2> QED BY <1>4, <2>1 DEF Conversed
<1> QED BY <1>3, <1>4 DEF Act

-----------------------------------------------------------------------------
LEMMA RowIsGrown ==
  ASSUME ChatInv, NEW row, NEW p, NEW r, Append1(row, p, r)
  PROVE  Grown(rows', rows, Under(row, p, r))
<1> DEFINE x == Under(row, p, r)
<1>1. rows' = Append(rows, x)
  BY DEF Append1, Under
<1>2. rows \in Seq(Rows)
  BY Kept
<1> HIDE DEF x
<1>3. /\ Len(rows') = Len(rows) + 1 /\ rows'[Len(rows) + 1] = x
      /\ \A i \in 1..Len(rows) : rows'[i] = rows[i]
  BY <1>1, <1>2
<1> QED BY <1>3 DEF Grown, Alike, x

LEMMA AskConverses ==
  ASSUME ChatInv, ChatInv', Conversed, NEW r \in Requests, Ask(r) PROVE Conversed'
<1> DEFINE j == job[r]
           n == Len(rows) + 1
           p == IF j.op = "edit" THEN rows[j.target].parent ELSE ActiveLeaf
           question == [Row("user", 0, r) EXCEPT !.text = <<<<"ask", r>>>>]
           k == Started(j, "client", n)
           x == Under(question, p, r)
<1>1. j \in Jobs /\ j.pc = "ask" /\ Append1(question, p, r) /\ ~gone
  BY Kept DEF Ask, Append1
<1>2. JobsMove(r, k)
  BY DEF Ask, JobsMove, Started
<1>3. x.role = "user"
  BY DEF Under, Row
<1> HIDE DEF question, p
<1>4. Grown(rows', rows, x)
  BY <1>1, RowIsGrown
<1> HIDE DEF x
<1>5. ToolsFollow(rows')
  BY <1>3, <1>4, RowsParented, ToolsStillFollow DEF Conversed
<1>6. Ordered(j) /\ Blank(j)
  <2>1. j.pc \notin Working /\ Conversing(rows, j)
    BY <1>1 DEF Working, Streaming, Conversed
  <2> QED BY <1>1, <2>1, IdleIsBlank
<1>7. n <= Len(rows')
  BY <1>4, RowsParented DEF Grown
<1> HIDE DEF n
<1>8. Conversing(rows', k)
  BY <1>1, <1>6, <1>7, StartConverses
<1> HIDE DEF k
<1> QED BY <1>1, <1>2, <1>5, <1>8, RowConverses

LEMMA WriteKeeps ==
  ASSUME ChatInv, ChatInv', Conversed, NEW r \in Requests, Write(r) PROVE Conversed'
<1> DEFINE j == job[r]
           n == Len(rows) + 1
           row == Head(j.todo)
           l == Wrote(j, n)
           k == IF Len(j.todo) > 1 THEN l ELSE WroteLast(Emptied(l), j.then)
           x == Under(row, j.parent, r)
<1>1. /\ j \in Jobs /\ Fit(j) /\ j.pc = "write" /\ Append1(row, j.parent, r) /\ ~gone
  BY JobIsFit DEF Write, Append1
<1>2. JobsMove(r, k)
  BY DEF Write, JobsMove, Wrote, WroteLast
<1>3. j.todo # <<>> /\ j.todo \in Seq(Rows) /\ row = j.todo[1] /\ row \in Rows
  BY <1>1 DEF Fit, Jobs
<1>4. Grown(rows', rows, x)
  BY <1>1, RowIsGrown
<1>5. Copied(x, j.todo[1], j.parent)
  BY <1>3 DEF Copied, Under, Rows
<1> HIDE DEF row, x
<1>6. j.parent <= Len(rows) /\ Conversing(rows, j) /\ ToolsFollow(rows)
  BY <1>1 DEF ChatInv, TypeOK, Conversed
<1>7. Parented(rows) /\ Parented(rows')
  <2>1. Parented(rows)
    BY RowsParented
  <2>2. rows' \in Seq(Rows) /\ \A i \in 1..Len(rows') : rows'[i].parent < i
    BY DEF ChatInv, TypeOK, Ids
  <2> QED BY <2>1, <2>2 DEF Parented
<1>8. Len(j.todo) > 1 => GoesOn(j, k, n)
  <2>1. GoesOn(j, l, n)
    BY <1>1 DEF Jobs, Wrote, GoesOn, Holding, SameWords
  <2> HIDE DEF l
  <2> QED BY <2>1
<1>9. Len(j.todo) = 1 => IsOver(j, k, n)
  <2> DEFINE m == Emptied(l)
             e == WroteLast(m, j.then)
  <2>1. l \in Jobs /\ l.said = j.said /\ l.start = j.start /\ l.parent = n
    <3>1. n \in Nat
      BY RowsParented
    <3> HIDE DEF n
    <3>2. l \in Jobs
      BY <1>1, <1>3, <3>1, WroteJob
    <3> QED BY <1>1, <3>2 DEF Jobs, Wrote
  <2> HIDE DEF l, n
  <2>2. /\ m.said = j.said /\ m.start = j.start /\ m.parent = n
        /\ m.text = <<>> /\ m.calls = <<>> /\ m.results = <<>> /\ ~m.closed
    BY <2>1 DEF Jobs, Emptied
  <2>3. m \in Jobs
    BY <2>1, EmptiedJob
  <2> HIDE DEF m
  <2>4. IsOver(j, e, n)
    BY <2>2, <2>3 DEF Jobs, WroteLast, IsOver
  <2> HIDE DEF e
  <2>5. Len(j.todo) = 1 => k = e
    BY DEF e, m
  <2> QED BY <2>4, <2>5
<1> HIDE DEF k
<1>10. ToolsFollow(rows') /\ Conversing(rows', k)
  BY <1>1, <1>4, <1>5, <1>6, <1>7, <1>8, <1>9, WriteConverses DEF n
<1>11. j.pc \in Working
  BY <1>1 DEF Working
<1> QED BY <1>1, <1>2, <1>10, <1>11, RowConverses

LEMMA NextConverses == ChatInv /\ Conversed /\ [Next]_vars => Conversed'
<1> SUFFICES ASSUME ChatInv, Conversed, [Next]_vars PROVE Conversed'
  OBVIOUS
<1>0. ChatInv'
  BY NextInv
<1>1. CASE Crash
  BY <1>1, CrashConverses
<1>2. ASSUME NEW r \in Requests, Begin(r) PROVE Conversed'
  BY <1>2, PreflightConverses
<1>3. ASSUME NEW r \in Requests, Work(r) \/ Stop(r) PROVE Conversed'
  <2>1. CASE \/ MakeClient(r) \/ Load(r) \/ NextRound(r) \/ OverBudget(r) \/ Arrive(r) \/ Speak(r)
             \/ Retry(r) \/ StreamFails(r) \/ RoundEnds(r) \/ CallTool(r) \/ ToolReturns(r)
             \/ ToolsStopped(r) \/ Finish(r) \/ WriteFails(r) \/ Stop(r)
    BY <2>1, TurnConverses
  <2>2. CASE Refused(r) \/ Release(r)
    BY <2>2, OverMoves
  <2>3. CASE Acquire(r)
    BY <2>3, AcquireConverses
  <2>4. CASE Ask(r)
    BY <1>0, <2>4, AskConverses
  <2>5. CASE AskFails(r)
    BY <2>5, AskFailsConverses
  <2>6. CASE Act(r)
    BY <2>6, ActConverses
  <2>7. CASE Write(r)
    BY <1>0, <2>7, WriteKeeps
  <2> QED BY <1>3, <2>1, <2>2, <2>3, <2>4, <2>5, <2>6, <2>7 DEF Work
<1>4. CASE UNCHANGED vars
  BY <1>4, StutterConverses
<1> QED BY <1>1, <1>2, <1>3, <1>4 DEF Next

(* Every result row follows the reply that made its call, and every turn   *)
(* that works has said, and is still to write, what the rows say since it  *)
(* began (Conversed), in every state.                                      *)
THEOREM ConversedInvariance == Spec => []Conversed
  BY InitConverses, NextConverses, ChatInvariance, PTL DEF Spec

(***************************************************************************)
(* Whatever was stopped, failed or crashed between two rows, the history a *)
(* turn starts from has every call answered at once, no result without its *)
(* call and no empty reply, and loses no written text and no written       *)
(* result (SendableHistory).                                               *)
(***************************************************************************)
THEOREM HistoryCanBeSent == Spec => []SendableHistory
<1>1. ChatInv /\ Conversed => SendableHistory
  <2> SUFFICES ASSUME ChatInv, Conversed, NEW id \in Ids
               PROVE  LET said == Range(Said(History(id)))
                      IN  /\ Sendable(History(id))
                          /\ \A i \in Range(PathTo(id)) :
                               rows[i].error # "budget" =>
                                 /\ Range(rows[i].text) \subseteq said
                                 /\ rows[i].role = "tool" => <<"result", rows[i].call>> \in said
    BY DEF SendableHistory
  <2> QED BY RowsParented, HistoryIsSendable DEF Conversed
<1> QED BY <1>1, ChatInvariance, ConversedInvariance, PTL

(***************************************************************************)
(* Before every provider call the rows, read back the way the next turn    *)
(* will read them, and the round still buffered say just what the running  *)
(* turn has said, through retries, continuations, nudges, parallel tools   *)
(* and writes that failed half way (TranscriptIsConversation).             *)
(***************************************************************************)
THEOREM TranscriptIsKept == Spec => []TranscriptIsConversation
<1>1. ChatInv /\ Conversed => TranscriptIsConversation
  <2> SUFFICES ASSUME ChatInv, Conversed, NEW r \in Requests,
                      job[r].pc \in {"check", "stream"}, ~gone
               PROVE  Said(History(job[r].start)) \o job[r].said =
                        Said(History(job[r].parent)) \o job[r].text \o job[r].calls
                          \o [i \in DOMAIN job[r].results |-> <<"result", job[r].results[i]>>]
    BY DEF TranscriptIsConversation
  <2> DEFINE j == job[r]
             S == Before(rows, j)
             P == Said(HistoryIn(rows, j.parent))
  <2>1. j \in Jobs /\ j.pc \in Working /\ j.parent <= Len(rows) /\ Conversing(rows, j)
    BY Kept DEF Working, Streaming, ChatInv, TypeOK, Conversed
  <2>2. j.start \in 0..Len(rows) /\ j.parent \in 0..Len(rows)
    BY <2>1, RowsParented DEF Jobs, Conversing
  <2>3. Settled(j, S, P)
    BY <2>1 DEF Conversing, HalfWritten, Speaks
  <2>4. Said(History(j.start)) = S /\ Said(History(j.parent)) = P
    BY <2>2, RowsParented, HistoryIs DEF Before
  <2>5. Out(j.results) = [i \in DOMAIN j.results |-> <<"result", j.results[i]>>]
    BY DEF Out
  <2> HIDE DEF S, P
  <2> QED BY <2>3, <2>4, <2>5 DEF Settled, Owed
<1> QED BY <1>1, ChatInvariance, ConversedInvariance, PTL
=============================================================================
