------------------------------ MODULE Budgets -------------------------------
(***************************************************************************)
(* LLM spend and budgets of one organization (portal/usage_store.py,       *)
(* portal/budgets.py, the writes of portal/budget_routes.py): each metered *)
(* call is counted in the spend book, fires the thresholds it crosses and  *)
(* queues its ledger row; the writer thread stores rows and alerts; budget *)
(* writes go to the database and are then loaded into the budget map.      *)
(*                                                                         *)
(* Calls and budget writes run on threads of their own: a step is what one *)
(* does under one lock or in one transaction.  Every priced call costs one *)
(* unit; unpriced ones count nowhere.                                      *)
(***************************************************************************)
EXTENDS Naturals, Sequences, FiniteSets, Functions

CONSTANTS
  Callers,     \* threads that make metered calls: requests, chat rounds, scans
  Requests,    \* threads that write budgets
  Amounts,     \* what a budget may be
  Initial,     \* the budgets there may be at the start
  QueueSize, BatchSize,
  MaxCalls, MaxWrites, MaxFaults, LastMonth  \* bounds

Scopes == {"org", "project"}
NoBudget == [id |-> 0, amount |-> 0, hard |-> FALSE]
Budgeted == [id : Nat \ {0}, amount : Amounts, hard : BOOLEAN]

(* A budget is positive, and each has an id of its own. *)
ASSUME BudgetsAssumption ==
  /\ IsFiniteSet(Callers)
  /\ Amounts \subseteq Nat \ {0}
  /\ {QueueSize, BatchSize, LastMonth} \subseteq Nat \ {0}
  /\ {MaxCalls, MaxWrites, MaxFaults} \subseteq Nat
  /\ Initial \subseteq [Scopes -> Budgeted \cup {NoBudget}]
  /\ \A b \in Initial :
       /\ b["org"].id <= 2 /\ b["project"].id <= 2
       /\ b["org"].id = b["project"].id => b["org"].id = 0

Months == 1..LastMonth
Ids == 1..MaxWrites + 2  \* of budgets; the initial ones have 1 and 2
BUDGET_THRESHOLDS == {50, 100}  \* 75 is like them

VARIABLES
  month,                  \* what the clock says
  budgets, ledger, alerts,\* the tables
  spend, map, fired,      \* the SpendBook and the BudgetBook
  queue, batch,           \* the UsageWriter: its queue, and what it holds
  caller, write,          \* the threads
  dropped,                \* ghost: a row was dropped since the start
  alertLost,              \* ghost: an alert was dropped, or a process crashed
  calls, writes, faults   \* how many there were

tables == <<budgets, ledger, alerts>>
books == <<spend, map, fired>>
writer == <<queue, batch>>
counts == <<calls, writes, faults>>
vars == <<month, tables, books, writer, caller, write, dropped, alertLost, counts>>

NoBudgets == [s \in Scopes |-> NoBudget]
NoSpend == [s \in Scopes |-> 0]

Idle == [at |-> "idle", covers |-> {}, month |-> 1, spent |-> NoSpend]
NoWrite == [at |-> "idle", put |-> FALSE, loaded |-> NoBudgets]

Init ==
  /\ month = 1
  /\ budgets \in Initial /\ map = budgets
  /\ ledger = [m \in Months |-> NoSpend] /\ alerts = {}
  /\ spend = [month |-> 1, sum |-> NoSpend] /\ fired = {}
  /\ queue = <<>> /\ batch = <<>>
  /\ caller = [c \in Callers |-> Idle] /\ write = [r \in Requests |-> NoWrite]
  /\ dropped = FALSE /\ alertLost = FALSE
  /\ calls = 0 /\ writes = 0 /\ faults = 0

Fault == faults < MaxFaults /\ faults' = faults + 1

MonthEnds ==
  /\ month < LastMonth
  /\ month' = month + 1
  /\ UNCHANGED <<tables, books, writer, caller, write, dropped, alertLost, counts>>

Plus(sum, scopes) == [s \in Scopes |-> IF s \in scopes THEN sum[s] + 1 ELSE sum[s]]

-----------------------------------------------------------------------------
(* The books *)

(* A book of another month reads as no spend. *)
Spent(s) == IF spend.month = month THEN spend.sum[s] ELSE 0

(* blocked_scope *)
Blocked(scopes) ==
  \E s \in scopes : map[s] # NoBudget /\ map[s].hard /\ Spent(s) >= map[s].amount

Crossed(b, spent) == {t \in BUDGET_THRESHOLDS : spent * 100 >= b.amount * t}

Alert(s, t, spent, m) ==
  [scope |-> s, id |-> map[s].id, month |-> m, threshold |-> t, spent |-> spent[s]]

(* _fire: what is newly crossed in month m; older months are forgotten. *)
NewAt(s, spent, m) ==
  {t \in Crossed(map[s], spent[s]) : map[s] # NoBudget /\ <<map[s].id, m, t>> \notin fired}

Newly(scopes, spent, m) ==
  UNION {{Alert(s, t, spent, m) : t \in NewAt(s, spent, m)} : s \in scopes}

Fire(scopes, spent, m) ==
  fired' = {f \in fired : f[2] >= m}
             \cup {<<f.id, m, f.threshold>> : f \in Newly(scopes, spent, m)}

(* The organization's alerts first, each budget's by threshold. *)
Before(f, g) ==
  \/ f.scope = "org" /\ g.scope = "project"
  \/ f.scope = g.scope /\ f.threshold < g.threshold

Sorted(new) ==
  {q \in [1..Cardinality(new) -> new] :
     /\ Range(q) = new
     /\ \A i, j \in DOMAIN q : i < j => Before(q[i], q[j])}

(* put_nowait: past the bound the item is dropped. *)
Full == Len(queue) >= QueueSize
Queued(item) == IF Full THEN queue ELSE Append(queue, item)

PutAll(new) ==
  LET room == QueueSize - Len(queue)
  IN  \E items \in Sorted(new) :
        IF Len(items) <= room
        THEN queue' = queue \o items /\ UNCHANGED alertLost
        ELSE queue' = queue \o SubSeq(items, 1, room) /\ alertLost' = TRUE

-----------------------------------------------------------------------------
(* A metered call: record, or _take_usage for a scan's child, whose every  *)
(* next call is a call here.                                               *)

Start(c) ==
  /\ caller[c].at = "idle" /\ calls < MaxCalls
  /\ \E scopes \in {{"org"}, Scopes} :
       /\ ~Blocked(scopes)
       /\ caller' = [caller EXCEPT ![c] = [Idle EXCEPT !.at = "call", !.covers = scopes]]
  /\ calls' = calls + 1
  /\ UNCHANGED <<month, tables, books, writer, write, dropped, alertLost, writes, faults>>

(* The provider has answered; the row is stamped. *)
Answered(c) ==
  /\ caller[c].at = "call"
  /\ caller' = [caller EXCEPT ![c] = [@ EXCEPT !.at = "add", !.month = month]]
  /\ UNCHANGED <<month, tables, books, writer, write, dropped, alertLost, counts>>

(* Mutant: a row of another month is counted in the book as it is. *)
AddAsIs(row) == [spend EXCEPT !.sum = Plus(@, row.covers)]

(* SpendBook.add: not a past month's; a later month rolls the book over. *)
Added(row) ==
  IF row.month < spend.month THEN spend
  ELSE [month |-> row.month,
        sum |-> Plus(IF row.month > spend.month THEN NoSpend ELSE spend.sum,
                     row.covers)]

Add(c) ==
  /\ caller[c].at = "add"
  /\ spend' = Added(caller[c])
  /\ caller' = [caller EXCEPT ![c] =
       [@ EXCEPT !.at = IF caller[c].month < spend.month THEN "submit" ELSE "hook",
                 !.spent = IF caller[c].month < spend.month THEN NoSpend ELSE spend'.sum]]
  /\ UNCHANGED <<month, tables, map, fired, writer, write, dropped, alertLost, counts>>

(* on_add, outside the book's lock; UsageWriter.call for each alert. *)
Hook(c) ==
  LET row == caller[c]
  IN  /\ row.at = "hook"
      /\ Fire(row.covers, row.spent, row.month)
      /\ PutAll(Newly(row.covers, row.spent, row.month))
      /\ caller' = [caller EXCEPT ![c] = [@ EXCEPT !.at = "submit", !.spent = NoSpend]]
      /\ UNCHANGED <<month, tables, spend, map, batch, write, dropped, counts>>

Row(c) == [scope |-> "row", covers |-> caller[c].covers, month |-> caller[c].month]

Submit(c) ==
  /\ caller[c].at = "submit"
  /\ queue' = Queued(Row(c))
  /\ dropped' = (dropped \/ Full)
  /\ caller' = [caller EXCEPT ![c] = Idle]
  /\ UNCHANGED <<month, tables, books, batch, write, alertLost, counts>>

-----------------------------------------------------------------------------
(* The writer thread: _run, _write, record_alert *)

WriterRest == <<month, budgets, books, caller, write, calls, writes>>

TakeRow ==
  /\ queue # <<>> /\ Head(queue).scope = "row" /\ Len(batch) < BatchSize
  /\ queue' = Tail(queue) /\ batch' = Append(batch, Head(queue))
  /\ UNCHANGED <<WriterRest, ledger, alerts, dropped, alertLost, faults>>

Counts(item, s, m) == item.scope = "row" /\ item.month = m /\ s \in item.covers
Counted(items, s, m) == Cardinality({i \in DOMAIN items : Counts(items[i], s, m)})

(* The batch, or what the retry row by row could store: here all or none. *)
WriteBatch ==
  /\ batch # <<>>
  /\ \/ /\ ledger' = [m \in Months |->
                        [s \in Scopes |-> ledger[m][s] + Counted(batch, s, m)]]
        /\ UNCHANGED <<dropped, faults>>
     \/ Fault /\ dropped' = TRUE /\ UNCHANGED ledger
  /\ batch' = <<>>
  /\ UNCHANGED <<WriterRest, queue, alerts, alertLost>>

(* Nothing for a budget deleted meanwhile, or one recorded before. *)
RecordAlert ==
  LET a == Head(queue)
  IN  /\ queue # <<>> /\ a.scope # "row" /\ batch = <<>>
      /\ queue' = Tail(queue)
      /\ alerts' = IF \/ \A s \in Scopes : budgets[s].id # a.id
                      \/ \E old \in alerts : /\ old.id = a.id /\ old.month = a.month
                                             /\ old.threshold = a.threshold
                   THEN alerts ELSE alerts \cup {a}
      /\ UNCHANGED <<WriterRest, ledger, batch, dropped, alertLost, faults>>

-----------------------------------------------------------------------------
(* Budget writes: _write or _delete under the organization's lock, then    *)
(* _after_write outside it.                                                *)

Validated(s, amount) ==
  IF s = "org" THEN budgets["project"].amount <= amount
  ELSE budgets["org"] = NoBudget \/ amount <= budgets["org"].amount

CommitPut(r) ==
  /\ write[r].at = "idle" /\ writes < MaxWrites
  /\ \E s \in Scopes, amount \in Amounts, hard \in BOOLEAN :
       /\ Validated(s, amount)
       /\ budgets' = [budgets EXCEPT ![s] =
            [id |-> IF @ = NoBudget THEN writes + 3 ELSE @.id,
             amount |-> amount, hard |-> hard]]
  /\ write' = [write EXCEPT ![r] = [NoWrite EXCEPT !.at = "load", !.put = TRUE]]
  /\ writes' = writes + 1
  /\ UNCHANGED <<month, ledger, alerts, books, writer, caller, dropped, alertLost,
                 calls, faults>>

(* The budget's alerts go with its row. *)
CommitDelete(r) ==
  /\ write[r].at = "idle" /\ writes < MaxWrites
  /\ \E s \in Scopes :
       /\ budgets[s] # NoBudget
       /\ budgets' = [budgets EXCEPT ![s] = NoBudget]
       /\ alerts' = {a \in alerts : a.id # budgets[s].id}
  /\ write' = [write EXCEPT ![r] = [NoWrite EXCEPT !.at = "load"]]
  /\ writes' = writes + 1
  /\ UNCHANGED <<month, ledger, books, writer, caller, dropped, alertLost, calls, faults>>

(* load_budgets *)
Load(r) ==
  /\ write[r].at = "load"
  /\ write' = [write EXCEPT ![r] = [@ EXCEPT !.at = "set", !.loaded = budgets]]
  /\ UNCHANGED <<month, tables, books, writer, caller, dropped, alertLost, counts>>

(* Mutant: the map is left to the next start. *)
LoadedNever(r) == map

Loaded(r) == write[r].loaded

(* set_org: what fired for budgets that are gone is forgotten. *)
SetOrg(r) ==
  /\ write[r].at = "set"
  /\ map' = Loaded(r)
  /\ fired' = LET gone == {map[s].id : s \in Scopes} \ {Loaded(r)[s].id : s \in Scopes}
              IN  {f \in fired : f[1] \notin gone}
  /\ write' = [write EXCEPT ![r] =
       IF write[r].put THEN [NoWrite EXCEPT !.at = "evaluate"] ELSE NoWrite]
  /\ UNCHANGED <<month, tables, spend, writer, caller, dropped, alertLost, counts>>

(* Mutant: a budget write fires nothing. *)
EvaluatedNone == {}

(* A stale month reads as no spend. *)
SpentNow == [s \in Scopes |-> Spent(s)]
Evaluated == Newly(Scopes, SpentNow, spend.month)

(* evaluate_org, and its alerts. *)
Evaluate(r) ==
  /\ write[r].at = "evaluate"
  /\ Fire(Scopes, SpentNow, spend.month)
  /\ PutAll(Evaluated)
  /\ write' = [write EXCEPT ![r] = NoWrite]
  /\ UNCHANGED <<month, tables, spend, map, batch, caller, dropped, counts>>

-----------------------------------------------------------------------------

(* seed_spend_book *)
Seeded == [month |-> month, sum |-> ledger[month]]

(* A crash and the next start: _seed_usage. *)
Crash ==
  /\ Fault
  /\ spend' = Seeded /\ map' = budgets
  /\ fired' = {<<a.id, a.month, a.threshold>> : a \in {b \in alerts : b.month = month}}
  /\ queue' = <<>> /\ batch' = <<>>
  /\ caller' = [c \in Callers |-> Idle] /\ write' = [r \in Requests |-> NoWrite]
  /\ dropped' = FALSE /\ alertLost' = TRUE
  /\ UNCHANGED <<month, tables, calls, writes>>

(* The steps of a call, of a budget write and of the writer thread *)
Recording(c) == Answered(c) \/ Add(c) \/ Hook(c) \/ Submit(c)
Reloading(r) == Load(r) \/ SetOrg(r) \/ Evaluate(r)
Writing == TakeRow \/ WriteBatch \/ RecordAlert

Next ==
  \/ \E c \in Callers : Start(c) \/ Recording(c)
  \/ \E r \in Requests : CommitPut(r) \/ CommitDelete(r) \/ Reloading(r)
  \/ Writing
  \/ MonthEnds \/ Crash

Spec == Init /\ [][Next]_vars

-----------------------------------------------------------------------------

Sums == [Scopes -> Nat]
Alerts == [scope : Scopes, id : Ids, month : Months,
           threshold : BUDGET_THRESHOLDS, spent : Nat]
Rows == [scope : {"row"}, covers : SUBSET Scopes, month : Months]
BudgetMaps == [Scopes -> {b \in Budgeted : b.id \in Ids} \cup {NoBudget}]

TypeOK ==
  /\ month \in Months
  /\ budgets \in BudgetMaps /\ map \in BudgetMaps
  /\ ledger \in [Months -> Sums] /\ alerts \subseteq Alerts
  /\ spend \in [month : Months, sum : Sums]
  /\ fired \subseteq Ids \X Months \X BUDGET_THRESHOLDS
  /\ queue \in Seq(Alerts \cup Rows) /\ Len(queue) <= QueueSize
  /\ batch \in Seq(Rows) /\ Len(batch) <= BatchSize
  /\ caller \in [Callers -> [at : {"idle", "call", "add", "hook", "submit"},
                             covers : SUBSET Scopes, month : Months, spent : Sums]]
  /\ write \in [Requests -> [at : {"idle", "load", "set", "evaluate"},
                             put : BOOLEAN, loaded : BudgetMaps]]
  /\ {calls, writes, faults} \subseteq Nat /\ writes <= MaxWrites
  /\ {dropped, alertLost} \subseteq BOOLEAN

(***************************************************************************)
(* The spend book is what the ledger will be: every call of its month is   *)
(* counted once, be its row stored, held, queued, on its way or (then the  *)
(* book is ahead) dropped, over month ends, crashes and seedings.  So no   *)
(* budget stops anybody in a month in which nothing was spent.             *)
(***************************************************************************)
Pending(s) ==
  {c \in Callers : /\ caller[c].at \in {"hook", "submit"}
                   /\ caller[c].month = spend.month /\ s \in caller[c].covers}

OnTheirWay(s) ==
  Counted(batch, s, spend.month) + Counted(queue, s, spend.month)
    + Cardinality(Pending(s))

BookAccounts ==
  /\ TypeOK
  /\ \A s \in Scopes :
       LET due == ledger[spend.month][s] + OnTheirWay(s)
       IN  /\ spend.sum[s] >= due
           /\ ~dropped => spend.sum[s] = due
           /\ Blocked({s}) => spend.month = month /\ (due > 0 \/ dropped)

(***************************************************************************)
(* A hard stop holds whatever was dropped or lost: while no budget write   *)
(* is under way, no call starts that a budget in the database covers whose *)
(* amount the month's ledger has reached.                                  *)
(***************************************************************************)
Exhausted(scopes) ==
  \E s \in scopes : /\ budgets[s] # NoBudget /\ budgets[s].hard
                    /\ ledger[month][s] >= budgets[s].amount

StopHolds ==
  [][\A c \in Callers :
       /\ caller[c].at = "idle" /\ caller'[c].at = "call"
       /\ \A r \in Requests : write[r].at = "idle"
       => ~Exhausted(caller'[c].covers)]_vars

(***************************************************************************)
(* Each crossed threshold is recorded, whichever of a call and a budget    *)
(* write saw it: once the ledger has reached it the alert is in the table  *)
(* or on its way, unless the queue was full or the process crashed.        *)
(***************************************************************************)
Recorded(s, t) ==
  \E a \in alerts \cup {i \in Range(queue) : i.scope # "row"} :
    a.id = budgets[s].id /\ a.month = month /\ a.threshold = t

CrossingsRecorded ==
  ~alertLost /\ (\A r \in Requests : write[r].at = "idle") =>
    \A s \in Scopes : budgets[s] # NoBudget =>
      \A t \in Crossed(budgets[s], ledger[month][s]) : Recorded(s, t)

=============================================================================
