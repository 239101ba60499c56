--------------------------- MODULE BudgetsProofs ----------------------------
(***************************************************************************)
(* What the books and the alerts of Budgets promise, for every number of   *)
(* calls, months, faults and every length of the queue.                    *)
(*                                                                         *)
(* BookInv says that the spend book is the ledger plus what is on its way  *)
(* to it: rows are counted in the batch and in the queue, calls in the set *)
(* Pending of those counted and not yet queued.  Each step moves a count   *)
(* from one of the three to another, or drops it and says so.              *)
(*                                                                         *)
(* AlertInv adds the other two halves: the map is the table (MapOK), and a *)
(* threshold that has not fired has not been crossed by the calls that     *)
(* have gone through their hook (FiredOK), while one that has fired is in  *)
(* the table or queued (FiredRecorded).  MapOK holds for one budget write  *)
(* at a time: with two, the map may keep what the older of two loads read. *)
(* That is the hypothesis of the last two theorems.                        *)
(***************************************************************************)
EXTENDS Budgets, FiniteSetTheorems, SequenceTheorems, TLAPS

Hits(items, s, m) == {i \in DOMAIN items : Counts(items[i], s, m)}

(* A count is a number. *)
LEMMA CountType ==
  ASSUME NEW S, NEW items \in Seq(S), NEW s, NEW m
  PROVE  /\ IsFiniteSet(Hits(items, s, m))
         /\ Counted(items, s, m) = Cardinality(Hits(items, s, m))
         /\ Counted(items, s, m) \in Nat
<1>1. Hits(items, s, m) \in SUBSET (1..Len(items))
  BY DEF Hits
<1>2. IsFiniteSet(1..Len(items))
  BY FS_Interval
<1> QED BY <1>1, <1>2, FS_Subset, FS_CardinalityType DEF Counted, Hits

(* Nothing counts where nothing counts. *)
LEMMA CountNone ==
  ASSUME NEW items, NEW s, NEW m, \A i \in DOMAIN items : ~Counts(items[i], s, m)
  PROVE  Counted(items, s, m) = 0
<1>1. Hits(items, s, m) = {}
  BY DEF Hits
<1> QED BY <1>1, FS_EmptySet DEF Counted, Hits

(* An item that counts counts once. *)
LEMMA CountAppend ==
  ASSUME NEW S, NEW items \in Seq(S), NEW x \in S, NEW s, NEW m
  PROVE  Counted(Append(items, x), s, m)
           = Counted(items, s, m) + (IF Counts(x, s, m) THEN 1 ELSE 0)
<1> DEFINE more == Append(items, x)
<1>1. /\ more \in Seq(S) /\ DOMAIN more = 1..Len(items) + 1
      /\ \A i \in 1..Len(items) : more[i] = items[i]
      /\ more[Len(items) + 1] = x
      /\ DOMAIN items = 1..Len(items) /\ Len(items) \in Nat
  OBVIOUS
<1>2. Hits(more, s, m) = IF Counts(x, s, m) THEN Hits(items, s, m) \cup {Len(items) + 1}
                         ELSE Hits(items, s, m)
  <2> HIDE DEF more
  <2>1. ASSUME NEW i
        PROVE  i \in Hits(more, s, m)
                 <=> i \in Hits(items, s, m) \/ (i = Len(items) + 1 /\ Counts(x, s, m))
    <3>1. CASE i \in 1..Len(items)
      BY <1>1, <3>1 DEF Hits
    <3>2. CASE i = Len(items) + 1
      BY <1>1, <3>2 DEF Hits
    <3> QED BY <1>1, <3>1, <3>2 DEF Hits
  <2>2. CASE Counts(x, s, m)
    BY <2>1, <2>2
  <2>3. CASE ~Counts(x, s, m)
    BY <2>1, <2>3
  <2> QED BY <2>2, <2>3
<1>3. Len(items) + 1 \notin Hits(items, s, m)
  BY <1>1 DEF Hits
<1>4. Counted(more, s, m) = Cardinality(Hits(more, s, m))
  BY DEF Counted, Hits
<1>5. CASE Counts(x, s, m)
  <2>1. /\ IsFiniteSet(Hits(items, s, m))
        /\ Counted(items, s, m) = Cardinality(Hits(items, s, m))
    BY CountType
  <2>2. Cardinality(Hits(items, s, m) \cup {Len(items) + 1}) = Counted(items, s, m) + 1
    BY <1>3, <2>1, FS_AddElement
  <2> QED BY <1>2, <1>4, <1>5, <2>2
<1>6. CASE ~Counts(x, s, m)
  BY <1>2, <1>4, <1>6, CountType
<1> QED BY <1>5, <1>6

(* The first item is counted, then the others are. *)
LEMMA CountTail ==
  ASSUME NEW S, NEW items \in Seq(S), items # <<>>, NEW s, NEW m
  PROVE  Counted(items, s, m)
           = Counted(Tail(items), s, m) + (IF Counts(Head(items), s, m) THEN 1 ELSE 0)
<1> DEFINE rest == Tail(items)
           A == Hits(rest, s, m)
           B == Hits(items, s, m)
           f == [i \in A |-> i + 1]
<1>1. /\ rest \in Seq(S) /\ Len(items) \in Nat /\ Len(items) > 0
      /\ DOMAIN rest = 1..(Len(items) - 1) /\ DOMAIN items = 1..Len(items)
      /\ \A i \in 1..(Len(items) - 1) : rest[i] = items[i + 1]
      /\ Head(items) = items[1]
  OBVIOUS
<1> HIDE DEF rest
<1>2. f \in Bijection(A, B \ {1})
  <2>1. \A i \in A : i \in Nat /\ i + 1 \in B \ {1}
    BY <1>1 DEF Hits
  <2>2. \A j \in B \ {1} : j - 1 \in A /\ (j - 1) + 1 = j
    <3> SUFFICES ASSUME NEW j \in B \ {1} PROVE j - 1 \in A /\ (j - 1) + 1 = j
      OBVIOUS
    <3>1. j \in 2..Len(items) /\ Counts(items[j], s, m)
      BY <1>1 DEF Hits
    <3>2. j - 1 \in 1..(Len(items) - 1) /\ rest[j - 1] = items[j]
      BY <1>1, <3>1
    <3> QED BY <1>1, <3>1, <3>2 DEF Hits
  <2> HIDE DEF A, B
  <2>3. f \in [A -> B \ {1}]
    BY <2>1
  <2>4. IsInjective(f)
    BY <2>1 DEF IsInjective
  <2>5. \A j \in B \ {1} : \E i \in A : f[i] = j
    BY <2>2
  <2> QED BY <2>3, <2>4, <2>5 DEF Bijection, Injection, Surjection
<1>3. Cardinality(B \ {1}) = Cardinality(A) /\ IsFiniteSet(A) /\ IsFiniteSet(B)
  <2>1. IsFiniteSet(A) /\ IsFiniteSet(B)
    BY <1>1, CountType
  <2> HIDE DEF A, B, f
  <2>2. ExistsBijection(A, B \ {1})
    BY <1>2 DEF ExistsBijection
  <2> QED BY <2>1, <2>2, FS_Bijection
<1>4. 1 \in B <=> Counts(Head(items), s, m)
  BY <1>1 DEF Hits
<1>5. Cardinality(B) \in Nat /\ Cardinality(B \ {1}) = IF 1 \in B THEN Cardinality(B) - 1 ELSE Cardinality(B)
  <2> HIDE DEF A, B
  <2> QED BY <1>3, FS_RemoveElement, FS_CardinalityType
<1>6. Counted(rest, s, m) = Cardinality(A) /\ Counted(items, s, m) = Cardinality(B)
  BY <1>1, CountType
<1> HIDE DEF A, B
<1> QED BY <1>3, <1>4, <1>5, <1>6 DEF rest

(* Alerts count for nothing. *)
LEMMA CountAlerts ==
  ASSUME NEW S, NEW items \in Seq(S), NEW more \in Seq(S), NEW s, NEW m,
         \A i \in DOMAIN more : ~Counts(more[i], s, m)
  PROVE  Counted(items \o more, s, m) = Counted(items, s, m)
<1> DEFINE all == items \o more
<1>1. /\ DOMAIN all = 1..(Len(items) + Len(more))
      /\ DOMAIN items = 1..Len(items) /\ DOMAIN more = 1..Len(more)
      /\ Len(items) \in Nat /\ Len(more) \in Nat
      /\ \A i \in 1..Len(items) : all[i] = items[i]
      /\ \A i \in (Len(items) + 1)..(Len(items) + Len(more)) : all[i] = more[i - Len(items)]
  OBVIOUS
<1> HIDE DEF all
<1>2. ASSUME NEW i PROVE i \in Hits(all, s, m) <=> i \in Hits(items, s, m)
  <2>1. CASE i \in 1..Len(items)
    BY <1>1, <2>1 DEF Hits
  <2>2. CASE i \in (Len(items) + 1)..(Len(items) + Len(more))
    <3>1. i - Len(items) \in DOMAIN more
      BY <1>1, <2>2
    <3> QED BY <1>1, <2>2, <3>1 DEF Hits
  <2> QED BY <1>1, <2>1, <2>2 DEF Hits
<1>3. Hits(all, s, m) = Hits(items, s, m)
  BY <1>2
<1> QED BY <1>3 DEF Counted, Hits, all

-----------------------------------------------------------------------------
(* The types *)

USE BudgetsAssumption DEF Scopes, BUDGET_THRESHOLDS, Months, Ids

(* An amount is positive, and so is the id of a budget. *)
LEMMA BudgetTypes ==
  ASSUME NEW b \in BudgetMaps, NEW s \in Scopes
  PROVE  /\ b[s].id \in Nat /\ b[s].amount \in Nat /\ b[s].hard \in BOOLEAN
         /\ b[s].amount \in Amounts \cup {0}
         /\ b[s] = NoBudget <=> b[s].id = 0
         /\ b[s] # NoBudget => b[s].id \in Ids /\ b[s].amount > 0 /\ b[s] \in Budgeted
<1>1. b[s] \in {x \in Budgeted : x.id \in Ids} \cup {NoBudget}
  BY DEF BudgetMaps
<1>2. CASE b[s] = NoBudget
  BY <1>2 DEF NoBudget
<1>3. CASE b[s] \in Budgeted /\ b[s].id \in Ids
  <2>1. /\ b[s].id \in Nat \ {0} /\ b[s].amount \in Amounts /\ b[s].hard \in BOOLEAN
        /\ b[s].amount \in Nat \ {0}
    BY <1>3 DEF Budgeted
  <2>2. b[s] # NoBudget
    BY <2>1 DEF NoBudget
  <2> QED BY <1>3, <2>1, <2>2
<1> QED BY <1>1, <1>2, <1>3

(* What _fire finds are finitely many alerts of budgets there are. *)
LEMMA NewlyFound ==
  ASSUME TypeOK, NEW scopes \in SUBSET Scopes, NEW spent \in Sums, NEW m \in Months
  PROVE  /\ Newly(scopes, spent, m) \subseteq Alerts
         /\ IsFiniteSet(Newly(scopes, spent, m))
         /\ \A f \in Newly(scopes, spent, m) :
              \E s \in scopes, t \in BUDGET_THRESHOLDS :
                f = Alert(s, t, spent, m) /\ t \in NewAt(s, spent, m)
         /\ \A s \in scopes : \A t \in NewAt(s, spent, m) :
              Alert(s, t, spent, m) \in Newly(scopes, spent, m)
<1>1. ASSUME NEW f \in Newly(scopes, spent, m)
      PROVE  \E s \in scopes, t \in BUDGET_THRESHOLDS :
               f = Alert(s, t, spent, m) /\ t \in NewAt(s, spent, m)
  <2>1. PICK s \in scopes : f \in {Alert(s, t, spent, m) : t \in NewAt(s, spent, m)}
    BY DEF Newly
  <2>2. PICK t \in NewAt(s, spent, m) : f = Alert(s, t, spent, m)
    BY <2>1
  <2>3. t \in BUDGET_THRESHOLDS
    BY <2>2 DEF NewAt, Crossed
  <2> QED BY <2>2, <2>3
<1>2. ASSUME NEW f \in Newly(scopes, spent, m) PROVE f \in Alerts
  <2>1. PICK s \in scopes, t \in BUDGET_THRESHOLDS :
               f = Alert(s, t, spent, m) /\ t \in NewAt(s, spent, m)
    BY <1>1
  <2>2. map[s].id \in Ids
    <3>1. map[s] # NoBudget /\ map \in BudgetMaps /\ s \in Scopes
      BY <2>1 DEF NewAt, TypeOK
    <3> QED BY <3>1, BudgetTypes
  <2> QED BY <2>1, <2>2 DEF Alert, Alerts, Sums
<1>3. IsFiniteSet(Newly(scopes, spent, m))
  <2> DEFINE a == Alert("org", 50, spent, m)
             b == Alert("org", 100, spent, m)
             c == Alert("project", 50, spent, m)
             d == Alert("project", 100, spent, m)
  <2>1. Newly(scopes, spent, m) \subseteq {a} \cup {b} \cup {c} \cup {d}
    BY <1>1
  <2>2. IsFiniteSet({a} \cup {b} \cup {c} \cup {d})
    <3> HIDE DEF a, b, c, d
    <3> QED BY FS_AddElement, FS_Singleton
  <2> HIDE DEF a, b, c, d
  <2> QED BY <2>1, <2>2, FS_Subset
<1>4. ASSUME NEW s \in scopes, NEW t \in NewAt(s, spent, m)
      PROVE  Alert(s, t, spent, m) \in Newly(scopes, spent, m)
  BY DEF Newly
<1> QED BY <1>1, <1>2, <1>3, <1>4

LEMMA NewlyTypes ==
  ASSUME TypeOK, NEW scopes \in SUBSET Scopes, NEW spent \in Sums, NEW m \in Months
  PROVE  Newly(scopes, spent, m) \subseteq Alerts /\ IsFiniteSet(Newly(scopes, spent, m))
  BY NewlyFound, ZenonT(60)

(* An alert is no row. *)
LEMMA AlertsCountNot ==
  ASSUME NEW f \in Alerts, NEW s, NEW m PROVE ~Counts(f, s, m)
  BY DEF Alerts, Counts

(* What is queued stays where it is; an alert that is not lost is queued. *)
LEMMA PutAllQueues ==
  ASSUME TypeOK, NEW new \in SUBSET Alerts, IsFiniteSet(new), PutAll(new)
  PROVE  /\ queue' \in Seq(Alerts \cup Rows) /\ Len(queue') <= QueueSize
         /\ alertLost' \in BOOLEAN /\ (~alertLost' => ~alertLost)
         /\ \A s, m : Counted(queue', s, m) = Counted(queue, s, m)
         /\ \A i \in DOMAIN queue' : queue'[i] \in Range(queue) \cup new
         /\ \A i \in DOMAIN queue : i \in DOMAIN queue' /\ queue'[i] = queue[i]
         /\ ~alertLost' => new \subseteq Range(queue')
<1> DEFINE room == QueueSize - Len(queue)
<1>1. PICK items \in Sorted(new) :
        IF Len(items) <= room
        THEN queue' = queue \o items /\ UNCHANGED alertLost
        ELSE queue' = queue \o SubSeq(items, 1, room) /\ alertLost' = TRUE
  BY DEF PutAll
<1>2. /\ queue \in Seq(Alerts \cup Rows) /\ room \in Nat /\ QueueSize \in Nat
      /\ alertLost \in BOOLEAN
  BY DEF TypeOK
<1>3. items \in Seq(new) /\ Range(items) = new
  <2>1. Cardinality(new) \in Nat
    BY FS_CardinalityType
  <2> QED BY <2>1 DEF Sorted
<1>4. \E more \in Seq(new) :
        /\ queue' = queue \o more /\ Len(more) <= room
        /\ (more = items /\ alertLost' = alertLost) \/ alertLost' = TRUE
  <2>1. CASE Len(items) <= room
    BY <1>1, <1>3, <2>1
  <2>2. CASE ~(Len(items) <= room)
    <3> DEFINE fit == SubSeq(items, 1, room)
    <3>1. fit \in Seq(new) /\ Len(fit) = room
      BY <1>2, <1>3, <2>2, SubSeqProperties
    <3>2. queue' = queue \o fit /\ alertLost' = TRUE
      BY <1>1, <2>2
    <3> HIDE DEF fit
    <3>3. Len(fit) <= room
      BY <1>2, <3>1
    <3> QED BY <3>1, <3>2, <3>3
  <2> QED BY <2>1, <2>2
<1> HIDE DEF room
<1>5. PICK more \in Seq(new) :
        /\ queue' = queue \o more /\ Len(more) <= room
        /\ (more = items /\ alertLost' = alertLost) \/ alertLost' = TRUE
  BY <1>4
<1>6. more \in Seq(Alerts \cup Rows) /\ \A i \in DOMAIN more : more[i] \in new
  <2>1. more \in Seq(new)
    OBVIOUS
  <2>2. new \subseteq Alerts \cup Rows
    OBVIOUS
  <2> QED BY ONLY <2>1, <2>2, SeqMonotonic
<1>7. \A s, m : Counted(queue', s, m) = Counted(queue, s, m)
  BY <1>2, <1>5, <1>6, CountAlerts, AlertsCountNot
<1>8. /\ queue' \in Seq(Alerts \cup Rows) /\ Len(queue') = Len(queue) + Len(more)
      /\ Len(queue) \in Nat /\ Len(more) \in Nat
      /\ \A i \in 1..Len(queue) : queue'[i] = queue[i]
      /\ DOMAIN queue' = 1..(Len(queue) + Len(more)) /\ DOMAIN queue = 1..Len(queue)
  BY <1>2, <1>5, <1>6
<1>9. ASSUME NEW i \in DOMAIN queue' PROVE queue'[i] \in Range(queue) \cup new
  <2>1. CASE i \in 1..Len(queue)
    BY <1>8, <2>1 DEF Range
  <2>2. CASE i \notin 1..Len(queue)
    <3>1. i - Len(queue) \in DOMAIN more /\ queue'[i] = more[i - Len(queue)]
      BY <1>2, <1>5, <1>6, <1>8, <2>2
    <3> QED BY <1>6, <3>1
  <2> QED BY <2>1, <2>2
<1>10. ASSUME ~alertLost' PROVE ~alertLost /\ new \subseteq Range(queue')
  <2>1. more = items /\ ~alertLost
    BY <1>5, <1>10
  <2>2. ASSUME NEW f \in new PROVE f \in Range(queue')
    <3>1. PICK j \in DOMAIN more : more[j] = f
      BY <1>3, <2>1 DEF Range
    <3>2. Len(queue) + j \in DOMAIN queue' /\ queue'[Len(queue) + j] = f
      BY <1>2, <1>5, <1>6, <1>8, <3>1
    <3> QED BY <3>2 DEF Range
  <2> QED BY <2>1, <2>2
<1>11. Len(queue') <= QueueSize /\ alertLost' \in BOOLEAN
  <2>1. alertLost' \in BOOLEAN
    BY <1>2, <1>5
  <2>2. Len(queue') <= QueueSize
    BY <1>2, <1>5, <1>8 DEF room
  <2> QED BY <2>1, <2>2
<1>12. \A i \in DOMAIN queue : i \in DOMAIN queue' /\ queue'[i] = queue[i]
  BY <1>8
<1> QED BY <1>7, <1>8, <1>9, <1>10, <1>11, <1>12

(* What _fire marks: what it found, besides what is not older. *)
LEMMA FireMarks ==
  ASSUME TypeOK, NEW scopes \in SUBSET Scopes, NEW spent \in Sums, NEW m \in Months,
         Fire(scopes, spent, m)
  PROVE  /\ fired' \subseteq Ids \X Months \X BUDGET_THRESHOLDS
         /\ \A f \in fired' :
              \/ f \in fired
              \/ \E s \in scopes : \E t \in NewAt(s, spent, m) : f = <<map[s].id, m, t>>
         /\ \A f \in fired : f[2] >= m => f \in fired'
         /\ \A s \in scopes : \A t \in NewAt(s, spent, m) : <<map[s].id, m, t>> \in fired'
<1>1. fired' = {f \in fired : f[2] >= m}
                 \cup {<<f.id, m, f.threshold>> : f \in Newly(scopes, spent, m)}
  BY DEF Fire
<1>2. ASSUME NEW s \in scopes, NEW t \in NewAt(s, spent, m)
      PROVE  <<map[s].id, m, t>> \in fired'
  <2>1. Alert(s, t, spent, m) \in Newly(scopes, spent, m)
    BY NewlyFound
  <2>2. Alert(s, t, spent, m).id = map[s].id /\ Alert(s, t, spent, m).threshold = t
    BY DEF Alert
  <2> QED BY <1>1, <2>1, <2>2
<1>3. ASSUME NEW f \in Newly(scopes, spent, m)
      PROVE  /\ <<f.id, m, f.threshold>> \in Ids \X Months \X BUDGET_THRESHOLDS
             /\ \E s \in scopes : \E t \in NewAt(s, spent, m) :
                  <<f.id, m, f.threshold>> = <<map[s].id, m, t>>
  <2>1. PICK s \in scopes, t \in BUDGET_THRESHOLDS :
               f = Alert(s, t, spent, m) /\ t \in NewAt(s, spent, m)
    BY NewlyFound
  <2>2. f.id = map[s].id /\ f.threshold = t
    BY <2>1 DEF Alert
  <2>3. f \in Alerts
    BY NewlyFound
  <2> QED BY <2>1, <2>2, <2>3 DEF Alerts
<1>4. fired \subseteq Ids \X Months \X BUDGET_THRESHOLDS
  BY DEF TypeOK
<1> QED BY <1>1, <1>2, <1>3, <1>4

CallerType == [at : {"idle", "call", "add", "hook", "submit"},
               covers : SUBSET Scopes, month : Months, spent : Sums]
WriteType == [at : {"idle", "load", "set", "evaluate"},
              put : BOOLEAN, loaded : BudgetMaps]

LEMMA Idling == Idle \in CallerType /\ NoWrite \in WriteType /\ NoSpend \in Sums
<1>1. NoSpend \in Sums
  BY DEF NoSpend, Sums
<1>2. NoBudgets \in BudgetMaps
  BY DEF NoBudgets, BudgetMaps
<1>3. 1 \in Months
  OBVIOUS
<1> QED BY <1>1, <1>2, <1>3 DEF Idle, NoWrite, CallerType, WriteType

LEMMA TypeInit == Init => TypeOK
<1> SUFFICES ASSUME Init PROVE TypeOK
  OBVIOUS
<1>1. budgets \in BudgetMaps /\ map \in BudgetMaps
  <2>1. budgets \in Initial /\ map = budgets
    BY DEF Init
  <2>2. budgets \in [Scopes -> Budgeted \cup {NoBudget}]
    BY <2>1
  <2>3. ASSUME NEW s \in Scopes
        PROVE  budgets[s] \in {b \in Budgeted : b.id \in Ids} \cup {NoBudget}
    <3>1. CASE budgets[s] = NoBudget
      BY <3>1
    <3>2. CASE budgets[s] \in Budgeted
      <4>1. budgets[s].id \in Nat \ {0} /\ budgets[s].id <= 2
        BY <2>1, <3>2 DEF Budgeted
      <4> QED BY <3>2, <4>1
    <3> QED BY <2>2, <3>1, <3>2
  <2> QED BY <2>1, <2>2, <2>3 DEF BudgetMaps
<1>2. caller \in [Callers -> CallerType] /\ write \in [Requests -> WriteType]
  BY Idling DEF Init
<1>3. ledger \in [Months -> Sums] /\ spend \in [month : Months, sum : Sums]
  BY Idling DEF Init
<1>4. queue \in Seq(Alerts \cup Rows) /\ Len(queue) <= QueueSize
      /\ batch \in Seq(Rows) /\ Len(batch) <= BatchSize
  BY DEF Init
<1>5. dropped \in BOOLEAN /\ alertLost \in BOOLEAN
  BY DEF Init
<1> QED BY <1>1, <1>2, <1>3, <1>4, <1>5 DEF Init, TypeOK, CallerType, WriteType

(* A call's row goes to the book and to the queue. *)
LEMMA CallTypes ==
  ASSUME TypeOK, NEW c \in Callers, Start(c) \/ Recording(c)
  PROVE  TypeOK'
<1> USE DEF CallerType
<1>1. caller \in [Callers -> CallerType] /\ caller[c] \in CallerType
  BY DEF TypeOK
<1>2. CASE Start(c)
  <2>1. PICK scopes \in {{"org"}, Scopes} :
          caller' = [caller EXCEPT ![c] = [Idle EXCEPT !.at = "call", !.covers = scopes]]
    BY <1>2 DEF Start
  <2>2. [Idle EXCEPT !.at = "call", !.covers = scopes] \in CallerType
    BY Idling
  <2>3. caller' \in [Callers -> CallerType]
    BY <1>1, <2>1, <2>2
  <2>4. calls' \in Nat
    BY <1>2 DEF Start, TypeOK
  <2> QED BY <1>2, <2>3, <2>4 DEF Start, TypeOK, tables, books, writer
<1>3. CASE Answered(c)
  <2>1. caller' \in [Callers -> CallerType]
    BY <1>1, <1>3 DEF Answered, TypeOK
  <2> QED BY <1>3, <2>1 DEF Answered, TypeOK, tables, books, writer, counts
<1>4. CASE Add(c)
  <2>1. ASSUME NEW sum \in Sums PROVE Plus(sum, caller[c].covers) \in Sums
    BY DEF Plus, Sums
  <2>2. spend' \in [month : Months, sum : Sums]
    <3>1. spend \in [month : Months, sum : Sums] /\ spend.sum \in Sums
      BY DEF TypeOK
    <3>2. CASE caller[c].month < spend.month
      BY <1>4, <3>1, <3>2 DEF Add, Added
    <3>3. CASE ~(caller[c].month < spend.month)
      <4> DEFINE base == IF caller[c].month > spend.month THEN NoSpend ELSE spend.sum
      <4>1. base \in Sums
        BY <3>1, Idling
      <4>2. spend' = [month |-> caller[c].month, sum |-> Plus(base, caller[c].covers)]
        BY <1>4, <3>3 DEF Add, Added
      <4> HIDE DEF base
      <4> QED BY <1>1, <2>1, <4>1, <4>2
    <3> QED BY <3>2, <3>3
  <2>3. caller' \in [Callers -> CallerType]
    <3>1. PICK a \in {"submit", "hook"}, n \in Sums :
            caller' = [caller EXCEPT ![c] = [@ EXCEPT !.at = a, !.spent = n]]
      BY <1>4, <2>2, Idling DEF Add
    <3> QED BY <1>1, <3>1
  <2> QED BY <1>4, <2>2, <2>3 DEF Add, TypeOK, tables, writer, counts
<1>5. CASE Hook(c)
  <2>1. /\ caller[c].covers \in SUBSET Scopes /\ caller[c].spent \in Sums
        /\ caller[c].month \in Months
    BY <1>1
  <2> DEFINE new == Newly(caller[c].covers, caller[c].spent, caller[c].month)
  <2>2. new \subseteq Alerts /\ IsFiniteSet(new)
    BY <2>1, NewlyTypes
  <2>3. PutAll(new) /\ Fire(caller[c].covers, caller[c].spent, caller[c].month)
    BY <1>5 DEF Hook
  <2> HIDE DEF new
  <2>4. queue' \in Seq(Alerts \cup Rows) /\ Len(queue') <= QueueSize /\ alertLost' \in BOOLEAN
    BY <2>2, <2>3, PutAllQueues
  <2>5. fired' \subseteq Ids \X Months \X BUDGET_THRESHOLDS
    BY <2>1, <2>3, FireMarks, ZenonT(60)
  <2>6. caller' \in [Callers -> CallerType]
    BY <1>1, <1>5, Idling DEF Hook
  <2> QED BY <1>5, <2>4, <2>5, <2>6 DEF Hook, TypeOK, tables, counts
<1>6. CASE Submit(c)
  <2>1. caller' \in [Callers -> CallerType]
    BY <1>1, <1>6, Idling DEF Submit
  <2>2. Row(c) \in Rows
    BY <1>1 DEF Row, Rows
  <2>3. queue' \in Seq(Alerts \cup Rows) /\ Len(queue') <= QueueSize
    BY <1>6, <2>2 DEF Submit, Queued, Full, TypeOK
  <2>4. dropped' \in BOOLEAN
    BY <1>6 DEF Submit, Full, TypeOK
  <2> QED BY <1>6, <2>1, <2>3, <2>4 DEF Submit, TypeOK, tables, books, counts
<1> QED BY <1>2, <1>3, <1>4, <1>5, <1>6 DEF Recording

(* A budget is written, then loaded and evaluated. *)
LEMMA WriteTypes ==
  ASSUME TypeOK, NEW r \in Requests, CommitPut(r) \/ CommitDelete(r) \/ Reloading(r)
  PROVE  TypeOK'
<1> USE DEF WriteType
<1>1. write \in [Requests -> WriteType] /\ write[r] \in WriteType
  BY DEF TypeOK
<1>2. CASE CommitPut(r)
  <2>1. PICK s \in Scopes, amount \in Amounts, hard \in BOOLEAN :
          budgets' = [budgets EXCEPT ![s] =
            [id |-> IF budgets[s] = NoBudget THEN writes + 3 ELSE budgets[s].id,
             amount |-> amount, hard |-> hard]]
    BY <1>2 DEF CommitPut
  <2>2. writes \in Nat /\ writes < MaxWrites /\ writes' = writes + 1
    BY <1>2 DEF CommitPut, TypeOK
  <2> DEFINE id == IF budgets[s] = NoBudget THEN writes + 3 ELSE budgets[s].id
  <2>3. id \in Ids /\ id \in Nat \ {0}
    BY <2>2, BudgetTypes, SMTT(30) DEF TypeOK
  <2> HIDE DEF id
  <2>4. [id |-> id, amount |-> amount, hard |-> hard] \in {b \in Budgeted : b.id \in Ids}
    BY <2>3 DEF Budgeted
  <2>5. budgets' = [budgets EXCEPT ![s] = [id |-> id, amount |-> amount, hard |-> hard]]
    BY <2>1 DEF id
  <2>6. budgets' \in BudgetMaps
    BY <2>4, <2>5 DEF TypeOK, BudgetMaps
  <2>7. write' \in [Requests -> WriteType]
    BY <1>1, <1>2, Idling DEF CommitPut
  <2>8. writes' \in Nat /\ writes' <= MaxWrites
    BY <2>2
  <2> QED BY <1>2, <2>6, <2>7, <2>8 DEF CommitPut, TypeOK, books, writer
<1>3. CASE CommitDelete(r)
  <2>1. budgets' \in BudgetMaps
    <3>1. PICK s \in Scopes : budgets' = [budgets EXCEPT ![s] = NoBudget]
      BY <1>3 DEF CommitDelete
    <3> QED BY <3>1 DEF TypeOK, BudgetMaps
  <2>2. alerts' \subseteq Alerts
    BY <1>3 DEF CommitDelete, TypeOK
  <2>3. write' \in [Requests -> WriteType]
    BY <1>1, <1>3, Idling DEF CommitDelete
  <2>4. writes' \in Nat /\ writes' <= MaxWrites
    BY <1>3 DEF CommitDelete, TypeOK
  <2> QED BY <1>3, <2>1, <2>2, <2>3, <2>4 DEF CommitDelete, TypeOK, books, writer
<1>4. CASE Load(r)
  <2>1. write' \in [Requests -> WriteType]
    BY <1>1, <1>4 DEF Load, TypeOK
  <2> QED BY <1>4, <2>1 DEF Load, TypeOK, tables, books, writer, counts
<1>5. CASE SetOrg(r)
  <2>1. write' \in [Requests -> WriteType]
    BY <1>1, <1>5, Idling DEF SetOrg
  <2>2. map' \in BudgetMaps
    BY <1>1, <1>5 DEF SetOrg, Loaded
  <2>3. fired' \subseteq Ids \X Months \X BUDGET_THRESHOLDS
    BY <1>5 DEF SetOrg, TypeOK
  <2> QED BY <1>5, <2>1, <2>2, <2>3 DEF SetOrg, TypeOK, tables, writer, counts
<1>6. CASE Evaluate(r)
  <2>1. SpentNow \in Sums /\ spend.month \in Months
    BY DEF SpentNow, Spent, TypeOK, Sums
  <2>2. Evaluated \subseteq Alerts /\ IsFiniteSet(Evaluated)
    BY <2>1, NewlyTypes DEF Evaluated
  <2>3. PutAll(Evaluated) /\ Fire(Scopes, SpentNow, spend.month)
    BY <1>6 DEF Evaluate
  <2>4. queue' \in Seq(Alerts \cup Rows) /\ Len(queue') <= QueueSize /\ alertLost' \in BOOLEAN
    BY <2>2, <2>3, PutAllQueues
  <2>5. fired' \subseteq Ids \X Months \X BUDGET_THRESHOLDS
    BY <2>1, <2>3, FireMarks
  <2>6. write' \in [Requests -> WriteType]
    BY <1>1, <1>6, Idling DEF Evaluate
  <2> QED BY <1>6, <2>4, <2>5, <2>6 DEF Evaluate, TypeOK, tables, counts
<1> QED BY <1>2, <1>3, <1>4, <1>5, <1>6 DEF Reloading

(* The writer thread moves rows and alerts to the tables. *)
LEMMA WriterTypes == ASSUME TypeOK, Writing PROVE TypeOK'
<1>1. CASE TakeRow
  <2>1. Head(queue) \in Alerts \cup Rows /\ Head(queue).scope = "row"
    BY <1>1, SMTT(30) DEF TakeRow, TypeOK
  <2>2. Head(queue) \in Rows
    BY <2>1 DEF Alerts
  <2>3. queue' \in Seq(Alerts \cup Rows) /\ Len(queue') <= QueueSize
    BY <1>1 DEF TakeRow, TypeOK
  <2>4. batch' \in Seq(Rows) /\ Len(batch') <= BatchSize
    BY <1>1, <2>2 DEF TakeRow, TypeOK
  <2> QED BY <1>1, <2>3, <2>4 DEF TakeRow, WriterRest, TypeOK, books
<1>2. CASE WriteBatch
  <2>1. ledger' \in [Months -> Sums]
    <3>1. CASE UNCHANGED ledger
      BY <3>1 DEF TypeOK
    <3>2. CASE ledger' = [m \in Months |->
                 [s \in Scopes |-> ledger[m][s] + Counted(batch, s, m)]]
      <4>1. \A s \in Scopes, m \in Months : Counted(batch, s, m) \in Nat
        BY CountType DEF TypeOK
      <4>2. \A s \in Scopes, m \in Months : ledger[m][s] + Counted(batch, s, m) \in Nat
        <5> SUFFICES ASSUME NEW s \in Scopes, NEW m \in Months
                     PROVE  ledger[m][s] + Counted(batch, s, m) \in Nat
          OBVIOUS
        <5>1. ledger[m] \in [Scopes -> Nat]
          BY DEF TypeOK, Sums
        <5>2. ledger[m][s] \in Nat
          BY <5>1
        <5> QED BY <4>1, <5>2
      <4> QED BY <3>2, <4>2 DEF Sums
    <3> QED BY <1>2, <3>1, <3>2 DEF WriteBatch
  <2>2. dropped' \in BOOLEAN /\ faults' \in Nat
    <3>1. CASE UNCHANGED <<dropped, faults>>
      BY <3>1 DEF TypeOK
    <3>2. CASE Fault /\ dropped' = TRUE
      BY <3>2 DEF Fault, TypeOK
    <3> QED BY <1>2, <3>1, <3>2 DEF WriteBatch
  <2>3. batch' \in Seq(Rows) /\ Len(batch') <= BatchSize
    BY <1>2 DEF WriteBatch
  <2> QED BY <1>2, <2>1, <2>2, <2>3 DEF WriteBatch, WriterRest, TypeOK, books
<1>3. CASE RecordAlert
  <2>1. Head(queue) \in Alerts \cup Rows /\ Head(queue).scope # "row"
    BY <1>3 DEF RecordAlert, TypeOK
  <2>2. Head(queue) \in Alerts
    BY <2>1 DEF Rows
  <2>3. alerts' \in {alerts, alerts \cup {Head(queue)}}
    BY <1>3 DEF RecordAlert
  <2>4. queue' \in Seq(Alerts \cup Rows) /\ Len(queue') <= QueueSize
    BY <1>3 DEF RecordAlert, TypeOK
  <2> QED BY <1>3, <2>2, <2>3, <2>4 DEF RecordAlert, WriterRest, TypeOK, books
<1> QED BY <1>1, <1>2, <1>3 DEF Writing

LEMMA CrashTypes == ASSUME TypeOK, Crash PROVE TypeOK'
<1>1. spend' \in [month : Months, sum : Sums]
  BY DEF Crash, Seeded, TypeOK
<1>2. fired' \subseteq Ids \X Months \X BUDGET_THRESHOLDS
  <2>1. ASSUME NEW a \in alerts
        PROVE  <<a.id, a.month, a.threshold>> \in Ids \X Months \X BUDGET_THRESHOLDS
    BY DEF TypeOK, Alerts
  <2> QED BY <2>1 DEF Crash
<1>3. caller' \in [Callers -> CallerType] /\ write' \in [Requests -> WriteType]
  BY Idling DEF Crash
<1>4. queue' \in Seq(Alerts \cup Rows) /\ Len(queue') <= QueueSize
      /\ batch' \in Seq(Rows) /\ Len(batch') <= BatchSize
  BY DEF Crash
<1>5. dropped' \in BOOLEAN /\ alertLost' \in BOOLEAN
  BY DEF Crash
<1>6. map' \in BudgetMaps /\ faults' \in Nat
  BY DEF Crash, Fault, TypeOK
<1> QED BY <1>1, <1>2, <1>3, <1>4, <1>5, <1>6
        DEF Crash, TypeOK, CallerType, WriteType, tables

LEMMA TypeNext == ASSUME TypeOK, [Next]_vars PROVE TypeOK'
<1>1. CASE MonthEnds
  BY <1>1, SMTT(30) DEF MonthEnds, TypeOK, tables, books, writer, counts
<1>2. CASE UNCHANGED vars
  BY <1>2 DEF vars, TypeOK, tables, books, writer, counts
<1> QED BY <1>1, <1>2, CallTypes, WriteTypes, WriterTypes, CrashTypes DEF Next

-----------------------------------------------------------------------------
(* The book *)

(* The clock, the book and the rows agree on what is past. *)
MonthsOK ==
  /\ spend.month <= month
  /\ \A m \in Months, s \in Scopes : m > spend.month => ledger[m][s] = 0
  /\ \A i \in DOMAIN queue : queue[i].month <= spend.month
  /\ \A i \in DOMAIN batch : batch[i].month <= spend.month
  /\ \A c \in Callers :
       /\ caller[c].month <= month
       /\ caller[c].at \in {"hook", "submit"} => caller[c].month <= spend.month

(* What the book's month has in the ledger and with the writer. *)
Held(s) ==
  ledger[spend.month][s] + Counted(batch, s, spend.month) + Counted(queue, s, spend.month)

(* Of those on their way, the calls that crossed nothing or have fired. *)
Heard(s, n) ==
  {c \in Pending(s) : caller[c].at = "submit" \/ caller[c].spent[s] * 100 < n}

SumsOK ==
  \A s \in Scopes :
    LET due == Held(s) + Cardinality(Pending(s))
    IN  spend.sum[s] >= due /\ (dropped \/ spend.sum[s] = due)

BookInv == TypeOK /\ MonthsOK /\ SumsOK

LEMMA Numbers ==
  ASSUME TypeOK, NEW s \in Scopes
  PROVE  /\ Held(s) \in Nat /\ spend.sum[s] \in Nat
         /\ ledger[spend.month][s] \in Nat /\ ledger[spend.month][s] <= Held(s)
         /\ IsFiniteSet(Pending(s)) /\ Cardinality(Pending(s)) \in Nat
         /\ \A n : /\ IsFiniteSet(Heard(s, n)) /\ Cardinality(Heard(s, n)) \in Nat
                   /\ Cardinality(Heard(s, n)) <= Cardinality(Pending(s))
<1>1. /\ Counted(batch, s, spend.month) \in Nat
      /\ Counted(queue, s, spend.month) \in Nat
  BY CountType DEF TypeOK
<1>2. spend.sum \in [Scopes -> Nat] /\ ledger[spend.month] \in [Scopes -> Nat]
  BY DEF TypeOK, Sums
<1>3. ledger[spend.month][s] \in Nat /\ spend.sum[s] \in Nat
  BY <1>2
<1>4. Held(s) \in Nat /\ ledger[spend.month][s] <= Held(s)
  BY <1>1, <1>3 DEF Held
<1>5. IsFiniteSet(Pending(s)) /\ Cardinality(Pending(s)) \in Nat
  <2>1. Pending(s) \in SUBSET Callers
    BY DEF Pending
  <2> QED BY <2>1, FS_Subset, FS_CardinalityType
<1>6. ASSUME NEW n
      PROVE  /\ IsFiniteSet(Heard(s, n)) /\ Cardinality(Heard(s, n)) \in Nat
             /\ Cardinality(Heard(s, n)) <= Cardinality(Pending(s))
  <2>1. Heard(s, n) \in SUBSET Pending(s)
    BY DEF Heard
  <2> QED BY <1>5, <2>1, FS_Subset, FS_CardinalityType
<1> QED BY <1>3, <1>4, <1>5, <1>6

(* The steps that leave the book alone leave alone what it answers for, or *)
(* drop rows; no call moves.                                               *)
Still ==
  /\ spend' = spend
  /\ \A s \in Scopes :
       /\ \/ Held(s)' = Held(s) /\ dropped' = dropped
          \/ Held(s)' <= Held(s) /\ dropped' = TRUE
       /\ Pending(s)' = Pending(s)
       /\ \A n : Heard(s, n)' = Heard(s, n)

LEMMA StillWhen ==
  ASSUME UNCHANGED <<spend, ledger, batch, caller, dropped>>,
         \A s, m : Counted(queue', s, m) = Counted(queue, s, m)
  PROVE  Still
  BY DEF Still, Held, Pending, Heard

LEMMA OthersAreStill ==
  ASSUME TypeOK,
         \/ MonthEnds \/ UNCHANGED vars
         \/ \E r \in Requests : CommitPut(r) \/ CommitDelete(r) \/ Reloading(r)
  PROVE  Still
<1>1. CASE \E r \in Requests : Evaluate(r)
  <2>1. SpentNow \in Sums /\ spend.month \in Months
    BY DEF SpentNow, Spent, TypeOK, Sums
  <2>2. Evaluated \subseteq Alerts /\ IsFiniteSet(Evaluated)
    BY <2>1, NewlyTypes DEF Evaluated
  <2>3. PutAll(Evaluated) /\ UNCHANGED <<spend, ledger, batch, caller, dropped>>
    BY <1>1 DEF Evaluate, tables
  <2>4. \A s, m : Counted(queue', s, m) = Counted(queue, s, m)
    BY <2>2, <2>3, PutAllQueues
  <2> QED BY <2>3, <2>4, StillWhen
<1>2. CASE UNCHANGED <<spend, ledger, batch, caller, dropped, queue>>
  BY <1>2, StillWhen
<1> QED
  BY <1>1, <1>2
     DEF MonthEnds, CommitPut, CommitDelete, Reloading, Load, SetOrg, vars, tables, books,
         writer

LEMMA CallersAreStill ==
  ASSUME TypeOK, NEW c \in Callers, Start(c) \/ Answered(c) PROVE Still
<1>1. UNCHANGED <<spend, ledger, batch, queue, dropped>>
  BY DEF Start, Answered, tables, books, writer
<1>2. \A d \in Callers :
        \/ caller'[d] = caller[d]
        \/ d = c /\ caller[c].at \in {"idle", "call"} /\ caller'[c].at \in {"call", "add"}
  <2>1. caller \in [Callers -> CallerType] /\ caller[c] \in CallerType /\ Idle \in CallerType
    BY Idling DEF TypeOK, CallerType
  <2>2. CASE Start(c)
    BY <2>1, <2>2 DEF Start, CallerType
  <2>3. CASE Answered(c)
    BY <2>1, <2>3 DEF Answered, CallerType
  <2> QED BY <2>2, <2>3
<1>3. \A s \in Scopes : Pending(s)' = Pending(s)
  BY <1>1, <1>2 DEF Pending
<1>4. \A s \in Scopes : \A n : Heard(s, n)' = Heard(s, n)
  BY <1>1, <1>2, <1>3 DEF Heard, Pending
<1> QED BY <1>1, <1>3, <1>4 DEF Still, Held

LEMMA WriterIsStill == ASSUME TypeOK, Writing PROVE Still
<1>1. queue \in Seq(Alerts \cup Rows) /\ batch \in Seq(Rows)
  BY DEF TypeOK
<1>2. CASE TakeRow
  <2>1. Head(queue) \in Rows
    <3>1. Head(queue) \in Alerts \cup Rows /\ Head(queue).scope = "row"
      BY <1>2, SMTT(30) DEF TakeRow, TypeOK
    <3> QED BY <3>1 DEF Alerts
  <2>2. \A s, m : Counted(batch', s, m) + Counted(queue', s, m)
                    = Counted(batch, s, m) + Counted(queue, s, m)
    <3> SUFFICES ASSUME NEW s, NEW m
                 PROVE  Counted(batch', s, m) + Counted(queue', s, m)
                          = Counted(batch, s, m) + Counted(queue, s, m)
      OBVIOUS
    <3>1. queue # <<>> /\ queue' = Tail(queue) /\ batch' = Append(batch, Head(queue))
      BY <1>2 DEF TakeRow
    <3>2. Counted(queue, s, m) = Counted(queue', s, m)
                                   + (IF Counts(Head(queue), s, m) THEN 1 ELSE 0)
      BY <1>1, <3>1, CountTail
    <3>3. Counted(batch', s, m) = Counted(batch, s, m)
                                    + (IF Counts(Head(queue), s, m) THEN 1 ELSE 0)
      BY <1>1, <2>1, <3>1, CountAppend
    <3>4. queue' \in Seq(Alerts \cup Rows)
      BY <1>1, <3>1
    <3>5. Counted(queue', s, m) \in Nat /\ Counted(batch, s, m) \in Nat
      BY <1>1, <3>4, CountType
    <3> QED BY <3>2, <3>3, <3>5
  <2>3. UNCHANGED <<spend, ledger, caller, dropped>>
    BY <1>2 DEF TakeRow, WriterRest, books
  <2>4. \A s \in Scopes : Held(s)' = Held(s)
    <3> SUFFICES ASSUME NEW s \in Scopes PROVE Held(s)' = Held(s)
      OBVIOUS
    <3> DEFINE m == spend.month
    <3>1. Counted(batch', s, m) + Counted(queue', s, m)
            = Counted(batch, s, m) + Counted(queue, s, m)
      BY <2>2
    <3>2. queue' \in Seq(Alerts \cup Rows) /\ batch' \in Seq(Rows)
      BY <1>1, <1>2, <2>1 DEF TakeRow
    <3>3. /\ Counted(queue, s, m) \in Nat /\ Counted(batch, s, m) \in Nat
          /\ Counted(queue', s, m) \in Nat /\ Counted(batch', s, m) \in Nat
      BY <1>1, <3>2, CountType
    <3>4. ledger[m][s] \in Nat
      BY Numbers
    <3> QED BY <2>3, <3>1, <3>3, <3>4 DEF Held
  <2> QED BY <2>3, <2>4 DEF Still, Pending, Heard
<1>3. CASE WriteBatch
  <2>1. UNCHANGED <<spend, queue, caller>> /\ batch' = <<>>
    BY <1>3 DEF WriteBatch, WriterRest, books
  <2>2. \A s, m : Counted(batch', s, m) = 0
    BY <2>1, CountNone
  <2>3. \A s, m : Counted(batch, s, m) \in Nat /\ Counted(queue, s, m) \in Nat
    BY <1>1, CountType
  <2>4. \A s \in Scopes : ledger[spend.month][s] \in Nat
    BY Numbers
  <2>5. \/ /\ dropped' = dropped
           /\ \A s \in Scopes : ledger'[spend.month][s]
                                  = ledger[spend.month][s] + Counted(batch, s, spend.month)
        \/ dropped' = TRUE /\ UNCHANGED ledger
    <3>1. spend.month \in Months
      BY DEF TypeOK
    <3> QED BY <1>3, <3>1 DEF WriteBatch
  <2>6. ASSUME NEW s \in Scopes
        PROVE  \/ Held(s)' = Held(s) /\ dropped' = dropped
               \/ Held(s)' <= Held(s) /\ dropped' = TRUE
    <3>1. ledger'[spend.month][s] \in Nat
      BY <2>3, <2>4, <2>5
    <3>2. Counted(batch', s, spend.month) = 0
      BY <2>2
    <3>3. Held(s)' = ledger'[spend.month][s] + Counted(queue, s, spend.month)
      BY <2>1, <2>3, <3>1, <3>2 DEF Held
    <3> QED BY <2>3, <2>4, <2>5, <3>3 DEF Held
  <2> QED BY <2>1, <2>6 DEF Still, Pending, Heard
<1>4. CASE RecordAlert
  <2>1. queue # <<>> /\ queue' = Tail(queue) /\ ~\E s, m : Counts(Head(queue), s, m)
    BY <1>4 DEF RecordAlert, Counts
  <2>2. \A s, m : Counted(queue', s, m) = Counted(queue, s, m)
    <3> SUFFICES ASSUME NEW s, NEW m PROVE Counted(queue', s, m) = Counted(queue, s, m)
      OBVIOUS
    <3>1. Counted(queue, s, m) = Counted(queue', s, m)
                                   + (IF Counts(Head(queue), s, m) THEN 1 ELSE 0)
      BY <1>1, <2>1, CountTail
    <3>2. queue' \in Seq(Alerts \cup Rows)
      BY <1>1, <2>1
    <3>3. Counted(queue', s, m) \in Nat
      BY <3>2, CountType
    <3> QED BY <2>1, <3>1, <3>3
  <2> QED BY <1>4, <2>2, StillWhen DEF RecordAlert, WriterRest, books
<1> QED BY <1>2, <1>3, <1>4 DEF Writing

(* A call is counted: not at all when its month is past, else by one; the  *)
(* first of a month begins the book anew.                                  *)
LEMMA AddMoves ==
  ASSUME TypeOK, MonthsOK, NEW c \in Callers, Add(c)
  PROVE  /\ dropped' = dropped /\ caller[c].at = "add"
         /\ \/ caller[c].month < spend.month /\ Still
            \/ /\ caller[c].month = spend.month /\ spend'.month = spend.month
               /\ \A s \in Scopes :
                    IF s \in caller[c].covers
                    THEN /\ spend'.sum[s] = spend.sum[s] + 1 /\ Held(s)' = Held(s)
                         /\ c \notin Pending(s) /\ Pending(s)' = Pending(s) \cup {c}
                         /\ \A n : c \notin Heard(s, n) /\ Heard(s, n)' =
                              Heard(s, n) \cup {d \in {c} : spend'.sum[s] * 100 < n}
                    ELSE /\ spend'.sum[s] = spend.sum[s] /\ Held(s)' = Held(s)
                         /\ Pending(s)' = Pending(s) /\ \A n : Heard(s, n)' = Heard(s, n)
            \/ /\ caller[c].month > spend.month /\ spend'.month = caller[c].month
               /\ \A s \in Scopes :
                    /\ Held(s)' = 0
                    /\ IF s \in caller[c].covers
                       THEN /\ spend'.sum[s] = 1 /\ Pending(s)' = {c}
                            /\ \A n : Heard(s, n)' = {d \in {c} : spend'.sum[s] * 100 < n}
                       ELSE spend'.sum[s] = 0 /\ Pending(s)' = {} /\ \A n : Heard(s, n)' = {}
<1> DEFINE row == caller[c]
<1>1. /\ row.at = "add" /\ spend' = Added(row)
      /\ UNCHANGED <<ledger, queue, batch, dropped>>
  BY DEF Add, tables, writer
<1>2. /\ row \in CallerType /\ caller \in [Callers -> CallerType]
      /\ spend \in [month : Months, sum : Sums] /\ spend.sum \in Sums
  BY DEF TypeOK, CallerType
<1>3. \A d \in Callers : d # c => caller'[d] = caller[d]
  BY <1>2 DEF Add
<1>4. CASE row.month < spend.month
  <2>1. spend' = spend
    BY <1>1, <1>4 DEF Added
  <2>2. caller'[c].month = row.month
    BY <1>2 DEF Add, CallerType
  <2>3. \A s \in Scopes : Pending(s)' = Pending(s)
    BY <1>2, <1>3, <1>4, <2>1, <2>2 DEF Pending, CallerType
  <2>4. \A s \in Scopes : \A n : Heard(s, n)' = Heard(s, n)
    BY <1>2, <1>3, <1>4, <2>1, <2>2, <2>3 DEF Heard, Pending, CallerType
  <2>5. \A s \in Scopes : Held(s)' = Held(s)
    BY <1>1, <2>1 DEF Held
  <2> QED BY <1>1, <1>4, <2>1, <2>3, <2>4, <2>5 DEF Still
<1>5. CASE ~(row.month < spend.month)
  <2> DEFINE base == IF row.month > spend.month THEN NoSpend ELSE spend.sum
  <2>1. spend' = [month |-> row.month, sum |-> Plus(base, row.covers)]
    BY <1>1, <1>5 DEF Added
  <2>2. caller'[c] = [row EXCEPT !.at = "hook", !.spent = spend'.sum]
    BY <1>2, <1>5 DEF Add
  <2>3. /\ caller'[c].at = "hook" /\ caller'[c].month = row.month
        /\ caller'[c].covers = row.covers /\ caller'[c].spent = spend'.sum
    BY <1>2, <2>2 DEF CallerType
  <2>4. \A s \in Scopes : base[s] = IF row.month > spend.month THEN 0 ELSE spend.sum[s]
    BY DEF NoSpend
  <2> HIDE DEF base
  <2>5. \A s \in Scopes : spend'.sum[s] = IF s \in row.covers THEN base[s] + 1 ELSE base[s]
    BY <2>1 DEF Plus
  <2>6. spend'.month = row.month
    BY <2>1
  <2>7. CASE row.month = spend.month
    <3>1. spend'.month = spend.month
      BY <2>6, <2>7
    <3>2. ASSUME NEW s \in Scopes
          PROVE  /\ Held(s)' = Held(s) /\ c \notin Pending(s)
                 /\ Pending(s)' = IF s \in row.covers THEN Pending(s) \cup {c} ELSE Pending(s)
      <4>1. Held(s)' = Held(s)
        BY <1>1, <3>1 DEF Held
      <4>2. c \notin Pending(s)
        BY <1>1 DEF Pending
      <4>3. \A d \in Callers : d \in Pending(s)' <=> d \in Pending(s) \/ (d = c /\ s \in row.covers)
        BY <1>1, <1>3, <2>3, <2>7, <3>1 DEF Pending
      <4> QED BY <4>1, <4>2, <4>3 DEF Pending
    <3>3. ASSUME NEW s \in Scopes, NEW n
          PROVE  /\ c \notin Heard(s, n)
                 /\ Heard(s, n)' = IF s \in row.covers
                                   THEN Heard(s, n) \cup {d \in {c} : spend'.sum[s] * 100 < n}
                                   ELSE Heard(s, n)
      <4>1. \A d \in Callers : d \in Heard(s, n)' <=>
              d \in Heard(s, n) \/ (d = c /\ s \in row.covers /\ spend'.sum[s] * 100 < n)
        BY <1>3, <2>3, <3>2 DEF Heard, Pending
      <4> QED BY <3>2, <4>1 DEF Heard, Pending
    <3>4. \A s \in Scopes : base[s] = spend.sum[s]
      BY <1>2, <2>4, <2>7 DEF CallerType
    <3> QED BY <1>1, <2>5, <2>7, <3>1, <3>2, <3>3, <3>4
  <2>8. CASE row.month > spend.month
    <3>1. ASSUME NEW s \in Scopes PROVE Held(s)' = 0
      <4>1. /\ spend'.month = row.month /\ row.month \in Months
            /\ ledger'[row.month][s] = 0
        BY <1>1, <1>2, <2>6, <2>8 DEF MonthsOK, CallerType
      <4>2. Counted(batch, s, row.month) = 0
        <5>1. \A i \in DOMAIN batch : ~Counts(batch[i], s, row.month)
          BY <1>2, <2>8 DEF MonthsOK, Counts, CallerType
        <5> QED BY <5>1, CountNone
      <4>3. Counted(queue, s, row.month) = 0
        <5>1. \A i \in DOMAIN queue : ~Counts(queue[i], s, row.month)
          BY <1>2, <2>8 DEF MonthsOK, Counts, CallerType
        <5> QED BY <5>1, CountNone
      <4> QED BY <1>1, <4>1, <4>2, <4>3 DEF Held
    <3>2. ASSUME NEW s \in Scopes
          PROVE  Pending(s)' = IF s \in row.covers THEN {c} ELSE {}
      <4>1. \A d \in Callers : d # c => (caller[d].at \in {"hook", "submit"}
                                          => caller[d].month # row.month)
        BY <1>2, <2>8 DEF MonthsOK, CallerType, TypeOK
      <4>2. \A d \in Callers : d \in Pending(s)' <=> d = c /\ s \in row.covers
        BY <1>3, <2>3, <2>6, <4>1 DEF Pending
      <4> QED BY <4>2 DEF Pending
    <3>3. ASSUME NEW s \in Scopes, NEW n
          PROVE  Heard(s, n)' = IF s \in row.covers THEN {d \in {c} : spend'.sum[s] * 100 < n}
                                ELSE {}
      BY <2>3, <3>2 DEF Heard
    <3>4. \A s \in Scopes : base[s] = 0
      BY <2>4, <2>8
    <3> QED BY <1>1, <2>5, <2>6, <2>8, <3>1, <3>2, <3>3, <3>4
  <2> QED BY <1>2, <1>5, <2>7, <2>8 DEF CallerType
<1> QED BY <1>4, <1>5

(* A call's thresholds have fired: it is heard of. *)
LEMMA HookMoves ==
  ASSUME TypeOK, NEW c \in Callers, Hook(c)
  PROVE  /\ spend' = spend /\ dropped' = dropped
         /\ \A s \in Scopes :
              /\ Held(s)' = Held(s) /\ Pending(s)' = Pending(s)
              /\ \A n : Heard(s, n)' = Heard(s, n) \cup {d \in {c} : c \in Pending(s)}
<1>1. /\ caller[c].covers \in SUBSET Scopes /\ caller[c].spent \in Sums
      /\ caller[c].month \in Months /\ caller \in [Callers -> CallerType]
  BY DEF TypeOK, CallerType
<1> DEFINE new == Newly(caller[c].covers, caller[c].spent, caller[c].month)
<1>2. new \subseteq Alerts /\ IsFiniteSet(new)
  BY <1>1, NewlyTypes
<1>3. PutAll(new) /\ caller[c].at = "hook" /\ UNCHANGED <<spend, ledger, batch, dropped>>
  BY DEF Hook, tables
<1> HIDE DEF new
<1>4. \A s, m : Counted(queue', s, m) = Counted(queue, s, m)
  BY <1>2, <1>3, PutAllQueues
<1>5. \A s \in Scopes : Held(s)' = Held(s)
  BY <1>3, <1>4 DEF Held
<1>6. /\ \A d \in Callers : d # c => caller'[d] = caller[d]
      /\ caller'[c].at = "submit" /\ caller'[c].month = caller[c].month
      /\ caller'[c].covers = caller[c].covers
  BY <1>1 DEF Hook, CallerType
<1>7. \A s \in Scopes : Pending(s)' = Pending(s)
  BY <1>3, <1>6 DEF Pending
<1>8. ASSUME NEW s \in Scopes, NEW n
      PROVE  Heard(s, n)' = Heard(s, n) \cup {d \in {c} : c \in Pending(s)}
  <2>1. \A d \in Callers : d \in Heard(s, n)' <=>
                             d \in Heard(s, n) \/ (d = c /\ c \in Pending(s))
    BY <1>6, <1>7 DEF Heard, Pending
  <2> QED BY <1>7, <2>1 DEF Heard, Pending
<1> QED BY <1>3, <1>5, <1>7, <1>8

(* A call's row is queued, or dropped; the call is no longer pending. *)
LEMMA SubmitMoves ==
  ASSUME TypeOK, NEW c \in Callers, Submit(c)
  PROVE  /\ spend' = spend
         /\ \A s \in Scopes :
              /\ \/ /\ dropped' = dropped
                    /\ Held(s)' = Held(s) + (IF c \in Pending(s) THEN 1 ELSE 0)
                 \/ dropped' = TRUE /\ Held(s)' = Held(s)
              /\ Pending(s)' = Pending(s) \ {c}
              /\ \A n : /\ c \in Pending(s) => c \in Heard(s, n)
                        /\ Heard(s, n)' = Heard(s, n) \ {c}
<1>1. /\ caller[c].at = "submit" /\ queue' = Queued(Row(c)) /\ caller' = [caller EXCEPT ![c] = Idle]
      /\ dropped' = (dropped \/ Full) /\ UNCHANGED <<spend, ledger, batch>>
  BY DEF Submit, tables, books
<1>2. Row(c) \in Rows /\ queue \in Seq(Alerts \cup Rows) /\ batch \in Seq(Rows)
  BY DEF TypeOK, Row, Rows
<1>3. \A s \in Scopes : Counts(Row(c), s, spend.month) <=> c \in Pending(s)
  BY <1>1 DEF Counts, Row, Pending
<1>4. ASSUME NEW s \in Scopes
      PROVE  \/ /\ dropped' = dropped
                /\ Held(s)' = Held(s) + (IF c \in Pending(s) THEN 1 ELSE 0)
             \/ dropped' = TRUE /\ Held(s)' = Held(s)
  <2>1. CASE Full
    BY <1>1, <2>1 DEF Queued, Held
  <2>2. CASE ~Full
    <3>1. queue' = Append(queue, Row(c))
      BY <1>1, <2>2 DEF Queued
    <3>2. Counted(queue', s, spend.month)
            = Counted(queue, s, spend.month) + (IF c \in Pending(s) THEN 1 ELSE 0)
      BY <1>2, <1>3, <3>1, CountAppend
    <3>3. Counted(queue, s, spend.month) \in Nat /\ Counted(batch, s, spend.month) \in Nat
          /\ ledger[spend.month][s] \in Nat
      BY <1>2, CountType, Numbers
    <3>4. Held(s)' = Held(s) + (IF c \in Pending(s) THEN 1 ELSE 0)
      BY <1>1, <3>2, <3>3 DEF Held
    <3>5. dropped' = dropped
      BY <1>1, <2>2 DEF TypeOK
    <3> QED BY <3>4, <3>5
  <2> QED BY <2>1, <2>2
<1>5. /\ \A d \in Callers : d # c => caller'[d] = caller[d]
      /\ caller'[c].at = "idle"
  BY <1>1 DEF TypeOK, Idle
<1>6. ASSUME NEW s \in Scopes PROVE Pending(s)' = Pending(s) \ {c}
  <2>1. \A d \in Callers : d \in Pending(s)' <=> d \in Pending(s) /\ d # c
    BY <1>1, <1>5 DEF Pending
  <2> QED BY <2>1 DEF Pending
<1>7. ASSUME NEW s \in Scopes, NEW n
      PROVE  /\ c \in Pending(s) => c \in Heard(s, n)
             /\ Heard(s, n)' = Heard(s, n) \ {c}
  <2>1. \A d \in Callers : d \in Heard(s, n)' <=> d \in Heard(s, n) /\ d # c
    BY <1>1, <1>5, <1>6 DEF Heard, Pending
  <2> QED BY <1>1, <1>6, <2>1 DEF Heard, Pending
<1> QED BY <1>1, <1>4, <1>6, <1>7

(* A start reads the book from the ledger. *)
LEMMA CrashMoves ==
  ASSUME TypeOK, Crash
  PROVE  \A s \in Scopes : /\ Pending(s)' = {} /\ Held(s)' = spend'.sum[s]
                           /\ Held(s)' \in Nat
<1> SUFFICES ASSUME NEW s \in Scopes
             PROVE  Pending(s)' = {} /\ Held(s)' = spend'.sum[s] /\ Held(s)' \in Nat
  OBVIOUS
<1>1. /\ spend' = [month |-> month, sum |-> ledger[month]] /\ ledger' = ledger
      /\ queue' = <<>> /\ batch' = <<>> /\ \A d \in Callers : caller'[d].at = "idle"
  BY DEF Crash, Seeded, Idle, tables
<1>2. Pending(s)' = {}
  BY <1>1 DEF Pending
<1>3. ledger[month][s] \in Nat
  <2>1. ledger[month] \in [Scopes -> Nat]
    BY DEF TypeOK, Sums
  <2> QED BY <2>1
<1>4. Counted(queue', s, month) = 0 /\ Counted(batch', s, month) = 0
  BY <1>1, CountNone
<1>5. Held(s)' = ledger[month][s]
  BY <1>1, <1>3, <1>4 DEF Held
<1> QED BY <1>1, <1>2, <1>3, <1>5

LEMMA BookInit == Init => BookInv
<1> SUFFICES ASSUME Init PROVE BookInv
  OBVIOUS
<1>1. TypeOK
  BY TypeInit
<1>2. /\ month = 1 /\ spend.month = 1 /\ queue = <<>> /\ batch = <<>>
      /\ \A m \in Months, s \in Scopes : ledger[m][s] = 0
      /\ \A s \in Scopes : spend.sum[s] = 0
      /\ \A c \in Callers : caller[c].at = "idle" /\ caller[c].month = 1
  BY DEF Init, NoSpend, Idle
<1>3. MonthsOK
  BY <1>2 DEF MonthsOK
<1>4. ASSUME NEW s \in Scopes
      PROVE  Held(s) = 0 /\ Pending(s) = {}
  <2>1. Counted(batch, s, 1) = 0 /\ Counted(queue, s, 1) = 0
    BY <1>2, CountNone
  <2>2. ledger[1][s] = 0
    BY <1>2
  <2> QED BY <1>2, <2>1, <2>2 DEF Held, Pending
<1>5. SumsOK
  <2> SUFFICES ASSUME NEW s \in Scopes
               PROVE  LET due == Held(s) + Cardinality(Pending(s))
                      IN  spend.sum[s] >= due /\ (dropped \/ spend.sum[s] = due)
    BY DEF SumsOK
  <2>1. Held(s) = 0 /\ Pending(s) = {} /\ spend.sum[s] = 0
    BY <1>2, <1>4
  <2>2. Cardinality(Pending(s)) = 0
    BY <2>1, FS_EmptySet
  <2> QED BY <2>1, <2>2
<1> QED BY <1>1, <1>3, <1>5 DEF BookInv

LEMMA HeldNext == ASSUME TypeOK', NEW s \in Scopes PROVE Held(s)' \in Nat
<1>1. Counted(batch', s, spend'.month) \in Nat /\ Counted(queue', s, spend'.month) \in Nat
  BY CountType DEF TypeOK
<1>2. ledger'[spend'.month] \in [Scopes -> Nat]
  BY DEF TypeOK, Sums
<1>3. ledger'[spend'.month][s] \in Nat
  BY <1>2
<1> QED BY <1>1, <1>3 DEF Held

LEMMA StillSums == ASSUME TypeOK, TypeOK', SumsOK, Still PROVE SumsOK'
<1> SUFFICES ASSUME NEW s \in Scopes
             PROVE  LET due == Held(s)' + Cardinality(Pending(s)')
                    IN  spend'.sum[s] >= due /\ (dropped' \/ spend'.sum[s] = due)
  BY DEF SumsOK
<1>1. /\ Held(s) \in Nat /\ Held(s)' \in Nat /\ Cardinality(Pending(s)) \in Nat
      /\ spend.sum[s] \in Nat
  BY Numbers, HeldNext
<1>2. /\ spend' = spend /\ Pending(s)' = Pending(s)
      /\ \/ Held(s)' = Held(s) /\ dropped' = dropped
         \/ Held(s)' <= Held(s) /\ dropped' = TRUE
  BY DEF Still
<1>3. /\ spend.sum[s] >= Held(s) + Cardinality(Pending(s))
      /\ dropped \/ spend.sum[s] = Held(s) + Cardinality(Pending(s))
  BY DEF SumsOK
<1>4. CASE Held(s)' = Held(s) /\ dropped' = dropped
  BY <1>2, <1>3, <1>4
<1>5. CASE Held(s)' <= Held(s) /\ dropped' = TRUE
  <2>1. spend'.sum[s] >= Held(s)' + Cardinality(Pending(s)')
    BY <1>1, <1>2, <1>3, <1>5
  <2> QED BY <1>5, <2>1
<1> QED BY <1>2, <1>4, <1>5

LEMMA SumsKeep == ASSUME BookInv, TypeOK', [Next]_vars PROVE SumsOK'
<1> USE DEF BookInv
<1>1. CASE Still
  BY <1>1, StillSums
<1>2. ASSUME NEW c \in Callers, Add(c) PROVE SumsOK'
  <2>1. CASE Still
    BY <2>1, StillSums
  <2>2. CASE ~Still
    <3> SUFFICES ASSUME NEW s \in Scopes
                 PROVE  LET due == Held(s)' + Cardinality(Pending(s)')
                        IN  spend'.sum[s] >= due /\ (dropped' \/ spend'.sum[s] = due)
      BY DEF SumsOK
    <3>1. /\ Held(s) \in Nat /\ IsFiniteSet(Pending(s)) /\ Cardinality(Pending(s)) \in Nat
          /\ spend.sum[s] \in Nat
      BY Numbers
    <3>2. CASE /\ Held(s)' = Held(s) /\ Pending(s)' = Pending(s)
               /\ spend'.sum[s] = spend.sum[s]
      BY <1>2, <3>2, AddMoves DEF SumsOK
    <3>3. CASE /\ Held(s)' = Held(s) /\ c \notin Pending(s)
               /\ Pending(s)' = Pending(s) \cup {c} /\ spend'.sum[s] = spend.sum[s] + 1
      <4>1. Cardinality(Pending(s)') = Cardinality(Pending(s)) + 1
        BY <3>1, <3>3, FS_AddElement
      <4>2. dropped' = dropped
        BY <1>2, AddMoves
      <4> QED BY <3>1, <3>3, <4>1, <4>2 DEF SumsOK
    <3>4. CASE Held(s)' = 0 /\ Pending(s)' = {c} /\ spend'.sum[s] = 1
      <4>1. Cardinality(Pending(s)') = 1
        BY <3>4, FS_Singleton
      <4> QED BY <3>4, <4>1
    <3>5. CASE Held(s)' = 0 /\ Pending(s)' = {} /\ spend'.sum[s] = 0
      <4>1. Cardinality(Pending(s)') = 0
        BY <3>5, FS_EmptySet
      <4> QED BY <3>5, <4>1
    <3> QED BY <1>2, <2>2, <3>2, <3>3, <3>4, <3>5, AddMoves
  <2> QED BY <2>1, <2>2
<1>3. ASSUME NEW c \in Callers, Hook(c) PROVE SumsOK'
  BY <1>3, HookMoves DEF SumsOK
<1>4. ASSUME NEW c \in Callers, Submit(c) PROVE SumsOK'
  <2> SUFFICES ASSUME NEW s \in Scopes
               PROVE  LET due == Held(s)' + Cardinality(Pending(s)')
                      IN  spend'.sum[s] >= due /\ (dropped' \/ spend'.sum[s] = due)
    BY DEF SumsOK
  <2>1. /\ Held(s) \in Nat /\ IsFiniteSet(Pending(s)) /\ Cardinality(Pending(s)) \in Nat
        /\ spend.sum[s] \in Nat
    BY Numbers
  <2>2. /\ Pending(s)' = Pending(s) \ {c} /\ spend' = spend
        /\ \/ /\ dropped' = dropped
              /\ Held(s)' = Held(s) + (IF c \in Pending(s) THEN 1 ELSE 0)
           \/ dropped' = TRUE /\ Held(s)' = Held(s)
    BY <1>4, SubmitMoves
  <2>3. Cardinality(Pending(s)') = IF c \in Pending(s) THEN Cardinality(Pending(s)) - 1
                                   ELSE Cardinality(Pending(s))
    BY <2>1, <2>2, FS_RemoveElement
  <2>4. Cardinality(Pending(s)') <= Cardinality(Pending(s))
    BY <2>1, <2>3
  <2> QED BY <2>1, <2>2, <2>3, <2>4 DEF SumsOK
<1>5. CASE Crash
  <2> SUFFICES ASSUME NEW s \in Scopes
               PROVE  LET due == Held(s)' + Cardinality(Pending(s)')
                      IN  spend'.sum[s] >= due /\ (dropped' \/ spend'.sum[s] = due)
    BY DEF SumsOK
  <2>1. Pending(s)' = {} /\ Held(s)' = spend'.sum[s] /\ Held(s)' \in Nat
    BY <1>5, CrashMoves
  <2>2. Cardinality(Pending(s)') = 0
    BY <2>1, FS_EmptySet
  <2> QED BY <2>1, <2>2
<1> QED
  BY <1>1, <1>2, <1>3, <1>4, <1>5, OthersAreStill, CallersAreStill, WriterIsStill
     DEF Next, Recording

(* What is found fires for the month it is found in. *)
LEMMA NewlyMonths ==
  ASSUME TypeOK, NEW scopes \in SUBSET Scopes, NEW spent \in Sums, NEW m \in Months,
         NEW f \in Newly(scopes, spent, m)
  PROVE  f.month = m
<1>1. \A g \in Newly(scopes, spent, m) :
        \E s \in scopes, t \in BUDGET_THRESHOLDS :
          g = Alert(s, t, spent, m) /\ t \in NewAt(s, spent, m)
  BY ONLY TypeOK, scopes \in SUBSET Scopes, spent \in Sums, m \in Months, NewlyFound, ZenonT(60)
<1>2. PICK s \in scopes, t \in BUDGET_THRESHOLDS : f = Alert(s, t, spent, m)
  BY <1>1
<1> QED BY <1>2 DEF Alert

(* Months are numbers. *)
LEMMA MonthTypes ==
  ASSUME TypeOK
  PROVE  /\ month \in Nat /\ spend.month \in Nat /\ \A c \in Callers : caller[c].month \in Nat
         /\ \A m \in Months : m \in Nat
         /\ \A i \in DOMAIN queue : queue[i] \in Alerts \cup Rows /\ queue[i].month \in Nat
         /\ \A i \in DOMAIN batch : batch[i] \in Rows /\ batch[i].month \in Nat
<1>1. \A m \in Months : m \in Nat
  OBVIOUS
<1>2. month \in Months /\ spend.month \in Months
  BY DEF TypeOK
<1>3. ASSUME NEW c \in Callers PROVE caller[c].month \in Nat
  <2>1. caller[c] \in CallerType
    BY DEF TypeOK, CallerType
  <2>2. caller[c].month \in Months
    BY <2>1 DEF CallerType
  <2> QED BY <1>1, <2>2
<1>4. ASSUME NEW x \in Alerts \cup Rows PROVE x.month \in Nat
  <2>1. x.month \in Months
    BY DEF Alerts, Rows
  <2> QED BY <1>1, <2>1
<1>5. queue \in Seq(Alerts \cup Rows) /\ batch \in Seq(Rows)
  BY DEF TypeOK
<1>6. \A i \in DOMAIN queue : queue[i] \in Alerts \cup Rows
  BY <1>5
<1>7. \A i \in DOMAIN batch : batch[i] \in Rows
  BY <1>5
<1> QED BY <1>1, <1>2, <1>3, <1>4, <1>6, <1>7

LEMMA MonthsKeep == ASSUME BookInv, TypeOK', [Next]_vars PROVE MonthsOK'
<1>1. /\ TypeOK /\ MonthsOK
      /\ month \in Nat /\ spend.month \in Nat /\ \A c \in Callers : caller[c].month \in Nat
      /\ \A m \in Months : m \in Nat
      /\ \A i \in DOMAIN queue : queue[i].month \in Nat
      /\ \A i \in DOMAIN batch : batch[i].month \in Nat
      /\ queue \in Seq(Alerts \cup Rows) /\ batch \in Seq(Rows)
  <2>1. TypeOK /\ MonthsOK
    BY DEF BookInv
  <2>2. queue \in Seq(Alerts \cup Rows) /\ batch \in Seq(Rows)
    BY <2>1 DEF TypeOK
  <2> QED BY <2>1, <2>2, MonthTypes
<1>2. CASE UNCHANGED vars
  BY <1>1, <1>2 DEF vars, tables, books, writer, MonthsOK
<1>3. CASE MonthEnds
  BY <1>1, <1>3 DEF MonthEnds, tables, books, writer, MonthsOK
<1>4. ASSUME NEW r \in Requests, CommitPut(r) \/ CommitDelete(r) \/ Load(r) \/ SetOrg(r)
      PROVE  MonthsOK'
  BY <1>1, <1>4 DEF CommitPut, CommitDelete, Load, SetOrg, tables, books, writer, MonthsOK
<1>5. ASSUME NEW new \in SUBSET Alerts, IsFiniteSet(new), PutAll(new),
             \A f \in new : f.month <= spend.month
      PROVE  \A i \in DOMAIN queue' : queue'[i].month <= spend.month
  <2>1. \A i \in DOMAIN queue' : queue'[i] \in Range(queue) \cup new
    BY <1>1, <1>5, PutAllQueues
  <2>2. \A x \in Range(queue) : x.month <= spend.month
    BY <1>1 DEF MonthsOK, Range
  <2> QED BY <1>5, <2>1, <2>2
<1>6. ASSUME NEW scopes \in SUBSET Scopes, NEW spent \in Sums, NEW m \in Months
      PROVE  \A f \in Newly(scopes, spent, m) : f.month = m
  BY <1>1, NewlyMonths
<1>7. ASSUME NEW r \in Requests, Evaluate(r) PROVE MonthsOK'
  <2>1. SpentNow \in Sums /\ spend.month \in Months
    BY <1>1 DEF SpentNow, Spent, TypeOK, Sums
  <2>2. Evaluated \subseteq Alerts /\ IsFiniteSet(Evaluated)
    BY <1>1, <2>1, NewlyTypes DEF Evaluated
  <2>3. \A f \in Evaluated : f.month <= spend.month
    BY <1>1, <1>6, <2>1 DEF Evaluated
  <2>4. \A i \in DOMAIN queue' : queue'[i].month <= spend.month
    BY <1>5, <1>7, <2>2, <2>3 DEF Evaluate
  <2> QED BY <1>1, <1>7, <2>4 DEF Evaluate, tables, MonthsOK
<1>8. ASSUME NEW c \in Callers, Start(c) \/ Recording(c) PROVE MonthsOK'
  <2>1. caller \in [Callers -> CallerType] /\ caller[c] \in CallerType
    BY <1>1 DEF TypeOK, CallerType
  <2>2. CASE Start(c)
    <3>1. caller'[c].at = "call" /\ caller'[c].month = 1
      BY <2>1, <2>2 DEF Start, Idle
    <3>2. \A d \in Callers : d # c => caller'[d] = caller[d]
      BY <2>1, <2>2 DEF Start
    <3>3. month \in Months
      BY <1>1 DEF TypeOK
    <3> QED BY <1>1, <2>2, <3>1, <3>2, <3>3 DEF Start, tables, books, writer, MonthsOK
  <2>3. CASE Answered(c)
    <3>1. caller'[c].at = "add" /\ caller'[c].month = month
      BY <2>1, <2>3 DEF Answered, CallerType
    <3>2. \A d \in Callers : d # c => caller'[d] = caller[d]
      BY <2>1, <2>3 DEF Answered
    <3> QED BY <1>1, <2>3, <3>1, <3>2 DEF Answered, tables, books, writer, MonthsOK
  <2>4. CASE Add(c)
    <3>1. caller'[c].month = caller[c].month
      BY <2>1, <2>4 DEF Add, CallerType
    <3>2. \A d \in Callers : d # c => caller'[d] = caller[d]
      BY <2>1, <2>4 DEF Add
    <3>3. spend.month <= spend'.month /\ spend'.month <= month
          /\ caller[c].month <= spend'.month /\ spend'.month \in Nat
      BY <1>1, <2>1, <2>4 DEF Add, Added, MonthsOK, CallerType
    <3>4. UNCHANGED <<month, ledger, queue, batch>>
      BY <2>4 DEF Add, tables, writer
    <3>5. month' = month /\ ledger' = ledger /\ queue' = queue /\ batch' = batch
      BY <3>4
    <3>6. \A m \in Months, s \in Scopes : m > spend'.month => ledger'[m][s] = 0
      BY <1>1, <3>3, <3>5 DEF MonthsOK
    <3>7. /\ \A i \in DOMAIN queue' : queue'[i].month <= spend'.month
          /\ \A i \in DOMAIN batch' : batch'[i].month <= spend'.month
      BY <1>1, <3>3, <3>5, SMTT(30) DEF MonthsOK
    <3>8. \A d \in Callers :
            /\ caller'[d].month <= month'
            /\ caller'[d].at \in {"hook", "submit"} => caller'[d].month <= spend'.month
      <4> SUFFICES ASSUME NEW d \in Callers
                   PROVE  /\ caller'[d].month <= month'
                          /\ caller'[d].at \in {"hook", "submit"}
                               => caller'[d].month <= spend'.month
        OBVIOUS
      <4>1. caller[d].month \in Nat /\ caller[d].month <= month
            /\ (caller[d].at \in {"hook", "submit"} => caller[d].month <= spend.month)
        BY <1>1 DEF MonthsOK
      <4>2. CASE d = c
        BY <3>1, <3>3, <3>5, <4>1, <4>2
      <4>3. CASE d # c
        BY <1>1, <3>2, <3>3, <3>5, <4>1, <4>3, SMTT(30)
      <4> QED BY <4>2, <4>3
    <3> QED BY <3>3, <3>5, <3>6, <3>7, <3>8 DEF MonthsOK
  <2>5. CASE Hook(c)
    <3>1. /\ caller[c].covers \in SUBSET Scopes /\ caller[c].spent \in Sums
          /\ caller[c].month \in Months /\ caller[c].at = "hook"
      BY <2>1, <2>5 DEF Hook, CallerType
    <3> DEFINE new == Newly(caller[c].covers, caller[c].spent, caller[c].month)
    <3>2. new \subseteq Alerts /\ IsFiniteSet(new)
      BY <1>1, <3>1, NewlyTypes
    <3>3. \A f \in new : f.month <= spend.month
      <4>1. caller[c].month <= spend.month
        BY <1>1, <3>1 DEF MonthsOK
      <4>2. \A f \in new : f.month = caller[c].month
        BY <1>6, <3>1
      <4> QED BY <4>1, <4>2
    <3>4. PutAll(new)
      BY <2>5 DEF Hook
    <3> HIDE DEF new
    <3>5. \A i \in DOMAIN queue' : queue'[i].month <= spend.month
      BY <1>5, <3>2, <3>3, <3>4
    <3>6. caller'[c].month = caller[c].month
      BY <2>1, <2>5 DEF Hook, CallerType
    <3>7. \A d \in Callers : d # c => caller'[d] = caller[d]
      BY <2>1, <2>5 DEF Hook
    <3> QED BY <1>1, <2>5, <3>1, <3>5, <3>6, <3>7 DEF Hook, tables, MonthsOK
  <2>6. CASE Submit(c)
    <3>1. caller'[c].month = 1 /\ caller'[c].at = "idle"
      BY <2>1, <2>6 DEF Submit, Idle
    <3>2. \A d \in Callers : d # c => caller'[d] = caller[d]
      BY <2>1, <2>6 DEF Submit
    <3>3. month \in Months /\ Row(c).month = caller[c].month /\ caller[c].at = "submit"
      BY <1>1, <2>6 DEF TypeOK, Submit, Row
    <3>4. \A i \in DOMAIN queue' : queue'[i].month <= spend.month
      <4>1. queue' = queue \/ queue' = Append(queue, Row(c))
        BY <2>6 DEF Submit, Queued
      <4>2. \A i \in DOMAIN queue' : \/ i \in DOMAIN queue /\ queue'[i] = queue[i]
                                     \/ queue'[i] = Row(c)
        <5> DEFINE x == Row(c)
        <5>1. (queue' = queue \/ queue' = Append(queue, x)) /\ x \in Alerts \cup Rows
          <6>1. x \in Rows
            BY <2>1 DEF Row, Rows, CallerType
          <6> QED BY <4>1, <6>1
        <5> HIDE DEF x
        <5>2. \A i \in DOMAIN queue' : \/ i \in DOMAIN queue /\ queue'[i] = queue[i]
                                       \/ queue'[i] = x
          <6>1. queue \in Seq(Alerts \cup Rows) /\ DOMAIN queue = 1..Len(queue)
                /\ Len(queue) \in Nat
            BY <1>1
          <6>2. CASE queue' = Append(queue, x)
            <7>1. /\ DOMAIN queue' = 1..Len(queue) + 1 /\ queue'[Len(queue) + 1] = x
                  /\ \A i \in 1..Len(queue) : queue'[i] = queue[i]
              BY <5>1, <6>1, <6>2
            <7> QED BY <6>1, <7>1
          <6> QED BY <5>1, <6>2
        <5> QED BY <5>2 DEF x
      <4> QED BY <1>1, <3>3, <4>2 DEF MonthsOK
    <3> QED BY <1>1, <2>6, <3>1, <3>2, <3>3, <3>4, SMTT(30) DEF Submit, tables, books, MonthsOK
  <2> QED BY <1>8, <2>2, <2>3, <2>4, <2>5, <2>6 DEF Recording
<1>9. CASE TakeRow
  <2>1. /\ queue # <<>> /\ queue' = Tail(queue) /\ batch' = Append(batch, Head(queue))
        /\ UNCHANGED <<month, spend, caller, ledger>>
    BY <1>9 DEF TakeRow, WriterRest, books
  <2>2. /\ \A i \in DOMAIN queue' : queue'[i].month <= spend.month
        /\ \A i \in DOMAIN batch' : batch'[i].month <= spend.month
    <3> DEFINE x == Head(queue)
    <3>1. \A i \in DOMAIN queue' : i + 1 \in DOMAIN queue /\ queue'[i] = queue[i + 1]
      BY <1>1, <2>1
    <3>2. 1 \in DOMAIN queue /\ x = queue[1]
      BY <1>1, <2>1
    <3>3. batch' = Append(batch, x)
      BY <2>1
    <3> HIDE DEF x
    <3>4. \A i \in DOMAIN batch' : \/ i \in DOMAIN batch /\ batch'[i] = batch[i]
                                   \/ batch'[i] = x
      BY <1>1, <3>3
    <3> QED BY <1>1, <3>1, <3>2, <3>4 DEF MonthsOK
  <2> QED BY <1>1, <2>1, <2>2 DEF MonthsOK
<1>10. CASE WriteBatch
  <2>1. batch' = <<>> /\ UNCHANGED <<month, spend, caller, queue>>
    BY <1>10 DEF WriteBatch, WriterRest, books
  <2>2. ASSUME NEW m \in Months, NEW s \in Scopes, m > spend.month PROVE ledger'[m][s] = 0
    <3>1. \A i \in DOMAIN batch : ~Counts(batch[i], s, m)
      BY <1>1, <2>2 DEF MonthsOK, Counts
    <3>2. Counted(batch, s, m) = 0
      BY <3>1, CountNone
    <3>3. ledger[m][s] = 0
      BY <1>1, <2>2 DEF MonthsOK
    <3> QED BY <1>10, <3>2, <3>3 DEF WriteBatch
  <2> QED BY <1>1, <2>1, <2>2 DEF MonthsOK
<1>11. CASE RecordAlert
  <2>1. /\ queue # <<>> /\ queue' = Tail(queue)
        /\ UNCHANGED <<month, spend, caller, ledger, batch>>
    BY <1>11 DEF RecordAlert, WriterRest, books
  <2>2. \A i \in DOMAIN queue' : queue'[i].month <= spend.month
    <3>1. \A i \in DOMAIN queue' : i + 1 \in DOMAIN queue /\ queue'[i] = queue[i + 1]
      BY <1>1, <2>1
    <3> QED BY <1>1, <3>1 DEF MonthsOK
  <2> QED BY <1>1, <2>1, <2>2 DEF MonthsOK
<1>12. CASE Crash
  BY <1>1, <1>12, SMTT(30) DEF Crash, Seeded, Idle, tables, MonthsOK, TypeOK
<1> QED BY <1>2, <1>3, <1>4, <1>7, <1>8, <1>9, <1>10, <1>11, <1>12
        DEF Next, Reloading, Writing

LEMMA BookInvariance == Spec => []BookInv
<1>1. ASSUME BookInv, [Next]_vars PROVE BookInv'
  BY <1>1, TypeNext, SumsKeep, MonthsKeep DEF BookInv
<1> QED BY BookInit, <1>1, PTL DEF Spec

(***************************************************************************)
(* BookAccounts (Budgets): every call of the book's month is counted once, *)
(* and no budget stops anybody in a month in which nothing was spent.      *)
(***************************************************************************)
THEOREM EverySpendIsCounted == Spec => []BookAccounts
<1>1. ASSUME BookInv PROVE BookAccounts
  <2>1. TypeOK
    BY <1>1 DEF BookInv
  <2> SUFFICES ASSUME NEW s \in Scopes
               PROVE  LET due == ledger[spend.month][s] + OnTheirWay(s)
                      IN  /\ spend.sum[s] >= due
                          /\ ~dropped => spend.sum[s] = due
                          /\ Blocked({s}) => spend.month = month /\ (due > 0 \/ dropped)
    BY <2>1 DEF BookAccounts
  <2>2. /\ Counted(batch, s, spend.month) \in Nat /\ Counted(queue, s, spend.month) \in Nat
        /\ ledger[spend.month][s] \in Nat /\ Cardinality(Pending(s)) \in Nat
        /\ spend.sum[s] \in Nat
    BY <2>1, CountType, Numbers DEF TypeOK
  <2>3. ledger[spend.month][s] + OnTheirWay(s) = Held(s) + Cardinality(Pending(s))
    BY <2>2 DEF OnTheirWay, Held
  <2>4. ASSUME Blocked({s}) PROVE spend.month = month /\ spend.sum[s] > 0
    <3>1. map[s] # NoBudget /\ Spent(s) >= map[s].amount
      BY <2>4 DEF Blocked
    <3>2. map[s].amount \in Nat /\ map[s].amount > 0
      BY <2>1, <3>1, BudgetTypes DEF TypeOK
    <3> QED BY <2>2, <3>1, <3>2 DEF Spent
  <2>5. spend.sum[s] >= Held(s) + Cardinality(Pending(s))
        /\ (dropped \/ spend.sum[s] = Held(s) + Cardinality(Pending(s)))
    BY <1>1 DEF BookInv, SumsOK
  <2> QED BY <2>3, <2>4, <2>5
<1> QED BY <1>1, BookInvariance, PTL

-----------------------------------------------------------------------------
(* The budgets *)

OwnIds(b) == \A s, u \in Scopes : b[s].id = b[u].id /\ b[s].id # 0 => s = u
KnownIds(b, n) == \A s \in Scopes : b[s].id <= n + 2

(* An id is given to one budget, and never again. *)
IdsOK ==
  /\ OwnIds(budgets) /\ KnownIds(budgets, writes)
  /\ KnownIds(map, writes)
  /\ \A r \in Requests : KnownIds(write[r].loaded, writes)
  /\ ~alertLost => \A f \in fired : f[1] <= writes + 2

(* The map is what the table says, but for a write under way; a deletion   *)
(* under way leaves every other budget as the map has it.                  *)
MapOK ==
  /\ (\A r \in Requests : write[r].at \in {"idle", "evaluate"}) => map = budgets
  /\ \A r \in Requests :
       /\ write[r].at = "set" => write[r].loaded = budgets
       /\ write[r].at \in {"load", "set"} /\ ~write[r].put =>
            \A s \in Scopes : budgets[s] \in {NoBudget, map[s]}

(* What has fired of a budget there is, is recorded or queued. *)
Told(table, items, f) ==
  \E a \in table \cup {i \in Range(items) : i.scope # "row"} :
    a.id = f[1] /\ a.month = f[2] /\ a.threshold = f[3]

FiredRecorded ==
  ~alertLost =>
    \A s \in Scopes, f \in fired :
      budgets[s] # NoBudget /\ f[1] = budgets[s].id => Told(alerts, queue, f)

(* A threshold that has not fired was not crossed by the calls that fired. *)
FiredOK ==
  ~alertLost /\ spend.month = month /\ (\A r \in Requests : write[r].at # "evaluate") =>
    \A s \in Scopes, t \in BUDGET_THRESHOLDS : \A n \in Nat :
      map[s] # NoBudget /\ n = map[s].amount * t /\ <<map[s].id, month, t>> \notin fired =>
        (Held(s) + Cardinality(Heard(s, n))) * 100 < n

StopInv == BookInv /\ MapOK
AlertInv == StopInv /\ IdsOK /\ FiredRecorded /\ FiredOK

(* The steps that are no budget write's leave the budgets alone. *)
LEMMA BudgetsStand ==
  ASSUME TypeOK, \/ \E c \in Callers : Start(c) \/ Recording(c)
                 \/ Writing \/ MonthEnds \/ UNCHANGED vars
  PROVE  UNCHANGED <<budgets, map, write, writes>>
<1>1. CASE \E c \in Callers : Start(c) \/ Recording(c)
  BY <1>1 DEF Start, Recording, Answered, Add, Hook, Submit, tables, books, writer, counts
<1>2. CASE Writing
  BY <1>2 DEF Writing, TakeRow, WriteBatch, RecordAlert, WriterRest, books
<1> QED BY <1>1, <1>2 DEF MonthEnds, vars, tables, books, writer, counts

LEMMA MapInit == Init => MapOK
<1> SUFFICES ASSUME Init PROVE MapOK
  OBVIOUS
<1>1. map = budgets /\ \A r \in Requests : write[r].at = "idle"
  BY DEF Init, NoWrite
<1> QED BY <1>1 DEF MapOK

(* One write at a time: the one that loads is the one that committed. *)
LEMMA MapKeep ==
  ASSUME \A q, r \in Requests : q = r, TypeOK, MapOK, [Next]_vars
  PROVE  MapOK'
<1>1. CASE \/ \E c \in Callers : Start(c) \/ Recording(c)
           \/ Writing \/ MonthEnds \/ UNCHANGED vars
  <2>1. UNCHANGED <<budgets, map, write>>
    BY <1>1, BudgetsStand
  <2> QED BY <2>1 DEF MapOK
<1>2. CASE Crash
  <2>1. map' = budgets' /\ \A r \in Requests : write'[r].at = "idle"
    BY <1>2 DEF Crash, NoWrite, tables
  <2> QED BY <2>1 DEF MapOK
<1>3. ASSUME NEW r \in Requests, CommitPut(r) \/ CommitDelete(r) \/ Reloading(r)
      PROVE  MapOK'
  <2>1. /\ write \in [Requests -> WriteType] /\ write[r] \in WriteType
        /\ \A q \in Requests : q = r
    BY DEF TypeOK, WriteType
  <2>2. CASE CommitPut(r)
    <3>1. write'[r].at = "load" /\ write'[r].put = TRUE
      BY <2>1, <2>2 DEF CommitPut, NoWrite
    <3> QED BY <2>1, <3>1 DEF MapOK
  <2>3. CASE CommitDelete(r)
    <3>1. write'[r].at = "load" /\ write[r].at = "idle"
      BY <2>1, <2>3 DEF CommitDelete, NoWrite
    <3>2. map' = map /\ map = budgets
      BY <2>1, <2>3, <3>1 DEF CommitDelete, MapOK, books
    <3>3. \A s \in Scopes : budgets'[s] \in {NoBudget, map'[s]}
      BY <2>3, <3>2 DEF CommitDelete, TypeOK, BudgetMaps
    <3> QED BY <2>1, <3>1, <3>3 DEF MapOK
  <2>4. CASE Load(r)
    <3>1. write'[r].at = "set" /\ write'[r].loaded = budgets /\ write'[r].put = write[r].put
      BY <2>1, <2>4 DEF Load, WriteType
    <3>2. UNCHANGED <<budgets, map>> /\ write[r].at = "load"
      BY <2>4 DEF Load, tables, books
    <3> QED BY <2>1, <3>1, <3>2 DEF MapOK
  <2>5. CASE SetOrg(r)
    <3>1. write'[r].at \in {"idle", "evaluate"}
      BY <2>1, <2>5 DEF SetOrg, NoWrite
    <3>2. map' = budgets'
      BY <2>5 DEF SetOrg, Loaded, MapOK, tables
    <3> QED BY <2>1, <3>1, <3>2 DEF MapOK
  <2>6. CASE Evaluate(r)
    <3>1. write'[r].at = "idle" /\ UNCHANGED <<map, budgets>>
      BY <2>1, <2>6 DEF Evaluate, NoWrite, tables
    <3>2. map = budgets
      BY <2>1, <2>6 DEF Evaluate, MapOK
    <3> QED BY <2>1, <3>1, <3>2 DEF MapOK
  <2> QED BY <1>3, <2>2, <2>3, <2>4, <2>5, <2>6 DEF Reloading
<1> QED BY <1>1, <1>2, <1>3 DEF Next

LEMMA StopInvariance ==
  ASSUME \A q, r \in Requests : q = r
  PROVE  Spec => []StopInv
<1>1. Init => StopInv
  BY BookInit, MapInit DEF StopInv
<1>2. ASSUME StopInv, [Next]_vars PROVE StopInv'
  <2>1. BookInv /\ TypeOK /\ MapOK
    BY <1>2 DEF StopInv, BookInv
  <2>2. TypeOK'
    BY <1>2, <2>1, TypeNext
  <2>3. MapOK'
    BY <1>2, <2>1, MapKeep
  <2>4. SumsOK' /\ MonthsOK'
    BY <1>2, <2>1, <2>2, SumsKeep, MonthsKeep
  <2> QED BY <2>2, <2>3, <2>4 DEF StopInv, BookInv
<1> QED BY <1>1, <1>2, PTL DEF Spec

(* A caller that turns from idle to a call starts one. *)
LEMMA CallsStart ==
  ASSUME TypeOK, [Next]_vars, NEW c \in Callers, caller[c].at = "idle", caller'[c].at = "call"
  PROVE  Start(c)
<1>1. caller \in [Callers -> CallerType] /\ caller' # caller
  BY DEF TypeOK, CallerType
<1>2. ~Crash
  BY DEF Crash, Idle
<1>3. ~MonthEnds /\ ~UNCHANGED vars /\ ~Writing
  BY <1>1 DEF MonthEnds, vars, Writing, TakeRow, WriteBatch, RecordAlert, WriterRest
<1>4. ~\E r \in Requests : CommitPut(r) \/ CommitDelete(r) \/ Reloading(r)
  BY <1>1 DEF CommitPut, CommitDelete, Reloading, Load, SetOrg, Evaluate
<1>5. PICK d \in Callers : Start(d) \/ Recording(d)
  BY <1>2, <1>3, <1>4 DEF Next
<1>6. c = d
  BY <1>1, <1>5 DEF Start, Recording, Answered, Add, Hook, Submit
<1>7. ~Recording(c)
  BY DEF Recording, Answered, Add, Hook, Submit
<1> QED BY <1>5, <1>6, <1>7

(***************************************************************************)
(* StopHolds (Budgets), for any number of calls and one budget write at a  *)
(* time: no call starts under a hard stop that the ledger has reached.     *)
(***************************************************************************)
THEOREM HardStopsHold ==
  ASSUME \A q, r \in Requests : q = r
  PROVE  Spec => StopHolds
<1>1. ASSUME StopInv, [Next]_vars, NEW c \in Callers,
             caller[c].at = "idle", caller'[c].at = "call",
             \A r \in Requests : write[r].at = "idle"
      PROVE  ~Exhausted(caller'[c].covers)
  <2>1. /\ TypeOK /\ MonthsOK /\ SumsOK
        /\ map = budgets
    BY <1>1 DEF StopInv, BookInv, MapOK
  <2>2. Start(c)
    BY <1>1, <2>1, CallsStart
  <2>3. PICK scopes \in {{"org"}, Scopes} :
          /\ ~Blocked(scopes)
          /\ caller' = [caller EXCEPT ![c] = [Idle EXCEPT !.at = "call", !.covers = scopes]]
    BY <2>2 DEF Start
  <2>4. caller'[c].covers = scopes
    BY <2>1, <2>3 DEF TypeOK, Idle
  <2> SUFFICES ASSUME NEW s \in scopes, budgets[s] # NoBudget, budgets[s].hard,
                      ledger[month][s] >= budgets[s].amount
               PROVE  FALSE
    BY <2>4 DEF Exhausted
  <2>5. s \in Scopes
    OBVIOUS
  <2>6. budgets[s].amount \in Nat /\ budgets[s].amount > 0
    BY <2>1, <2>5, BudgetTypes DEF TypeOK
  <2>7. ~(Spent(s) >= budgets[s].amount)
    BY <2>1, <2>3 DEF Blocked
  <2>8. CASE spend.month = month
    <3>1. /\ spend.sum[s] \in Nat /\ Held(s) \in Nat /\ ledger[month][s] \in Nat
          /\ ledger[month][s] <= Held(s) /\ Cardinality(Pending(s)) \in Nat
      BY <2>1, <2>5, <2>8, Numbers
    <3>2. spend.sum[s] >= Held(s) + Cardinality(Pending(s))
      BY <2>1, <2>5 DEF SumsOK
    <3>3. Spent(s) = spend.sum[s]
      BY <2>8 DEF Spent
    <3> QED BY <2>6, <2>7, <3>1, <3>2, <3>3
  <2>9. CASE spend.month # month
    <3>1. month \in Nat /\ spend.month \in Nat /\ month \in Months
      BY <2>1, MonthTypes DEF TypeOK
    <3>2. ledger[month][s] = 0
      BY <2>1, <2>5, <2>9, <3>1 DEF MonthsOK
    <3> QED BY <2>6, <3>2
  <2> QED BY <2>8, <2>9
<1>2. ASSUME StopInv, [Next]_vars
      PROVE  [\A c \in Callers :
                /\ caller[c].at = "idle" /\ caller'[c].at = "call"
                /\ \A r \in Requests : write[r].at = "idle"
                => ~Exhausted(caller'[c].covers)]_vars
  BY <1>1, <1>2
<1> QED BY <1>2, StopInvariance, PTL DEF Spec, StopHolds

(* What is queued of alerts stays queued when the queue grows. *)
LEMMA ToldStays ==
  ASSUME NEW f, Told(alerts, queue, f), alerts \subseteq alerts',
         Range(queue) \subseteq Range(queue')
  PROVE  Told(alerts', queue', f)
  BY DEF Told

LEMMA PutAllKeeps ==
  ASSUME TypeOK, NEW new \in SUBSET Alerts, IsFiniteSet(new), PutAll(new)
  PROVE  Range(queue) \subseteq Range(queue')
<1>1. \A i \in DOMAIN queue : i \in DOMAIN queue' /\ queue'[i] = queue[i]
  BY PutAllQueues
<1> QED BY <1>1 DEF Range

(* Firing: the ids are those of the map, and what fires is queued. *)
LEMMA FireTells ==
  ASSUME TypeOK, IdsOK, FiredRecorded,
         NEW scopes \in SUBSET Scopes, NEW spent \in Sums, NEW mon \in Months,
         Fire(scopes, spent, mon), PutAll(Newly(scopes, spent, mon)),
         UNCHANGED <<budgets, map, alerts, writes>>
  PROVE  FiredRecorded' /\ (~alertLost' => \A f \in fired' : f[1] <= writes' + 2)
<1> DEFINE new == Newly(scopes, spent, mon)
<1>1. new \subseteq Alerts /\ IsFiniteSet(new)
  BY NewlyTypes
<1>2. /\ \A f \in fired' :
           \/ f \in fired
           \/ \E s \in scopes : \E t \in NewAt(s, spent, mon) : f = <<map[s].id, mon, t>>
      /\ \A s \in scopes : \A t \in NewAt(s, spent, mon) : Alert(s, t, spent, mon) \in new
  <2>1. \A s \in scopes : \A t \in NewAt(s, spent, mon) : Alert(s, t, spent, mon) \in new
    BY ONLY TypeOK, scopes \in SUBSET Scopes, spent \in Sums, mon \in Months, NewlyFound
  <2>2. \A f \in fired' :
          \/ f \in fired
          \/ \E s \in scopes : \E t \in NewAt(s, spent, mon) : f = <<map[s].id, mon, t>>
    BY ONLY TypeOK, scopes \in SUBSET Scopes, spent \in Sums, mon \in Months,
            Fire(scopes, spent, mon), FireMarks
  <2> QED BY <2>1, <2>2
<1>3. PutAll(new)
  OBVIOUS
<1> HIDE DEF new
<1>4. /\ ~alertLost' => ~alertLost /\ new \subseteq Range(queue')
      /\ Range(queue) \subseteq Range(queue')
  <2>1. ~alertLost' => ~alertLost
    BY <1>1, <1>3, PutAllQueues
  <2>2. ~alertLost' => new \subseteq Range(queue')
    BY <1>1, <1>3, PutAllQueues
  <2> QED BY <1>1, <1>3, <2>1, <2>2, PutAllKeeps
<1>5. ASSUME ~alertLost', NEW f \in fired' PROVE f[1] <= writes' + 2
  <2>1. CASE f \in fired
    BY <1>4, <1>5, <2>1 DEF IdsOK
  <2>2. CASE f \notin fired
    <3>1. PICK s \in scopes : \E t \in NewAt(s, spent, mon) : f = <<map[s].id, mon, t>>
      BY <1>2, <2>2
    <3> QED BY <3>1 DEF IdsOK, KnownIds
  <2> QED BY <2>1, <2>2
<1>6. ASSUME ~alertLost', NEW s \in Scopes, NEW f \in fired',
             budgets'[s] # NoBudget, f[1] = budgets'[s].id
      PROVE  Told(alerts', queue', f)
  <2>1. CASE f \in fired
    <3>1. Told(alerts, queue, f)
      BY <1>4, <1>6, <2>1 DEF FiredRecorded
    <3> QED BY <1>4, <3>1, ToldStays
  <2>2. CASE f \notin fired
    <3>1. PICK u \in scopes : \E v \in NewAt(u, spent, mon) : f = <<map[u].id, mon, v>>
      BY <1>2, <2>2
    <3>2. PICK v \in NewAt(u, spent, mon) : f = <<map[u].id, mon, v>>
      BY <3>1
    <3> DEFINE a == Alert(u, v, spent, mon)
    <3>3. a \in Range(queue') /\ a \in Alerts
      BY <1>1, <1>2, <1>4, <1>6
    <3>4. a.id = f[1] /\ a.month = f[2] /\ a.threshold = f[3]
      BY <3>2 DEF Alert
    <3>5. a.scope # "row"
      BY <3>3 DEF Alerts
    <3> HIDE DEF a
    <3> QED BY <3>3, <3>4, <3>5 DEF Told
  <2> QED BY <2>1, <2>2
<1> QED BY <1>5, <1>6 DEF FiredRecorded

LEMMA IdsInit == Init => IdsOK
<1> SUFFICES ASSUME Init PROVE IdsOK
  OBVIOUS
<1>1. budgets \in Initial /\ map = budgets /\ writes = 0 /\ fired = {}
  BY DEF Init
<1>2. \A r \in Requests : write[r].loaded = NoBudgets
  BY DEF Init, NoWrite
<1>3. \A s \in Scopes : NoBudgets[s].id = 0
  BY DEF NoBudgets, NoBudget
<1>4. KnownIds(budgets, writes) /\ OwnIds(budgets)
  <2>1. /\ budgets["org"].id <= 2 /\ budgets["project"].id <= 2
        /\ (budgets["org"].id = budgets["project"].id => budgets["org"].id = 0)
    BY <1>1
  <2> QED BY <1>1, <2>1 DEF KnownIds, OwnIds
<1>5. \A r \in Requests : KnownIds(write[r].loaded, writes)
  BY <1>1, <1>2, <1>3 DEF KnownIds
<1> QED BY <1>1, <1>4, <1>5 DEF IdsOK

LEMMA TellInit == Init => FiredRecorded /\ FiredOK
<1> SUFFICES ASSUME Init PROVE FiredRecorded /\ FiredOK
  OBVIOUS
<1>1. FiredRecorded
  BY DEF Init, FiredRecorded
<1>2. ASSUME NEW s \in Scopes, NEW t \in BUDGET_THRESHOLDS, map[s] # NoBudget,
             NEW n \in Nat, n = map[s].amount * t
      PROVE  (Held(s) + Cardinality(Heard(s, n))) * 100 < n
  <2>1. TypeOK
    BY TypeInit
  <2>2. map[s].amount \in Nat /\ map[s].amount > 0
    BY <1>2, <2>1, BudgetTypes, SMTT(30) DEF TypeOK
  <2>3. BookInv /\ spend.sum[s] = 0
    BY BookInit DEF Init, NoSpend
  <2>4. /\ Held(s) \in Nat /\ Cardinality(Pending(s)) \in Nat
        /\ Cardinality(Heard(s, n)) \in Nat
        /\ Cardinality(Heard(s, n)) <= Cardinality(Pending(s))
    BY <2>1, Numbers
  <2>5. Held(s) + Cardinality(Pending(s)) <= 0
    BY <2>3, <2>4 DEF BookInv, SumsOK
  <2>6. Held(s) + Cardinality(Heard(s, n)) = 0
    BY <2>4, <2>5
  <2>7. n > 0
    BY <1>2, <2>2
  <2> QED BY <2>6, <2>7
<1> QED BY <1>1, <1>2 DEF FiredOK

(* An id is never given twice; an alert is told until its budget is gone. *)
LEMMA TellKeep ==
  ASSUME TypeOK, MapOK, IdsOK, FiredRecorded, [Next]_vars
  PROVE  IdsOK' /\ FiredRecorded'
<1>1. /\ write \in [Requests -> WriteType] /\ budgets \in BudgetMaps /\ map \in BudgetMaps
      /\ writes \in Nat /\ queue \in Seq(Alerts \cup Rows)
      /\ \A r \in Requests : write[r].loaded \in BudgetMaps
      /\ fired \subseteq Ids \X Months \X BUDGET_THRESHOLDS
  <2>1. \A r \in Requests : write[r].loaded \in BudgetMaps
    BY DEF TypeOK
  <2> QED BY <2>1 DEF TypeOK, WriteType
<1>2. ASSUME UNCHANGED <<budgets, map, write, writes, fired, alertLost>>,
             \A s \in Scopes, f \in fired :
               budgets[s] # NoBudget /\ f[1] = budgets[s].id /\ Told(alerts, queue, f)
                 => Told(alerts', queue', f)
      PROVE  IdsOK' /\ FiredRecorded'
  BY <1>2 DEF IdsOK, FiredRecorded
<1>3. ASSUME UNCHANGED <<budgets, map, write, writes, fired, alertLost, alerts>>,
             Range(queue) \subseteq Range(queue')
      PROVE  IdsOK' /\ FiredRecorded'
  BY <1>2, <1>3, ToldStays
<1>4. CASE MonthEnds \/ UNCHANGED vars
  <2>1. UNCHANGED <<budgets, map, write, writes, fired, alertLost, alerts, queue>>
    BY <1>4 DEF MonthEnds, vars, tables, books, writer, counts
  <2> QED BY <1>3, <2>1
<1>5. ASSUME NEW c \in Callers, Start(c) \/ Recording(c) PROVE IdsOK' /\ FiredRecorded'
  <2>1. CASE Start(c) \/ Answered(c) \/ Add(c)
    <3>1. UNCHANGED <<budgets, map, write, writes, fired, alertLost, alerts, queue>>
      BY <2>1 DEF Start, Answered, Add, tables, books, writer, counts
    <3> QED BY <1>3, <3>1
  <2>2. CASE Hook(c)
    <3>1. /\ caller[c].covers \in SUBSET Scopes /\ caller[c].spent \in Sums
          /\ caller[c].month \in Months
      BY DEF TypeOK, CallerType
    <3>2. UNCHANGED <<budgets, map, write, alerts, writes>>
      BY <2>2 DEF Hook, tables, counts
    <3>3. Fire(caller[c].covers, caller[c].spent, caller[c].month)
          /\ PutAll(Newly(caller[c].covers, caller[c].spent, caller[c].month))
      BY <2>2 DEF Hook
    <3>4. FiredRecorded' /\ (~alertLost' => \A f \in fired' : f[1] <= writes' + 2)
      BY <3>1, <3>2, <3>3, FireTells
    <3> QED BY <3>2, <3>4 DEF IdsOK
  <2>3. CASE Submit(c)
    <3>1. UNCHANGED <<budgets, map, write, writes, fired, alertLost, alerts>>
      BY <2>3 DEF Submit, tables, books, counts
    <3> DEFINE x == Row(c)
    <3>2. x \in Alerts \cup Rows
      BY DEF Row, Rows, TypeOK
    <3>3. queue' = queue \/ queue' = Append(queue, x)
      BY <2>3 DEF Submit, Queued
    <3> HIDE DEF x
    <3>4. \A i \in DOMAIN queue : i \in DOMAIN queue' /\ queue'[i] = queue[i]
      BY <1>1, <3>2, <3>3, SMTT(30)
    <3> QED BY <1>3, <3>1, <3>4 DEF Range
  <2> QED BY <1>5, <2>1, <2>2, <2>3 DEF Recording
<1>6. CASE Writing
  <2>1. CASE WriteBatch
    BY <1>3, <2>1 DEF WriteBatch, WriterRest, books
  <2>2. CASE TakeRow \/ RecordAlert
    <3>1. queue # <<>> /\ queue' = Tail(queue)
          /\ UNCHANGED <<budgets, map, write, writes, fired, alertLost>>
      BY <2>2 DEF TakeRow, RecordAlert, WriterRest, books
    <3>2. Range(queue) \subseteq {Head(queue)} \cup Range(queue')
      <4>1. \A i \in DOMAIN queue : i # 1 => i - 1 \in DOMAIN queue' /\ queue'[i - 1] = queue[i]
        BY <1>1, <3>1
      <4>2. Head(queue) = queue[1]
        BY <1>1, <3>1
      <4> QED BY <4>1, <4>2 DEF Range
    <3>3. ASSUME NEW s \in Scopes, NEW f \in fired, budgets[s] # NoBudget,
                 f[1] = budgets[s].id, Told(alerts, queue, f)
          PROVE  Told(alerts', queue', f)
      <4> DEFINE Tells(a) == a.id = f[1] /\ a.month = f[2] /\ a.threshold = f[3]
      <4>1. PICK a \in alerts \cup {i \in Range(queue) : i.scope # "row"} : Tells(a)
        BY <3>3 DEF Told
      <4>2. alerts \subseteq alerts'
        BY <2>2 DEF TakeRow, RecordAlert
      <4>3. CASE a \in alerts \cup {i \in Range(queue') : i.scope # "row"}
        BY <3>1, <4>1, <4>2, <4>3 DEF Told
      <4>4. CASE a = Head(queue) /\ a.scope # "row"
        <5>1. RecordAlert
          BY <2>2, <4>4 DEF TakeRow
        <5>2. \/ a \in alerts'
              \/ \E old \in alerts : /\ old.id = a.id /\ old.month = a.month
                                     /\ old.threshold = a.threshold
          BY <3>3, <4>1, <4>4, <5>1 DEF RecordAlert
        <5> QED BY <3>1, <4>1, <4>2, <5>2 DEF Told
      <4> QED BY <3>2, <4>1, <4>3, <4>4
    <3> QED BY <1>2, <3>1, <3>3
  <2> QED BY <1>6, <2>1, <2>2 DEF Writing
<1>7. CASE Crash
  <2>1. UNCHANGED <<budgets, writes>> /\ map' = budgets /\ alertLost' = TRUE
        /\ \A r \in Requests : write'[r].loaded = NoBudgets
    BY <1>7 DEF Crash, tables, NoWrite
  <2>2. \A s \in Scopes : NoBudgets[s].id = 0
    BY DEF NoBudgets, NoBudget
  <2>3. \A r \in Requests : KnownIds(write'[r].loaded, writes)
    BY <1>1, <2>1, <2>2 DEF KnownIds
  <2> QED BY <2>1, <2>3 DEF IdsOK, FiredRecorded
<1>8. ASSUME NEW r \in Requests, CommitPut(r) PROVE IdsOK' /\ FiredRecorded'
  <2>1. PICK s \in Scopes, amount \in Amounts, hard \in BOOLEAN :
          budgets' = [budgets EXCEPT ![s] =
            [id |-> IF budgets[s] = NoBudget THEN writes + 3 ELSE budgets[s].id,
             amount |-> amount, hard |-> hard]]
    BY <1>8 DEF CommitPut
  <2>2. writes' = writes + 1 /\ UNCHANGED <<map, fired, alertLost, alerts, queue>>
    BY <1>8 DEF CommitPut, books, writer
  <2>3. \A u \in Scopes : IF u = s
          THEN budgets'[u].id = IF budgets[s] = NoBudget THEN writes + 3 ELSE budgets[s].id
          ELSE budgets'[u] = budgets[u]
    BY <1>1, <2>1 DEF BudgetMaps
  <2>4. \A u \in Scopes : /\ budgets[u].id \in Nat /\ budgets[u].id <= writes + 2
                          /\ map[u].id \in Nat /\ map[u].id <= writes + 2
                          /\ (budgets[u] = NoBudget <=> budgets[u].id = 0)
    BY <1>1, BudgetTypes DEF IdsOK, KnownIds
  <2>5. OwnIds(budgets') /\ KnownIds(budgets', writes') /\ KnownIds(map', writes')
    <3>1. ASSUME NEW u \in Scopes PROVE budgets'[u].id <= writes' + 2 /\ map'[u].id <= writes' + 2
      <4>0. /\ budgets[u].id \in Nat /\ budgets[u].id <= writes + 2
            /\ map[u].id \in Nat /\ map[u].id <= writes + 2
            /\ map'[u].id = map[u].id /\ writes' + 2 = writes + 3 /\ writes \in Nat
        <5>1. writes \in Nat
          BY <1>1
        <5>2. writes' + 2 = writes + 3
          BY ONLY <2>2, <5>1
        <5>3. map'[u].id = map[u].id
          BY ONLY <2>2
        <5> QED BY ONLY u \in Scopes, <2>4, <5>1, <5>2, <5>3
      <4>1. CASE u = s
        <5>1. budgets'[u].id = writes + 3 \/ budgets'[u].id = budgets[u].id
          BY <2>3, <4>1
        <5> QED BY <4>0, <5>1
      <4>2. CASE u # s
        <5>1. budgets'[u].id = budgets[u].id
          BY <2>3, <4>2
        <5> QED BY <4>0, <5>1
      <4> QED BY <4>1, <4>2
    <3>2. OwnIds(budgets)
      BY DEF IdsOK
    <3>3. ASSUME NEW u \in Scopes, NEW v \in Scopes, u # v,
                 budgets'[u].id = budgets'[v].id, budgets'[u].id # 0
          PROVE  FALSE
      <4>1. ASSUME NEW x \in Scopes, x # s, budgets[x].id = budgets'[s].id, budgets[x].id # 0
            PROVE  FALSE
        <5>1. CASE budgets[s] = NoBudget
          BY <1>1, <2>3, <2>4, <4>1, <5>1, SMTT(30)
        <5>2. CASE budgets[s] # NoBudget
          BY <2>3, <3>2, <4>1, <5>2 DEF OwnIds
        <5> QED BY <5>1, <5>2
      <4>2. CASE u = s
        BY <2>3, <3>3, <4>1, <4>2
      <4>3. CASE v = s
        BY <2>3, <3>3, <4>1, <4>3
      <4>4. CASE u # s /\ v # s
        BY <2>3, <3>2, <3>3, <4>4 DEF OwnIds
      <4> QED BY <4>2, <4>3, <4>4
    <3>4. KnownIds(budgets', writes') /\ KnownIds(map', writes')
      BY <3>1 DEF KnownIds
    <3>5. OwnIds(budgets')
      BY <3>3 DEF OwnIds
    <3> QED BY <3>4, <3>5
  <2>6. \A q \in Requests : KnownIds(write'[q].loaded, writes')
    <3>1. \A q \in Requests : write'[q].loaded \in {write[q].loaded, NoBudgets}
      BY <1>1, <1>8 DEF CommitPut, NoWrite
    <3>2. \A u \in Scopes : NoBudgets[u].id = 0
      BY DEF NoBudgets, NoBudget
    <3>3. \A q \in Requests, u \in Scopes :
            write[q].loaded[u].id \in Nat /\ write[q].loaded[u].id <= writes + 2
      BY <1>1, BudgetTypes DEF IdsOK, KnownIds
    <3>4. ASSUME NEW q \in Requests, NEW u \in Scopes
          PROVE  write'[q].loaded[u].id <= writes' + 2
      <4>1. CASE write'[q].loaded = write[q].loaded
        <5>1. write[q].loaded[u].id \in Nat /\ write[q].loaded[u].id <= writes + 2
          BY <3>3
        <5> QED BY <1>1, <2>2, <4>1, <5>1
      <4>2. CASE write'[q].loaded = NoBudgets
        BY <1>1, <2>2, <3>2, <4>2
      <4> QED BY <3>1, <4>1, <4>2
    <3> QED BY <3>4 DEF KnownIds
  <2>7. ~alertLost => \A f \in fired : f[1] <= writes + 2 /\ f[1] \in Nat
    BY <1>1 DEF IdsOK
  <2>8. FiredRecorded'
    <3> SUFFICES ASSUME ~alertLost, NEW u \in Scopes, NEW f \in fired,
                        budgets'[u] # NoBudget, f[1] = budgets'[u].id
                 PROVE  Told(alerts, queue, f)
      BY <2>2 DEF FiredRecorded
    <3>1. budgets'[u].id <= writes + 2 /\ budgets'[u].id \in Nat \ {0}
      <4>1. f[1] \in Ids
        BY <1>1
      <4> QED BY <2>7, <4>1
    <3>2. budgets'[u].id = budgets[u].id /\ budgets[u] # NoBudget
      <4>1. CASE u # s
        <5>1. budgets'[u].id = budgets[u].id
          BY <2>3, <4>1
        <5> QED BY <2>4, <3>1, <5>1
      <4>2. CASE u = s
        <5>1. CASE budgets[s] = NoBudget
          <6>1. budgets'[u].id = writes + 3
            BY <2>3, <4>2, <5>1
          <6> QED BY <1>1, <3>1, <6>1
        <5> QED BY <2>3, <4>2, <5>1
      <4> QED BY <4>1, <4>2
    <3> QED BY <3>2 DEF FiredRecorded
  <2> QED BY <1>1, <2>2, <2>5, <2>6, <2>7, <2>8, SMTT(30) DEF IdsOK
<1>9. ASSUME NEW r \in Requests, CommitDelete(r) PROVE IdsOK' /\ FiredRecorded'
  <2>1. PICK s \in Scopes :
          /\ budgets[s] # NoBudget /\ budgets' = [budgets EXCEPT ![s] = NoBudget]
          /\ alerts' = {a \in alerts : a.id # budgets[s].id}
    BY <1>9 DEF CommitDelete
  <2>2. writes' = writes + 1 /\ UNCHANGED <<map, fired, alertLost, queue>>
    BY <1>9 DEF CommitDelete, books, writer
  <2>3. /\ budgets'[s] = NoBudget /\ budgets'[s].id = 0
        /\ \A u \in Scopes : u # s => budgets'[u] = budgets[u]
    BY <1>1, <2>1 DEF BudgetMaps, NoBudget
  <2>4. \A u \in Scopes : /\ budgets[u].id \in Nat /\ budgets[u].id <= writes + 2
                          /\ map[u].id \in Nat /\ map[u].id <= writes + 2
    BY <1>1, BudgetTypes DEF IdsOK, KnownIds
  <2>5. OwnIds(budgets') /\ KnownIds(budgets', writes') /\ KnownIds(map', writes')
    <3>1. KnownIds(budgets', writes') /\ KnownIds(map', writes')
      <4>1. ASSUME NEW u \in Scopes
            PROVE  budgets'[u].id <= writes' + 2 /\ map'[u].id <= writes' + 2
        <5>1. CASE u = s
          BY <1>1, <2>2, <2>3, <2>4, <5>1, SMTT(30)
        <5>2. CASE u # s
          <6>1. budgets'[u].id = budgets[u].id
            BY <2>3, <5>2
          <6> QED BY <1>1, <2>2, <2>4, <6>1, SMTT(30)
        <5> QED BY <5>1, <5>2
      <4> QED BY <4>1 DEF KnownIds
    <3>2. OwnIds(budgets)
      BY DEF IdsOK
    <3>3. OwnIds(budgets')
      BY <1>1, <2>3, <2>4, <3>2 DEF OwnIds
    <3> QED BY <3>1, <3>3
  <2>6. \A q \in Requests : KnownIds(write'[q].loaded, writes')
    <3>1. \A q \in Requests : write'[q].loaded \in {write[q].loaded, NoBudgets}
      BY <1>1, <1>9 DEF CommitDelete, NoWrite
    <3>2. \A u \in Scopes : NoBudgets[u].id = 0
      BY DEF NoBudgets, NoBudget
    <3>3. \A q \in Requests, u \in Scopes :
            write[q].loaded[u].id \in Nat /\ write[q].loaded[u].id <= writes + 2
      BY <1>1, BudgetTypes DEF IdsOK, KnownIds
    <3>4. ASSUME NEW q \in Requests, NEW u \in Scopes
          PROVE  write'[q].loaded[u].id <= writes' + 2
      <4>1. CASE write'[q].loaded = write[q].loaded
        <5>1. write[q].loaded[u].id \in Nat /\ write[q].loaded[u].id <= writes + 2
          BY <3>3
        <5> QED BY <1>1, <2>2, <4>1, <5>1
      <4>2. CASE write'[q].loaded = NoBudgets
        BY <1>1, <2>2, <3>2, <4>2
      <4> QED BY <3>1, <4>1, <4>2
    <3> QED BY <3>4 DEF KnownIds
  <2>7. ~alertLost => \A f \in fired : f[1] <= writes + 2 /\ f[1] \in Nat
    BY <1>1 DEF IdsOK
  <2>8. FiredRecorded'
    <3> SUFFICES ASSUME ~alertLost, NEW u \in Scopes, NEW f \in fired,
                        budgets'[u] # NoBudget, f[1] = budgets'[u].id
                 PROVE  Told(alerts', queue', f)
      BY <2>2 DEF FiredRecorded
    <3>1. u # s /\ budgets'[u] = budgets[u]
      BY <2>3
    <3>2. budgets[u].id # budgets[s].id
      <4>1. budgets[u].id # 0
        BY <1>1, <3>1, BudgetTypes
      <4> QED BY <3>1, <4>1 DEF IdsOK, OwnIds
    <3>3. Told(alerts, queue, f)
      BY <3>1 DEF FiredRecorded
    <3> QED BY <2>1, <2>2, <3>1, <3>2, <3>3 DEF Told
  <2> QED BY <1>1, <2>2, <2>5, <2>6, <2>7, <2>8 DEF IdsOK
<1>10. ASSUME NEW r \in Requests, Load(r) PROVE IdsOK' /\ FiredRecorded'
  <2>1. UNCHANGED <<budgets, map, writes, fired, alertLost, alerts, queue>>
    BY <1>10 DEF Load, tables, books, writer, counts
  <2>2. \A q \in Requests : write'[q].loaded \in {write[q].loaded, budgets}
    BY <1>1, <1>10 DEF Load, WriteType
  <2> QED BY <2>1, <2>2 DEF IdsOK, FiredRecorded, Told
<1>11. ASSUME NEW r \in Requests, SetOrg(r) PROVE IdsOK' /\ FiredRecorded'
  <2>1. /\ UNCHANGED <<budgets, writes, alertLost, alerts, queue>>
        /\ map' = write[r].loaded /\ fired' \subseteq fired
    BY <1>11 DEF SetOrg, Loaded, tables, writer, counts
  <2>2. \A q \in Requests : write'[q].loaded \in {write[q].loaded, NoBudgets}
    BY <1>1, <1>11 DEF SetOrg, NoWrite
  <2>3. \A u \in Scopes : NoBudgets[u].id = 0
    BY DEF NoBudgets, NoBudget
  <2>4. \A q \in Requests : KnownIds(write'[q].loaded, writes)
    BY <1>1, <2>2, <2>3 DEF IdsOK, KnownIds
  <2>5. KnownIds(map', writes)
    BY <2>1 DEF IdsOK
  <2> QED BY <2>1, <2>4, <2>5 DEF IdsOK, FiredRecorded, Told
<1>12. ASSUME NEW r \in Requests, Evaluate(r) PROVE IdsOK' /\ FiredRecorded'
  <2>1. SpentNow \in Sums /\ spend.month \in Months
    BY DEF SpentNow, Spent, TypeOK, Sums
  <2>2. Fire(Scopes, SpentNow, spend.month) /\ PutAll(Newly(Scopes, SpentNow, spend.month))
        /\ UNCHANGED <<budgets, map, alerts, writes>>
    BY <1>12 DEF Evaluate, Evaluated, tables, counts
  <2>3. FiredRecorded' /\ (~alertLost' => \A f \in fired' : f[1] <= writes' + 2)
    BY <2>1, <2>2, FireTells
  <2>4. \A q \in Requests : write'[q].loaded \in {write[q].loaded, NoBudgets}
    BY <1>1, <1>12 DEF Evaluate, NoWrite
  <2>5. \A u \in Scopes : NoBudgets[u].id = 0
    BY DEF NoBudgets, NoBudget
  <2>6. \A q \in Requests : KnownIds(write'[q].loaded, writes)
    BY <1>1, <2>4, <2>5 DEF IdsOK, KnownIds
  <2> QED BY <2>2, <2>3, <2>6 DEF IdsOK
<1> QED BY <1>4, <1>5, <1>6, <1>7, <1>8, <1>9, <1>10, <1>11, <1>12 DEF Next, Reloading

(* A limit is a positive number. *)
LEMMA Limits ==
  ASSUME NEW b \in BudgetMaps, NEW s \in Scopes, NEW t \in BUDGET_THRESHOLDS, b[s] # NoBudget
  PROVE  b[s].amount * t \in Nat /\ b[s].amount * t > 0
<1>1. b[s].amount \in Nat /\ b[s].amount > 0
  BY BudgetTypes
<1> QED BY <1>1

(* Steps after which no more is held or heard of. *)
LEMMA QuietStays ==
  ASSUME TypeOK, FiredOK, UNCHANGED <<spend, month, map>>,
         ~alertLost' => ~alertLost,
         \A r \in Requests : write[r].at # "evaluate",
         \A s \in Scopes : \A n :
           /\ Held(s)' \in Nat /\ Cardinality(Heard(s, n)') \in Nat
           /\ Held(s)' + Cardinality(Heard(s, n)') <= Held(s) + Cardinality(Heard(s, n)),
         \A f \in fired : f[2] = month => f \in fired'
  PROVE  FiredOK'
<1> SUFFICES ASSUME ~alertLost', spend'.month = month', NEW s \in Scopes,
                    NEW t \in BUDGET_THRESHOLDS, NEW n \in Nat,
                    map'[s] # NoBudget, n = map'[s].amount * t,
                    <<map'[s].id, month', t>> \notin fired'
             PROVE  (Held(s)' + Cardinality(Heard(s, n)')) * 100 < n
  BY DEF FiredOK
<1>1. <<map[s].id, month, t>> \notin fired
  OBVIOUS
<1>2. (Held(s) + Cardinality(Heard(s, n))) * 100 < n
  BY <1>1 DEF FiredOK
<1>3. /\ Held(s) \in Nat /\ Cardinality(Heard(s, n)) \in Nat
  BY Numbers
<1>4. /\ Held(s)' \in Nat /\ Cardinality(Heard(s, n)') \in Nat
      /\ Held(s)' + Cardinality(Heard(s, n)') <= Held(s) + Cardinality(Heard(s, n))
  OBVIOUS
<1> QED BY ONLY <1>2, <1>3, <1>4, n \in Nat

LEMMA HeardNext ==
  ASSUME TypeOK', NEW s \in Scopes, NEW n
  PROVE  /\ Cardinality(Heard(s, n)') \in Nat /\ Cardinality(Pending(s)') \in Nat
         /\ Cardinality(Heard(s, n)') <= Cardinality(Pending(s)')
<1>1. Pending(s)' \in SUBSET Callers /\ Heard(s, n)' \in SUBSET Pending(s)'
  BY DEF Pending, Heard
<1>2. IsFiniteSet(Pending(s)') /\ IsFiniteSet(Heard(s, n)')
  BY <1>1, FS_Subset
<1> QED BY <1>1, <1>2, FS_Subset, FS_CardinalityType

LEMMA QuietWhenStill ==
  ASSUME TypeOK, TypeOK', FiredOK, Still, UNCHANGED <<month, map, fired, alertLost>>,
         \A r \in Requests : write[r].at # "evaluate"
  PROVE  FiredOK'
<1>1. ASSUME NEW s \in Scopes, NEW n
      PROVE  /\ Held(s)' \in Nat /\ Cardinality(Heard(s, n)') \in Nat
             /\ Held(s)' + Cardinality(Heard(s, n)') <= Held(s) + Cardinality(Heard(s, n))
  <2>1. Held(s)' <= Held(s) /\ Heard(s, n)' = Heard(s, n)
    <3>1. Held(s) \in Nat
      BY Numbers
    <3> QED BY <3>1 DEF Still
  <2>2. Held(s)' \in Nat /\ Cardinality(Heard(s, n)') \in Nat
    BY HeldNext, HeardNext
  <2>3. Held(s) \in Nat
    BY Numbers
  <2> QED BY <2>1, <2>2, <2>3
<1>2. spend' = spend
  BY DEF Still
<1> QED BY <1>1, <1>2, QuietStays

(* Evaluating fires whatever the book has crossed. *)
LEMMA EvaluatedFires ==
  ASSUME BookInv, NEW r \in Requests, Evaluate(r)
  PROVE  FiredOK'
<1>1. /\ TypeOK /\ SumsOK
      /\ Fire(Scopes, SpentNow, spend.month)
      /\ UNCHANGED <<spend, month, map, ledger, batch, caller>>
  BY DEF BookInv, Evaluate, tables
<1>2. SpentNow \in Sums /\ spend.month \in Months
  BY <1>1 DEF SpentNow, Spent, TypeOK, Sums
<1>3. /\ \A f \in fired : f[2] >= spend.month => f \in fired'
      /\ \A s \in Scopes : \A t \in NewAt(s, SpentNow, spend.month) :
           <<map[s].id, spend.month, t>> \in fired'
  <2>1. Scopes \in SUBSET Scopes
    OBVIOUS
  <2> QED BY <1>1, <1>2, <2>1, FireMarks
<1> SUFFICES ASSUME spend'.month = month', NEW s \in Scopes,
                    NEW t \in BUDGET_THRESHOLDS, NEW n \in Nat,
                    map'[s] # NoBudget, n = map'[s].amount * t,
                    <<map'[s].id, month', t>> \notin fired'
             PROVE  (Held(s)' + Cardinality(Heard(s, n)')) * 100 < n
  BY DEF FiredOK
<1>4. map[s] # NoBudget /\ n = map[s].amount * t /\ spend.month = month
      /\ <<map[s].id, spend.month, t>> \notin fired'
  BY <1>1
<1>5. SpentNow[s] = spend.sum[s]
  BY <1>4 DEF SpentNow, Spent
<1>6. t \notin NewAt(s, SpentNow, spend.month)
  BY <1>3, <1>4
<1>7. <<map[s].id, spend.month, t>> \notin fired
  <2>1. spend.month \in Nat
    BY <1>1, MonthTypes
  <2>2. ASSUME <<map[s].id, spend.month, t>> \in fired PROVE FALSE
    <3> DEFINE f == <<map[s].id, spend.month, t>>
    <3>1. f \in fired /\ f[2] = spend.month
      BY <2>2
    <3>2. f[2] >= spend.month
      BY <2>1, <3>1
    <3> QED BY <1>3, <1>4, <3>1, <3>2
  <2> QED BY <2>2
<1>8. ~(SpentNow[s] * 100 >= n)
  BY <1>4, <1>6, <1>7 DEF NewAt, Crossed
<1>9. /\ spend.sum[s] \in Nat /\ Held(s) \in Nat /\ Cardinality(Pending(s)) \in Nat
      /\ Cardinality(Heard(s, n)) \in Nat
      /\ Cardinality(Heard(s, n)) <= Cardinality(Pending(s))
      /\ spend.sum[s] >= Held(s) + Cardinality(Pending(s))
  BY <1>1, Numbers DEF SumsOK
<1>10. Held(s)' = Held(s) /\ Heard(s, n)' = Heard(s, n)
  <2>1. Still
    BY <1>1, OthersAreStill DEF Reloading
  <2>2. dropped' = dropped /\ \A ss, m : Counted(queue', ss, m) = Counted(queue, ss, m)
    <3>1. Evaluated \subseteq Alerts /\ IsFiniteSet(Evaluated) /\ PutAll(Evaluated)
      BY <1>1, <1>2, NewlyTypes, ZenonT(60) DEF Evaluated, Evaluate
    <3>2. \A ss, m : Counted(queue', ss, m) = Counted(queue, ss, m)
      BY <1>1, <3>1, PutAllQueues
    <3> QED BY <3>2 DEF Evaluate
  <2> QED BY <1>1, <2>1, <2>2 DEF Still, Held
<1>11. (Held(s) + Cardinality(Heard(s, n))) * 100 < n
  BY <1>5, <1>8, <1>9
<1> QED BY <1>10, <1>11

(* A call that is counted is heard of only if it crossed nothing. *)
LEMMA AddFires ==
  ASSUME BookInv, TypeOK', SumsOK', FiredOK, NEW c \in Callers, Add(c),
         \A r \in Requests : write[r].at # "evaluate"
  PROVE  FiredOK'
<1>1. /\ TypeOK /\ MonthsOK
      /\ UNCHANGED <<map, fired, month, alertLost>>
  BY DEF BookInv, Add
<1>2. \/ caller[c].month < spend.month /\ Still
      \/ /\ caller[c].month = spend.month /\ spend'.month = spend.month
         /\ \A s \in Scopes :
              IF s \in caller[c].covers
              THEN Held(s)' = Held(s) /\ \A n : Heard(s, n)' =
                     Heard(s, n) \cup {d \in {c} : spend'.sum[s] * 100 < n}
              ELSE Held(s)' = Held(s) /\ \A n : Heard(s, n)' = Heard(s, n)
      \/ /\ caller[c].month > spend.month
         /\ \A s \in Scopes :
              /\ Held(s)' = 0
              /\ \A n : Heard(s, n)' \in {{}, {d \in {c} : spend'.sum[s] * 100 < n}}
  BY <1>1, AddMoves
<1>3. CASE Still
  BY <1>1, <1>3, QuietWhenStill
<1>4. CASE ~Still
  <2> SUFFICES ASSUME ~alertLost', spend'.month = month', NEW s \in Scopes,
                      NEW t \in BUDGET_THRESHOLDS, NEW n \in Nat,
                      map'[s] # NoBudget, n = map'[s].amount * t,
                      <<map'[s].id, month', t>> \notin fired'
               PROVE  (Held(s)' + Cardinality(Heard(s, n)')) * 100 < n
    BY DEF FiredOK
  <2>1. /\ map[s] # NoBudget /\ n = map[s].amount * t
        /\ <<map[s].id, month, t>> \notin fired /\ ~alertLost
    BY <1>1
  <2>2. n > 0
    <3>1. map \in BudgetMaps
      BY <1>1 DEF TypeOK
    <3> QED BY <2>1, <3>1, Limits
  <2>3. /\ Held(s)' \in Nat /\ Cardinality(Heard(s, n)') \in Nat
        /\ Cardinality(Pending(s)') \in Nat
        /\ Cardinality(Heard(s, n)') <= Cardinality(Pending(s)')
    BY HeldNext, HeardNext
  <2>4. spend'.sum[s] \in Nat /\ spend'.sum[s] >= Held(s)' + Cardinality(Pending(s)')
    <3>1. spend'.sum \in Sums
      BY DEF TypeOK
    <3> QED BY <3>1 DEF SumsOK, Sums
  <2>5. CASE spend'.sum[s] * 100 < n
    BY <2>3, <2>4, <2>5
  <2>6. CASE ~(spend'.sum[s] * 100 < n)
    <3>1. {d \in {c} : spend'.sum[s] * 100 < n} = {}
      BY <2>6
    <3>2. CASE caller[c].month = spend.month /\ spend'.month = spend.month
      <4>1. Held(s)' = Held(s) /\ Heard(s, n)' = Heard(s, n)
        <5>1. caller[c].month \in Nat /\ spend.month \in Nat
          BY <1>1, MonthTypes
        <5>2. \/ Heard(s, n)' = Heard(s, n) \cup {d \in {c} : spend'.sum[s] * 100 < n}
              \/ Heard(s, n)' = Heard(s, n)
          BY <1>2, <1>4, <3>2, <5>1
        <5>4. Heard(s, n)' = Heard(s, n)
          <6> DEFINE D == {d \in {c} : spend'.sum[s] * 100 < n}
                     H == Heard(s, n)
                     N == Heard(s, n)'
          <6>1. D = {} /\ (N = H \cup D \/ N = H)
            BY <3>1, <5>2
          <6> HIDE DEF D, H, N
          <6>2. N = H
            BY <6>1
          <6> QED BY <6>2 DEF H, N
        <5>3. Held(s)' = Held(s)
          BY <1>2, <1>4, <3>2, <5>1
        <5> QED BY <5>3, <5>4
      <4>2. spend.month = month
        BY <1>1, <3>2
      <4>3. (Held(s) + Cardinality(Heard(s, n))) * 100 < n
        BY <2>1, <4>2 DEF FiredOK
      <4> QED BY <4>1, <4>3
    <3>3. CASE caller[c].month > spend.month
      <4>1. Held(s)' = 0 /\ Heard(s, n)' = {}
        <5>1. caller[c].month \in Nat /\ spend.month \in Nat
          BY <1>1, MonthTypes
        <5>2. Held(s)' = 0
          BY <1>2, <1>4, <3>3, <5>1
        <5>3. Heard(s, n)' \in {{}, {d \in {c} : spend'.sum[s] * 100 < n}}
          BY <1>2, <1>4, <3>3, <5>1
        <5> QED BY <3>1, <5>2, <5>3
      <4>2. Cardinality(Heard(s, n)') = 0
        BY <4>1, FS_EmptySet
      <4> QED BY <2>2, <4>1, <4>2
    <3> QED BY <1>2, <1>4, <3>2, <3>3
  <2> QED BY <2>5, <2>6
<1> QED BY <1>3, <1>4

(* A call that fires has crossed nothing that is quiet after it. *)
LEMMA HookFires ==
  ASSUME BookInv, FiredOK, NEW c \in Callers, Hook(c),
         \A r \in Requests : write[r].at # "evaluate"
  PROVE  FiredOK'
<1> DEFINE row == caller[c]
           new == Newly(row.covers, row.spent, row.month)
<1>1. /\ TypeOK /\ MonthsOK /\ row.at = "hook"
      /\ Fire(row.covers, row.spent, row.month) /\ PutAll(new)
      /\ UNCHANGED <<month, spend, map>>
  BY DEF BookInv, Hook
<1>2. /\ row.covers \in SUBSET Scopes /\ row.spent \in Sums /\ row.month \in Months
  BY <1>1 DEF TypeOK, CallerType
<1>3. /\ row.month \in Nat /\ spend.month \in Nat /\ month \in Nat /\ row.month <= spend.month
  BY <1>1, MonthTypes DEF MonthsOK
<1>4. ~alertLost' => ~alertLost
  <2>1. new \subseteq Alerts /\ IsFiniteSet(new)
    BY <1>1, <1>2, NewlyTypes
  <2>2. PutAll(new)
    BY <1>1
  <2> HIDE DEF new
  <2> QED BY <1>1, <2>1, <2>2, PutAllQueues
<1> HIDE DEF new
<1>5. \A s \in Scopes : /\ Held(s)' = Held(s)
                        /\ \A n : Heard(s, n)' = Heard(s, n) \cup {d \in {c} : c \in Pending(s)}
  BY <1>1, HookMoves
<1>6. /\ \A f \in fired : f[2] >= row.month => f \in fired'
      /\ \A s \in row.covers : \A t \in NewAt(s, row.spent, row.month) :
           <<map[s].id, row.month, t>> \in fired'
  <2> HIDE DEF row
  <2> QED BY <1>1, <1>2, FireMarks
<1> SUFFICES ASSUME ~alertLost', spend'.month = month', NEW s \in Scopes,
                    NEW t \in BUDGET_THRESHOLDS, NEW n \in Nat,
                    map'[s] # NoBudget, n = map'[s].amount * t,
                    <<map'[s].id, month', t>> \notin fired'
             PROVE  (Held(s)' + Cardinality(Heard(s, n)')) * 100 < n
  BY DEF FiredOK
<1>7. map[s] # NoBudget /\ n = map[s].amount * t /\ spend.month = month /\ ~alertLost
      /\ <<map[s].id, month, t>> \notin fired'
  BY <1>1, <1>4
<1>8. <<map[s].id, month, t>> \notin fired
  <2> SUFFICES ASSUME <<map[s].id, month, t>> \in fired PROVE FALSE
    OBVIOUS
  <2> DEFINE f == <<map[s].id, month, t>>
  <2>1. f \in fired /\ f[2] >= row.month /\ f \notin fired'
    BY <1>3, <1>7
  <2> HIDE DEF f
  <2> QED BY <1>6, <2>1
<1>9. (Held(s) + Cardinality(Heard(s, n))) * 100 < n
  BY <1>7, <1>8 DEF FiredOK
<1>10. c \in Pending(s) => c \in Heard(s, n)
  <2> SUFFICES ASSUME c \in Pending(s) PROVE row.spent[s] * 100 < n
    BY DEF Heard
  <2>1. row.month = month /\ s \in row.covers
    BY <1>7 DEF Pending
  <2>2. t \notin NewAt(s, row.spent, row.month)
    BY <1>6, <1>7, <2>1
  <2>3. t \notin Crossed(map[s], row.spent[s])
    BY <1>7, <1>8, <2>1, <2>2 DEF NewAt
  <2>4. row.spent[s] \in Nat
    BY <1>2 DEF Sums
  <2> QED BY <1>7, <2>3, <2>4 DEF Crossed
<1>11. Held(s)' = Held(s) /\ Heard(s, n)' = Heard(s, n)
  <2> DEFINE D == {d \in {c} : c \in Pending(s)}
             H == Heard(s, n)
             N == Heard(s, n)'
  <2>1. D \subseteq H /\ N = H \cup D
    BY <1>5, <1>10
  <2> HIDE DEF D, H, N
  <2>2. N = H
    BY <2>1
  <2>3. Held(s)' = Held(s)
    BY <1>5
  <2> QED BY <2>2, <2>3 DEF H, N
<1> QED BY <1>9, <1>11

(* A call's row is held when the call is no longer on its way. *)
LEMMA SubmitFires ==
  ASSUME BookInv, TypeOK', FiredOK, NEW c \in Callers, Submit(c),
         \A r \in Requests : write[r].at # "evaluate"
  PROVE  FiredOK'
<1>1. TypeOK /\ UNCHANGED <<map, fired, month, alertLost, spend>>
  BY DEF BookInv, Submit, books
<1>2. ASSUME NEW s \in Scopes, NEW n
      PROVE  /\ Held(s)' \in Nat /\ Cardinality(Heard(s, n)') \in Nat
             /\ Held(s)' + Cardinality(Heard(s, n)') <= Held(s) + Cardinality(Heard(s, n))
  <2>1. /\ Held(s)' = Held(s) + (IF c \in Pending(s) THEN 1 ELSE 0) \/ Held(s)' = Held(s)
        /\ c \in Pending(s) => c \in Heard(s, n)
        /\ Heard(s, n)' = Heard(s, n) \ {c}
    <3>1. Held(s)' = Held(s) + (IF c \in Pending(s) THEN 1 ELSE 0) \/ Held(s)' = Held(s)
      BY <1>1, SubmitMoves
    <3>2. /\ c \in Pending(s) => c \in Heard(s, n)
          /\ Heard(s, n)' = Heard(s, n) \ {c}
      BY <1>1, SubmitMoves
    <3> QED BY <3>1, <3>2
  <2>2. /\ Held(s) \in Nat /\ IsFiniteSet(Heard(s, n)) /\ Cardinality(Heard(s, n)) \in Nat
        /\ Held(s)' \in Nat /\ Cardinality(Heard(s, n)') \in Nat
    BY <1>1, Numbers, HeldNext, HeardNext
  <2>3. Cardinality(Heard(s, n)') = IF c \in Heard(s, n) THEN Cardinality(Heard(s, n)) - 1
                                    ELSE Cardinality(Heard(s, n))
    BY <2>1, <2>2, FS_RemoveElement, ZenonT(60)
  <2>4. CASE c \in Pending(s)
    BY <2>1, <2>2, <2>3, <2>4
  <2>5. CASE c \notin Pending(s)
    BY <2>1, <2>2, <2>3, <2>5
  <2> QED BY <2>4, <2>5
<1> QED BY <1>1, <1>2, QuietStays

LEMMA FiredKeep ==
  ASSUME \A q, r \in Requests : q = r,
         BookInv, TypeOK', SumsOK', MapOK, FiredOK, [Next]_vars
  PROVE  FiredOK'
<1>1. /\ TypeOK /\ MonthsOK
      /\ write \in [Requests -> WriteType]
      /\ month \in Nat /\ spend.month \in Nat
  <2>1. TypeOK /\ MonthsOK
    BY DEF BookInv
  <2> QED BY <2>1, MonthTypes DEF TypeOK, WriteType
<1>2. ASSUME UNCHANGED <<map, fired, month, alertLost, write>>, Still PROVE FiredOK'
  <2>1. CASE \A r \in Requests : write[r].at # "evaluate"
    BY <1>1, <1>2, <2>1, QuietWhenStill
  <2>2. CASE \E r \in Requests : write[r].at = "evaluate"
    BY <1>2, <2>2 DEF FiredOK
  <2> QED BY <2>1, <2>2
<1>3. CASE UNCHANGED vars
  <2>1. UNCHANGED <<map, fired, month, alertLost, write>>
    BY <1>3 DEF vars, books
  <2> QED BY <1>1, <1>2, <1>3, <2>1, OthersAreStill
<1>4. CASE MonthEnds
  <2>1. spend' = spend /\ month' = month + 1 /\ spend.month <= month
    BY <1>1, <1>4 DEF MonthEnds, books, MonthsOK
  <2>2. spend'.month # month'
    BY <1>1, <2>1
  <2> QED BY <2>2 DEF FiredOK
<1>5. CASE Crash
  BY <1>5 DEF Crash, FiredOK
<1>6. CASE Writing
  <2>1. UNCHANGED <<map, fired, month, alertLost, write>>
    BY <1>6 DEF Writing, TakeRow, WriteBatch, RecordAlert, WriterRest, books
  <2> QED BY <1>1, <1>2, <1>6, <2>1, WriterIsStill
<1>7. ASSUME NEW c \in Callers, Start(c) \/ Recording(c) PROVE FiredOK'
  <2>1. write' = write
    BY <1>1, <1>7, BudgetsStand
  <2>2. CASE \E r \in Requests : write[r].at = "evaluate"
    BY <2>1, <2>2 DEF FiredOK
  <2>3. CASE \A r \in Requests : write[r].at # "evaluate"
    <3>1. CASE Start(c) \/ Answered(c)
      <4>1. UNCHANGED <<map, fired, month, alertLost>>
        BY <3>1 DEF Start, Answered, books
      <4>2. Still
        BY <1>1, <3>1, CallersAreStill
      <4> QED BY <1>2, <2>1, <4>1, <4>2
    <3>2. CASE Add(c)
      BY <2>3, <3>2, AddFires
    <3>3. CASE Hook(c)
      BY <2>3, <3>3, HookFires
    <3>4. CASE Submit(c)
      BY <2>3, <3>4, SubmitFires
    <3> QED BY <1>7, <3>1, <3>2, <3>3, <3>4 DEF Recording
  <2> QED BY <2>2, <2>3
<1>8. ASSUME NEW r \in Requests, CommitPut(r) \/ CommitDelete(r) \/ Load(r) PROVE FiredOK'
  <2>1. UNCHANGED <<map, fired, month, alertLost>>
    BY <1>8 DEF CommitPut, CommitDelete, Load, books
  <2>2. \A q \in Requests : write[q].at # "evaluate"
    BY <1>1, <1>8 DEF CommitPut, CommitDelete, Load
  <2>3. Still
    BY <1>1, <1>8, OthersAreStill DEF Reloading
  <2> QED BY <1>1, <2>1, <2>2, <2>3, QuietWhenStill
<1>9. ASSUME NEW r \in Requests, SetOrg(r) PROVE FiredOK'
  <2>1. /\ write[r].at = "set" /\ write[r].loaded = budgets /\ write[r] \in WriteType
        /\ map' = budgets
        /\ fired' = {f \in fired : f[1] \notin {map[s].id : s \in Scopes}
                                                 \ {budgets[s].id : s \in Scopes}}
        /\ UNCHANGED <<spend, ledger, batch, queue, caller, month, alertLost>>
    BY <1>1, <1>9 DEF SetOrg, Loaded, MapOK, tables, writer
  <2>2. CASE write[r].put
    <3>1. write'[r].at = "evaluate"
      BY <1>1, <1>9, <2>2 DEF SetOrg, NoWrite
    <3> QED BY <3>1 DEF FiredOK
  <2>3. CASE ~write[r].put
    <3>1. \A s \in Scopes : budgets[s] \in {NoBudget, map[s]}
      BY <2>1, <2>3 DEF MapOK
    <3>2. \A q \in Requests : write[q].at # "evaluate"
      BY <2>1
    <3> SUFFICES ASSUME ~alertLost', spend'.month = month', NEW s \in Scopes,
                        NEW t \in BUDGET_THRESHOLDS, NEW n \in Nat,
                        map'[s] # NoBudget, n = map'[s].amount * t,
                        <<map'[s].id, month', t>> \notin fired'
                 PROVE  (Held(s)' + Cardinality(Heard(s, n)')) * 100 < n
      BY DEF FiredOK
    <3>3. map[s] = budgets[s] /\ map'[s] = map[s]
      BY <2>1, <3>1
    <3>4. <<map[s].id, month, t>> \notin fired
      <4> SUFFICES ASSUME <<map[s].id, month, t>> \in fired PROVE FALSE
        OBVIOUS
      <4> DEFINE f == <<map[s].id, month, t>>
      <4>1. f \in fired /\ f[1] = budgets[s].id /\ f \notin fired'
        BY <2>1, <3>3
      <4> HIDE DEF f
      <4> QED BY <2>1, <4>1
    <3>5. (Held(s) + Cardinality(Heard(s, n))) * 100 < n
      BY <2>1, <3>2, <3>3, <3>4 DEF FiredOK
    <3>6. Held(s)' = Held(s) /\ Heard(s, n)' = Heard(s, n)
      BY <2>1 DEF Held, Heard, Pending
    <3> QED BY <3>5, <3>6
  <2> QED BY <1>1, <2>1, <2>2, <2>3 DEF WriteType
<1>10. ASSUME NEW r \in Requests, Evaluate(r) PROVE FiredOK'
  BY <1>10, EvaluatedFires
<1> QED BY <1>3, <1>4, <1>5, <1>6, <1>7, <1>8, <1>9, <1>10 DEF Next, Reloading

LEMMA AlertInvariance ==
  ASSUME \A q, r \in Requests : q = r
  PROVE  Spec => []AlertInv
<1>1. Init => AlertInv
  BY BookInit, MapInit, IdsInit, TellInit DEF AlertInv, StopInv
<1>2. ASSUME AlertInv, [Next]_vars PROVE AlertInv'
  <2>1. BookInv /\ TypeOK /\ MapOK /\ IdsOK /\ FiredRecorded /\ FiredOK
    BY <1>2 DEF AlertInv, StopInv, BookInv
  <2>2. TypeOK'
    BY <1>2, <2>1, TypeNext
  <2>3. MapOK'
    BY <1>2, <2>1, MapKeep
  <2>4. SumsOK' /\ MonthsOK'
    BY <1>2, <2>1, <2>2, SumsKeep, MonthsKeep
  <2>5. IdsOK' /\ FiredRecorded'
    BY <1>2, <2>1, TellKeep
  <2>6. FiredOK'
    BY <1>2, <2>1, <2>2, <2>4, FiredKeep
  <2> QED BY <2>2, <2>3, <2>4, <2>5, <2>6 DEF AlertInv, StopInv, BookInv
<1> QED BY <1>1, <1>2, PTL DEF Spec

(***************************************************************************)
(* CrossingsRecorded (Budgets), for any number of calls and one budget     *)
(* write at a time: a threshold the ledger has reached is in the table of  *)
(* alerts or on its way there, whichever of a call and a write crossed it. *)
(***************************************************************************)
THEOREM EveryCrossingIsRecorded ==
  ASSUME \A q, r \in Requests : q = r
  PROVE  Spec => []CrossingsRecorded
<1>1. ASSUME AlertInv PROVE CrossingsRecorded
  <2>1. /\ TypeOK /\ MonthsOK /\ MapOK /\ FiredRecorded /\ FiredOK
    BY <1>1 DEF AlertInv, StopInv, BookInv
  <2> SUFFICES ASSUME ~alertLost, \A r \in Requests : write[r].at = "idle",
                      NEW s \in Scopes, budgets[s] # NoBudget,
                      NEW t \in Crossed(budgets[s], ledger[month][s])
               PROVE  Recorded(s, t)
    BY DEF CrossingsRecorded
  <2>2. map = budgets
    BY <2>1 DEF MapOK
  <2> DEFINE n == map[s].amount * t
             f == <<map[s].id, month, t>>
  <2>3. t \in BUDGET_THRESHOLDS /\ ledger[month][s] * 100 >= n
    BY <2>2 DEF Crossed
  <2>4. n \in Nat /\ n > 0
    BY <2>1, <2>2, <2>3, Limits, SMTT(30) DEF TypeOK
  <2>5. n = map[s].amount * t
    OBVIOUS
  <2>6. f[1] = map[s].id /\ f[2] = month /\ f[3] = t /\ f = <<map[s].id, month, t>>
    OBVIOUS
  <2> HIDE DEF n, f
  <2>7. spend.month = month
    <3>1. CASE spend.month # month
      <4>1. month \in Months /\ month > spend.month
        BY <2>1, <3>1, MonthTypes DEF MonthsOK, TypeOK
      <4>2. ledger[month][s] = 0
        BY <2>1, <4>1 DEF MonthsOK
      <4> QED BY <2>3, <2>4, <4>2
    <3> QED BY <3>1
  <2>8. f \in fired
    <3> SUFFICES ASSUME f \notin fired PROVE FALSE
      OBVIOUS
    <3>1. (Held(s) + Cardinality(Heard(s, n))) * 100 < n
      BY <2>1, <2>2, <2>3, <2>4, <2>5, <2>6, <2>7 DEF FiredOK
    <3>2. /\ Held(s) \in Nat /\ Cardinality(Heard(s, n)) \in Nat
          /\ ledger[month][s] \in Nat /\ ledger[month][s] <= Held(s)
      BY <2>1, <2>7, Numbers
    <3> QED BY <2>3, <2>4, <3>1, <3>2
  <2>9. Told(alerts, queue, f)
    BY <2>1, <2>2, <2>6, <2>8 DEF FiredRecorded
  <2> QED BY <2>2, <2>6, <2>9 DEF Told, Recorded
<1> QED BY <1>1, AlertInvariance, PTL
=============================================================================
