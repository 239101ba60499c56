--------------------------- MODULE RunMergeProofs ---------------------------
(***************************************************************************)
(* For any number of users, estimates and coalesced requests: a run does   *)
(* all the work of its requests, and spends exactly when one of them asked *)
(* for it.  The induction rests on what every request and pending job of a *)
(* project has in common (Coherent): it makes merging monotone and the     *)
(* queued row a lossless copy.                                             *)
(***************************************************************************)
EXTENDS RunMerge, ScanPolicyProofs

IInv ==
  /\ TypeOK
  /\ pending = NoJob => log = <<>>
  /\ pending # NoJob => Coherent(pending, source)
  /\ UnionOfWork
  /\ SpendsAsAsked

-----------------------------------------------------------------------------

(* Every reachable state satisfies the inductive invariant: a project's    *)
(* requests, its pending job and its queued row stay coherent.             *)
THEOREM Induction == Spec => []IInv
<1>1. Init => IInv
  BY DEF Init, IInv, TypeOK, UnionOfWork, SpendsAsAsked
<1>2. IInv /\ [Next]_vars => IInv'
  <2> SUFFICES ASSUME IInv, [Next]_vars PROVE IInv'
    OBVIOUS
  <2> USE MergesAssumption
  <2>1. CASE Queue
    <3>1. PICK r \in Requests(source) :
            /\ pending' = Granted(r, scanned)
            /\ log' = <<Granted(r, scanned)>>
      BY <2>1 DEF Queue
    <3>2. Coherent(pending', source') /\ source' = source /\ scanned' = scanned
      BY <2>1, <3>1, GrantedCoherent DEF Queue, IInv, TypeOK
    <3>3. log' = <<pending'>> /\ Len(log') = 1 /\ log'[1] = pending'
      BY <3>1
    <3>4. pending'.analyze => "describe" \in Work(pending', source', TRUE)
      <4>1. source = "platform" => ~pending'.analyze
        BY <3>1 DEF Requests, ByPeople, ByHooks, Granted, ResolveAnalyze, Job
      <4> QED
        BY <3>2, <4>1 DEF Work, ChildSteps, Coherent, Job, Explicit
    <3>5. TypeOK' /\ (pending' = NoJob => log' = <<>>)
      BY <3>2, <3>3 DEF IInv, TypeOK, Coherent
    <3>6. UnionOfWork'
      BY <3>3 DEF UnionOfWork
    <3>7. SpendsAsAsked'
      <4>1. (\E i \in 1..Len(log') : log'[i].analyze) <=> log'[1].analyze
        BY <3>3
      <4>2. (\E i \in 1..Len(log') : log'[i].analyze) <=> pending'.analyze
        BY <3>3, <4>1, Zenon
      <4> QED
        BY <3>4, <4>2, Zenon DEF SpendsAsAsked
    <3> QED
      BY <3>2, <3>5, <3>6, <3>7 DEF IInv
  <2>2. CASE Coalesce
    <3>1. PICK r \in Requests(source) :
            /\ pending' = MergeJobs(pending, Granted(r, scanned))
            /\ log' = Append(log, Granted(r, scanned))
      BY <2>2 DEF Coalesce
    <3> DEFINE g == Granted(r, scanned)
    <3>2. /\ Coherent(g, source) /\ Coherent(pending, source)
          /\ source' = source /\ scanned' = scanned
          /\ pending # NoJob
      BY <2>2, <3>1, GrantedCoherent DEF Coalesce, IInv, TypeOK
    <3>3. Coherent(pending', source')
      BY <3>1, <3>2, MergeCoherent DEF IInv, TypeOK
    <3>4. /\ Len(log') = Len(log) + 1
          /\ \A i \in 1..Len(log) : log'[i] = log[i]
          /\ log'[Len(log) + 1] = g
          /\ log' \in Seq(Job)
      BY <3>1, <3>2 DEF IInv, TypeOK, Coherent
    <3>5. UnionOfWork'
      <4> SUFFICES ASSUME NEW i \in 1..Len(log'), NEW moved \in BOOLEAN
                   PROVE  Work(log'[i], source, moved)
                            \subseteq Work(pending', source, moved)
        BY <3>2 DEF UnionOfWork
      <4>1. CASE i \in 1..Len(log)
        BY <4>1, <3>1, <3>2, <3>4, MergeKeepsWork DEF IInv, UnionOfWork, TypeOK
      <4>2. CASE i = Len(log) + 1
        BY <4>2, <3>1, <3>2, <3>4, MergeKeepsWork DEF IInv, TypeOK
      <4> QED
        BY <4>1, <4>2, <3>4 DEF IInv, TypeOK
    <3>6. SpendsAsAsked'
      <4>1. pending'.analyze <=> pending.analyze \/ g.analyze
        BY <3>1 DEF MergeJobs
      <4>2. pending.analyze <=> \E i \in 1..Len(log) : log[i].analyze
        BY <3>2 DEF IInv, SpendsAsAsked
      <4>3. (\E i \in 1..Len(log') : log'[i].analyze)
              <=> (\E i \in 1..Len(log) : log[i].analyze) \/ g.analyze
        BY <3>4 DEF IInv, TypeOK
      <4>4. source = "platform" => ~pending'.analyze
        <5>1. source = "platform" => ~g.analyze
          BY DEF Requests, ByPeople, ByHooks, Granted, ResolveAnalyze, Job
        <5>2. source = "platform" => ~pending.analyze
          BY <3>2 DEF IInv, SpendsAsAsked, Work, ChildSteps
        <5> QED
          BY <5>1, <5>2, <4>1
      <4>5. pending'.analyze => "describe" \in Work(pending', source', TRUE)
        BY <3>2, <3>3, <4>4 DEF Work, ChildSteps, Coherent, Job, Explicit
      <4> QED
        BY <4>1, <4>2, <4>3, <4>5 DEF SpendsAsAsked
    <3> QED
      BY <3>2, <3>3, <3>4, <3>5, <3>6 DEF IInv, TypeOK, Coherent
  <2>3. CASE FirstScanEnds
    BY <2>3 DEF FirstScanEnds, IInv, TypeOK, UnionOfWork, SpendsAsAsked
  <2>4. CASE Restart
    <3>1. pending' = pending
      BY <2>4, RowLossless DEF Restart, IInv, TypeOK
    <3> QED
      BY <2>4, <3>1 DEF Restart, IInv, TypeOK, UnionOfWork, SpendsAsAsked
  <2>5. CASE Leave
    BY <2>5 DEF Leave, IInv, TypeOK, UnionOfWork, SpendsAsAsked
  <2>6. CASE UNCHANGED vars
    BY <2>6 DEF vars, IInv, TypeOK, UnionOfWork, SpendsAsAsked
  <2> QED
    BY <2>1, <2>2, <2>3, <2>4, <2>5, <2>6 DEF Next
<1> QED
  BY <1>1, <1>2, PTL DEF Spec

(* Whatever is merged, in whatever order and across restarts, the pending  *)
(* run does all the work of its requests (_Pending.merge, scan_flags).     *)
THEOREM WorkIsNeverLost == Spec => []UnionOfWork
<1>1. IInv => UnionOfWork
  BY DEF IInv
<1> QED
  BY Induction, <1>1, PTL

(* A run describes exactly when one of its granted requests asked for it   *)
(* (_request_claimed, merge, _recover_queued).                             *)
THEOREM SpendIsAsked == Spec => []SpendsAsAsked
<1>1. IInv => SpendsAsAsked
  BY DEF IInv
<1> QED
  BY Induction, <1>1, PTL

-----------------------------------------------------------------------------
(***************************************************************************)
(* Who is named and what is quoted.  A log has a first describing request  *)
(* as soon as it has one, and appending never changes which one it is: so  *)
(* the job may carry that request's user, although it forgot the log.      *)
(***************************************************************************)
FirstSpends(k) == /\ k \in 1..Len(log) /\ log[k].analyze
                  /\ \A j \in 1..(k - 1) : ~log[j].analyze
FirstNamed(k)  == /\ k \in 1..Len(log) /\ log[k].by # NoUser
                  /\ \A j \in 1..(k - 1) : ~(log[j].by # NoUser)
FirstQuoted(k) == /\ k \in 1..Len(log) /\ log[k].est # NoEstimate
                  /\ \A j \in 1..(k - 1) : ~(log[j].est # NoEstimate)

Spent  == \E i \in 1..Len(log) : log[i].analyze
Named  == \E i \in 1..Len(log) : log[i].by # NoUser
Quoted == \E i \in 1..Len(log) : log[i].est # NoEstimate

SpenderPays == pending # NoJob /\ Spent => \E k : FirstSpends(k) /\ pending.by = log[k].by
PersonNamed ==
  pending # NoJob /\ ~Spent =>
    /\ Named => \E k : FirstNamed(k) /\ pending.by = log[k].by
    /\ ~Named => pending.by = NoUser
FirstQuote ==
  pending # NoJob =>
    /\ Quoted => \E k : FirstQuoted(k) /\ pending.est = log[k].est
    /\ ~Quoted => pending.est = NoEstimate

LogCoherent == \A i \in 1..Len(log) : Coherent(log[i], source)

Credits == SpenderPays /\ PersonNamed /\ FirstQuote /\ LogCoherent

(* The credits hold before and after every step. *)
THEOREM CreditsInduction == Spec => []Credits
<1>1. Init => Credits
  BY DEF Init, Credits, SpenderPays, PersonNamed, FirstQuote, LogCoherent
<1>2. IInv /\ IInv' /\ Credits /\ [Next]_vars => Credits'
  <2> SUFFICES ASSUME IInv, IInv', Credits, [Next]_vars PROVE Credits'
    OBVIOUS
  <2> USE MergesAssumption, NullAssumption
  <2>1. CASE Queue
    <3>1. PICK r \in Requests(source) :
            /\ pending' = Granted(r, scanned)
            /\ log' = <<Granted(r, scanned)>>
      BY <2>1 DEF Queue
    <3>2. log' = <<pending'>> /\ Len(log') = 1 /\ log'[1] = pending'
      BY <3>1
    <3>3. Coherent(pending', source') /\ pending' # NoJob
      BY <3>1, <2>1, GrantedCoherent DEF Queue, IInv, TypeOK, Coherent
    <3>4. LogCoherent'
      BY <3>2, <3>3 DEF LogCoherent
    <3>5. \A i \in 1..Len(log') : i = 1
      BY <3>2
    <3>6. SpenderPays'
      BY <3>2, <3>5 DEF SpenderPays, Spent, FirstSpends
    <3>7. PersonNamed'
      BY <3>2, <3>5 DEF PersonNamed, Named, FirstNamed
    <3>8. FirstQuote'
      BY <3>2, <3>5 DEF FirstQuote, Quoted, FirstQuoted
    <3> QED
      BY <3>4, <3>6, <3>7, <3>8 DEF Credits
  <2>2. CASE Coalesce
    <3>1. PICK r \in Requests(source) :
            /\ pending' = MergeJobs(pending, Granted(r, scanned))
            /\ log' = Append(log, Granted(r, scanned))
      BY <2>2 DEF Coalesce
    <3> DEFINE g == Granted(r, scanned)
               n == Len(log)
    <3>2. /\ Coherent(g, source) /\ Coherent(pending, source)
          /\ source' = source /\ pending # NoJob /\ pending' # NoJob
      BY <2>2, <3>1, GrantedCoherent, MergeCoherent
      DEF Coalesce, IInv, TypeOK, Coherent
    <3>3. /\ n \in Nat /\ Len(log') = n + 1
          /\ \A i \in 1..n : log'[i] = log[i]
          /\ log'[n + 1] = g
      BY <3>1, <3>2 DEF IInv, TypeOK, Coherent
    <3>4. LogCoherent'
      BY <3>2, <3>3 DEF Credits, LogCoherent
    (* A first request stays the first; without one, the new one may be it. *)
    <3>5. /\ Spent' <=> Spent \/ g.analyze
          /\ Named' <=> Named \/ g.by # NoUser
          /\ Quoted' <=> Quoted \/ g.est # NoEstimate
      BY <3>3 DEF Spent, Named, Quoted
    <3>6. ASSUME NEW k
          PROVE  /\ FirstSpends(k) => FirstSpends(k)' /\ log'[k] = log[k]
                 /\ FirstNamed(k) => FirstNamed(k)' /\ log'[k] = log[k]
                 /\ FirstQuoted(k) => FirstQuoted(k)' /\ log'[k] = log[k]
      BY <3>3 DEF FirstSpends, FirstNamed, FirstQuoted
    <3>7. \E k : /\ log'[k] = g
                 /\ ~Spent /\ g.analyze => FirstSpends(k)'
                 /\ ~Named /\ g.by # NoUser => FirstNamed(k)'
                 /\ ~Quoted /\ g.est # NoEstimate => FirstQuoted(k)'
      <4>1. PICK k \in Nat : k = n + 1
        BY <3>3
      <4>2. /\ k \in 1..Len(log') /\ log'[k] = g
            /\ \A j \in 1..(k - 1) : j \in 1..n /\ log'[j] = log[j]
        BY <4>1, <3>3
      <4>3. ~Spent /\ g.analyze => FirstSpends(k)'
        BY <4>2 DEF Spent, FirstSpends
      <4>4. ~Named /\ g.by # NoUser => FirstNamed(k)'
        BY <4>2 DEF Named, FirstNamed
      <4>5. ~Quoted /\ g.est # NoEstimate => FirstQuoted(k)'
        BY <4>2 DEF Quoted, FirstQuoted
      <4> QED
        BY <4>2, <4>3, <4>4, <4>5
    <3>8. /\ pending.analyze \in BOOLEAN /\ g.analyze \in BOOLEAN
          /\ pending.analyze <=> Spent
          /\ g.analyze => g.by # NoUser
          /\ ~g.analyze => g.est = NoEstimate
      BY <3>2 DEF IInv, SpendsAsAsked, Spent, Coherent, Job
    <3>9. /\ pending'.by = IF g.analyze /\ ~pending.analyze /\ g.by # NoUser THEN g.by
                           ELSE IF pending.by = NoUser THEN g.by ELSE pending.by
          /\ pending'.est = IF g.analyze /\ (~pending.analyze \/ pending.est = NoEstimate)
                            THEN g.est ELSE pending.est
      BY <3>1 DEF MergeJobs
    <3>10. SpenderPays'
      <4>1. CASE Spent
        <5>1. PICK k : FirstSpends(k) /\ pending.by = log[k].by
          BY <4>1, <3>2 DEF Credits, SpenderPays
        <5>2. pending.by # NoUser
          BY <4>1, <3>2, <3>8 DEF Coherent
        <5>3. pending'.by = pending.by
          BY <4>1, <5>2, <3>8, <3>9
        <5> QED
          BY <5>1, <5>3, <3>6 DEF SpenderPays
      <4>2. CASE ~Spent /\ g.analyze
        <5>1. pending'.by = g.by
          BY <4>2, <3>8, <3>9
        <5> QED
          BY <4>2, <5>1, <3>3, <3>7 DEF SpenderPays
      <4> QED
        BY <4>1, <4>2, <3>5 DEF SpenderPays
    <3>11. PersonNamed'
      <4> SUFFICES ASSUME ~Spent, ~g.analyze PROVE PersonNamed'
        BY <3>5 DEF PersonNamed
      <4>1. pending'.by = IF pending.by = NoUser THEN g.by ELSE pending.by
        BY <3>8, <3>9
      <4>2. CASE Named
        <5>1. PICK k : FirstNamed(k) /\ pending.by = log[k].by
          BY <4>2, <3>2 DEF Credits, PersonNamed
        <5>2. pending'.by = pending.by
          BY <4>1, <5>1 DEF FirstNamed
        <5> QED
          BY <4>2, <5>1, <5>2, <3>5, <3>6 DEF PersonNamed
      <4>3. CASE ~Named
        <5>1. pending'.by = g.by
          BY <4>1, <4>3, <3>2 DEF Credits, PersonNamed
        <5> QED
          BY <4>3, <5>1, <3>3, <3>5, <3>7 DEF PersonNamed
      <4> QED
        BY <4>2, <4>3
    <3>12. FirstQuote'
      <4>1. CASE Quoted
        <5>1. PICK k : FirstQuoted(k) /\ pending.est = log[k].est
          BY <4>1, <3>2 DEF Credits, FirstQuote
        <5>2. pending.est # NoEstimate
          BY <5>1 DEF FirstQuoted
        <5>3. pending'.est = pending.est
          BY <5>2, <3>2, <3>8, <3>9 DEF Coherent
        <5> QED
          BY <4>1, <5>1, <5>3, <3>5, <3>6 DEF FirstQuote
      <4>2. CASE ~Quoted
        <5>1. pending'.est = g.est
          BY <4>2, <3>2, <3>8, <3>9 DEF Credits, FirstQuote
        <5> QED
          BY <4>2, <5>1, <3>3, <3>5, <3>7 DEF FirstQuote
      <4> QED
        BY <4>1, <4>2
    <3> QED
      BY <3>4, <3>10, <3>11, <3>12 DEF Credits
  <2>3. CASE UNCHANGED <<source, pending, log>>
    BY <2>3 DEF Credits, SpenderPays, PersonNamed, FirstQuote, LogCoherent,
       Spent, Named, Quoted, FirstSpends, FirstNamed, FirstQuoted
  <2>4. CASE FirstScanEnds
    BY <2>3, <2>4 DEF FirstScanEnds
  <2>5. CASE Restart
    BY <2>3, <2>5, RowLossless DEF Restart, IInv, TypeOK
  <2>6. CASE Leave
    BY <2>6 DEF Leave, Credits, SpenderPays, PersonNamed, FirstQuote, LogCoherent
  <2>7. CASE UNCHANGED vars
    BY <2>3, <2>7 DEF vars
  <2> QED
    BY <2>1, <2>2, <2>4, <2>5, <2>6, <2>7 DEF Next
<1> QED
  BY <1>1, <1>2, Induction, PTL DEF Spec

(* A run that describes belongs to the first of its requesters who asked   *)
(* for the analysis, any other to its first person (_Pending.merge).       *)
THEOREM CreditWhereDue == Spec => []Attribution
<1>1. Credits => Attribution
  <2> SUFFICES ASSUME Credits, pending # NoJob
               PROVE  IF Spent
                      THEN pending.by = log[CHOOSE i \in 1..Len(log) :
                             log[i].analyze /\ \A j \in 1..(i - 1) : ~log[j].analyze].by
                      ELSE IF Named
                      THEN pending.by = log[CHOOSE i \in 1..Len(log) :
                             log[i].by # NoUser
                               /\ \A j \in 1..(i - 1) : ~(log[j].by # NoUser)].by
                      ELSE pending.by = NoUser
    BY DEF Attribution, First, Spent, Named
  <2> DEFINE s == CHOOSE i \in 1..Len(log) :
                    log[i].analyze /\ \A j \in 1..(i - 1) : ~log[j].analyze
             p == CHOOSE i \in 1..Len(log) :
                    log[i].by # NoUser
                      /\ \A j \in 1..(i - 1) : ~(log[j].by # NoUser)
  <2>1. CASE Spent
    <3>1. PICK k : FirstSpends(k) /\ pending.by = log[k].by
      BY <2>1 DEF Credits, SpenderPays
    <3>2. FirstSpends(s)
      BY <3>1 DEF FirstSpends
    <3>3. s = k
      BY <3>1, <3>2 DEF FirstSpends
    <3> QED
      BY <2>1, <3>1, <3>3
  <2>2. CASE ~Spent /\ Named
    <3>1. PICK k : FirstNamed(k) /\ pending.by = log[k].by
      BY <2>2 DEF Credits, PersonNamed
    <3>2. FirstNamed(p)
      BY <3>1 DEF FirstNamed
    <3>3. p = k
      BY <3>1, <3>2 DEF FirstNamed
    <3> QED
      BY <2>2, <3>1, <3>3
  <2> QED
    BY <2>1, <2>2 DEF Credits, PersonNamed
<1> QED
  BY <1>1, CreditsInduction, PTL

(* The run shows the first estimate that one of its requesters saw.        *)
THEOREM QuoteIsTheFirst == Spec => []OneEstimate
<1>1. Credits => OneEstimate
  <2> SUFFICES ASSUME Credits, pending # NoJob
               PROVE  pending.est =
                        IF Quoted
                        THEN log[CHOOSE i \in 1..Len(log) :
                               log[i].est # NoEstimate
                                 /\ \A j \in 1..(i - 1) : ~(log[j].est # NoEstimate)].est
                        ELSE NoEstimate
    BY DEF OneEstimate, First, Quoted
  <2> DEFINE q == CHOOSE i \in 1..Len(log) :
                    log[i].est # NoEstimate
                      /\ \A j \in 1..(i - 1) : ~(log[j].est # NoEstimate)
  <2>1. CASE Quoted
    <3>1. PICK k : FirstQuoted(k) /\ pending.est = log[k].est
      BY <2>1 DEF Credits, FirstQuote
    <3>2. FirstQuoted(q)
      BY <3>1 DEF FirstQuoted
    <3>3. q = k
      BY <3>1, <3>2 DEF FirstQuoted
    <3> QED
      BY <2>1, <3>1, <3>3
  <2> QED
    BY <2>1 DEF Credits, FirstQuote
<1> QED
  BY <1>1, CreditsInduction, PTL

(* A run charges its first payer and quotes what its first requester saw,  *)
(* however many requests merge and however often the portal restarts.      *)
THEOREM ChargesAsQuoted == Spec => []ChargedAsQuoted
<1>1. Attribution /\ OneEstimate => ChargedAsQuoted
  BY DEF ChargedAsQuoted
<1> QED
  BY <1>1, CreditWhereDue, QuoteIsTheFirst, PTL

=============================================================================
