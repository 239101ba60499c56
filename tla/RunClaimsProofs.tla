-------------------------- MODULE RunClaimsProofs ---------------------------
(***************************************************************************)
(* For any number of callers, projects and orgs: claims are counted        *)
(* exactly, what is being removed is left alone, and what is gone has no   *)
(* run.  The induction says who holds which project, that holders are      *)
(* disjoint, that nobody claims what is held once the wait for the claims  *)
(* is over, and what a project imported during a deletion cannot have yet. *)
(*                                                                         *)
(* The second part is about the job such a run is (JobRun).                *)
(***************************************************************************)
EXTENDS RunClaims, JobRun, FiniteSetTheorems, TLAPS

Removals == {"check", "remove", "files"}
Holding == {"wait", "cancel", "drop", "jobs", "rows", "clean"}
Settled == Holding \ {"wait"}
Locked == {"insert", "register", "mark", "drop"}

(* A frame's claim on a project, and on an org. *)
Claims(f, p) == f.project = p /\ f.pc \in RequestPcs \cup {"reread", "work"}
ClaimsOrg(f, o) == f.org = o /\ f.pc \in {"lock", "insert", "register"}

(* What a removal or a deletion has reserved. *)
Holds(f, p) == \/ f.pc \in Removals /\ f.project = p
               \/ f.pc \in Holding /\ p \in f.ids

(* What a deletion knows of its org's projects. *)
Seen(f) == IF f.pc = "reserve" THEN f.todo ELSE f.ids

(* A frame's ids exist, and what it went past still holds. *)
FramesOK ==
  \A a \in Actors :
    /\ call[a].pc \in RequestPcs \cup Removals \cup {"bound", "reread", "work", "mark"} =>
         call[a].project \in Projects /\ project[call[a].project] # "new"
    /\ call[a].pc \in RequestPcs \ {"gate"} =>
         IF call[a].org = None THEN project[call[a].project] = "gone"
         ELSE call[a].org = OrgOf[call[a].project]
    /\ call[a].pc \in DeletionPcs => call[a].org \in deleting
    /\ call[a].pc \in {"ids", "reserve"} => call[a].ids = {}
    /\ call[a].pc \in Locked => lock = a

(* Rows belong to projects that are there; runs in memory have their rows. *)
RowsOK ==
  /\ \A p \in Projects :
       /\ rows[p] # {} => project[p] = "here"
       /\ p \in pend => "pend" \in rows[p]
       /\ p \in jobs => "job" \in rows[p]
       /\ initialized[p] => project[p] # "new"
  /\ \A a \in Actors :
       /\ call[a].pc = "register" =>
            "pend" \in rows[call[a].project] /\ call[a].project \notin pend
       /\ call[a].pc = "mark" => "popped" \in rows[call[a].project]

(* Reservations are disjoint, and so are deletions. *)
HoldsOK ==
  /\ \A a \in Actors, p \in Projects : Holds(call[a], p) => p \in removing
  /\ \A a, b \in Actors : a # b =>
       /\ \A p \in Projects : ~(Holds(call[a], p) /\ Holds(call[b], p))
       /\ call[a].pc \in DeletionPcs /\ call[b].pc \in DeletionPcs =>
            call[a].org # call[b].org

(* What is held, past the wait, is claimed by nobody. *)
ClaimedOK ==
  \A a, b \in Actors :
    /\ call[a].pc \in Removals \cup Settled =>
         \A p \in Projects : Holds(call[a], p) => ~Claims(call[b], p)
    /\ call[a].pc \in Settled => ~ClaimsOrg(call[b], call[a].org)

(* A removal goes on without rows; a deletion stops first what waits, then *)
(* what runs.                                                              *)
StoppedOK ==
  \A a \in Actors :
    /\ call[a].pc \in {"remove", "files"} => rows[call[a].project] = {}
    /\ call[a].pc \in Settled \ {"cancel"} =>
         /\ call[a].ids \cap pend = {}
         /\ \A b \in Actors : call[b].pc = "mark" => call[b].project \notin call[a].ids
    /\ call[a].pc \in {"rows", "clean"} => call[a].ids \cap jobs = {}

(* A project imported while its org is being deleted was never worked on. *)
LateOK ==
  \A a \in Actors : call[a].pc \in {"reserve"} \cup (Holding \ {"clean"}) =>
    \A p \in OfOrg(call[a].org) \ Seen(call[a]) : project[p] = "here" =>
      /\ ~initialized[p] /\ rows[p] = {}
      /\ \A b \in Actors : call[b].project = p =>
           call[b].pc \notin {"bound", "reread", "work", "lock", "insert", "register", "mark"}

(* What a deletion still cleans up is gone for everybody. *)
CleanOK ==
  \A a \in Actors : call[a].pc = "clean" =>
    \A p \in call[a].todo :
      /\ project[p] = "gone" /\ p \notin pend \cup jobs
      /\ \A b \in Actors : call[b].project = p =>
           /\ call[b].pc \notin {"register", "mark", "work"}
           /\ p \in call[a].ids \/ call[b].pc \notin {"bound", "reread"}

IInv ==
  /\ TypeOK /\ ClaimsCounted /\ FramesOK /\ RowsOK
  /\ HoldsOK /\ ClaimedOK /\ StoppedOK /\ LateOK /\ CleanOK

-----------------------------------------------------------------------------
(* What the invariant says of the claims, and that it is strong enough *)

(* One member more or less. *)
LEMMA Counting ==
  ASSUME NEW S, NEW T, IsFiniteSet(S), NEW x,
         \A y : y # x => (y \in S <=> y \in T)
  PROVE  /\ IsFiniteSet(T)
         /\ (x \in S <=> x \in T) => Cardinality(T) = Cardinality(S)
         /\ x \notin S /\ x \in T => Cardinality(T) = Cardinality(S) + 1
         /\ x \in S /\ x \notin T => Cardinality(T) = Cardinality(S) - 1
<1>1. CASE x \in S <=> x \in T
  <2>1. T = S
    BY <1>1
  <2> QED BY <2>1
<1>2. CASE x \notin S /\ x \in T
  <2>1. T = S \cup {x}
    BY <1>2
  <2> QED BY <1>2, <2>1, FS_AddElement
<1>3. CASE x \in S /\ x \notin T
  <2>1. T = S \ {x}
    BY <1>3
  <2> QED BY <1>3, <2>1, FS_RemoveElement
<1> QED BY <1>1, <1>2, <1>3

(* The counted sets are those of the claiming frames. *)
LEMMA ClaimantsAre ==
  /\ \A p : /\ Claimants(p) = {a \in Actors : Claims(call[a], p)}
           /\ IsFiniteSet(Claimants(p)) /\ Cardinality(Claimants(p)) \in Nat
  /\ \A o : /\ OrgClaimants(o) = {a \in Actors : ClaimsOrg(call[a], o)}
           /\ IsFiniteSet(OrgClaimants(o)) /\ Cardinality(OrgClaimants(o)) \in Nat
<1>1. ASSUME NEW p
      PROVE  /\ Claimants(p) = {a \in Actors : Claims(call[a], p)}
             /\ Claimants(p) \subseteq Actors
  BY DEF Claimants, Claims
<1>2. ASSUME NEW o
      PROVE  /\ OrgClaimants(o) = {a \in Actors : ClaimsOrg(call[a], o)}
             /\ OrgClaimants(o) \subseteq Actors
  BY DEF OrgClaimants, ClaimsOrg
<1> QED BY <1>1, <1>2, ClaimsAssumption, FS_Subset, FS_CardinalityType

(* A claim that is there is counted; a count of zero means no claim. *)
LEMMA Counted ==
  ASSUME IInv
  PROVE  /\ \A p \in Projects, a \in Actors :
              Claims(call[a], p) => requesting[p] \in Nat \ {0}
         /\ \A o \in Orgs, a \in Actors :
              ClaimsOrg(call[a], o) => orgRequests[o] \in Nat \ {0}
<1>1. ASSUME NEW p \in Projects, NEW a \in Actors, Claims(call[a], p)
      PROVE  requesting[p] \in Nat \ {0}
  <2>1. a \in Claimants(p)
    BY <1>1, ClaimantsAre
  <2>2. Cardinality(Claimants(p)) # 0
    BY <2>1, ClaimantsAre, FS_EmptySet
  <2> QED BY <2>2, ClaimantsAre DEF IInv, ClaimsCounted
<1>2. ASSUME NEW o \in Orgs, NEW a \in Actors, ClaimsOrg(call[a], o)
      PROVE  orgRequests[o] \in Nat \ {0}
  <2>1. a \in OrgClaimants(o)
    BY <1>2, ClaimantsAre
  <2>2. Cardinality(OrgClaimants(o)) # 0
    BY <2>1, ClaimantsAre, FS_EmptySet
  <2> QED BY <2>2, ClaimantsAre DEF IInv, ClaimsCounted
<1> QED BY <1>1, <1>2

(* What a step of one actor does to the counts. *)
One(b) == IF b THEN 1 ELSE 0

(* The counts stay exact if they move with the frame of the actor. *)
LEMMA CountsMove ==
  ASSUME IInv, NEW a \in Actors,
         \A b \in Actors \ {a} : call'[b] = call[b],
         \A p \in Projects :
           requesting'[p] = requesting[p] + One(Claims(call'[a], p)) - One(Claims(call[a], p)),
         \A o \in Orgs :
           orgRequests'[o] = orgRequests[o] + One(ClaimsOrg(call'[a], o))
                                            - One(ClaimsOrg(call[a], o))
  PROVE  ClaimsCounted'
<1>1. ASSUME NEW p \in Projects
      PROVE  requesting'[p] = Cardinality(Claimants(p)')
  <2>1. /\ Claimants(p) = {b \in Actors : Claims(call[b], p)}
        /\ Claimants(p)' = {b \in Actors : Claims(call'[b], p)}
        /\ IsFiniteSet(Claimants(p)) /\ Cardinality(Claimants(p)) \in Nat
    BY ClaimantsAre DEF Claimants, Claims
  <2>2. \A y : y # a => (y \in Claimants(p) <=> y \in Claimants(p)')
    BY <2>1
  <2>3. /\ a \in Claimants(p) <=> Claims(call[a], p)
        /\ a \in Claimants(p)' <=> Claims(call'[a], p)
    BY <2>1
  <2>4. requesting[p] = Cardinality(Claimants(p))
    BY DEF IInv, ClaimsCounted
  <2> DEFINE S == Claimants(p)
             T == Claimants(p)'
  <2>5. /\ (a \in S <=> a \in T) => Cardinality(T) = Cardinality(S)
        /\ a \notin S /\ a \in T => Cardinality(T) = Cardinality(S) + 1
        /\ a \in S /\ a \notin T => Cardinality(T) = Cardinality(S) - 1
    <3> HIDE DEF S, T
    <3> QED BY <2>1, <2>2, Counting DEF S, T
  <2> HIDE DEF S, T
  <2> QED BY <2>1, <2>3, <2>4, <2>5 DEF One, S, T
<1>2. ASSUME NEW o \in Orgs
      PROVE  orgRequests'[o] = Cardinality(OrgClaimants(o)')
  <2>1. /\ OrgClaimants(o) = {b \in Actors : ClaimsOrg(call[b], o)}
        /\ OrgClaimants(o)' = {b \in Actors : ClaimsOrg(call'[b], o)}
        /\ IsFiniteSet(OrgClaimants(o)) /\ Cardinality(OrgClaimants(o)) \in Nat
    BY ClaimantsAre DEF OrgClaimants, ClaimsOrg
  <2>2. \A y : y # a => (y \in OrgClaimants(o) <=> y \in OrgClaimants(o)')
    BY <2>1
  <2>3. /\ a \in OrgClaimants(o) <=> ClaimsOrg(call[a], o)
        /\ a \in OrgClaimants(o)' <=> ClaimsOrg(call'[a], o)
    BY <2>1
  <2>4. orgRequests[o] = Cardinality(OrgClaimants(o))
    BY DEF IInv, ClaimsCounted
  <2> DEFINE S == OrgClaimants(o)
             T == OrgClaimants(o)'
  <2>5. /\ (a \in S <=> a \in T) => Cardinality(T) = Cardinality(S)
        /\ a \notin S /\ a \in T => Cardinality(T) = Cardinality(S) + 1
        /\ a \in S /\ a \notin T => Cardinality(T) = Cardinality(S) - 1
    <3> HIDE DEF S, T
    <3> QED BY <2>1, <2>2, Counting DEF S, T
  <2> HIDE DEF S, T
  <2> QED BY <2>1, <2>3, <2>4, <2>5 DEF One, S, T
<1> QED BY <1>1, <1>2 DEF ClaimsCounted

(* The invariant implies what the module promises. *)
LEMMA Implies == IInv => RemovalsAlone /\ GoneHasNoRuns
<1> SUFFICES ASSUME IInv PROVE RemovalsAlone /\ GoneHasNoRuns
  OBVIOUS
<1>1. GoneHasNoRuns
  BY DEF IInv, RowsOK, GoneHasNoRuns, Busy
<1>2. ASSUME NEW a \in Actors, call[a].pc \in {"remove", "files"}
      PROVE  Quiet(call[a].project)
  BY <1>2 DEF IInv, TypeOK, FramesOK, RowsOK, ClaimedOK, StoppedOK, Holds, Removals, Claims,
              RequestPcs, Quiet
<1>3. ASSUME NEW a \in Actors, call[a].pc = "rows",
             NEW p \in call[a].ids \cup (Here \cap OfOrg(call[a].org))
      PROVE  Quiet(p)
  <2>1. CASE p \in call[a].ids
    BY <1>3, <2>1 DEF IInv, TypeOK, Frame, ClaimedOK, StoppedOK, Holds, Settled, Holding, Removals,
                      Claims, RequestPcs, Quiet
  <2>2. CASE p \in (Here \cap OfOrg(call[a].org)) \ call[a].ids
    BY <1>3, <2>2 DEF IInv, LateOK, RowsOK, Holding, Seen, Here, OfOrg, Quiet
  <2> QED BY <1>3, <2>1, <2>2
<1>4. ASSUME NEW a \in Actors, call[a].pc = "clean", NEW p \in call[a].todo
      PROVE  Quiet(p)
  BY <1>4 DEF IInv, CleanOK, Quiet, Here
<1>5. ASSUME NEW a \in Actors, NEW b \in Actors \ {a},
             call[a].pc \in {"remove", "files"}, call[b].pc \in {"rows", "clean"}
      PROVE  call[a].project \notin call[b].ids
  BY <1>5 DEF IInv, TypeOK, Frame, FramesOK, HoldsOK, Holds, Removals, Holding
<1> QED BY <1>1, <1>2, <1>3, <1>4, <1>5 DEF RemovalsAlone

(* A claim that is released was there. *)
LEMMA Released ==
  ASSUME IInv, NEW a \in Actors
  PROVE  /\ \A p \in Projects : Claims(call[a], p) =>
              [requesting EXCEPT ![p] = @ - 1] \in [Projects -> Nat]
         /\ \A o \in Orgs : ClaimsOrg(call[a], o) =>
              [orgRequests EXCEPT ![o] = @ - 1] \in [Orgs -> Nat]
<1>1. requesting \in [Projects -> Nat] /\ orgRequests \in [Orgs -> Nat]
  BY DEF IInv, TypeOK
<1> QED BY <1>1, Counted

-----------------------------------------------------------------------------
(* The steps.  The helpers of the model and of the invariant are expanded  *)
(* throughout, the actions and the invariant's parts only where they are   *)
(* named.                                                                  *)

USE ClaimsAssumption
USE DEF At, Goto, Ends, Claim, Unclaim, EndRequest, ReleaseOrg, NoCall, Here, OfOrg, Busy, Reservable,
        OrgIdle, JobsEnded, claims, queue, disk, None,
        RequestPcs, DeletionPcs, Removals, Holding, Settled, Locked, Holds, Seen, Claims, ClaimsOrg,
        One

(* Requests. *)

(* A request claims its project, which no removal holds. *)
LEMMA RequestInv ==
  ASSUME IInv, NEW a \in Actors, NEW p \in Projects, Request(a, p)
  PROVE  IInv'
<1> USE DEF Request
<1>1. call' \in [Actors -> Frame]
  BY DEF IInv, TypeOK, Frame, FramesOK
<1>2. TypeOK'
  BY <1>1 DEF IInv, TypeOK, FramesOK
<1>3. ClaimsCounted'
  BY <1>1, CountsMove DEF IInv, TypeOK, FramesOK
<1>4. FramesOK' /\ RowsOK'
  BY <1>1 DEF IInv, TypeOK, Frame, FramesOK, RowsOK
<1>5. HoldsOK' /\ ClaimedOK'
  BY <1>1 DEF IInv, TypeOK, Frame, FramesOK, HoldsOK, ClaimedOK
<1>6. StoppedOK' /\ LateOK' /\ CleanOK'
  BY <1>1 DEF IInv, TypeOK, Frame, FramesOK, RowsOK, StoppedOK, LateOK, CleanOK
<1> QED BY <1>2, <1>3, <1>4, <1>5, <1>6 DEF IInv

(* A request reads its org; without a row, its project is gone. *)
LEMMA ReadGateInv ==
  ASSUME IInv, NEW a \in Actors, ReadGate(a)
  PROVE  IInv'
<1> DEFINE o == IF call[a].project \in Here THEN OrgOf[call[a].project] ELSE None
           f == [call[a] EXCEPT !.pc = "org", !.org = o]
<1>1. /\ call[a] \in Frame /\ call[a].pc = "gate" /\ call[a].project \in Projects
      /\ o \in Orgs \cup {None}
      /\ IF o = None THEN project[call[a].project] = "gone"
         ELSE o = OrgOf[call[a].project]
      /\ UNCHANGED <<claims, queue, lock, disk>>
  BY DEF ReadGate, IInv, TypeOK, FramesOK
<1> HIDE DEF o
<1>2. /\ f \in Frame /\ f.pc = "org" /\ f.org = o /\ f.project = call[a].project
      /\ f.ids = call[a].ids /\ f.todo = call[a].todo
  BY <1>1 DEF Frame
<1>3. call' = [call EXCEPT ![a] = f]
  BY DEF ReadGate, o
<1> HIDE DEF f
<1>4. /\ call' \in [Actors -> Frame] /\ call'[a] = f
      /\ \A b \in Actors \ {a} : call'[b] = call[b]
  BY <1>2, <1>3 DEF IInv, TypeOK
<1>5. TypeOK'
  BY <1>1, <1>4 DEF IInv, TypeOK
<1>6. ClaimsCounted'
  BY <1>1, <1>2, <1>4, CountsMove DEF IInv, TypeOK
<1>7. FramesOK' /\ RowsOK'
  BY <1>1, <1>2, <1>4 DEF IInv, TypeOK, FramesOK, RowsOK
<1>8. HoldsOK' /\ ClaimedOK'
  BY <1>1, <1>2, <1>4, SMTT(30) DEF IInv, TypeOK, FramesOK, HoldsOK, ClaimedOK
<1>9. StoppedOK' /\ LateOK' /\ CleanOK'
  BY <1>1, <1>2, <1>4, SMTT(30) DEF IInv, TypeOK, FramesOK, StoppedOK, LateOK, CleanOK
<1> QED BY <1>5, <1>6, <1>7, <1>8, <1>9 DEF IInv

(* It claims its org, which no deletion has marked. *)
LEMMA ClaimOrgInv ==
  ASSUME IInv, NEW a \in Actors, ClaimOrg(a)
  PROVE  IInv'
<1> USE DEF ClaimOrg
<1>1. call' \in [Actors -> Frame]
  BY DEF IInv, TypeOK, Frame, FramesOK
<1>2. TypeOK'
  BY <1>1 DEF IInv, TypeOK, FramesOK
<1>3. ClaimsCounted'
  BY <1>1, CountsMove DEF IInv, TypeOK, FramesOK
<1>4. FramesOK' /\ RowsOK'
  BY <1>1 DEF IInv, TypeOK, Frame, FramesOK, RowsOK
<1>5. HoldsOK' /\ ClaimedOK'
  BY <1>1 DEF IInv, TypeOK, Frame, FramesOK, HoldsOK, ClaimedOK
<1>6. StoppedOK' /\ LateOK' /\ CleanOK'
  BY <1>1 DEF IInv, TypeOK, Frame, FramesOK, RowsOK, StoppedOK, LateOK, CleanOK
<1> QED BY <1>2, <1>3, <1>4, <1>5, <1>6 DEF IInv

(* Or it is refused, and releases the one claim it has. *)
LEMMA OrgRefusedInv ==
  ASSUME IInv, NEW a \in Actors, OrgRefused(a)
  PROVE  IInv'
<1> USE DEF OrgRefused
<1>1. call' \in [Actors -> Frame]
  BY DEF IInv, TypeOK, Frame, FramesOK
<1>2. TypeOK'
  <2>1. Claims(call[a], call[a].project) /\ call[a].project \in Projects
    BY DEF IInv, FramesOK
  <2> QED BY <1>1, <2>1, Released DEF IInv, TypeOK
<1>3. ClaimsCounted'
  BY <1>1, CountsMove DEF IInv, TypeOK, FramesOK
<1>4. FramesOK' /\ RowsOK'
  BY <1>1 DEF IInv, TypeOK, Frame, FramesOK, RowsOK
<1>5. HoldsOK' /\ ClaimedOK'
  BY <1>1 DEF IInv, TypeOK, Frame, FramesOK, HoldsOK, ClaimedOK
<1>6. StoppedOK' /\ LateOK' /\ CleanOK'
  BY <1>1 DEF IInv, TypeOK, Frame, FramesOK, RowsOK, StoppedOK, LateOK, CleanOK
<1> QED BY <1>2, <1>3, <1>4, <1>5, <1>6 DEF IInv

(* It is refused later, and releases both. *)
LEMMA RefusedInv ==
  ASSUME IInv, NEW a \in Actors, Refused(a)
  PROVE  IInv'
<1> USE DEF Refused
<1>1. call' \in [Actors -> Frame]
  BY DEF IInv, TypeOK, Frame, FramesOK
<1>2. TypeOK'
  <2>1. Claims(call[a], call[a].project) /\ call[a].project \in Projects
    BY DEF IInv, FramesOK
  <2>2. call[a].org # None => ClaimsOrg(call[a], call[a].org)
    OBVIOUS
  <2>3. call[a].org \in Orgs \cup {None}
    BY DEF IInv, TypeOK, Frame
  <2>4. requesting' \in [Projects -> Nat] /\ orgRequests' \in [Orgs -> Nat]
    BY <2>1, <2>2, <2>3, Released DEF IInv, TypeOK
  <2> QED BY <1>1, <2>4 DEF IInv, TypeOK
<1>3. ClaimsCounted'
  BY <1>1, CountsMove DEF IInv, TypeOK, FramesOK
<1>4. FramesOK' /\ RowsOK'
  BY <1>1 DEF IInv, TypeOK, Frame, FramesOK, RowsOK
<1>5. HoldsOK' /\ ClaimedOK'
  BY <1>1 DEF IInv, TypeOK, Frame, FramesOK, HoldsOK, ClaimedOK
<1>6. StoppedOK' /\ LateOK' /\ CleanOK'
  BY <1>1 DEF IInv, TypeOK, Frame, FramesOK, RowsOK, StoppedOK, LateOK, CleanOK
<1> QED BY <1>2, <1>3, <1>4, <1>5, <1>6 DEF IInv

(* It gets the lock. *)
LEMMA AcquireInv ==
  ASSUME IInv, NEW a \in Actors, Acquire(a)
  PROVE  IInv'
<1> USE DEF Acquire
<1>1. call' \in [Actors -> Frame]
  BY DEF IInv, TypeOK, Frame, FramesOK
<1>2. TypeOK'
  BY <1>1 DEF IInv, TypeOK, FramesOK
<1>3. ClaimsCounted'
  BY <1>1, CountsMove DEF IInv, TypeOK, FramesOK
<1>4. FramesOK' /\ RowsOK'
  BY <1>1 DEF IInv, TypeOK, Frame, FramesOK, RowsOK
<1>5. HoldsOK' /\ ClaimedOK'
  BY <1>1 DEF IInv, TypeOK, Frame, FramesOK, HoldsOK, ClaimedOK
<1>6. StoppedOK' /\ LateOK' /\ CleanOK'
  BY <1>1 DEF IInv, TypeOK, Frame, FramesOK, RowsOK, StoppedOK, LateOK, CleanOK
<1> QED BY <1>2, <1>3, <1>4, <1>5, <1>6 DEF IInv

(* It merges into the pending run, or is not granted. *)
LEMMA MergeInv ==
  ASSUME IInv, NEW a \in Actors, Merge(a)
  PROVE  IInv'
<1> USE DEF Merge
<1>1. call' \in [Actors -> Frame]
  BY DEF IInv, TypeOK, Frame, FramesOK
<1>2. TypeOK'
  <2>1. Claims(call[a], call[a].project) /\ call[a].project \in Projects
    BY DEF IInv, FramesOK
  <2>2. call[a].org # None => ClaimsOrg(call[a], call[a].org)
    OBVIOUS
  <2>3. call[a].org \in Orgs \cup {None}
    BY DEF IInv, TypeOK, Frame
  <2>4. requesting' \in [Projects -> Nat] /\ orgRequests' \in [Orgs -> Nat]
    BY <2>1, <2>2, <2>3, Released DEF IInv, TypeOK
  <2> QED BY <1>1, <2>4 DEF IInv, TypeOK
<1>3. ClaimsCounted'
  BY <1>1, CountsMove DEF IInv, TypeOK, FramesOK
<1>4. FramesOK' /\ RowsOK'
  BY <1>1 DEF IInv, TypeOK, Frame, FramesOK, RowsOK
<1>5. HoldsOK' /\ ClaimedOK'
  BY <1>1 DEF IInv, TypeOK, Frame, FramesOK, HoldsOK, ClaimedOK
<1>6. StoppedOK' /\ LateOK' /\ CleanOK'
  BY <1>1 DEF IInv, TypeOK, Frame, FramesOK, RowsOK, StoppedOK, LateOK, CleanOK
<1> QED BY <1>2, <1>3, <1>4, <1>5, <1>6 DEF IInv

(* It inserts its row, of a project that is there. *)
LEMMA InsertInv ==
  ASSUME IInv, NEW a \in Actors, Insert(a)
  PROVE  IInv'
<1> USE DEF Insert
<1>1. call' \in [Actors -> Frame]
  BY DEF IInv, TypeOK, Frame, FramesOK
<1>2. TypeOK'
  BY <1>1 DEF IInv, TypeOK, FramesOK
<1>3. ClaimsCounted'
  BY <1>1, CountsMove DEF IInv, TypeOK, FramesOK
<1>4. FramesOK' /\ RowsOK'
  BY <1>1 DEF IInv, TypeOK, Frame, FramesOK, RowsOK
<1>5. HoldsOK' /\ ClaimedOK'
  BY <1>1 DEF IInv, TypeOK, Frame, FramesOK, HoldsOK, ClaimedOK
<1>6. StoppedOK' /\ LateOK' /\ CleanOK'
  BY <1>1 DEF IInv, TypeOK, Frame, FramesOK, RowsOK, HoldsOK, ClaimedOK,
              StoppedOK, LateOK, CleanOK
<1> QED BY <1>2, <1>3, <1>4, <1>5, <1>6 DEF IInv

(* It registers the pending run. *)
LEMMA RegisterInv ==
  ASSUME IInv, NEW a \in Actors, Register(a)
  PROVE  IInv'
<1> USE DEF Register
<1>1. call' \in [Actors -> Frame]
  BY DEF IInv, TypeOK, Frame, FramesOK
<1>2. TypeOK'
  <2>1. Claims(call[a], call[a].project) /\ call[a].project \in Projects
    BY DEF IInv, FramesOK
  <2>2. call[a].org # None => ClaimsOrg(call[a], call[a].org)
    OBVIOUS
  <2>3. call[a].org \in Orgs \cup {None}
    BY DEF IInv, TypeOK, Frame
  <2>4. requesting' \in [Projects -> Nat] /\ orgRequests' \in [Orgs -> Nat]
    BY <2>1, <2>2, <2>3, Released DEF IInv, TypeOK
  <2> QED BY <1>1, <2>1, <2>4 DEF IInv, TypeOK
<1>3. ClaimsCounted'
  BY <1>1, CountsMove DEF IInv, TypeOK, FramesOK
<1>4. FramesOK' /\ RowsOK'
  BY <1>1 DEF IInv, TypeOK, Frame, FramesOK, RowsOK
<1>5. HoldsOK' /\ ClaimedOK'
  BY <1>1 DEF IInv, TypeOK, Frame, FramesOK, HoldsOK, ClaimedOK
<1>6. StoppedOK' /\ LateOK' /\ CleanOK'
  BY <1>1 DEF IInv, TypeOK, Frame, FramesOK, RowsOK, HoldsOK, ClaimedOK,
              StoppedOK, LateOK, CleanOK
<1> QED BY <1>2, <1>3, <1>4, <1>5, <1>6 DEF IInv

(* A cancel takes the pending run away. *)
LEMMA CancelInv ==
  ASSUME IInv, NEW a \in Actors, NEW p \in Projects, Cancel(a, p)
  PROVE  IInv'
<1> USE DEF Cancel
<1>1. call' \in [Actors -> Frame]
  BY DEF IInv, TypeOK, Frame, FramesOK
<1>2. TypeOK'
  BY <1>1 DEF IInv, TypeOK, FramesOK
<1>3. ClaimsCounted'
  BY <1>1, CountsMove DEF IInv, TypeOK, FramesOK
<1>4. FramesOK' /\ RowsOK'
  BY <1>1 DEF IInv, TypeOK, Frame, FramesOK, RowsOK
<1>5. HoldsOK' /\ ClaimedOK'
  BY <1>1 DEF IInv, TypeOK, Frame, FramesOK, HoldsOK, ClaimedOK
<1>6. StoppedOK' /\ LateOK' /\ CleanOK'
  BY <1>1 DEF IInv, TypeOK, Frame, FramesOK, RowsOK, StoppedOK, LateOK, CleanOK
<1> QED BY <1>2, <1>3, <1>4, <1>5, <1>6 DEF IInv

(* It ends the row, or fails to. *)
LEMMA MarkCancelledInv ==
  ASSUME IInv, NEW a \in Actors, MarkCancelled(a)
  PROVE  IInv'
<1> USE DEF MarkCancelled
<1>1. call' \in [Actors -> Frame]
  BY DEF IInv, TypeOK, Frame, FramesOK
<1>2. TypeOK'
  BY <1>1 DEF IInv, TypeOK, FramesOK
<1>3. ClaimsCounted'
  BY <1>1, CountsMove DEF IInv, TypeOK, FramesOK
<1>4. FramesOK' /\ RowsOK'
  BY <1>1 DEF IInv, TypeOK, Frame, FramesOK, RowsOK
<1>5. HoldsOK' /\ ClaimedOK'
  BY <1>1 DEF IInv, TypeOK, Frame, FramesOK, HoldsOK, ClaimedOK
<1>6. StoppedOK' /\ LateOK' /\ CleanOK'
  BY <1>1 DEF IInv, TypeOK, Frame, FramesOK, RowsOK, HoldsOK, ClaimedOK,
              StoppedOK, LateOK, CleanOK
<1> QED BY <1>2, <1>3, <1>4, <1>5, <1>6 DEF IInv

(* Work in the portal's process. *)

(* A route binds a project that is there and initialized. *)
LEMMA BindInv ==
  ASSUME IInv, NEW a \in Actors, NEW p \in Projects, Bind(a, p)
  PROVE  IInv'
<1> USE DEF Bind
<1>1. call' \in [Actors -> Frame]
  BY DEF IInv, TypeOK, Frame, FramesOK
<1>2. TypeOK'
  BY <1>1 DEF IInv, TypeOK, FramesOK
<1>3. ClaimsCounted'
  BY <1>1, CountsMove DEF IInv, TypeOK, FramesOK
<1>4. FramesOK' /\ RowsOK'
  BY <1>1 DEF IInv, TypeOK, Frame, FramesOK, RowsOK
<1>5. HoldsOK' /\ ClaimedOK'
  BY <1>1 DEF IInv, TypeOK, Frame, FramesOK, HoldsOK, ClaimedOK
<1>6. StoppedOK' /\ LateOK' /\ CleanOK'
  BY <1>1 DEF IInv, TypeOK, Frame, FramesOK, RowsOK, StoppedOK, LateOK, CleanOK
<1> QED BY <1>2, <1>3, <1>4, <1>5, <1>6 DEF IInv

(* A purpose generation claims it. *)
LEMMA ClaimPurposeInv ==
  ASSUME IInv, NEW a \in Actors, ClaimPurpose(a)
  PROVE  IInv'
<1> USE DEF ClaimPurpose
<1>1. call' \in [Actors -> Frame]
  BY DEF IInv, TypeOK, Frame, FramesOK
<1>2. TypeOK'
  BY <1>1 DEF IInv, TypeOK, FramesOK
<1>3. ClaimsCounted'
  BY <1>1, CountsMove DEF IInv, TypeOK, FramesOK
<1>4. FramesOK' /\ RowsOK'
  BY <1>1 DEF IInv, TypeOK, Frame, FramesOK, RowsOK
<1>5. HoldsOK' /\ ClaimedOK'
  BY <1>1 DEF IInv, TypeOK, Frame, FramesOK, HoldsOK, ClaimedOK
<1>6. StoppedOK' /\ LateOK' /\ CleanOK'
  BY <1>1 DEF IInv, TypeOK, Frame, FramesOK, RowsOK, HoldsOK, ClaimedOK,
              StoppedOK, LateOK, CleanOK
<1> QED BY <1>2, <1>3, <1>4, <1>5, <1>6 DEF IInv

(* So does a transfer, *)
LEMMA ClaimTransferInv ==
  ASSUME IInv, NEW a \in Actors, ClaimTransfer(a)
  PROVE  IInv'
<1> USE DEF ClaimTransfer
<1>1. call' \in [Actors -> Frame]
  BY DEF IInv, TypeOK, Frame, FramesOK
<1>2. TypeOK'
  BY <1>1 DEF IInv, TypeOK, FramesOK
<1>3. ClaimsCounted'
  BY <1>1, CountsMove DEF IInv, TypeOK, FramesOK
<1>4. FramesOK' /\ RowsOK'
  BY <1>1 DEF IInv, TypeOK, Frame, FramesOK, RowsOK
<1>5. HoldsOK' /\ ClaimedOK'
  BY <1>1 DEF IInv, TypeOK, Frame, FramesOK, HoldsOK, ClaimedOK
<1>6. StoppedOK' /\ LateOK' /\ CleanOK'
  BY <1>1 DEF IInv, TypeOK, Frame, FramesOK, RowsOK, StoppedOK, LateOK, CleanOK
<1> QED BY <1>2, <1>3, <1>4, <1>5, <1>6 DEF IInv

(* which looks again whether it is there *)
LEMMA RereadInv ==
  ASSUME IInv, NEW a \in Actors, Reread(a)
  PROVE  IInv'
<1> USE DEF Reread
<1>1. call' \in [Actors -> Frame]
  BY SMTT(30) DEF IInv, TypeOK, Frame, FramesOK
<1>2. TypeOK'
  BY <1>1 DEF IInv, TypeOK, FramesOK
<1>3. ClaimsCounted'
  BY <1>1, CountsMove DEF IInv, TypeOK, FramesOK
<1>4. FramesOK' /\ RowsOK'
  BY <1>1 DEF IInv, TypeOK, Frame, FramesOK, RowsOK
<1>5. HoldsOK' /\ ClaimedOK'
  BY <1>1 DEF IInv, TypeOK, Frame, FramesOK, HoldsOK, ClaimedOK
<1>6. StoppedOK' /\ LateOK' /\ CleanOK'
  BY <1>1 DEF IInv, TypeOK, Frame, FramesOK, RowsOK, StoppedOK, LateOK, CleanOK
<1> QED BY <1>2, <1>3, <1>4, <1>5, <1>6 DEF IInv

(* and gives up if it is not. *)
LEMMA MissingInv ==
  ASSUME IInv, NEW a \in Actors, Missing(a)
  PROVE  IInv'
<1> USE DEF Missing
<1>1. call' \in [Actors -> Frame]
  BY DEF IInv, TypeOK, Frame, FramesOK
<1>2. TypeOK'
  <2>1. Claims(call[a], call[a].project) /\ call[a].project \in Projects
    BY DEF IInv, FramesOK
  <2> QED BY <1>1, <2>1, Released DEF IInv, TypeOK
<1>3. ClaimsCounted'
  BY <1>1, CountsMove DEF IInv, TypeOK, FramesOK
<1>4. FramesOK' /\ RowsOK'
  BY <1>1 DEF IInv, TypeOK, Frame, FramesOK, RowsOK
<1>5. HoldsOK' /\ ClaimedOK'
  BY <1>1 DEF IInv, TypeOK, Frame, FramesOK, HoldsOK, ClaimedOK
<1>6. StoppedOK' /\ LateOK' /\ CleanOK'
  BY <1>1 DEF IInv, TypeOK, Frame, FramesOK, RowsOK, StoppedOK, LateOK, CleanOK
<1> QED BY <1>2, <1>3, <1>4, <1>5, <1>6 DEF IInv

(* The work ends, and its claim with it. *)
LEMMA WorkInv ==
  ASSUME IInv, NEW a \in Actors, Work(a)
  PROVE  IInv'
<1> USE DEF Work
<1>1. call' \in [Actors -> Frame]
  BY DEF IInv, TypeOK, Frame, FramesOK
<1>2. TypeOK'
  <2>1. Claims(call[a], call[a].project) /\ call[a].project \in Projects
    BY DEF IInv, FramesOK
  <2> QED BY <1>1, <2>1, Released DEF IInv, TypeOK
<1>3. ClaimsCounted'
  BY <1>1, CountsMove DEF IInv, TypeOK, FramesOK
<1>4. FramesOK' /\ RowsOK'
  BY <1>1 DEF IInv, TypeOK, Frame, FramesOK, RowsOK
<1>5. HoldsOK' /\ ClaimedOK'
  BY <1>1 DEF IInv, TypeOK, Frame, FramesOK, HoldsOK, ClaimedOK
<1>6. StoppedOK' /\ LateOK' /\ CleanOK'
  BY <1>1 DEF IInv, TypeOK, Frame, FramesOK, RowsOK, StoppedOK, LateOK, CleanOK
<1> QED BY <1>2, <1>3, <1>4, <1>5, <1>6 DEF IInv

(* Or nothing was claimed. *)
LEMMA GiveUpWorkInv ==
  ASSUME IInv, NEW a \in Actors, GiveUpWork(a)
  PROVE  IInv'
<1> USE DEF GiveUpWork
<1>1. call' \in [Actors -> Frame]
  BY DEF IInv, TypeOK, Frame, FramesOK
<1>2. TypeOK'
  BY <1>1 DEF IInv, TypeOK, FramesOK
<1>3. ClaimsCounted'
  BY <1>1, CountsMove DEF IInv, TypeOK, FramesOK
<1>4. FramesOK' /\ RowsOK'
  BY <1>1 DEF IInv, TypeOK, Frame, FramesOK, RowsOK
<1>5. HoldsOK' /\ ClaimedOK'
  BY <1>1 DEF IInv, TypeOK, Frame, FramesOK, HoldsOK, ClaimedOK
<1>6. StoppedOK' /\ LateOK' /\ CleanOK'
  BY <1>1 DEF IInv, TypeOK, Frame, FramesOK, RowsOK, StoppedOK, LateOK, CleanOK
<1> QED BY <1>2, <1>3, <1>4, <1>5, <1>6 DEF IInv

(* Removals. *)

(* A count of zero: nobody claims what is reserved. *)
LEMMA ReserveInv ==
  ASSUME IInv, NEW a \in Actors, NEW p \in Projects, Reserve(a, p)
  PROVE  IInv'
<1> USE DEF Reserve
<1>1. call' \in [Actors -> Frame]
  BY DEF IInv, TypeOK, Frame, FramesOK
<1>2. TypeOK'
  BY <1>1 DEF IInv, TypeOK, FramesOK
<1>3. ClaimsCounted'
  BY <1>1, CountsMove DEF IInv, TypeOK, FramesOK
<1>4. FramesOK' /\ RowsOK'
  BY <1>1 DEF IInv, TypeOK, Frame, FramesOK, RowsOK
<1>5. HoldsOK' /\ ClaimedOK'
  BY <1>1, Counted DEF IInv, TypeOK, Frame, FramesOK, HoldsOK, ClaimedOK
<1>6. StoppedOK' /\ LateOK' /\ CleanOK'
  BY <1>1 DEF IInv, TypeOK, Frame, FramesOK, RowsOK, StoppedOK, LateOK, CleanOK
<1> QED BY <1>2, <1>3, <1>4, <1>5, <1>6 DEF IInv

(* No row, and nobody who could insert one. *)
LEMMA CheckBusyInv ==
  ASSUME IInv, NEW a \in Actors, CheckBusy(a)
  PROVE  IInv'
<1> USE DEF CheckBusy
<1>1. call' \in [Actors -> Frame]
  BY DEF IInv, TypeOK, Frame, FramesOK
<1>2. TypeOK'
  BY <1>1 DEF IInv, TypeOK, FramesOK
<1>3. ClaimsCounted'
  BY <1>1, CountsMove DEF IInv, TypeOK, FramesOK
<1>4. FramesOK' /\ RowsOK'
  BY <1>1 DEF IInv, TypeOK, Frame, FramesOK, RowsOK
<1>5. HoldsOK' /\ ClaimedOK'
  BY <1>1 DEF IInv, TypeOK, Frame, FramesOK, HoldsOK, ClaimedOK
<1>6. StoppedOK' /\ LateOK' /\ CleanOK'
  BY <1>1 DEF IInv, TypeOK, Frame, FramesOK, RowsOK, StoppedOK, LateOK, CleanOK
<1> QED BY <1>2, <1>3, <1>4, <1>5, <1>6 DEF IInv

(* A busy project is let go. *)
LEMMA RemovalRefusedInv ==
  ASSUME IInv, NEW a \in Actors, RemovalRefused(a)
  PROVE  IInv'
<1> USE DEF RemovalRefused
<1>1. call' \in [Actors -> Frame]
  BY DEF IInv, TypeOK, Frame, FramesOK
<1>2. TypeOK'
  BY <1>1 DEF IInv, TypeOK, FramesOK
<1>3. ClaimsCounted'
  BY <1>1, CountsMove DEF IInv, TypeOK, FramesOK
<1>4. FramesOK' /\ RowsOK'
  BY <1>1 DEF IInv, TypeOK, Frame, FramesOK, RowsOK
<1>5. HoldsOK' /\ ClaimedOK'
  BY <1>1 DEF IInv, TypeOK, Frame, FramesOK, HoldsOK, ClaimedOK
<1>6. StoppedOK' /\ LateOK' /\ CleanOK'
  BY <1>1 DEF IInv, TypeOK, Frame, FramesOK, RowsOK, StoppedOK, LateOK, CleanOK
<1> QED BY <1>2, <1>3, <1>4, <1>5, <1>6 DEF IInv

(* The row is deleted, *)
LEMMA RemoveRowInv ==
  ASSUME IInv, NEW a \in Actors, RemoveRow(a)
  PROVE  IInv'
<1> USE DEF RemoveRow
<1>1. call' \in [Actors -> Frame]
  BY SMTT(30) DEF IInv, TypeOK, Frame, FramesOK
<1>2. TypeOK'
  BY <1>1 DEF IInv, TypeOK, FramesOK
<1>3. ClaimsCounted'
  BY <1>1, CountsMove DEF IInv, TypeOK, FramesOK
<1>4. FramesOK' /\ RowsOK'
  BY <1>1 DEF IInv, TypeOK, Frame, FramesOK, RowsOK, HoldsOK, ClaimedOK,
              StoppedOK
<1>5. HoldsOK' /\ ClaimedOK'
  BY <1>1 DEF IInv, TypeOK, Frame, FramesOK, HoldsOK, ClaimedOK
<1>6. StoppedOK' /\ LateOK' /\ CleanOK'
  BY <1>1 DEF IInv, TypeOK, Frame, FramesOK, RowsOK, StoppedOK, LateOK, CleanOK
<1> QED BY <1>2, <1>3, <1>4, <1>5, <1>6 DEF IInv

(* then the files, and the reservation is released. *)
LEMMA RemoveFilesInv ==
  ASSUME IInv, NEW a \in Actors, RemoveFiles(a)
  PROVE  IInv'
<1> USE DEF RemoveFiles
<1>1. call' \in [Actors -> Frame]
  BY DEF IInv, TypeOK, Frame, FramesOK
<1>2. TypeOK'
  BY <1>1 DEF IInv, TypeOK, FramesOK
<1>3. ClaimsCounted'
  BY <1>1, CountsMove DEF IInv, TypeOK, FramesOK
<1>4. FramesOK' /\ RowsOK'
  BY <1>1 DEF IInv, TypeOK, Frame, FramesOK, RowsOK
<1>5. HoldsOK' /\ ClaimedOK'
  BY <1>1 DEF IInv, TypeOK, Frame, FramesOK, HoldsOK, ClaimedOK
<1>6. StoppedOK' /\ LateOK' /\ CleanOK'
  BY <1>1 DEF IInv, TypeOK, Frame, FramesOK, RowsOK, StoppedOK, LateOK, CleanOK
<1> QED BY <1>2, <1>3, <1>4, <1>5, <1>6 DEF IInv

(* Deletions. *)

(* The org is marked, by one deletion at a time. *)
LEMMA MarkOrgInv ==
  ASSUME IInv, NEW a \in Actors, NEW o \in Orgs, MarkOrg(a, o)
  PROVE  IInv'
<1> USE DEF MarkOrg
<1>1. call' \in [Actors -> Frame]
  BY DEF IInv, TypeOK, Frame, FramesOK
<1>2. TypeOK'
  BY <1>1 DEF IInv, TypeOK, FramesOK
<1>3. ClaimsCounted'
  BY <1>1, CountsMove DEF IInv, TypeOK, FramesOK
<1>4. FramesOK' /\ RowsOK'
  BY <1>1 DEF IInv, TypeOK, Frame, FramesOK, RowsOK
<1>5. HoldsOK' /\ ClaimedOK'
  BY <1>1 DEF IInv, TypeOK, Frame, FramesOK, HoldsOK, ClaimedOK
<1>6. StoppedOK' /\ LateOK' /\ CleanOK'
  BY <1>1 DEF IInv, TypeOK, Frame, FramesOK, RowsOK, StoppedOK, LateOK, CleanOK
<1> QED BY <1>2, <1>3, <1>4, <1>5, <1>6 DEF IInv

(* Its projects are read: nothing of the org is unseen. *)
LEMMA ReadIdsInv ==
  ASSUME IInv, NEW a \in Actors, ReadIds(a)
  PROVE  IInv'
<1> DEFINE f == [call[a] EXCEPT !.pc = "reserve", !.todo = Here \cap OfOrg(call[a].org)]
<1>1. /\ call[a] \in Frame
      /\ Here \cap OfOrg(call[a].org) \in SUBSET Projects
  BY DEF ReadIds, IInv, TypeOK, Frame, FramesOK
<1>2. /\ f \in Frame
      /\ f.pc = "reserve" /\ f.todo = Here \cap OfOrg(call[a].org)
      /\ f.project = call[a].project /\ f.org = call[a].org /\ f.ids = call[a].ids
  BY <1>1 DEF Frame
<1>3. call' = [call EXCEPT ![a] = f]
  BY DEF ReadIds
<1> HIDE DEF f
<1>4. /\ call' \in [Actors -> Frame]
      /\ call'[a] = f
      /\ \A b \in Actors \ {a} : call'[b] = call[b]
  BY <1>2, <1>3 DEF IInv, TypeOK
<1>5. call[a].pc = "ids" /\ UNCHANGED <<claims, queue, lock, disk>>
  BY DEF ReadIds
<1>6. TypeOK'
  BY <1>4, <1>5 DEF IInv, TypeOK
<1>7. ClaimsCounted'
  BY <1>1, <1>2, <1>4, <1>5, CountsMove DEF IInv, TypeOK
<1>8. FramesOK' /\ RowsOK'
  BY <1>1, <1>2, <1>4, <1>5, SMTT(30) DEF IInv, TypeOK, Frame, FramesOK, RowsOK
<1>9. /\ f.pc = "reserve" /\ f.org = call[a].org /\ f.ids = {}
      /\ UNCHANGED <<removing, pend, jobs, project, initialized, rows>>
      /\ call \in [Actors -> Frame]
  BY <1>2, <1>5 DEF IInv, TypeOK, FramesOK
<1>10. HoldsOK' /\ ClaimedOK'
  BY <1>4, <1>5, <1>9 DEF IInv, HoldsOK, ClaimedOK
<1>11. StoppedOK' /\ CleanOK'
  BY <1>4, <1>5, <1>9 DEF IInv, StoppedOK, CleanOK
<1>12. \A p \in OfOrg(f.org) \ f.todo : project[p] # "here"
  BY <1>2
<1>13. LateOK'
  BY <1>4, <1>5, <1>9, <1>12 DEF IInv, LateOK
<1> QED BY <1>6, <1>7, <1>8, <1>10, <1>11, <1>13 DEF IInv

(* They are reserved, none of them held by anybody else. *)
LEMMA ReserveAllInv ==
  ASSUME IInv, NEW a \in Actors, ReserveAll(a)
  PROVE  IInv'
<1> DEFINE f == [call[a] EXCEPT !.pc = "wait", !.ids = call[a].todo, !.todo = {}]
<1>1. /\ call[a] \in Frame
      /\ call[a].todo \in SUBSET Projects
      /\ {} \in SUBSET Projects
  BY DEF ReserveAll, IInv, TypeOK, Frame, FramesOK
<1>2. /\ f \in Frame
      /\ f.pc = "wait" /\ f.ids = call[a].todo /\ f.todo = {}
      /\ f.project = call[a].project /\ f.org = call[a].org
  BY <1>1 DEF Frame
<1>3. call' = [call EXCEPT ![a] = f]
  BY DEF ReserveAll
<1> HIDE DEF f
<1>4. /\ call' \in [Actors -> Frame]
      /\ call'[a] = f
      /\ \A b \in Actors \ {a} : call'[b] = call[b]
  BY <1>2, <1>3 DEF IInv, TypeOK
<1>5. /\ call[a].pc = "reserve" /\ call[a].todo \cap removing = {}
      /\ removing' = removing \cup call[a].todo
      /\ UNCHANGED <<requesting, orgRequests, deleting, queue, lock, disk>>
  BY DEF ReserveAll
<1>6. TypeOK'
  BY <1>1, <1>4, <1>5 DEF IInv, TypeOK
<1>7. ClaimsCounted'
  BY <1>1, <1>2, <1>4, <1>5, CountsMove DEF IInv, TypeOK
<1>8. /\ f.pc = "wait" /\ f.org = call[a].org /\ f.ids = call[a].todo
      /\ UNCHANGED <<deleting, lock, pend, jobs, project, initialized, rows>>
      /\ removing' = removing \cup call[a].todo
      /\ \A p \in Projects : p \in call[a].todo => p \notin removing
      /\ call \in [Actors -> Frame]
  BY <1>2, <1>5 DEF IInv, TypeOK
<1>9. FramesOK' /\ RowsOK'
  BY <1>4, <1>5, <1>8 DEF IInv, FramesOK, RowsOK
<1>10. HoldsOK'
  <2>1. \A b \in Actors \ {a}, p \in Projects :
          Holds(call'[b], p) => p \in removing /\ p \notin call[a].todo
    BY <1>4, <1>8 DEF IInv, HoldsOK
  <2>2. \A p \in Projects : Holds(call'[a], p) <=> p \in call[a].todo
    BY <1>4, <1>8
  <2>3. \A b, c \in Actors : b # c /\ call'[b].pc \in DeletionPcs /\ call'[c].pc \in DeletionPcs =>
           call'[b].org # call'[c].org
    BY <1>4, <1>5, <1>8 DEF IInv, HoldsOK
  <2>4. ASSUME NEW b \in Actors, NEW p \in Projects, Holds(call'[b], p)
        PROVE  p \in removing'
    <3>1. CASE b = a
      BY <1>8, <2>2, <2>4, <3>1
    <3>2. CASE b # a
      BY <1>8, <2>1, <2>4, <3>2
    <3> QED BY <3>1, <3>2
  <2>5. ASSUME NEW b \in Actors, NEW c \in Actors, b # c, NEW p \in Projects,
               Holds(call'[b], p), Holds(call'[c], p)
        PROVE  FALSE
    <3>1. CASE b = a
      BY <2>1, <2>2, <2>5, <3>1
    <3>2. CASE c = a
      BY <2>1, <2>2, <2>5, <3>2
    <3>3. CASE b # a /\ c # a
      BY <1>4, <2>5, <3>3 DEF IInv, HoldsOK
    <3> QED BY <3>1, <3>2, <3>3
  <2> QED BY <2>3, <2>4, <2>5 DEF HoldsOK
<1>11. ClaimedOK'
  BY <1>4, <1>5, <1>8 DEF IInv, ClaimedOK
<1>12. StoppedOK' /\ CleanOK'
  BY <1>4, <1>5, <1>8 DEF IInv, StoppedOK, CleanOK
<1>13. LateOK'
  BY <1>4, <1>5, <1>8 DEF IInv, LateOK
<1> QED BY <1>6, <1>7, <1>9, <1>10, <1>11, <1>12, <1>13 DEF IInv

(* A deletion that is refused lets go of what it has. *)
LEMMA DeletionRefusedInv ==
  ASSUME IInv, NEW a \in Actors, DeletionRefused(a)
  PROVE  IInv'
<1> USE DEF DeletionRefused
<1>1. call' \in [Actors -> Frame]
  BY DEF IInv, TypeOK, Frame, FramesOK
<1>2. TypeOK'
  BY <1>1 DEF IInv, TypeOK, FramesOK
<1>3. ClaimsCounted'
  BY <1>1, CountsMove DEF IInv, TypeOK, FramesOK
<1>4. FramesOK' /\ RowsOK'
  BY <1>1 DEF IInv, TypeOK, Frame, FramesOK, RowsOK, HoldsOK
<1>5. HoldsOK' /\ ClaimedOK'
  BY <1>1 DEF IInv, TypeOK, Frame, FramesOK, HoldsOK, ClaimedOK
<1>6. StoppedOK' /\ LateOK' /\ CleanOK'
  BY <1>1 DEF IInv, TypeOK, Frame, FramesOK, RowsOK, StoppedOK, LateOK, CleanOK
<1> QED BY <1>2, <1>3, <1>4, <1>5, <1>6 DEF IInv

(* Counts of zero: nobody claims what the deletion holds. *)
LEMMA IdleInv ==
  ASSUME IInv, NEW a \in Actors, Idle(a)
  PROVE  IInv'
<1> USE DEF Idle
<1>1. call' \in [Actors -> Frame]
  BY DEF IInv, TypeOK, Frame, FramesOK
<1>2. TypeOK'
  BY <1>1 DEF IInv, TypeOK, FramesOK
<1>3. ClaimsCounted'
  BY <1>1, CountsMove DEF IInv, TypeOK, FramesOK
<1>4. FramesOK' /\ RowsOK'
  BY <1>1 DEF IInv, TypeOK, Frame, FramesOK, RowsOK
<1>5. HoldsOK' /\ ClaimedOK'
  BY <1>1, Counted DEF IInv, TypeOK, Frame, FramesOK, HoldsOK, ClaimedOK
<1>6. StoppedOK' /\ LateOK' /\ CleanOK'
  BY <1>1 DEF IInv, TypeOK, Frame, FramesOK, RowsOK, StoppedOK, LateOK, CleanOK
<1> QED BY <1>2, <1>3, <1>4, <1>5, <1>6 DEF IInv

(* What waits is dropped. *)
LEMMA CancelAllInv ==
  ASSUME IInv, NEW a \in Actors, CancelAll(a)
  PROVE  IInv'
<1> DEFINE f == [call[a] EXCEPT !.pc = "drop", !.todo = pend \cap call[a].ids]
<1>1. /\ call[a] \in Frame
      /\ pend \cap call[a].ids \in SUBSET Projects
  BY DEF CancelAll, IInv, TypeOK, Frame, FramesOK
<1>2. /\ f \in Frame
      /\ f.pc = "drop" /\ f.todo = pend \cap call[a].ids
      /\ f.project = call[a].project /\ f.org = call[a].org /\ f.ids = call[a].ids
  BY <1>1 DEF Frame
<1>3. call' = [call EXCEPT ![a] = f]
  BY DEF CancelAll
<1> HIDE DEF f
<1>4. /\ call' \in [Actors -> Frame]
      /\ call'[a] = f
      /\ \A b \in Actors \ {a} : call'[b] = call[b]
  BY <1>2, <1>3 DEF IInv, TypeOK
<1>5. /\ call[a].pc = "cancel" /\ lock = None /\ lock' = a
      /\ pend' = pend \ (pend \cap call[a].ids)
      /\ rows' = [p \in Projects |-> IF p \in pend \cap call[a].ids
                                   THEN (rows[p] \ {"pend"}) \cup {"popped"}
                                   ELSE rows[p]]
      /\ UNCHANGED <<claims, jobs, project, initialized, org, folder>>
  BY DEF CancelAll
<1>6. TypeOK'
  BY <1>4, <1>5 DEF IInv, TypeOK
<1>7. ClaimsCounted'
  BY <1>1, <1>2, <1>4, <1>5, CountsMove DEF IInv, TypeOK
<1>8. FramesOK' /\ RowsOK'
  BY <1>1, <1>2, <1>4, <1>5 DEF IInv, TypeOK, Frame, FramesOK, RowsOK
<1>9. HoldsOK' /\ ClaimedOK'
  BY <1>1, <1>2, <1>4, <1>5, SMTT(30) DEF IInv, TypeOK, Frame, FramesOK, HoldsOK,
                                ClaimedOK
<1>10. /\ f.pc = "drop" /\ f.org = call[a].org /\ f.ids = call[a].ids
       /\ f.project = call[a].project
       /\ UNCHANGED <<jobs, project, initialized>>
       /\ \A p \in Projects : /\ p \in pend' <=> p \in pend /\ p \notin call[a].ids
                             /\ rows[p] = {} => rows'[p] = {} \/ p \in pend
       /\ \A b \in Actors : call[b].pc # "mark" /\ call[b].ids \subseteq Projects
       /\ call \in [Actors -> Frame] /\ pend \subseteq Projects
  BY <1>2, <1>5 DEF IInv, TypeOK, Frame, FramesOK
<1>11. StoppedOK'
  <2> SUFFICES ASSUME NEW b \in Actors
               PROVE  /\ call'[b].pc \in {"remove", "files"} => rows'[call'[b].project] = {}
                      /\ call'[b].pc \in Settled \ {"cancel"} =>
                           /\ call'[b].ids \cap pend' = {}
                           /\ \A c \in Actors :
                                call'[c].pc = "mark" => call'[c].project \notin call'[b].ids
                      /\ call'[b].pc \in {"rows", "clean"} => call'[b].ids \cap jobs' = {}
    BY DEF StoppedOK
  <2>1. \A c \in Actors : call'[c].pc # "mark"
    BY <1>4, <1>10
  <2>2. CASE b = a
    <3>1. call'[b].pc = "drop" /\ call'[b].ids = call[a].ids
      BY <1>4, <1>10, <2>2
    <3>2. call'[b].ids \cap pend' = {}
      BY <1>5, <3>1
    <3> QED BY <2>1, <3>1, <3>2
  <2>3. CASE b # a
    <3>1. /\ call'[b] = call[b] /\ pend' \subseteq pend /\ jobs' = jobs
      BY <1>4, <1>5, <2>3
    <3>2. call[b].pc \in {"remove", "files"} =>
            rows[call[b].project] = {} /\ call[b].project \in Projects
      BY DEF IInv, TypeOK, FramesOK, StoppedOK
    <3>3. ASSUME NEW p \in Projects, rows[p] = {} PROVE rows'[p] = {}
      <4>1. p \notin pend
        BY <3>3 DEF IInv, RowsOK
      <4> QED BY ONLY <1>5, <3>3, <4>1, p \in Projects
    <3>4. /\ call[b].pc \in Settled \ {"cancel"} => call[b].ids \cap pend = {}
          /\ call[b].pc \in {"rows", "clean"} => call[b].ids \cap jobs = {}
      BY DEF IInv, StoppedOK
    <3> QED BY <2>1, <3>1, <3>2, <3>3, <3>4
  <2> QED BY <2>2, <2>3
<1>12. LateOK' /\ CleanOK'
  BY <1>4, <1>5, <1>10 DEF IInv, RowsOK, LateOK, CleanOK
<1> QED BY <1>6, <1>7, <1>8, <1>9, <1>11, <1>12 DEF IInv

(* One row of them is ended. *)
LEMMA DropOneInv ==
  ASSUME IInv, NEW a \in Actors, DropOne(a)
  PROVE  IInv'
<1>0. PICK p \in call[a].todo :
        /\ rows' = [rows EXCEPT ![p] = @ \ {"popped"}]
        /\ call' = [call EXCEPT ![a].todo = @ \ {p}]
  BY DEF DropOne
<1> DEFINE f == [call[a] EXCEPT !.todo = @ \ {p}]
<1>1. /\ call[a] \in Frame /\ call[a].todo \ {p} \in SUBSET Projects
      /\ p \in Projects
  BY <1>0 DEF IInv, TypeOK, Frame
<1>2. /\ f \in Frame /\ f.todo = call[a].todo \ {p}
      /\ f.pc = call[a].pc /\ f.project = call[a].project
      /\ f.org = call[a].org /\ f.ids = call[a].ids
  BY <1>1 DEF Frame
<1>3. call' = [call EXCEPT ![a] = f]
  BY <1>0
<1> HIDE DEF f
<1>4. /\ call' \in [Actors -> Frame]
      /\ call'[a] = f
      /\ \A b \in Actors \ {a} : call'[b] = call[b]
  BY <1>2, <1>3 DEF IInv, TypeOK
<1>5. /\ call[a].pc = "drop"
      /\ rows' = [rows EXCEPT ![p] = @ \ {"popped"}]
      /\ UNCHANGED <<claims, queue, lock, project, initialized, org, folder>>
  BY <1>0 DEF DropOne
<1>6. TypeOK'
  BY <1>4, <1>5 DEF IInv, TypeOK
<1>7. ClaimsCounted'
  BY <1>1, <1>2, <1>4, <1>5, CountsMove DEF IInv, TypeOK
<1>8. FramesOK' /\ RowsOK'
  BY <1>1, <1>2, <1>4, <1>5 DEF IInv, TypeOK, Frame, FramesOK, RowsOK
<1>9. /\ UNCHANGED <<removing, pend, jobs, project, initialized>>
      /\ \A q \in Projects : rows[q] = {} => rows'[q] = {}
      /\ call \in [Actors -> Frame]
  BY <1>5 DEF IInv, TypeOK
<1>10. \A b \in Actors : /\ call'[b].pc = call[b].pc /\ call'[b].project = call[b].project
                         /\ call'[b].org = call[b].org /\ call'[b].ids = call[b].ids
                         /\ call[b].pc # "drop" => call'[b].todo = call[b].todo
  BY <1>2, <1>4, <1>5
<1>11. HoldsOK' /\ ClaimedOK'
  BY <1>9, <1>10 DEF IInv, HoldsOK, ClaimedOK
<1>12. StoppedOK'
  BY <1>9, <1>10 DEF IInv, TypeOK, FramesOK, StoppedOK
<1>13. LateOK'
  BY <1>9, <1>10 DEF IInv, LateOK
<1>14. CleanOK'
  BY <1>9, <1>10 DEF IInv, CleanOK
<1> QED BY <1>6, <1>7, <1>8, <1>11, <1>12, <1>13, <1>14 DEF IInv

(* Or that fails, and the deletion with it. *)
LEMMA DropFailsInv ==
  ASSUME IInv, NEW a \in Actors, DropFails(a)
  PROVE  IInv'
<1> USE DEF DropFails
<1>1. call' \in [Actors -> Frame]
  BY DEF IInv, TypeOK, Frame, FramesOK
<1>2. TypeOK'
  BY <1>1 DEF IInv, TypeOK, FramesOK
<1>3. ClaimsCounted'
  BY <1>1, CountsMove DEF IInv, TypeOK, FramesOK
<1>4. FramesOK' /\ RowsOK'
  BY <1>1 DEF IInv, TypeOK, Frame, FramesOK, RowsOK, HoldsOK
<1>5. HoldsOK' /\ ClaimedOK'
  BY <1>1 DEF IInv, TypeOK, Frame, FramesOK, HoldsOK, ClaimedOK
<1>6. StoppedOK' /\ LateOK' /\ CleanOK'
  BY <1>1 DEF IInv, TypeOK, Frame, FramesOK, RowsOK, StoppedOK, LateOK, CleanOK
<1> QED BY <1>2, <1>3, <1>4, <1>5, <1>6 DEF IInv

(* All of them are. *)
LEMMA DroppedInv ==
  ASSUME IInv, NEW a \in Actors, Dropped(a)
  PROVE  IInv'
<1> USE DEF Dropped
<1>1. call' \in [Actors -> Frame]
  BY DEF IInv, TypeOK, Frame, FramesOK
<1>2. TypeOK'
  BY <1>1 DEF IInv, TypeOK, FramesOK
<1>3. ClaimsCounted'
  BY <1>1, CountsMove DEF IInv, TypeOK, FramesOK
<1>4. FramesOK' /\ RowsOK'
  BY <1>1 DEF IInv, TypeOK, Frame, FramesOK, RowsOK
<1>5. HoldsOK' /\ ClaimedOK'
  BY <1>1 DEF IInv, TypeOK, Frame, FramesOK, HoldsOK, ClaimedOK
<1>6. StoppedOK' /\ LateOK' /\ CleanOK'
  BY <1>1 DEF IInv, TypeOK, Frame, FramesOK, RowsOK, StoppedOK, LateOK, CleanOK
<1> QED BY <1>2, <1>3, <1>4, <1>5, <1>6 DEF IInv

(* The jobs have ended. *)
LEMMA AwaitJobsInv ==
  ASSUME IInv, NEW a \in Actors, AwaitJobs(a)
  PROVE  IInv'
<1> USE DEF AwaitJobs
<1>1. call' \in [Actors -> Frame]
  BY SMTT(30) DEF IInv, TypeOK, Frame, FramesOK
<1>2. TypeOK'
  BY <1>1 DEF IInv, TypeOK, FramesOK
<1>3. ClaimsCounted'
  BY <1>1, CountsMove DEF IInv, TypeOK, FramesOK
<1>4. FramesOK' /\ RowsOK'
  BY <1>1 DEF IInv, TypeOK, Frame, FramesOK, RowsOK
<1>5. HoldsOK' /\ ClaimedOK'
  BY <1>1 DEF IInv, TypeOK, Frame, FramesOK, HoldsOK, ClaimedOK
<1>6. StoppedOK' /\ LateOK' /\ CleanOK'
  BY <1>1 DEF IInv, TypeOK, Frame, FramesOK, RowsOK, StoppedOK, LateOK, CleanOK
<1> QED BY <1>2, <1>3, <1>4, <1>5, <1>6 DEF IInv

(* The rows of the org are deleted, those of late imports too. *)
LEMMA DeleteRowsInv ==
  ASSUME IInv, NEW a \in Actors, DeleteRows(a)
  PROVE  IInv'
<1> DEFINE f == [call[a] EXCEPT !.pc = "clean", !.todo = Here \cap OfOrg(call[a].org)]
<1>1. /\ call[a] \in Frame
      /\ Here \cap OfOrg(call[a].org) \in SUBSET Projects
  BY DEF DeleteRows, IInv, TypeOK, Frame, FramesOK
<1>2. /\ f \in Frame
      /\ f.pc = "clean" /\ f.todo = Here \cap OfOrg(call[a].org)
      /\ f.project = call[a].project /\ f.org = call[a].org /\ f.ids = call[a].ids
  BY <1>1 DEF Frame
<1>3. call' = [call EXCEPT ![a] = f]
  BY DEF DeleteRows
<1> HIDE DEF f
<1>4. /\ call' \in [Actors -> Frame]
      /\ call'[a] = f
      /\ \A b \in Actors \ {a} : call'[b] = call[b]
  BY <1>2, <1>3 DEF IInv, TypeOK
<1>5. /\ call[a].pc = "rows" /\ org' = [org EXCEPT ![call[a].org] = FALSE]
      /\ project' = [p \in Projects |-> IF p \in Here \cap OfOrg(call[a].org)
                                      THEN "gone" ELSE project[p]]
      /\ rows' = [p \in Projects |-> IF p \in Here \cap OfOrg(call[a].org)
                                   THEN {} ELSE rows[p]]
      /\ UNCHANGED <<claims, queue, lock, initialized, folder>>
  BY DEF DeleteRows
<1>6. TypeOK'
  BY <1>4, <1>5 DEF IInv, TypeOK
<1>7. ClaimsCounted'
  BY <1>1, <1>2, <1>4, <1>5, CountsMove DEF IInv, TypeOK
<1> DEFINE G == Here \cap OfOrg(call[a].org)
<1>8. /\ f.pc = "clean" /\ f.org = call[a].org /\ f.ids = call[a].ids /\ f.todo = G
      /\ UNCHANGED <<removing, deleting, lock, pend, jobs, initialized>>
      /\ \A p \in Projects :
           /\ p \in G <=> project[p] = "here" /\ OrgOf[p] = call[a].org
           /\ p \in G => project'[p] = "gone" /\ rows'[p] = {}
           /\ p \notin G => project'[p] = project[p] /\ rows'[p] = rows[p]
      /\ G \subseteq Projects
      /\ \A b \in Actors : call[b].ids \subseteq Projects /\ call[b].todo \subseteq Projects
      /\ pend \subseteq Projects /\ jobs \subseteq Projects
      /\ call \in [Actors -> Frame]
  BY <1>1, <1>2, <1>5 DEF IInv, TypeOK, Frame
<1> HIDE DEF G
<1>9. ASSUME NEW p \in G
      PROVE  /\ p \notin pend \cup jobs
             /\ \A b \in Actors : call[b].project = p =>
                  /\ call[b].pc \notin {"register", "mark", "work"}
                  /\ p \in call[a].ids \/ call[b].pc \notin {"bound", "reread"}
  <2>1. CASE p \in call[a].ids
    BY <1>5, <1>8, <2>1 DEF IInv, ClaimedOK, StoppedOK
  <2>2. CASE p \notin call[a].ids
    BY <1>5, <1>8, <2>2 DEF IInv, RowsOK, LateOK
  <2> QED BY <2>1, <2>2
<1>10. FramesOK'
  BY <1>4, <1>5, <1>8 DEF IInv, FramesOK
<1>11. RowsOK'
  BY <1>4, <1>5, <1>8, <1>9 DEF IInv, FramesOK, RowsOK
<1>12. HoldsOK' /\ ClaimedOK'
  BY <1>4, <1>5, <1>8 DEF IInv, HoldsOK, ClaimedOK
<1>13. StoppedOK'
  <2>1. \A b \in Actors : call[b].pc \in {"remove", "files"} =>
           call[b].project \in Projects /\ rows'[call[b].project] = {}
    BY <1>8 DEF IInv, FramesOK, StoppedOK
  <2>2. /\ call[a].ids \cap pend = {} /\ call[a].ids \cap jobs = {}
        /\ \A b \in Actors : call[b].pc = "mark" => call[b].project \notin call[a].ids
    BY <1>5 DEF IInv, StoppedOK
  <2>3. UNCHANGED <<pend, jobs>>
    BY <1>8
  <2> QED BY <1>4, <1>8, <2>1, <2>2, <2>3 DEF IInv, StoppedOK
<1>14. LateOK'
  BY <1>4, <1>5, <1>8 DEF IInv, LateOK
<1>15. CleanOK'
  BY <1>4, <1>5, <1>8, <1>9 DEF IInv, CleanOK
<1> QED BY <1>6, <1>7, <1>10, <1>11, <1>12, <1>13, <1>14, <1>15 DEF IInv

(* The org was gone already. *)
LEMMA OrgGoneInv ==
  ASSUME IInv, NEW a \in Actors, OrgGone(a)
  PROVE  IInv'
<1> USE DEF OrgGone
<1>1. call' \in [Actors -> Frame]
  BY DEF IInv, TypeOK, Frame, FramesOK
<1>2. TypeOK'
  BY <1>1 DEF IInv, TypeOK, FramesOK
<1>3. ClaimsCounted'
  BY <1>1, CountsMove DEF IInv, TypeOK, FramesOK
<1>4. FramesOK' /\ RowsOK'
  BY <1>1 DEF IInv, TypeOK, Frame, FramesOK, RowsOK, HoldsOK
<1>5. HoldsOK' /\ ClaimedOK'
  BY <1>1 DEF IInv, TypeOK, Frame, FramesOK, HoldsOK, ClaimedOK
<1>6. StoppedOK' /\ LateOK' /\ CleanOK'
  BY <1>1 DEF IInv, TypeOK, Frame, FramesOK, RowsOK, StoppedOK, LateOK, CleanOK
<1> QED BY <1>2, <1>3, <1>4, <1>5, <1>6 DEF IInv

(* The files are deleted, and everything is released. *)
LEMMA CleanUpInv ==
  ASSUME IInv, NEW a \in Actors, CleanUp(a)
  PROVE  IInv'
<1> USE DEF CleanUp
<1>1. call' \in [Actors -> Frame]
  BY DEF IInv, TypeOK, Frame, FramesOK
<1>2. TypeOK'
  BY <1>1 DEF IInv, TypeOK, FramesOK
<1>3. ClaimsCounted'
  BY <1>1, CountsMove DEF IInv, TypeOK, FramesOK
<1>4. FramesOK' /\ RowsOK'
  BY <1>1 DEF IInv, TypeOK, Frame, FramesOK, RowsOK, HoldsOK
<1>5. HoldsOK' /\ ClaimedOK'
  BY <1>1 DEF IInv, TypeOK, Frame, FramesOK, HoldsOK, ClaimedOK
<1>6. StoppedOK' /\ LateOK' /\ CleanOK'
  BY <1>1 DEF IInv, TypeOK, Frame, FramesOK, RowsOK, StoppedOK, LateOK, CleanOK
<1> QED BY <1>2, <1>3, <1>4, <1>5, <1>6 DEF IInv

(* Jobs and imports. *)

(* A pending run becomes a job. *)
LEMMA DispatchInv ==
  ASSUME IInv, NEW p \in Projects, Dispatch(p)
  PROVE  IInv'
<1> USE DEF Dispatch
<1>1. initialized' \in [Projects -> BOOLEAN]
  BY DEF IInv, TypeOK
<1>2. TypeOK'
  BY <1>1 DEF IInv, TypeOK
<1>3. ClaimsCounted'
  BY DEF IInv, ClaimsCounted, Claimants, OrgClaimants
<1>4. FramesOK' /\ RowsOK'
  BY DEF IInv, TypeOK, Frame, FramesOK, RowsOK
<1>5. HoldsOK' /\ ClaimedOK'
  BY DEF IInv, TypeOK, Frame, FramesOK, HoldsOK, ClaimedOK
<1>6. StoppedOK' /\ LateOK' /\ CleanOK'
  BY DEF IInv, TypeOK, Frame, FramesOK, RowsOK, StoppedOK, LateOK, CleanOK
<1> QED BY <1>2, <1>3, <1>4, <1>5, <1>6 DEF IInv

(* A job ends. *)
LEMMA FinishInv ==
  ASSUME IInv, NEW p \in Projects, Finish(p)
  PROVE  IInv'
<1> USE DEF Finish
<1>1. initialized' \in [Projects -> BOOLEAN]
  BY DEF IInv, TypeOK
<1>2. TypeOK'
  <2>1. rows' \in [Projects -> SUBSET {"pend", "job", "popped"}]
    BY DEF IInv, TypeOK
  <2>2. folder' \in [Projects -> BOOLEAN]
    BY DEF IInv, TypeOK
  <2>3. /\ jobs' \subseteq Projects
        /\ UNCHANGED <<requesting, orgRequests, removing, deleting, pend, lock, call, project, org>>
    BY DEF IInv, TypeOK
  <2> HIDE DEF Finish
  <2> QED BY <1>1, <2>1, <2>2, <2>3 DEF IInv, TypeOK
<1>3. ClaimsCounted'
  BY DEF IInv, ClaimsCounted, Claimants, OrgClaimants
<1>4. FramesOK' /\ RowsOK'
  BY DEF IInv, TypeOK, Frame, FramesOK, RowsOK
<1>5. HoldsOK' /\ ClaimedOK'
  BY DEF IInv, TypeOK, Frame, FramesOK, HoldsOK, ClaimedOK
<1>6. StoppedOK' /\ LateOK' /\ CleanOK'
  BY DEF IInv, TypeOK, Frame, FramesOK, RowsOK, StoppedOK, LateOK, CleanOK
<1> QED BY <1>2, <1>3, <1>4, <1>5, <1>6 DEF IInv

(* A project is added that nobody has seen before. *)
LEMMA ImportInv ==
  ASSUME IInv, NEW p \in Projects, Import(p)
  PROVE  IInv'
<1> USE DEF Import
<1>1. initialized' \in [Projects -> BOOLEAN]
  BY DEF IInv, TypeOK
<1>2. TypeOK'
  BY <1>1 DEF IInv, TypeOK
<1>3. ClaimsCounted'
  BY DEF IInv, ClaimsCounted, Claimants, OrgClaimants
<1>4. FramesOK' /\ RowsOK'
  BY DEF IInv, TypeOK, Frame, FramesOK, RowsOK
<1>5. HoldsOK' /\ ClaimedOK'
  BY DEF IInv, TypeOK, Frame, FramesOK, HoldsOK, ClaimedOK
<1>6. StoppedOK' /\ LateOK' /\ CleanOK'
  BY DEF IInv, TypeOK, Frame, FramesOK, RowsOK, StoppedOK, LateOK, CleanOK
<1> QED BY <1>2, <1>3, <1>4, <1>5, <1>6 DEF IInv

-----------------------------------------------------------------------------
(* The theorems *)

(* At first nobody is inside, and nothing is held. *)
LEMMA InitInv == Init => IInv
<1> SUFFICES ASSUME Init PROVE IInv
  OBVIOUS
<1>1. NoCall \in Frame /\ \A a \in Actors : call[a] = NoCall
  BY DEF Init, Frame
<1>2. TypeOK
  BY <1>1 DEF Init, TypeOK
<1>3. ClaimsCounted
  <2>1. \A p : Claimants(p) = {}
    BY <1>1 DEF Claimants
  <2>2. \A o : OrgClaimants(o) = {}
    BY <1>1 DEF OrgClaimants
  <2> QED BY <2>1, <2>2, FS_EmptySet DEF Init, ClaimsCounted
<1>4. FramesOK /\ RowsOK
  BY <1>1 DEF Init, FramesOK, RowsOK
<1>5. HoldsOK /\ ClaimedOK
  BY <1>1 DEF HoldsOK, ClaimedOK
<1>6. StoppedOK /\ LateOK /\ CleanOK
  BY <1>1 DEF StoppedOK, LateOK, CleanOK
<1> QED BY <1>2, <1>3, <1>4, <1>5, <1>6 DEF IInv

(* Nothing changes: the invariant stays. *)
LEMMA StutterInv == IInv /\ UNCHANGED vars => IInv'
BY DEF vars, IInv, TypeOK, ClaimsCounted, Claimants, OrgClaimants, FramesOK, RowsOK,
       HoldsOK, ClaimedOK, StoppedOK, LateOK, CleanOK

(***************************************************************************)
(* The inductive invariant: whatever the callers, jobs and imports of      *)
(* runner.py and its routes do, in whatever order, it stays.               *)
(***************************************************************************)
THEOREM ClaimsInvariance == Spec => []IInv
<1>1. ASSUME IInv, [Next]_vars PROVE IInv'
  <2>1. ASSUME NEW a \in Actors, Begin(a) PROVE IInv'
    BY <1>1, <2>1, RequestInv, CancelInv, BindInv, ReserveInv, MarkOrgInv DEF Begin
  <2>2. ASSUME NEW a \in Actors, RequestStep(a) PROVE IInv'
    BY <1>1, <2>2, ReadGateInv, ClaimOrgInv, OrgRefusedInv, RefusedInv, AcquireInv,
       MergeInv, InsertInv, RegisterInv, MarkCancelledInv DEF RequestStep
  <2>3. ASSUME NEW a \in Actors, WorkStep(a) PROVE IInv'
    BY <1>1, <2>3, ClaimPurposeInv, ClaimTransferInv, RereadInv, MissingInv, WorkInv,
       GiveUpWorkInv DEF WorkStep
  <2>4. ASSUME NEW a \in Actors, RemovalStep(a) PROVE IInv'
    BY <1>1, <2>4, CheckBusyInv, RemovalRefusedInv, RemoveRowInv, RemoveFilesInv
       DEF RemovalStep
  <2>5. ASSUME NEW a \in Actors, DeletionStep(a) PROVE IInv'
    BY <1>1, <2>5, ReadIdsInv, ReserveAllInv, DeletionRefusedInv, IdleInv, CancelAllInv,
       DropOneInv, DropFailsInv, DroppedInv, AwaitJobsInv, DeleteRowsInv, OrgGoneInv,
       CleanUpInv DEF DeletionStep
  <2>6. ASSUME NEW p \in Projects, Dispatch(p) \/ Finish(p) \/ Import(p) PROVE IInv'
    BY <1>1, <2>6, DispatchInv, FinishInv, ImportInv
  <2> QED BY <1>1, <2>1, <2>2, <2>3, <2>4, <2>5, <2>6, StutterInv DEF Next
<1> QED BY <1>1, InitInv, PTL DEF Spec

(* Every frame and every map of the model has the values its code can give it. *)
THEOREM ClaimsTypes == Spec => []TypeOK
<1>1. IInv => TypeOK
  BY DEF IInv
<1> QED BY <1>1, ClaimsInvariance, PTL

(* The counts of _claim_request and _claim_org are those of the callers inside. *)
THEOREM CountsAreExact == Spec => []ClaimsCounted
<1>1. IInv => ClaimsCounted
  BY DEF IInv
<1> QED BY <1>1, ClaimsInvariance, PTL

(***************************************************************************)
(* While delete_project or delete_org deletes rows and files, no run, no   *)
(* other work in the portal and no other removal touches the project.      *)
(***************************************************************************)
THEOREM RemovalIsAlone == Spec => []RemovalsAlone
<1>1. IInv => RemovalsAlone
  BY Implies
<1> QED BY <1>1, ClaimsInvariance, PTL

(* A project that is gone has no run in memory or in the database. *)
THEOREM GoneStaysQuiet == Spec => []GoneHasNoRuns
<1>1. IInv => GoneHasNoRuns
  BY Implies
<1> QED BY <1>1, ClaimsInvariance, PTL

-----------------------------------------------------------------------------

(***************************************************************************)
(* One job (JobRun): whoever stops or cancels a run reaches its child, and *)
(* the GitHub token a child was given is deleted for good.  The thread     *)
(* publishes its child and reads interrupted in one step of the job's      *)
(* lock, and whoever signals sets interrupted and reads the child in       *)
(* another, so one of the two signals; the refresher is told to stop under *)
(* the lock it writes the token file under.                                *)
(***************************************************************************)

(* Where the job's thread is before its child is known, while it is, and   *)
(* when it cleans up.                                                      *)
Unpublished == {"prepare", "mint", "spawn", "publish"}
Published == {"signal", "refresh", "wait"}
CleaningUp == {"unlink", "ended", "done"}

(* The child lives while the thread is with it, and is known from Publish. *)
ChildIsKnown ==
  /\ pc \in Unpublished => ~proc
  /\ pc \in Published => proc
  /\ child = "up" => pc \in Published \cup {"publish"}
  /\ \A s \in Signallers : frame[s] = "send" => proc

(* Whoever interrupts a known child signals it; whom the signal missed is  *)
(* signalled by the thread itself.                                         *)
SignalIsOnItsWay ==
  interrupted /\ proc /\ child = "up" =>
    \/ pc = "signal" \/ "TERM" \in sent
    \/ \E s \in Signallers : frame[s] = "send"

(* There is no refresher before the child, and none writes after its stop. *)
TokenIsOwned ==
  /\ pc \in Unpublished \cup {"signal", "refresh"} => refresher = "none"
  /\ pc \in {"prepare", "mint"} => ~token
  /\ pc \in CleaningUp => stopRefresher \/ refresher = "none"
  /\ TokenGone

JobInv == JobTypeOK /\ ChildIsKnown /\ SignalIsOnItsWay /\ TokenIsOwned

USE DEF Signallers, Step, job, process, file, Unpublished, Published,
        CleaningUp

(* The invariant holds before the thread has begun. *)
LEMMA JobStarts == JobInit => JobInv
  BY DEF JobInit, JobInv, JobTypeOK, Final, ChildIsKnown, SignalIsOnItsWay,
         TokenIsOwned, TokenGone

(* Each step of the thread that runs the job keeps it. *)
LEMMA JobThread == JobInv /\ Thread => JobInv'
<1> USE DEF Final
<1> SUFFICES ASSUME JobInv, Thread PROVE JobInv'
  OBVIOUS
<1>1. JobTypeOK'
  <2> USE DEF JobInv, JobTypeOK
  <2>1. CASE EndsEarly
    BY <2>1 DEF EndsEarly
  <2>2. CASE Prepared
    BY <2>2 DEF Prepared
  <2>3. CASE WriteToken
    BY <2>3 DEF WriteToken
  <2>4. CASE MintFails
    BY <2>4 DEF MintFails
  <2>5. CASE Spawn
    BY <2>5 DEF Spawn
  <2>6. CASE SpawnFails
    BY <2>6 DEF SpawnFails
  <2>7. CASE Publish
    BY <2>7 DEF Publish
  <2>8. CASE SignalOwn
    BY <2>8 DEF SignalOwn, Kill
  <2>9. CASE StartRefresher
    BY <2>9 DEF StartRefresher
  <2>10. CASE Reap
    BY <2>10 DEF Reap
  <2>11. CASE StopRefresher
    BY <2>11 DEF StopRefresher
  <2>12. CASE Unlink
    <3>1. token' \in BOOLEAN
      BY <2>12 DEF Unlink
    <3> QED BY <2>12, <3>1 DEF Unlink
  <2>13. CASE Record
    BY <2>13 DEF Record, Outcome
  <2> QED BY <2>1, <2>2, <2>3, <2>4, <2>5, <2>6, <2>7, <2>8, <2>9, <2>10, <2>11, <2>12, <2>13
       DEF Thread
<1>2. ChildIsKnown'
  BY DEF JobInv, JobTypeOK, ChildIsKnown, Thread, EndsEarly, Prepared,
         WriteToken, MintFails, Spawn, SpawnFails, Publish,
         SignalOwn, StartRefresher, Reap, StopRefresher, Unlink,
         Record
<1>3. SignalIsOnItsWay'
  BY DEF JobInv, JobTypeOK, ChildIsKnown, SignalIsOnItsWay, Thread, EndsEarly,
         Prepared, WriteToken, MintFails, Spawn, SpawnFails,
         Publish, SignalOwn, Kill, StartRefresher, Reap,
         StopRefresher, Unlink, Record
<1>4. TokenIsOwned'
  BY DEF JobInv, JobTypeOK, TokenIsOwned, TokenGone, Thread, EndsEarly,
         Prepared, WriteToken, MintFails, Spawn, SpawnFails,
         Publish, SignalOwn, StartRefresher, Reap, StopRefresher,
         Unlink, Record
<1> QED BY <1>1, <1>2, <1>3, <1>4 DEF JobInv

(* So does each step of those who stop or cancel the run. *)
LEMMA JobSignals ==
  JobInv /\ (UserCancels \/ BudgetCancels \/ (\E s \in Signallers : Signals(s))
             \/ Shutdown \/ Stops)
    => JobInv'
<1> USE DEF Final
<1> SUFFICES ASSUME JobInv,
                    \/ UserCancels \/ BudgetCancels \/ Shutdown \/ Stops
                    \/ \E s \in Signallers : Signals(s)
             PROVE JobInv'
  OBVIOUS
<1>1. CASE UserCancels \/ BudgetCancels
  <2>1. CASE UserCancels
    BY <2>1 DEF JobInv, JobTypeOK, ChildIsKnown, SignalIsOnItsWay, TokenIsOwned,
                TokenGone, UserCancels
  <2>2. CASE BudgetCancels
    BY <2>2 DEF JobInv, JobTypeOK, ChildIsKnown, SignalIsOnItsWay, TokenIsOwned,
                TokenGone, BudgetCancels
  <2> QED BY <1>1, <2>1, <2>2
<1>2. CASE Shutdown \/ Stops
  <2>1. CASE Shutdown
    BY <2>1 DEF JobInv, JobTypeOK, ChildIsKnown, SignalIsOnItsWay, TokenIsOwned,
                TokenGone, Shutdown
  <2>2. CASE GraceEnds
    BY <2>2 DEF JobInv, JobTypeOK, ChildIsKnown, SignalIsOnItsWay, TokenIsOwned,
                TokenGone, GraceEnds
  <2>3. CASE ShutdownReturns
    BY <2>3 DEF JobInv, JobTypeOK, ChildIsKnown, SignalIsOnItsWay, TokenIsOwned,
                TokenGone, ShutdownReturns
  <2> QED BY <1>2, <2>1, <2>2, <2>3 DEF Stops
<1>3. ASSUME NEW s \in Signallers, Signals(s) PROVE JobInv'
  <2>1. CASE Flag(s)
    BY <1>3, <2>1 DEF JobInv, JobTypeOK, ChildIsKnown, SignalIsOnItsWay, TokenIsOwned,
                      TokenGone, Flag
  <2>2. CASE Send(s)
    BY <1>3, <2>2 DEF JobInv, JobTypeOK, ChildIsKnown, SignalIsOnItsWay, TokenIsOwned,
                      TokenGone, Send, Kill
  <2>3. CASE TimerEnds(s)
    BY <1>3, <2>3 DEF JobInv, JobTypeOK, ChildIsKnown, SignalIsOnItsWay, TokenIsOwned,
                      TokenGone, TimerEnds
  <2>4. CASE SendKill(s)
    BY <1>3, <2>4 DEF JobInv, JobTypeOK, ChildIsKnown, SignalIsOnItsWay, TokenIsOwned,
                      TokenGone, SendKill, Kill
  <2> QED BY <1>3, <2>1, <2>2, <2>3, <2>4 DEF Signals
<1> QED BY <1>1, <1>2, <1>3

(* So does the child, and the refresher with its token. *)
LEMMA JobOthers == JobInv /\ (Exits \/ Refreshes) => JobInv'
<1> SUFFICES ASSUME JobInv, Exits \/ Refreshes PROVE JobInv'
  OBVIOUS
<1> USE DEF JobInv, JobTypeOK, ChildIsKnown, SignalIsOnItsWay, TokenIsOwned, TokenGone
<1>1. CASE Exits
  BY <1>1 DEF Exits, Final
<1>2. CASE Wake
  BY <1>2 DEF Wake
<1>3. CASE Minted
  BY <1>3 DEF Minted
<1>4. CASE Rewrite
  <2>1. CASE stopRefresher
    BY <1>4, <2>1 DEF Rewrite
  <2>2. CASE ~stopRefresher
    <3>1. pc \notin CleaningUp
      BY <1>4, <2>2 DEF Rewrite
    <3> QED BY <1>4, <2>2, <3>1 DEF Rewrite
  <2> QED BY <2>1, <2>2
<1> QED BY <1>1, <1>2, <1>3, <1>4 DEF Refreshes

(* Every reachable state of a job satisfies the invariant. *)
LEMMA JobInvariance == JobSpec => []JobInv
<1>1. JobInv /\ [JobNext]_jobVars => JobInv'
  <2>1. CASE UNCHANGED jobVars
    BY <2>1 DEF JobInv, JobTypeOK, ChildIsKnown, SignalIsOnItsWay, TokenIsOwned,
                TokenGone, jobVars
  <2>2. CASE JobNext
    BY <2>2, JobThread, JobSignals, JobOthers DEF JobNext
  <2> QED BY <2>1, <2>2
<1> QED BY JobStarts, <1>1, PTL DEF JobSpec

(***************************************************************************)
(* SignalReaches (JobRun): a stop or a cancel is never lost between the    *)
(* thread that starts the child and the one that signals it.               *)
(***************************************************************************)
THEOREM SignalIsNotLost == JobSpec => []SignalReaches
<1>1. JobInv => SignalReaches
  BY DEF JobInv, ChildIsKnown, SignalIsOnItsWay, SignalReaches
<1> QED BY JobInvariance, <1>1, PTL

(***************************************************************************)
(* TokenGone (JobRun): no thread writes the GitHub token of a run that is  *)
(* over.                                                                   *)
(***************************************************************************)
THEOREM TokenIsDeleted == JobSpec => []TokenGone
<1>1. JobInv => TokenGone
  BY DEF JobInv, TokenIsOwned
<1> QED BY JobInvariance, <1>1, PTL
=============================================================================
