------------------------- MODULE ProjectNotesProofs -------------------------
(***************************************************************************)
(* For any projects, members, texts and number of notes, whatever is       *)
(* exported and imported: one purpose at most is proposed and one          *)
(* confirmed, history is kept, a project's own note for every session has  *)
(* a second person, and agents never read two versions of a note.          *)
(*                                                                         *)
(* A step changes the notes of one project.  An entry keeps who proposed   *)
(* it, where, as what, and what it revises; so what a member read before   *)
(* the write lock, and decided by, is still true under it.  A bundle's     *)
(* purposes are in the order of the project they come from, its records    *)
(* only ever add entries, and an added entry is found by the same record.  *)
(***************************************************************************)
EXTENDS NotesTransfer, SequenceTheorems, FiniteSetTheorems, NaturalsInduction,
        WellFoundedInduction, TLAPS

Requests ==
  {NoRequest}
    \cup [op : {"confirm"}, project : Projects, id : Nat, body : Bodies,
          edited : BOOLEAN, prior : Nat]
    \cup [op : {"reconfirm"}, project : Projects, id : Nat]

SecondedOK(n) ==
  is_wide_anchor(n) =>
    /\ n.by \notin Admins => n.confirmedBy # n.by /\ n.reconfirmedBy # n.by
    /\ n.confirmedBy \in Members \ Admins => ~n.edited

(* Just the retired notes have a reason, a confirmed note has a confirmer  *)
(* and a proposal has none, and a purpose is about the whole project.      *)
WellFormed(n) ==
  /\ n.anchor \in IF Purpose(n) THEN {"project"} ELSE Anchors
  /\ Live(n) <=> n.reason = None
  /\ n.status = "confirmed" \/ n.reconfirmedBy # None => n.confirmedBy # None
  /\ n.status = "proposed" =>
       n.confirmedBy = None /\ n.reconfirmedBy = None /\ n.edited = FALSE

EntryOK(n) == n \in Note /\ WellFormed(n)

NoteOK(i, n) ==
  /\ EntryOK(n) /\ n.supersedes < i
  /\ n.by \in Members => SecondedOK(n)

RowsOK(rows) ==
  /\ rows \in Seq(Note) /\ Len(rows) <= MaxNotes
  /\ \A i \in 1..Len(rows) : NoteOK(i, rows[i])

(* Where an import cannot take a note for a purpose, purposes are revised  *)
(* by purposes, other notes by other notes.                                *)
Plain(rows) == ImportedNothing(rows) \/ "project" \notin Anchors

LinksOK(rows) ==
  Plain(rows) =>
    \A i \in 1..Len(rows) :
      rows[i].supersedes # 0 => (Purpose(rows[i]) <=> Purpose(rows[rows[i].supersedes]))

Pending(n) == Purpose(n) /\ n.status = "proposed"
Current(n) == Purpose(n) /\ n.status = "confirmed"

PurposesOK(rows) ==
  /\ \A i, j \in 1..Len(rows) : Pending(rows[i]) /\ Pending(rows[j]) => i = j
  /\ \A i, j \in 1..Len(rows) : Current(rows[i]) /\ Current(rows[j]) => i = j
  /\ \A i, j \in 1..Len(rows) :
       Pending(rows[i]) /\ Current(rows[j]) => j = rows[i].supersedes
  /\ Plain(rows) =>
       \A i \in 1..Len(rows) :
         Pending(rows[i]) /\ rows[i].supersedes # 0 => Current(rows[rows[i].supersedes])

(* What is revised was confirmed, and no two confirmed notes are versions  *)
(* of one another.                                                         *)
Versions(rows) ==
  /\ \A i \in 1..Len(rows) :
       rows[i].supersedes # 0 => rows[rows[i].supersedes].status # "proposed"
  /\ \A i, j \in 1..Len(rows) :
       i # j /\ rows[i].status = "confirmed" /\ rows[j].status = "confirmed"
         => \E S \in Families(rows) : i \in S /\ j \notin S

VersionsOK(rows) == ImportedNothing(rows) => Versions(rows)

(* What a member decided by is still true. *)
FramesOK(nt, rq) ==
  \A m \in Members :
    LET r == rq[m]
        rows == nt[r.project]
    IN  /\ r.op = "confirm" =>
             /\ r.id \in 1..Len(rows) /\ r.prior = rows[r.id].supersedes
             /\ Seconded(rows[r.id], m, r.edited)
        /\ r.op = "reconfirm" =>
             r.id \in 1..Len(rows) /\ Seconded(rows[r.id], m, FALSE)

IInv ==
  /\ notes \in [Projects -> Seq(Note)]
  /\ request \in [Members -> Requests]
  /\ \A p \in Projects : /\ RowsOK(notes[p]) /\ LinksOK(notes[p])
                         /\ PurposesOK(notes[p]) /\ VersionsOK(notes[p])
  /\ FramesOK(notes, request)

(* Of a bundle's purposes the proposed one revises the confirmed one, and  *)
(* where only purposes are about the whole project its links are as those  *)
(* of a project.                                                           *)
BundleOK(b) ==
  /\ DOMAIN b \subseteq 1..MaxNotes
  /\ \A i \in DOMAIN b : EntryOK(b[i]) /\ b[i].by \in Members
  /\ \A i, j \in DOMAIN b : Pending(b[i]) /\ Current(b[j]) => j = b[i].supersedes
  /\ "project" \notin Anchors =>
       \A i \in DOMAIN b :
         b[i].supersedes \in DOMAIN b => (Purpose(b[i]) <=> Purpose(b[b[i].supersedes]))

TransferInv == IInv /\ BundleOK(bundle) /\ Accepted(bundle)

-----------------------------------------------------------------------------
(* Entries and rows *)

Identity(n, o) ==
  o.kind = n.kind /\ o.anchor = n.anchor /\ o.by = n.by /\ o.supersedes = n.supersedes

Kept(n, o) ==
  /\ ~Live(n) => o = n
  /\ n.confirmedBy # None => o.body = n.body /\ o.confirmedBy = n.confirmedBy

EntryStep(i, n, o) == NoteOK(i, o) /\ Identity(n, o) /\ Kept(n, o)

RowsStep(rows, new) ==
  /\ RowsOK(new) /\ Len(rows) <= Len(new)
  /\ \A i \in 1..Len(rows) : Identity(rows[i], new[i]) /\ Kept(rows[i], new[i])

HistoryStep ==
  \A p \in Projects : \A i \in DOMAIN notes[p] :
    /\ i \in DOMAIN notes'[p]
    /\ Kept(notes[p][i], notes'[p][i])

Reasons == {"rejected", "outdated", "superseded"}

(* An unchanged entry is a step, and so is a live one that is retired.     *)
LEMMA SameEntry ==
  ASSUME NEW i, NEW n, NoteOK(i, n)
  PROVE  EntryStep(i, n, n)
BY DEF EntryStep, Identity, Kept

LEMMA RetiredEntry ==
  ASSUME NEW i, NEW n, NoteOK(i, n), Live(n), NEW reason \in Reasons
  PROVE  /\ EntryStep(i, n, Retired(n, reason))
         /\ Retired(n, reason).status = "retired"
<1> DEFINE o == Retired(n, reason)
<1>1. o \in Note /\ o.status = "retired" /\ Identity(n, o)
  BY DEF NoteOK, EntryOK, Note, Retired, Identity, Reasons
<1>2. o.confirmedBy = n.confirmedBy /\ o.reconfirmedBy = n.reconfirmedBy
        /\ o.edited = n.edited /\ o.body = n.body /\ o.reason = reason
  BY DEF NoteOK, EntryOK, Note, Retired
<1>3. reason # None
  BY NotesAssumption DEF Reasons
<1>4. NoteOK(i, o)
  BY <1>1, <1>2, <1>3
  DEF NoteOK, EntryOK, WellFormed, SecondedOK, is_wide_anchor, Identity, Live, Purpose
<1> QED
  BY <1>1, <1>2, <1>4 DEF EntryStep, Kept

(* RetireAll retires what it names and leaves the rest. *)
LEMMA RetireAllRows ==
  ASSUME NEW rows, RowsOK(rows), NEW ids, NEW reason \in Reasons,
         \A i \in 1..Len(rows) : i \in ids => Live(rows[i])
  PROVE  LET new == RetireAll(rows, ids, reason)
         IN  /\ RowsStep(rows, new) /\ Len(new) = Len(rows)
             /\ \A i \in 1..Len(rows) : i \notin ids => new[i] = rows[i]
             /\ \A i \in 1..Len(rows) : i \in ids => new[i].status = "retired"
<1> DEFINE new == RetireAll(rows, ids, reason)
<1>1. DOMAIN rows = 1..Len(rows) /\ Len(rows) \in Nat
  BY DEF RowsOK
<1>2. new = [i \in 1..Len(rows) |->
               IF i \in ids THEN Retired(rows[i], reason) ELSE rows[i]]
  BY <1>1 DEF RetireAll
<1>3. \A i \in 1..Len(rows) :
        /\ EntryStep(i, rows[i], new[i])
        /\ i \notin ids => new[i] = rows[i]
        /\ i \in ids => new[i].status = "retired"
  <2> SUFFICES ASSUME NEW i \in 1..Len(rows)
               PROVE  /\ EntryStep(i, rows[i], new[i])
                      /\ i \notin ids => new[i] = rows[i]
                      /\ i \in ids => new[i].status = "retired"
    OBVIOUS
  <2>1. NoteOK(i, rows[i])
    BY DEF RowsOK
  <2> HIDE DEF new
  <2> QED
    BY <1>2, <2>1, SameEntry, RetiredEntry
<1> HIDE DEF new
<1>4. new \in [1..Len(rows) -> Note]
  BY <1>2, <1>3 DEF EntryStep, NoteOK, EntryOK
<1>5. new \in Seq(Note) /\ Len(new) = Len(rows)
  BY <1>1, <1>4
<1>6. RowsStep(rows, new)
  BY <1>1, <1>3, <1>5 DEF RowsStep, RowsOK, EntryStep
<1> QED
  BY <1>3, <1>5, <1>6 DEF new

(* A changed entry at one place. *)
LEMMA ChangedEntry ==
  ASSUME NEW rows, RowsOK(rows), NEW i \in 1..Len(rows), NEW o, EntryStep(i, rows[i], o),
         NEW new \in Seq(Note), Len(new) = Len(rows),
         \A j \in 1..Len(rows) : new[j] = IF j = i THEN o ELSE rows[j]
  PROVE  RowsStep(rows, new)
<1>1. \A j \in 1..Len(rows) : EntryStep(j, rows[j], new[j])
  BY SameEntry DEF RowsOK
<1> QED
  BY <1>1 DEF RowsStep, RowsOK, EntryStep

(* A new entry at the end. *)
LEMMA NewEntry ==
  ASSUME NEW rows, RowsOK(rows), Len(rows) < MaxNotes, NEW o, NoteOK(Len(rows) + 1, o)
  PROVE  LET new == Append(rows, o)
         IN  /\ RowsStep(rows, new) /\ Len(new) = Len(rows) + 1 /\ new[Len(new)] = o
             /\ \A j \in 1..Len(rows) : new[j] = rows[j]
<1> DEFINE new == Append(rows, o)
<1>1. o \in Note /\ rows \in Seq(Note) /\ Len(rows) \in Nat
  BY DEF NoteOK, EntryOK, RowsOK
<1>2. /\ new \in Seq(Note) /\ Len(new) = Len(rows) + 1
      /\ \A j \in 1..Len(rows) : new[j] = rows[j]
      /\ new[Len(rows) + 1] = o
  BY <1>1
<1> HIDE DEF new
<1>3. \A j \in 1..Len(new) : NoteOK(j, new[j])
  BY <1>1, <1>2 DEF RowsOK
<1>4. RowsStep(rows, new)
  BY <1>1, <1>2, <1>3, NotesAssumption DEF RowsStep, RowsOK, Identity, Kept
<1> QED
  BY <1>2, <1>4 DEF new

(* Two steps make one. *)
LEMMA StepsCompose ==
  ASSUME NEW a, NEW b, NEW c, RowsOK(a), RowsStep(a, b), RowsStep(b, c)
  PROVE  RowsStep(a, c)
<1>1. Len(a) \in Nat /\ Len(b) \in Nat /\ Len(c) \in Nat
  BY DEF RowsOK, RowsStep
<1>2. \A i \in 1..Len(a) : i \in 1..Len(b)
  BY <1>1 DEF RowsStep
<1> QED
  BY <1>1, <1>2 DEF RowsStep, Identity, Kept

(* Who imported nothing had imported nothing. *)
LEMMA OwnBefore ==
  ASSUME NEW rows, RowsOK(rows), NEW new, RowsOK(new), Len(rows) <= Len(new),
         \A i \in 1..Len(rows) : new[i].by = rows[i].by
  PROVE  /\ ImportedNothing(new) => ImportedNothing(rows)
         /\ Plain(new) => Plain(rows)
<1>1. /\ DOMAIN rows = 1..Len(rows) /\ DOMAIN new = 1..Len(new)
      /\ Len(rows) \in Nat /\ Len(new) \in Nat
  BY DEF RowsOK
<1>2. \A i \in 1..Len(rows) : i \in 1..Len(new)
  BY <1>1
<1> QED
  BY <1>1, <1>2 DEF ImportedNothing, Plain

LEMMA PlainBefore ==
  ASSUME NEW rows, RowsOK(rows), NEW new, RowsStep(rows, new)
  PROVE  Plain(new) => Plain(rows)
BY OwnBefore DEF RowsStep, Identity

(* Links only change with a new entry. *)
LEMMA LinksKept ==
  ASSUME NEW rows, RowsOK(rows), LinksOK(rows), NEW new, RowsStep(rows, new), Plain(new)
  PROVE  \A i \in 1..Len(rows) :
           new[i].supersedes # 0 =>
             (Purpose(new[i]) <=> Purpose(new[new[i].supersedes]))
<1> SUFFICES ASSUME NEW i \in 1..Len(rows), new[i].supersedes # 0
             PROVE  Purpose(new[i]) <=> Purpose(new[new[i].supersedes])
  OBVIOUS
<1> DEFINE k == rows[i].supersedes
<1>1. new[i].supersedes = k /\ new[i].kind = rows[i].kind
  BY DEF RowsStep, Identity
<1>2. k \in 1..Len(rows)
  BY <1>1, NotesAssumption DEF RowsOK, NoteOK, EntryOK, Note
<1>3. new[k].kind = rows[k].kind
  BY <1>2 DEF RowsStep, Identity
<1>4. Plain(rows)
  BY PlainBefore
<1> QED
  BY <1>1, <1>2, <1>3, <1>4 DEF LinksOK, Purpose

(* A note revises an earlier one. *)
LEMMA RevisesEarlier ==
  ASSUME NEW rows, RowsOK(rows)
  PROVE  \A i \in 1..Len(rows) : rows[i].supersedes # 0 => rows[i].supersedes \in 1..Len(rows)
<1>1. Len(rows) \in Nat
  BY DEF RowsOK
<1>2. \A i \in 1..Len(rows) : rows[i].supersedes \in 0..MaxNotes /\ rows[i].supersedes < i
  BY DEF RowsOK, NoteOK, EntryOK, Note
<1> QED
  BY <1>1, <1>2, NotesAssumption

(* Where no note is newly confirmed or proposed, versions stay in order. *)
LEMMA VersionsKept ==
  ASSUME NEW rows, RowsOK(rows), VersionsOK(rows), NEW new, RowsStep(rows, new),
         Len(new) = Len(rows),
         \A i \in 1..Len(rows) : new[i].status \in {rows[i].status, "retired"}
  PROVE  VersionsOK(new)
<1> SUFFICES ASSUME ImportedNothing(new) PROVE Versions(new)
  BY DEF VersionsOK
<1>0. Versions(rows)
  BY OwnBefore DEF VersionsOK, RowsStep, Identity
<1>1. /\ DOMAIN rows = 1..Len(rows) /\ DOMAIN new = 1..Len(rows) /\ Len(rows) \in Nat
      /\ \A i \in 1..Len(rows) : new[i].supersedes = rows[i].supersedes
  BY DEF RowsOK, RowsStep, Identity
<1>2. Families(new) = Families(rows)
  BY <1>1 DEF Families
<1>3. \A i \in 1..Len(rows) : new[i].supersedes # 0 =>
        new[i].supersedes \in 1..Len(rows)
  BY <1>1, RevisesEarlier
<1> QED
  BY <1>1, <1>0, <1>2, <1>3 DEF Versions

(* A proposal revises nothing, or what was confirmed. *)
LEMMA VersionsAppended ==
  ASSUME NEW rows, RowsOK(rows), VersionsOK(rows), NEW o, o.status = "proposed",
         o.supersedes \in 0..Len(rows),
         o.supersedes # 0 => rows[o.supersedes].status # "proposed",
         NEW new, RowsOK(new), Len(new) = Len(rows) + 1, new[Len(new)] = o,
         \A j \in 1..Len(rows) : new[j] = rows[j]
  PROVE  VersionsOK(new)
<1> SUFFICES ASSUME ImportedNothing(new) PROVE Versions(new)
  BY DEF VersionsOK
<1>0. Versions(rows)
  <2>1. Len(rows) <= Len(new)
    BY DEF RowsOK
  <2> QED
    BY <2>1, OwnBefore DEF VersionsOK
<1> DEFINE n == Len(new)
<1>1. /\ DOMAIN rows = 1..Len(rows) /\ DOMAIN new = 1..n
      /\ Len(rows) \in Nat /\ n = Len(rows) + 1
  <2>1. rows \in Seq(Note) /\ new \in Seq(Note)
    BY DEF RowsOK
  <2>2. DOMAIN rows = 1..Len(rows) /\ Len(rows) \in Nat
    BY <2>1
  <2>3. DOMAIN new = 1..n
    BY <2>1
  <2>4. n = Len(rows) + 1
    OBVIOUS
  <2> HIDE DEF n
  <2> QED
    BY <2>2, <2>3, <2>4
<1> HIDE DEF n
<1>2. \A i \in 1..Len(rows) : rows[i].supersedes # 0 => rows[i].supersedes \in 1..Len(rows)
  BY RevisesEarlier
<1>3. ASSUME NEW S \in Families(rows)
      PROVE  \E T \in Families(new) : \A i \in 1..Len(rows) : i \in T <=> i \in S
  <2> DEFINE T == IF o.supersedes \in S THEN S \cup {n} ELSE S
  <2>1. S \subseteq 1..Len(rows)
    BY <1>1 DEF Families
  <2>2. \A i \in 1..Len(rows) : i \in T <=> i \in S
    BY <1>1
  <2>3. n \in T <=> o.supersedes \in S
    BY <1>1, <2>1
  <2>4. T \subseteq 1..n
    <3>1. n \in 1..n /\ \A i \in S : i \in 1..n
      BY <1>1, <2>1
    <3> QED
      BY <3>1
  <2> HIDE DEF T
  <2>5. ASSUME NEW i \in 1..n, new[i].supersedes # 0
        PROVE  i \in T <=> new[i].supersedes \in T
    <3>1. CASE i \in 1..Len(rows)
      <4>1. i \in S <=> rows[i].supersedes \in S
        BY <1>1, <2>5, <3>1 DEF Families
      <4> QED
        BY <1>2, <2>2, <2>5, <3>1, <4>1
    <3>2. CASE i = n
      <4>1. new[i] = o /\ o.supersedes \in 1..Len(rows)
        BY <1>1, <2>5, <3>2 DEF n
      <4> QED
        BY <2>2, <2>3, <3>2, <4>1
    <3> QED
      BY <1>1, <3>1, <3>2
  <2>6. T \in Families(new)
    BY <1>1, <2>4, <2>5 DEF Families
  <2> QED
    BY <2>2, <2>6
<1>4. \A i \in 1..n : new[i].status = "confirmed" => i \in 1..Len(rows)
  BY <1>1
<1>5. \A i, j \in 1..n :
        i # j /\ new[i].status = "confirmed" /\ new[j].status = "confirmed"
          => \E S \in Families(new) : i \in S /\ j \notin S
  <2> SUFFICES ASSUME NEW i \in 1..Len(rows), NEW j \in 1..Len(rows), i # j,
                      rows[i].status = "confirmed", rows[j].status = "confirmed"
               PROVE  \E S \in Families(new) : i \in S /\ j \notin S
    BY <1>4
  <2>1. PICK S \in Families(rows) : i \in S /\ j \notin S
    BY <1>0 DEF Versions
  <2> QED
    BY <1>3, <2>1
<1>6. ASSUME NEW i \in 1..n, new[i].supersedes # 0
      PROVE  new[new[i].supersedes].status # "proposed"
  <2>1. CASE i \in 1..Len(rows)
    BY <1>0, <1>2, <1>6, <2>1 DEF Versions
  <2>2. CASE i = n
    BY <1>1, <1>6, <2>2 DEF n
  <2> QED
    BY <1>1, <2>1, <2>2
<1> QED
  BY <1>5, <1>6 DEF Versions, n

(* A confirmed revision takes the place of what it revises; what revises   *)
(* nothing was never revised either.                                       *)
LEMMA VersionsConfirmed ==
  ASSUME NEW rows, RowsOK(rows), VersionsOK(rows), NEW i \in 1..Len(rows),
         rows[i].status = "proposed", NEW prior, prior = rows[i].supersedes,
         prior # 0 => rows[prior].status = "confirmed",
         NEW new, RowsStep(rows, new), Len(new) = Len(rows),
         \A j \in 1..Len(rows) : j # i /\ j # prior => new[j] = rows[j],
         prior # 0 => new[prior].status = "retired", new[i].status = "confirmed"
  PROVE  VersionsOK(new)
<1> SUFFICES ASSUME ImportedNothing(new) PROVE Versions(new)
  BY DEF VersionsOK
<1>0. Versions(rows)
  BY OwnBefore DEF VersionsOK, RowsStep, Identity
<1>1. /\ DOMAIN rows = 1..Len(rows) /\ DOMAIN new = 1..Len(rows) /\ Len(rows) \in Nat
      /\ \A j \in 1..Len(rows) : new[j].supersedes = rows[j].supersedes
  BY DEF RowsOK, RowsStep, Identity
<1>2. Families(new) = Families(rows)
  BY <1>1 DEF Families
<1>3. \A j \in 1..Len(rows) : rows[j].supersedes # 0 => rows[j].supersedes \in 1..Len(rows)
  BY RevisesEarlier
<1>4. \A j \in 1..Len(rows) : rows[j].supersedes # i
  BY <1>0 DEF Versions
<1>5. \A S : S \in Families(rows) => (1..Len(rows)) \ S \in Families(rows)
  BY <1>1, <1>3 DEF Families
<1>6. ASSUME NEW j \in 1..Len(rows), j # i, new[j].status = "confirmed"
      PROVE  \E S \in Families(rows) : i \in S /\ j \notin S
  <2>1. j # prior /\ rows[j].status = "confirmed"
    BY <1>1, <1>6
  <2>2. CASE prior = 0
    <3>1. {i} \in Families(rows)
      BY <1>1, <1>3, <1>4, <2>2 DEF Families
    <3> QED
      BY <1>6, <3>1
  <2>3. CASE prior # 0
    <3>1. prior \in 1..Len(rows)
      BY <1>3, <2>3
    <3>2. PICK S \in Families(rows) : prior \in S /\ j \notin S
      BY <1>0, <2>1, <2>3, <3>1 DEF Versions
    <3>3. i \in S
      BY <1>1, <2>3, <3>2 DEF Families
    <3> QED
      BY <3>2, <3>3
  <2> QED
    BY <2>2, <2>3
<1>7. ASSUME NEW j \in 1..Len(rows), NEW k \in 1..Len(rows), j # k,
             new[j].status = "confirmed", new[k].status = "confirmed"
      PROVE  \E S \in Families(rows) : j \in S /\ k \notin S
  <2>1. CASE j = i
    BY <1>6, <1>7, <2>1
  <2>2. CASE k = i
    <3>1. PICK S \in Families(rows) : i \in S /\ j \notin S
      BY <1>6, <1>7, <2>2
    <3> QED
      BY <1>5, <2>2, <3>1
  <2>3. CASE j # i /\ k # i
    <3>1. rows[j].status = "confirmed" /\ rows[k].status = "confirmed"
      BY <1>1, <1>7, <2>3
    <3> QED
      BY <1>0, <1>7, <3>1 DEF Versions
  <2> QED
    BY <2>1, <2>2, <2>3
<1>8. ASSUME NEW j \in 1..Len(rows), new[j].supersedes # 0
      PROVE  new[new[j].supersedes].status # "proposed"
  <2> DEFINE k == rows[j].supersedes
  <2>1. new[j].supersedes = k /\ k # 0 /\ k \in 1..Len(rows) /\ k # i
    BY <1>1, <1>3, <1>4, <1>8
  <2>2. rows[k].status # "proposed"
    BY <1>0, <2>1 DEF Versions
  <2> QED
    BY <2>1, <2>2
<1> QED
  BY <1>0, <1>1, <1>2, <1>7, <1>8 DEF Versions

-----------------------------------------------------------------------------
(* The steps *)

(* What the steps that write notes have in common. *)
LEMMA WriteKeeps ==
  ASSUME IInv, NEW p \in Projects, NEW new, RowsStep(notes[p], new),
         notes' = [notes EXCEPT ![p] = new], LinksOK(new), PurposesOK(new), VersionsOK(new),
         request' \in [Members -> Requests],
         \A m \in Members : request'[m] = request[m] \/ request'[m] = NoRequest
  PROVE  IInv' /\ HistoryStep
<1>1. \A q \in Projects : /\ RowsOK(notes[q]) /\ notes[q] \in Seq(Note)
                          /\ DOMAIN notes[q] = 1..Len(notes[q]) /\ Len(notes[q]) \in Nat
  BY DEF IInv, RowsOK
<1>2. /\ notes' \in [Projects -> Seq(Note)] /\ notes'[p] = new
      /\ \A q \in Projects : q # p => notes'[q] = notes[q]
  BY DEF IInv, RowsStep, RowsOK
<1>3. \A q \in Projects : RowsStep(notes[q], notes'[q])
  <2> SUFFICES ASSUME NEW q \in Projects, q # p PROVE RowsStep(notes[q], notes'[q])
    BY <1>2
  <2> QED
    BY <1>1, <1>2 DEF RowsStep, Identity, Kept
<1>4. \A q \in Projects : /\ RowsOK(notes'[q]) /\ LinksOK(notes'[q])
                          /\ PurposesOK(notes'[q]) /\ VersionsOK(notes'[q])
  BY <1>2, <1>3 DEF IInv, RowsStep
<1>5. FramesOK(notes', request')
  <2> SUFFICES ASSUME NEW m \in Members, request'[m].op \in {"confirm", "reconfirm"}
               PROVE  LET r == request'[m]
                          rows == notes'[r.project]
                      IN  /\ r.op = "confirm" =>
                               /\ r.id \in 1..Len(rows) /\ r.prior = rows[r.id].supersedes
                               /\ Seconded(rows[r.id], m, r.edited)
                          /\ r.op = "reconfirm" =>
                               r.id \in 1..Len(rows) /\ Seconded(rows[r.id], m, FALSE)
    BY DEF FramesOK
  <2> DEFINE r == request[m]
             q == r.project
  <2>1. request'[m] = r /\ r.op \in {"confirm", "reconfirm"}
    BY DEF NoRequest
  <2>2. r \in Requests
    BY DEF IInv
  <2>3. q \in Projects
    BY <2>1, <2>2 DEF Requests, NoRequest
  <2>4. r.id \in 1..Len(notes[q])
    BY <2>1 DEF IInv, FramesOK
  <2>5. r.id \in 1..Len(notes'[q]) /\ Identity(notes[q][r.id], notes'[q][r.id])
    <3>1. Len(notes[q]) \in Nat /\ Len(notes'[q]) \in Nat /\ Len(notes[q]) <= Len(notes'[q])
      BY <1>1, <1>2, <1>3, <2>3 DEF RowsStep
    <3> QED
      BY <1>3, <2>3, <2>4, <3>1 DEF RowsStep
  <2>6. /\ r.op = "confirm" => /\ r.prior = notes[q][r.id].supersedes
                               /\ Seconded(notes[q][r.id], m, r.edited)
        /\ r.op = "reconfirm" => Seconded(notes[q][r.id], m, FALSE)
    BY DEF IInv, FramesOK
  <2> QED
    BY <2>1, <2>5, <2>6 DEF Identity, Seconded, is_wide_anchor
<1>6. HistoryStep
  <2> SUFFICES ASSUME NEW q \in Projects, NEW i \in DOMAIN notes[q]
               PROVE  i \in DOMAIN notes'[q] /\ Kept(notes[q][i], notes'[q][i])
    BY DEF HistoryStep
  <2>1. i \in 1..Len(notes[q]) /\ DOMAIN notes'[q] = 1..Len(notes'[q])
          /\ Len(notes[q]) \in Nat /\ Len(notes'[q]) \in Nat
    BY <1>1, <1>2
  <2> QED
    BY <1>3, <2>1 DEF RowsStep
<1> QED
  BY <1>2, <1>4, <1>5, <1>6 DEF IInv

(* Steps that change no note. *)
LEMMA ReadKeeps ==
  ASSUME IInv, UNCHANGED notes, request' \in [Members -> Requests],
         FramesOK(notes, request')
  PROVE  IInv' /\ HistoryStep
BY DEF IInv, HistoryStep, Kept

LEMMA ProposeKeeps ==
  ASSUME IInv, NEW p \in Projects, NEW m \in Members, NEW kind \in Kinds \ {"purpose"},
         NEW anchor \in Anchors, NEW body \in Bodies, NEW prior \in {0} \cup DOMAIN notes[p],
         Propose(p, m, kind, anchor, body, prior)
  PROVE  IInv' /\ HistoryStep
<1> DEFINE rows == notes[p]
           o == Proposal(p, m, kind, anchor, body, prior)
           new == Append(rows, o)
<1>1. /\ RowsOK(rows) /\ LinksOK(rows) /\ PurposesOK(rows) /\ Len(rows) < MaxNotes
      /\ notes' = [notes EXCEPT ![p] = new] /\ request' = request
      /\ prior # 0 => ~Purpose(rows[prior]) /\ rows[prior].status = "confirmed"
      /\ VersionsOK(rows)
  BY DEF IInv, Propose
<1>2. Len(rows) \in Nat /\ DOMAIN rows = 1..Len(rows)
  BY <1>1 DEF RowsOK
<1>3. NoteOK(Len(rows) + 1, o)
  BY <1>1, <1>2, NotesAssumption
  DEF NoteOK, EntryOK, WellFormed, Note, Proposal, SecondedOK, Uids, Purpose, Live
<1>4. /\ o.supersedes = prior /\ o.status = "proposed"
      /\ ~Purpose(o) /\ ~Pending(o) /\ ~Current(o)
  BY DEF Proposal, Purpose, Pending, Current
<1> HIDE DEF o
<1>5. /\ RowsStep(rows, new) /\ Len(new) = Len(rows) + 1 /\ new[Len(new)] = o
      /\ \A j \in 1..Len(rows) : new[j] = rows[j]
  BY <1>1, <1>3, NewEntry
<1> HIDE DEF new
<1>6. LinksOK(new)
  <2> SUFFICES ASSUME Plain(new), NEW i \in 1..Len(new), new[i].supersedes # 0
               PROVE  Purpose(new[i]) <=> Purpose(new[new[i].supersedes])
    BY DEF LinksOK
  <2>1. CASE i \in 1..Len(rows)
    BY <1>1, <1>5, <2>1, LinksKept
  <2>2. CASE i = Len(new)
    <3>1. prior \in 1..Len(rows) /\ ~Purpose(rows[prior])
      BY <1>1, <1>2, <1>4, <1>5, <2>2
    <3> QED
      BY <1>4, <1>5, <2>2, <3>1
  <2> QED
    BY <1>2, <1>5, <2>1, <2>2
<1>7. PurposesOK(new)
  <2>1. \A i \in 1..Len(new) : Pending(new[i]) \/ Current(new[i]) => i \in 1..Len(rows)
    BY <1>2, <1>4, <1>5
  <2>2. \A i, j \in 1..Len(rows) :
          Pending(rows[i]) /\ Current(rows[j]) => j = rows[i].supersedes
    BY <1>1 DEF PurposesOK
  <2>3. \A i, j \in 1..Len(new) :
          Pending(new[i]) /\ Current(new[j]) => j = new[i].supersedes
    BY <1>5, <2>1, <2>2
  <2>4. ASSUME Plain(new), NEW i \in 1..Len(new), Pending(new[i]), new[i].supersedes # 0
        PROVE  Current(new[new[i].supersedes])
    <3>1. Plain(rows) /\ i \in 1..Len(rows) /\ new[i] = rows[i]
      BY <1>1, <1>5, <2>1, <2>4, PlainBefore
    <3>2. rows[i].supersedes \in 1..Len(rows) /\ Current(rows[rows[i].supersedes])
      BY <1>1, <2>4, <3>1, RevisesEarlier DEF PurposesOK
    <3> QED
      BY <1>5, <3>1, <3>2
  <2>5. \A i, j \in 1..Len(rows) : /\ Pending(rows[i]) /\ Pending(rows[j]) => i = j
                                   /\ Current(rows[i]) /\ Current(rows[j]) => i = j
    BY <1>1 DEF PurposesOK
  <2> QED
    BY <1>5, <2>1, <2>3, <2>4, <2>5 DEF PurposesOK
<1>8. VersionsOK(new)
  <2>1. RowsOK(new) /\ o.supersedes \in 0..Len(rows)
    BY <1>2, <1>4, <1>5 DEF RowsStep
  <2>2. o.supersedes # 0 => rows[o.supersedes].status # "proposed"
    BY <1>1, <1>4
  <2> QED
    BY <1>1, <1>4, <1>5, <2>1, <2>2, VersionsAppended
<1> QED
  BY <1>1, <1>5, <1>6, <1>7, <1>8, WriteKeeps DEF IInv

LEMMA PurposeKeeps ==
  ASSUME IInv, NEW p \in Projects, NEW m \in Members, NEW body \in Bodies,
         propose_purpose(p, m, body)
  PROVE  IInv' /\ HistoryStep
<1> DEFINE rows == notes[p]
           confirmed == Purposes(rows, "confirmed")
           prior == CHOOSE i \in confirmed \cup {0} : \A j \in confirmed : j <= i
           mid == RetireAll(rows, Purposes(rows, "proposed"), "superseded")
           o == Proposal(p, m, "purpose", "project", body, prior)
           new == Append(mid, o)
<1>1. /\ RowsOK(rows) /\ LinksOK(rows) /\ PurposesOK(rows)
      /\ Len(rows) < MaxNotes /\ "purpose" \in Kinds /\ VersionsOK(rows)
      /\ notes' = [notes EXCEPT ![p] = new] /\ request' = request
  BY DEF IInv, propose_purpose
<1>2. Len(rows) \in Nat /\ DOMAIN rows = 1..Len(rows)
  BY <1>1 DEF RowsOK
<1>3. /\ RowsStep(rows, mid) /\ Len(mid) = Len(rows)
      /\ \A i \in 1..Len(rows) : i \notin Purposes(rows, "proposed") => mid[i] = rows[i]
      /\ \A i \in 1..Len(rows) : i \in Purposes(rows, "proposed") => mid[i].status = "retired"
  <2>1. \A i \in 1..Len(rows) : i \in Purposes(rows, "proposed") => Live(rows[i])
    BY DEF Purposes, Live
  <2> QED
    BY <1>1, <2>1, RetireAllRows DEF Reasons
<1>4. confirmed = {i \in 1..Len(rows) : Current(rows[i])}
  BY <1>2 DEF Current, Purposes
<1>5. /\ prior \in 0..Len(rows)
      /\ prior # 0 => Current(rows[prior])
      /\ \A j \in 1..Len(rows) : Current(rows[j]) => j = prior
  <2> HIDE DEF confirmed
  <2>1. \A i, j \in confirmed : i = j
    BY <1>1, <1>4 DEF PurposesOK
  <2>2. CASE confirmed = {}
    <3>1. prior = 0
      BY <2>2
    <3> QED
      BY <1>2, <1>4, <2>2, <3>1
  <2>3. CASE confirmed # {}
    <3>1. PICK k : k \in confirmed
      BY <2>3
    <3>2. confirmed = {k} /\ k \in 1..Len(rows) /\ Current(rows[k])
      BY <1>4, <2>1, <3>1
    <3>3. k \in confirmed \cup {0} /\ \A j \in confirmed : j <= k
      BY <1>2, <3>2
    <3>4. prior \in confirmed \cup {0} /\ \A j \in confirmed : j <= prior
      BY <3>3
    <3>5. prior = k
      <4> HIDE DEF prior
      <4> QED
        BY <1>2, <3>2, <3>4
    <3> HIDE DEF prior
    <3> QED
      BY <1>2, <1>4, <3>2, <3>5
  <2> QED
    BY <2>2, <2>3
<1> HIDE DEF prior, confirmed
<1>6. NoteOK(Len(mid) + 1, o)
  BY <1>1, <1>2, <1>3, <1>5, NotesAssumption
  DEF NoteOK, EntryOK, WellFormed, Note, Proposal, SecondedOK, Uids, Purpose, Live
<1>7. o.supersedes = prior /\ o.status = "proposed" /\ Purpose(o) /\ Pending(o) /\ ~Current(o)
  BY DEF Proposal, Purpose, Pending, Current
<1> HIDE DEF o, mid
<1>8. /\ RowsStep(mid, new) /\ Len(new) = Len(rows) + 1 /\ new[Len(new)] = o
      /\ \A j \in 1..Len(rows) : new[j] = mid[j]
  <2>1. RowsOK(mid) /\ Len(mid) < MaxNotes
    BY <1>1, <1>3 DEF RowsStep
  <2>2. /\ RowsStep(mid, new) /\ Len(new) = Len(mid) + 1 /\ new[Len(new)] = o
        /\ \A j \in 1..Len(mid) : new[j] = mid[j]
    BY <1>6, <2>1, NewEntry
  <2> QED
    BY <1>3, <2>2
<1>9. RowsStep(rows, new)
  BY <1>1, <1>3, <1>8, StepsCompose
<1> HIDE DEF new
<1>10. \A i \in 1..Len(rows) : /\ ~Pending(new[i])
                               /\ Current(new[i]) <=> Current(rows[i])
  BY <1>2, <1>3, <1>8 DEF Pending, Current, Purposes
<1>11. LinksOK(new)
  <2> SUFFICES ASSUME Plain(new), NEW i \in 1..Len(new), new[i].supersedes # 0
               PROVE  Purpose(new[i]) <=> Purpose(new[new[i].supersedes])
    BY DEF LinksOK
  <2>1. CASE i \in 1..Len(rows)
    BY <1>1, <1>9, <2>1, LinksKept
  <2>2. CASE i = Len(new)
    <3>1. prior \in 1..Len(rows) /\ Current(rows[prior])
      BY <1>5, <1>7, <1>8, <2>2
    <3>2. Purpose(new[prior])
      BY <1>10, <3>1 DEF Current
    <3> QED
      BY <1>7, <1>8, <2>2, <3>2
  <2> QED
    BY <1>2, <1>8, <2>1, <2>2
<1>12. PurposesOK(new)
  <2>1. \A i \in 1..Len(new) : Pending(new[i]) => i = Len(new)
    BY <1>2, <1>8, <1>10
  <2>2. \A i \in 1..Len(new) : Current(new[i]) => i \in 1..Len(rows) /\ i = prior
    BY <1>2, <1>5, <1>7, <1>8, <1>10
  <2>3. prior # 0 => prior \in 1..Len(rows) /\ Current(new[prior])
    BY <1>2, <1>5, <1>10
  <2>4. \A i, j \in 1..Len(new) :
          Pending(new[i]) =>
            /\ Current(new[j]) => j = new[i].supersedes
            /\ new[i].supersedes # 0 => Current(new[new[i].supersedes])
    BY <1>2, <1>7, <1>8, <2>1, <2>2, <2>3
  <2> QED
    BY <2>1, <2>2, <2>4 DEF PurposesOK
<1>13. VersionsOK(new)
  <2>1. \A i \in 1..Len(rows) : mid[i].status \in {rows[i].status, "retired"}
    BY <1>3
  <2>2. VersionsOK(mid) /\ RowsOK(mid)
    BY <1>1, <1>3, <2>1, VersionsKept DEF RowsStep
  <2>3. o.supersedes \in 0..Len(mid) /\ RowsOK(new)
    BY <1>3, <1>5, <1>7, <1>9 DEF RowsStep
  <2>4. o.supersedes # 0 => mid[o.supersedes].status # "proposed"
    <3> SUFFICES ASSUME prior # 0 PROVE mid[prior].status # "proposed"
      BY <1>7
    <3>1. prior \in 1..Len(rows) /\ Current(rows[prior])
      BY <1>2, <1>5
    <3> QED
      BY <2>1, <3>1 DEF Current
  <2> QED
    BY <1>3, <1>7, <1>8, <2>2, <2>3, <2>4, VersionsAppended
<1> QED
  BY <1>1, <1>9, <1>11, <1>12, <1>13, WriteKeeps DEF IInv

LEMMA ConfirmKeeps ==
  ASSUME IInv, NEW m \in Members, Confirm(m)
  PROVE  IInv' /\ HistoryStep
<1> DEFINE r == request[m]
           p == r.project
           rows == notes[p]
<1>1. r \in Requests /\ r.op = "confirm"
  BY DEF IInv, Confirm
<1>2. /\ p \in Projects /\ r.id \in Nat /\ r.body \in Bodies
      /\ r.edited \in BOOLEAN /\ r.prior \in Nat
  BY <1>1 DEF Requests, NoRequest
<1>3. /\ request' \in [Members -> Requests] /\ request'[m] = NoRequest
      /\ \A c \in Members : request'[c] = request[c] \/ request'[c] = NoRequest
  BY DEF IInv, Confirm, Requests
<1>4. CASE ~StillConfirmable(rows, r)
  <2>1. UNCHANGED notes
    BY <1>4 DEF Confirm
  <2>2. FramesOK(notes, request')
    <3>1. NoRequest.op = "none"
      BY DEF NoRequest
    <3>2. \A c \in Members : request'[c] # request[c] => request'[c].op = "none"
      BY <1>3, <3>1
    <3>3. FramesOK(notes, request)
      BY DEF IInv
    <3> QED
      BY <3>2, <3>3 DEF FramesOK
  <2> QED
    BY <1>3, <2>1, <2>2, ReadKeeps
<1>5. CASE StillConfirmable(rows, r)
  <2> DEFINE mid == RetireAll(rows, {r.prior}, "superseded")
             o == [mid[r.id] EXCEPT !.status = "confirmed", !.confirmedBy = m,
                                    !.body = r.body, !.edited = r.edited]
             new == [mid EXCEPT ![r.id] = o]
  <2>1. /\ RowsOK(rows) /\ LinksOK(rows) /\ PurposesOK(rows) /\ VersionsOK(rows)
        /\ rows \in Seq(Note) /\ Len(rows) \in Nat
    BY <1>2 DEF IInv, RowsOK
  <2>0. Len(rows) \in Nat
    BY <2>1
  <2>2. /\ r.id \in 1..Len(rows) /\ r.prior = rows[r.id].supersedes
        /\ Seconded(rows[r.id], m, r.edited) /\ rows[r.id].status = "proposed"
        /\ NoteOK(r.id, rows[r.id]) /\ r.prior < r.id
        /\ r.prior # 0 => rows[r.prior].status = "confirmed"
    BY <1>1, <1>5, <2>1 DEF IInv, FramesOK, StillConfirmable, RowsOK, NoteOK
  <2>12. r.id # r.prior /\ (r.prior # 0 => r.prior \in 1..Len(rows))
    <3> HIDE DEF rows, r
    <3> QED
      BY <1>2, <2>0, <2>2
  <2>3. /\ RowsStep(rows, mid) /\ Len(mid) = Len(rows) /\ mid[r.id] = rows[r.id]
        /\ \A i \in 1..Len(rows) : i # r.prior => mid[i] = rows[i]
        /\ r.prior # 0 => mid[r.prior].status = "retired"
    <3>1. \A i \in 1..Len(rows) : i \in {r.prior} => Live(rows[i])
      <4>1. \A i \in 1..Len(rows) : i = r.prior => i # 0
        OBVIOUS
      <4> HIDE DEF rows, r
      <4> QED
        BY <2>2, <4>1 DEF Live
    <3>2. /\ RowsStep(rows, mid) /\ Len(mid) = Len(rows)
          /\ \A i \in 1..Len(rows) : i \notin {r.prior} => mid[i] = rows[i]
          /\ \A i \in 1..Len(rows) : i \in {r.prior} => mid[i].status = "retired"
      <4>1. "superseded" \in Reasons
        BY DEF Reasons
      <4> HIDE DEF rows, r
      <4> QED
        BY <2>1, <3>1, <4>1, RetireAllRows
    <3> HIDE DEF mid
    <3> QED
      BY <2>2, <2>12, <3>2
  <2> HIDE DEF mid
  <2>4. EntryStep(r.id, mid[r.id], o)
    <3> DEFINE n == rows[r.id]
    <3>1. o = [n EXCEPT !.status = "confirmed", !.confirmedBy = m,
                        !.body = r.body, !.edited = r.edited]
      BY <2>3
    <3>2. /\ n \in Note /\ n.confirmedBy = None /\ n.reconfirmedBy = None
          /\ n.reason = None
      BY <2>2 DEF NoteOK, EntryOK, WellFormed, Live
    <3> HIDE DEF o, n
    <3>3. /\ o \in Note /\ Identity(n, o) /\ o.status = "confirmed"
          /\ o.confirmedBy = m /\ o.reconfirmedBy = None /\ o.edited = r.edited
          /\ o.reason = n.reason
      BY <1>2, <3>1, <3>2 DEF Note, Uids, Identity
    <3>4. None \notin Members
      BY NotesAssumption
    <3>5. o.by \in Members => SecondedOK(o)
      BY <2>2, <3>2, <3>3, <3>4
      DEF SecondedOK, Seconded, is_wide_anchor, Identity, n
    <3>6. NoteOK(r.id, o)
      BY <2>2, <3>2, <3>3, <3>4, <3>5
      DEF NoteOK, EntryOK, WellFormed, Identity, Purpose, Live, n
    <3>7. Kept(n, o)
      BY <2>2, <3>2 DEF Kept, Live, n
    <3> QED
      BY <2>3, <3>3, <3>6, <3>7 DEF EntryStep, n
  <2>5. o.status = "confirmed" /\ o.kind = rows[r.id].kind
    <3>1. mid[r.id] \in Note
      BY <2>2, <2>3 DEF NoteOK, EntryOK
    <3> QED
      BY <2>3, <3>1 DEF Note
  <2> HIDE DEF o
  <2>6. /\ RowsStep(mid, new) /\ Len(new) = Len(rows) /\ new[r.id] = o
        /\ \A j \in 1..Len(rows) : j # r.id => new[j] = mid[j]
    <3>1. RowsOK(mid) /\ r.id \in 1..Len(mid)
      BY <2>2, <2>3 DEF RowsStep
    <3>2. /\ RowsStep(mid, new) /\ Len(new) = Len(mid) /\ new[r.id] = o
          /\ \A j \in 1..Len(mid) : j # r.id => new[j] = mid[j]
      <4>1. /\ new \in Seq(Note) /\ Len(new) = Len(mid)
            /\ \A j \in 1..Len(mid) : new[j] = IF j = r.id THEN o ELSE mid[j]
        <5>1. mid \in Seq(Note) /\ o \in Note
          BY <2>4, <3>1 DEF RowsOK, EntryStep, NoteOK, EntryOK
        <5> QED
          BY <3>1, <5>1, ExceptSeq
      <4> HIDE DEF new
      <4> QED
        BY <2>4, <3>1, <4>1, ChangedEntry
    <3> QED
      BY <2>3, <3>2
  <2>7. notes' = [notes EXCEPT ![p] = new]
    <3>1. Confirmed(rows, m, r) = new
      BY <2>1, <2>3 DEF Confirmed, mid, o
    <3>2. notes' = [notes EXCEPT ![p] = Confirmed(rows, m, r)]
      BY <1>5 DEF Confirm
    <3> QED
      BY <3>1, <3>2
  <2> HIDE DEF new
  <2>8. RowsStep(rows, new)
    BY <2>1, <2>3, <2>6, StepsCompose
  <2>9. LinksOK(new)
    BY <2>1, <2>6, <2>8, LinksKept DEF LinksOK
  <2>10. /\ \A i \in 1..Len(rows) : i # r.id /\ i # r.prior => new[i] = rows[i]
         /\ r.prior # 0 => new[r.prior].status = "retired"
         /\ new[r.id].status = "confirmed" /\ new[r.id].kind = rows[r.id].kind
         /\ \A i \in 1..Len(rows) : new[i].kind = rows[i].kind
                                     /\ new[i].supersedes = rows[i].supersedes
    BY <2>2, <2>3, <2>5, <2>6, <2>8, <2>12 DEF RowsStep, Identity
  <2>11. PurposesOK(new)
    <3>1. \A i \in 1..Len(rows) : Pending(new[i]) => i # r.id /\ Pending(rows[i])
      BY <2>10 DEF Pending, Purpose
    <3>2. CASE Purpose(rows[r.id])
      <4>1. Pending(rows[r.id])
        BY <2>2, <3>2 DEF Pending
      <4>2. \A i \in 1..Len(rows) : ~Pending(new[i])
        BY <2>1, <2>2, <3>1, <4>1 DEF PurposesOK
      <4>3. \A j \in 1..Len(rows) : Current(rows[j]) => j = r.prior
        BY <2>1, <2>2, <4>1 DEF PurposesOK
      <4>4. \A j \in 1..Len(rows) : Current(new[j]) => j = r.id
        <5> SUFFICES ASSUME NEW j \in 1..Len(rows), Current(new[j]), j # r.id
                     PROVE  FALSE
          OBVIOUS
        <5>1. CASE j = r.prior
          <6>1. new[j].status = "retired"
            BY <2>1, <2>10, <5>1
          <6> QED
            BY <6>1 DEF Current
        <5>2. CASE j # r.prior
          BY <2>10, <4>3, <5>2
        <5> QED
          BY <5>1, <5>2
      <4> QED
        BY <2>6, <4>2, <4>4 DEF PurposesOK
    <3>3. CASE ~Purpose(rows[r.id])
      <4>1. ASSUME NEW i \in 1..Len(rows)
            PROVE  /\ Pending(new[i]) => Pending(rows[i])
                   /\ Current(new[i]) => Current(rows[i])
        <5>1. CASE i = r.id
          BY <2>10, <3>3, <5>1 DEF Pending, Current, Purpose
        <5>2. CASE i = r.prior
          <6>1. new[i].status = "retired"
            BY <2>1, <2>10, <5>2
          <6> QED
            BY <6>1 DEF Pending, Current
        <5>3. CASE i # r.id /\ i # r.prior
          BY <2>10, <5>3
        <5> QED
          BY <5>1, <5>2, <5>3
      <4>2. ASSUME Plain(new), NEW i \in 1..Len(rows), Pending(new[i]), new[i].supersedes # 0
            PROVE  Current(new[new[i].supersedes])
        <5> DEFINE k == rows[i].supersedes
        <5>1. Plain(rows)
          BY <2>1, <2>8, <4>2, PlainBefore
        <5>2. k \in 1..Len(rows) /\ Current(rows[k]) /\ new[i].supersedes = k
          BY <2>1, <2>10, <4>1, <4>2, <5>1, RevisesEarlier DEF PurposesOK
        <5>3. k # r.prior
          <6>1. r.prior # 0 => ~Purpose(rows[r.prior])
            BY <2>1, <2>2, <3>3, <5>1 DEF LinksOK
          <6> HIDE DEF k, rows, r
          <6> QED
            BY <5>2, <6>1 DEF Current
        <5>4. k # r.id
          BY <3>3, <5>2 DEF Current
        <5> HIDE DEF k
        <5> QED
          BY <2>10, <5>2, <5>3, <5>4
      <4>3. \A i, j \in 1..Len(rows) :
              /\ Pending(rows[i]) /\ Pending(rows[j]) => i = j
              /\ Current(rows[i]) /\ Current(rows[j]) => i = j
              /\ Pending(rows[i]) /\ Current(rows[j]) => j = rows[i].supersedes
        BY <2>1 DEF PurposesOK
      <4> QED
        BY <2>6, <2>10, <4>1, <4>2, <4>3 DEF PurposesOK
    <3> QED
      BY <3>2, <3>3
  <2>13. VersionsOK(new)
    BY <2>1, <2>2, <2>6, <2>8, <2>10, VersionsConfirmed
  <2> QED
    BY <1>2, <1>3, <2>7, <2>8, <2>9, <2>11, <2>13, WriteKeeps
<1> QED
  BY <1>4, <1>5

(* Where no purpose changes its status or its link, they stay in order.    *)
LEMMA SamePurposes ==
  ASSUME NEW rows, RowsOK(rows), PurposesOK(rows), NEW new, RowsStep(rows, new),
         Len(new) = Len(rows),
         \A i \in 1..Len(rows) : /\ new[i].supersedes = rows[i].supersedes
                                 /\ Pending(new[i]) <=> Pending(rows[i])
                                 /\ Current(new[i]) <=> Current(rows[i])
  PROVE  PurposesOK(new)
<1>1. ASSUME Plain(new), NEW i \in 1..Len(rows), Pending(new[i]), new[i].supersedes # 0
      PROVE  Current(new[new[i].supersedes])
  <2>1. Plain(rows)
    BY <1>1, PlainBefore
  <2>2. rows[i].supersedes \in 1..Len(rows) /\ Current(rows[rows[i].supersedes])
    BY <1>1, <2>1, RevisesEarlier DEF PurposesOK
  <2> QED
    BY <2>2
<1> QED
  BY <1>1 DEF PurposesOK

LEMMA ReconfirmKeeps ==
  ASSUME IInv, NEW m \in Members, Reconfirm(m)
  PROVE  IInv' /\ HistoryStep
<1> DEFINE r == request[m]
           p == r.project
           rows == notes[p]
<1>1. r \in Requests /\ r.op = "reconfirm"
  BY DEF IInv, Reconfirm
<1>2. p \in Projects /\ r.id \in Nat
  BY <1>1 DEF Requests, NoRequest
<1>3. /\ request' \in [Members -> Requests] /\ request'[m] = NoRequest
      /\ \A c \in Members : request'[c] = request[c] \/ request'[c] = NoRequest
  BY DEF IInv, Reconfirm, Requests
<1>4. CASE rows[r.id].status # "confirmed"
  <2>1. UNCHANGED notes
    BY <1>4 DEF Reconfirm
  <2>2. FramesOK(notes, request')
    <3>1. NoRequest.op = "none"
      BY DEF NoRequest
    <3>2. \A c \in Members : request'[c] # request[c] => request'[c].op = "none"
      BY <1>3, <3>1
    <3>3. FramesOK(notes, request)
      BY DEF IInv
    <3> QED
      BY <3>2, <3>3 DEF FramesOK
  <2> QED
    BY <1>3, <2>1, <2>2, ReadKeeps
<1>5. CASE rows[r.id].status = "confirmed"
  <2> DEFINE n == rows[r.id]
             o == [n EXCEPT !.reconfirmedBy = m]
             new == [rows EXCEPT ![r.id] = o]
  <2>1. /\ RowsOK(rows) /\ LinksOK(rows) /\ PurposesOK(rows) /\ VersionsOK(rows)
        /\ rows \in Seq(Note) /\ Len(rows) \in Nat
    BY <1>2 DEF IInv, RowsOK
  <2>2. r.id \in 1..Len(rows) /\ Seconded(n, m, FALSE) /\ NoteOK(r.id, n)
    BY <1>1, <2>1 DEF IInv, FramesOK, RowsOK
  <2>3. notes' = [notes EXCEPT ![p] = new]
    BY <1>5 DEF Reconfirm
  <2>4. n \in Note /\ n.status = "confirmed" /\ n.reason = None
    BY <1>5, <2>2 DEF NoteOK, EntryOK, WellFormed, Live
  <2> HIDE DEF n
  <2>5. /\ o \in Note /\ Identity(n, o) /\ o.status = n.status /\ o.body = n.body
        /\ o.confirmedBy = n.confirmedBy /\ o.reconfirmedBy = m /\ o.edited = n.edited
        /\ o.reason = n.reason
    BY <2>4 DEF Note, Uids, Identity
  <2>6. EntryStep(r.id, n, o)
    <3> HIDE DEF o
    <3>1. o.by \in Members => SecondedOK(o)
      BY <2>2, <2>5 DEF NoteOK, SecondedOK, Seconded, is_wide_anchor, Identity
    <3>2. NoteOK(r.id, o)
      BY <2>2, <2>4, <2>5, <3>1 DEF NoteOK, EntryOK, WellFormed, Identity, Purpose, Live
    <3> QED
      BY <2>4, <2>5, <3>2 DEF EntryStep, Kept, Live
  <2> HIDE DEF o
  <2>7. /\ RowsStep(rows, new) /\ Len(new) = Len(rows) /\ new[r.id] = o
        /\ \A j \in 1..Len(rows) : j # r.id => new[j] = rows[j]
    <3>1. /\ new \in Seq(Note) /\ Len(new) = Len(rows)
          /\ \A j \in 1..Len(rows) : new[j] = IF j = r.id THEN o ELSE rows[j]
      BY <2>1, <2>2, <2>5, ExceptSeq
    <3>2. EntryStep(r.id, rows[r.id], o)
      BY <2>6 DEF n
    <3> HIDE DEF new, rows
    <3>3. RowsStep(rows, new)
      BY <2>1, <2>2, <3>1, <3>2, ChangedEntry
    <3> QED
      BY <2>1, <2>2, <3>1, <3>3
  <2> HIDE DEF new
  <2>8. LinksOK(new)
    BY <2>1, <2>7, LinksKept DEF LinksOK
  <2>9. PurposesOK(new)
    <3>1. \A i \in 1..Len(rows) : /\ new[i].kind = rows[i].kind
                                  /\ new[i].status = rows[i].status
                                  /\ new[i].supersedes = rows[i].supersedes
      BY <2>2, <2>5, <2>7 DEF n, Identity
    <3>2. \A i \in 1..Len(rows) : /\ Pending(new[i]) <=> Pending(rows[i])
                                  /\ Current(new[i]) <=> Current(rows[i])
      BY <3>1 DEF Pending, Current, Purpose
    <3> QED
      BY <2>1, <2>7, <3>1, <3>2, SamePurposes
  <2>10. VersionsOK(new)
    <3>1. \A i \in 1..Len(rows) : new[i].status \in {rows[i].status, "retired"}
      BY <2>2, <2>5, <2>7 DEF n
    <3> QED
      BY <2>1, <2>7, <3>1, VersionsKept
  <2> QED
    BY <1>2, <1>3, <2>3, <2>7, <2>8, <2>9, <2>10, WriteKeeps
<1> QED
  BY <1>4, <1>5

(* Retiring live notes that include, with the confirmed purpose, every     *)
(* pending one leaves the purposes in order.                               *)
LEMMA RetiringKeepsPurposes ==
  ASSUME NEW rows, RowsOK(rows), PurposesOK(rows), NEW ids,
         NEW new, RowsStep(rows, new), Len(new) = Len(rows),
         \A i \in 1..Len(rows) : i \notin ids => new[i] = rows[i],
         \A i \in 1..Len(rows) : i \in ids => new[i].status = "retired",
         \A i, j \in 1..Len(rows) :
           i \in ids /\ Current(rows[i]) /\ Pending(rows[j]) => j \in ids
  PROVE  PurposesOK(new)
<1>1. \A i \in 1..Len(rows) : /\ Pending(new[i]) <=> i \notin ids /\ Pending(rows[i])
                              /\ Current(new[i]) <=> i \notin ids /\ Current(rows[i])
  BY DEF Pending, Current
<1>2. \A i \in 1..Len(rows) : new[i].supersedes = rows[i].supersedes
  BY DEF RowsStep, Identity
<1>3. ASSUME Plain(new), NEW i \in 1..Len(rows), Pending(new[i]), new[i].supersedes # 0
      PROVE  Current(new[new[i].supersedes])
  <2>1. Plain(rows)
    BY <1>3, PlainBefore
  <2>2. rows[i].supersedes \in 1..Len(rows) /\ Current(rows[rows[i].supersedes])
    BY <1>1, <1>2, <1>3, <2>1, RevisesEarlier DEF PurposesOK
  <2> QED
    BY <1>1, <1>2, <1>3, <2>2
<1>4. \A i, j \in 1..Len(rows) :
        /\ Pending(rows[i]) /\ Pending(rows[j]) => i = j
        /\ Current(rows[i]) /\ Current(rows[j]) => i = j
        /\ Pending(rows[i]) /\ Current(rows[j]) => j = rows[i].supersedes
  BY DEF PurposesOK
<1> QED
  BY <1>1, <1>2, <1>3, <1>4 DEF PurposesOK

LEMMA RetireKeeps ==
  ASSUME IInv, NEW p \in Projects, NEW i \in DOMAIN notes[p],
         NEW reason \in {"rejected", "outdated"}, Retire(p, i, reason)
  PROVE  IInv' /\ HistoryStep
<1> DEFINE rows == notes[p]
           mid == RetireAll(rows, PendingRevisions(rows, i), "rejected")
           o == Retired(mid[i], reason)
           new == [mid EXCEPT ![i] = o]
           ids == PendingRevisions(rows, i) \cup {i}
<1>1. /\ RowsOK(rows) /\ LinksOK(rows) /\ PurposesOK(rows) /\ VersionsOK(rows)
      /\ rows \in Seq(Note) /\ Len(rows) \in Nat /\ DOMAIN rows = 1..Len(rows)
  BY DEF IInv, RowsOK
<1>2. /\ notes' = [notes EXCEPT ![p] = new] /\ request' = request
      /\ i \in 1..Len(rows) /\ Live(rows[i])
  BY <1>1 DEF Retire, Live
<1>3. i \notin PendingRevisions(rows, i)
  BY DEF PendingRevisions
<1>4. /\ RowsStep(rows, mid) /\ Len(mid) = Len(rows)
      /\ \A j \in 1..Len(rows) : j \notin PendingRevisions(rows, i) => mid[j] = rows[j]
      /\ \A j \in 1..Len(rows) : j \in PendingRevisions(rows, i) => mid[j].status = "retired"
  <2>1. \A j \in 1..Len(rows) : j \in PendingRevisions(rows, i) => Live(rows[j])
    BY DEF PendingRevisions, Live
  <2> QED
    BY <1>1, <2>1, RetireAllRows DEF Reasons
<1> HIDE DEF mid
<1>5. RowsOK(mid) /\ i \in 1..Len(mid) /\ mid[i] = rows[i]
  BY <1>2, <1>3, <1>4 DEF RowsStep
<1>6. EntryStep(i, mid[i], o) /\ o.status = "retired"
  <2>1. NoteOK(i, mid[i]) /\ Live(mid[i]) /\ reason \in Reasons
    BY <1>2, <1>5 DEF RowsOK, Reasons
  <2> QED
    BY <2>1, RetiredEntry
<1> HIDE DEF o
<1>7. /\ RowsStep(mid, new) /\ Len(new) = Len(mid) /\ new[i] = o
      /\ \A j \in 1..Len(mid) : j # i => new[j] = mid[j]
  <2>1. /\ new \in Seq(Note) /\ Len(new) = Len(mid)
        /\ \A j \in 1..Len(mid) : new[j] = IF j = i THEN o ELSE mid[j]
    <3>1. mid \in Seq(Note) /\ o \in Note
      BY <1>5, <1>6 DEF RowsOK, EntryStep, NoteOK, EntryOK
    <3> QED
      BY <1>5, <3>1, ExceptSeq
  <2> HIDE DEF new
  <2> QED
    BY <1>5, <1>6, <2>1, ChangedEntry
<1> HIDE DEF new
<1>8. RowsStep(rows, new) /\ Len(new) = Len(rows)
  BY <1>1, <1>4, <1>7, StepsCompose
<1>9. LinksOK(new)
  BY <1>1, <1>8, LinksKept DEF LinksOK
<1>10. PurposesOK(new)
  <2>1. \A j \in 1..Len(rows) : j \notin ids => new[j] = rows[j]
    BY <1>4, <1>7
  <2>2. \A j \in 1..Len(rows) : j \in ids => new[j].status = "retired"
    BY <1>4, <1>6, <1>7
  <2>3. \A j, k \in 1..Len(rows) :
          j \in ids /\ Current(rows[j]) /\ Pending(rows[k]) => k \in ids
    <3> SUFFICES ASSUME NEW j \in 1..Len(rows), NEW k \in 1..Len(rows),
                        j \in ids, Current(rows[j]), Pending(rows[k])
                 PROVE  k \in ids
      OBVIOUS
    <3>1. j = i
      BY DEF PendingRevisions, Current
    <3>2. rows[k].supersedes = i
      BY <1>1, <3>1 DEF PurposesOK
    <3> QED
      BY <1>1, <3>1, <3>2 DEF PendingRevisions, Current, Pending
  <2> HIDE DEF ids
  <2> QED
    BY <1>1, <1>8, <2>1, <2>2, <2>3, RetiringKeepsPurposes
<1>11. VersionsOK(new)
  <2>1. \A j \in 1..Len(rows) : new[j].status \in {rows[j].status, "retired"}
    BY <1>4, <1>6, <1>7
  <2> QED
    BY <1>1, <1>8, <2>1, VersionsKept
<1> QED
  BY <1>2, <1>8, <1>9, <1>10, <1>11, WriteKeeps DEF IInv

LEMMA RejectKeeps ==
  ASSUME IInv, NEW p \in Projects, NEW proposer, reject_agent_proposals(p, proposer)
  PROVE  IInv' /\ HistoryStep
<1> DEFINE rows == notes[p]
           ids == {i \in Waiting(rows) : rows[i].by = proposer}
           new == RetireAll(rows, ids, "rejected")
<1>1. RowsOK(rows) /\ LinksOK(rows) /\ PurposesOK(rows) /\ VersionsOK(rows)
  BY DEF IInv
<1>2. notes' = [notes EXCEPT ![p] = new] /\ request' = request
  BY DEF reject_agent_proposals
<1>3. \A i \in 1..Len(rows) : i \in ids => Live(rows[i]) /\ ~Current(rows[i])
  BY DEF Waiting, Waits, Live, Current
<1> HIDE DEF ids
<1>4. /\ RowsStep(rows, new) /\ Len(new) = Len(rows)
      /\ \A i \in 1..Len(rows) : i \notin ids => new[i] = rows[i]
      /\ \A i \in 1..Len(rows) : i \in ids => new[i].status = "retired"
  BY <1>1, <1>3, RetireAllRows DEF Reasons
<1> HIDE DEF new
<1>5. LinksOK(new)
  BY <1>1, <1>4, LinksKept DEF LinksOK
<1>6. PurposesOK(new)
  BY <1>1, <1>3, <1>4, RetiringKeepsPurposes
<1>7. VersionsOK(new)
  <2>1. \A j \in 1..Len(rows) : new[j].status \in {rows[j].status, "retired"}
    BY <1>4
  <2> QED
    BY <1>1, <1>4, <2>1, VersionsKept
<1> QED
  BY <1>2, <1>4, <1>5, <1>6, <1>7, WriteKeeps DEF IInv

LEMMA ReadToConfirmKeeps ==
  ASSUME IInv, NEW m \in Members, NEW p \in Projects, NEW i \in DOMAIN notes[p],
         NEW body \in Bodies, ReadToConfirm(m, p, i, body)
  PROVE  IInv' /\ HistoryStep
<1> DEFINE n == notes[p][i]
           r == [op |-> "confirm", project |-> p, id |-> i, body |-> body,
                 edited |-> (body # n.body), prior |-> n.supersedes]
<1>1. i \in 1..Len(notes[p]) /\ Len(notes[p]) \in Nat /\ n \in Note
  BY DEF IInv, RowsOK, NoteOK
<1>2. n.supersedes \in Nat
  BY <1>1, NotesAssumption DEF Note
<1>3. r \in Requests
  BY <1>1, <1>2 DEF Requests
<1>4. /\ request' = [request EXCEPT ![m] = r] /\ UNCHANGED notes
      /\ Seconded(n, m, body # n.body)
  BY DEF ReadToConfirm
<1>5. request' \in [Members -> Requests]
  BY <1>3, <1>4 DEF IInv
<1>6. FramesOK(notes, request')
  <2>1. FramesOK(notes, request)
    BY DEF IInv
  <2>2. \A c \in Members : request'[c] = IF c = m THEN r ELSE request[c]
    BY <1>4 DEF IInv
  <2> SUFFICES ASSUME NEW c \in Members
               PROVE  LET f == request'[c]
                          rows == notes[f.project]
                      IN  /\ f.op = "confirm" =>
                               /\ f.id \in 1..Len(rows) /\ f.prior = rows[f.id].supersedes
                               /\ Seconded(rows[f.id], c, f.edited)
                          /\ f.op = "reconfirm" =>
                               f.id \in 1..Len(rows) /\ Seconded(rows[f.id], c, FALSE)
    BY DEF FramesOK
  <2>3. CASE c = m
    <3>1. /\ r.op = "confirm" /\ r.project = p /\ r.id = i
          /\ r.prior = n.supersedes /\ (r.edited <=> body # n.body)
      OBVIOUS
    <3>2. request'[c] = r
      BY <2>2, <2>3
    <3> HIDE DEF r
    <3> QED
      BY <1>1, <1>4, <2>3, <3>1, <3>2 DEF Seconded
  <2>4. CASE c # m
    BY <2>1, <2>2, <2>4 DEF FramesOK
  <2> QED
    BY <2>3, <2>4
<1> QED
  BY <1>4, <1>5, <1>6, ReadKeeps

LEMMA ReadToReconfirmKeeps ==
  ASSUME IInv, NEW m \in Members, NEW p \in Projects, NEW i \in DOMAIN notes[p],
         ReadToReconfirm(m, p, i)
  PROVE  IInv' /\ HistoryStep
<1> DEFINE r == [op |-> "reconfirm", project |-> p, id |-> i]
<1>1. i \in 1..Len(notes[p]) /\ Len(notes[p]) \in Nat
  BY DEF IInv
<1>2. r \in Requests
  BY <1>1 DEF Requests
<1>3. /\ request' = [request EXCEPT ![m] = r] /\ UNCHANGED notes
      /\ Seconded(notes[p][i], m, FALSE)
  BY DEF ReadToReconfirm
<1>4. request' \in [Members -> Requests]
  BY <1>2, <1>3 DEF IInv
<1>5. FramesOK(notes, request')
  <2>1. FramesOK(notes, request)
    BY DEF IInv
  <2>2. \A c \in Members : request'[c] = IF c = m THEN r ELSE request[c]
    BY <1>3 DEF IInv
  <2> SUFFICES ASSUME NEW c \in Members
               PROVE  LET f == request'[c]
                          rows == notes[f.project]
                      IN  /\ f.op = "confirm" =>
                               /\ f.id \in 1..Len(rows) /\ f.prior = rows[f.id].supersedes
                               /\ Seconded(rows[f.id], c, f.edited)
                          /\ f.op = "reconfirm" =>
                               f.id \in 1..Len(rows) /\ Seconded(rows[f.id], c, FALSE)
    BY DEF FramesOK
  <2>3. CASE c = m
    <3>1. r.op = "reconfirm" /\ r.project = p /\ r.id = i
      OBVIOUS
    <3>2. request'[c] = r
      BY <2>2, <2>3
    <3> HIDE DEF r
    <3> QED
      BY <1>1, <1>3, <2>3, <3>1, <3>2
  <2>4. CASE c # m
    BY <2>1, <2>2, <2>4 DEF FramesOK
  <2> QED
    BY <2>3, <2>4
<1> QED
  BY <1>3, <1>4, <1>5, ReadKeeps
-----------------------------------------------------------------------------
(* The export *)

LEMMA StrippedUid ==
  ASSUME NEW uid \in Uids \cup {None}
  PROVE  /\ Strip(uid) \in Members \cup {None}
         /\ uid \in Uids => Strip(uid) \in Members
         /\ uid = None => Strip(uid) = None
BY NotesAssumption DEF Strip, Uids

(* A record is its entry, but for its link and the prefixes of its uids.   *)
LEMMA RecordFacts ==
  ASSUME NEW rows, RowsOK(rows), NEW i \in 1..Len(rows)
  PROVE  LET n == rows[i]
             o == Record(rows, i)
         IN  /\ EntryOK(o) /\ o.by \in Members
             /\ {o.confirmedBy, o.reconfirmedBy} \subseteq Members \cup {None}
             /\ o.kind = n.kind /\ o.status = n.status
             /\ o.supersedes = IF n.supersedes \in Carried(rows) /\ n.supersedes < i
                               THEN n.supersedes ELSE 0
<1> DEFINE n == rows[i]
           k == IF n.supersedes \in Carried(rows) /\ n.supersedes < i
                THEN n.supersedes ELSE 0
           o == Record(rows, i)
<1>1. n \in Note /\ WellFormed(n)
  BY DEF RowsOK, NoteOK, EntryOK
<1>2. o = [n EXCEPT !.by = Strip(n.by), !.confirmedBy = Strip(n.confirmedBy),
                    !.reconfirmedBy = Strip(n.reconfirmedBy), !.supersedes = k]
  BY <1>1 DEF Record, Note
<1>3. /\ Strip(n.by) \in Members /\ k \in 0..MaxNotes
      /\ {Strip(n.confirmedBy), Strip(n.reconfirmedBy)} \subseteq Members \cup {None}
      /\ n.confirmedBy = None <=> Strip(n.confirmedBy) = None
      /\ n.reconfirmedBy = None <=> Strip(n.reconfirmedBy) = None
  <2>1. /\ n.by \in Uids /\ {n.confirmedBy, n.reconfirmedBy} \subseteq Uids \cup {None}
        /\ n.supersedes \in 0..MaxNotes
    BY <1>1 DEF Note
  <2>2. k \in 0..MaxNotes
    BY <2>1, NotesAssumption
  <2>3. Members \subseteq Uids /\ None \notin Members
    BY NotesAssumption DEF Uids
  <2> QED
    BY <2>1, <2>2, <2>3, StrippedUid
<1> HIDE DEF k, n, o
<1>4. /\ o \in Note /\ o.kind = n.kind /\ o.anchor = n.anchor /\ o.status = n.status
      /\ o.reason = n.reason /\ o.edited = n.edited /\ o.by = Strip(n.by)
      /\ o.confirmedBy = Strip(n.confirmedBy) /\ o.supersedes = k
      /\ o.reconfirmedBy = Strip(n.reconfirmedBy)
  <2>1. Members \subseteq Uids
    BY DEF Uids
  <2> QED
    BY <1>1, <1>2, <1>3, <2>1 DEF Note
<1>5. WellFormed(o)
  BY <1>1, <1>3, <1>4 DEF WellFormed, Purpose, Live
<1>6. /\ EntryOK(o) /\ o.by \in Members
      /\ {o.confirmedBy, o.reconfirmedBy} \subseteq Members \cup {None}
      /\ o.kind = n.kind /\ o.status = n.status /\ o.supersedes = k
  BY <1>3, <1>4, <1>5 DEF EntryOK
<1> QED
  BY <1>6 DEF k, n, o

LEMMA BundleIsOK ==
  ASSUME NEW rows, RowsOK(rows), LinksOK(rows), PurposesOK(rows)
  PROVE  BundleOK(Bundle(rows))
<1> DEFINE b == Bundle(rows)
<1>1. Len(rows) \in Nat /\ Len(rows) <= MaxNotes /\ DOMAIN rows = 1..Len(rows)
  BY DEF RowsOK
<1>2. DOMAIN b = Carried(rows) /\ \A i \in Carried(rows) : b[i] = Record(rows, i)
  BY DEF Bundle
<1>3. Carried(rows) \subseteq 1..Len(rows) /\ Len(rows) \in 0..MaxNotes
  BY <1>1, NotesAssumption DEF Carried
<1> HIDE DEF b
<1>4. \A i \in DOMAIN b :
        /\ i \in 1..Len(rows) /\ EntryOK(b[i]) /\ b[i].by \in Members
        /\ Purpose(b[i]) <=> Purpose(rows[i])
        /\ Pending(b[i]) <=> Pending(rows[i])
        /\ Current(b[i]) <=> Current(rows[i])
        /\ b[i].supersedes = IF rows[i].supersedes \in Carried(rows) /\ rows[i].supersedes < i
                             THEN rows[i].supersedes ELSE 0
  BY <1>2, <1>3, RecordFacts DEF Purpose, Pending, Current
<1>5. \A i \in 1..Len(rows) : rows[i].supersedes < i
  BY DEF RowsOK, NoteOK
<1>6. ASSUME NEW i \in DOMAIN b, NEW j \in DOMAIN b, Pending(b[i]), Current(b[j])
      PROVE  j = b[i].supersedes
  <2>1. j = rows[i].supersedes
    BY <1>4, <1>6 DEF PurposesOK
  <2> QED
    BY <1>2, <1>4, <1>5, <2>1
<1>7. ASSUME "project" \notin Anchors, NEW i \in DOMAIN b, b[i].supersedes \in DOMAIN b
      PROVE  Purpose(b[i]) <=> Purpose(b[b[i].supersedes])
  <2>1. b[i].supersedes # 0
    BY <1>4, <1>7
  <2>2. b[i].supersedes = rows[i].supersedes
    BY <1>4, <2>1
  <2> QED
    BY <1>4, <1>7, <2>1, <2>2 DEF LinksOK, Plain
<1>8. DOMAIN b \subseteq 1..MaxNotes
  BY <1>2, <1>3, NotesAssumption
<1> QED
  BY <1>4, <1>6, <1>7, <1>8 DEF BundleOK, b

(* A set whose members are all the same has one at most. *)
LEMMA AtMostOne ==
  ASSUME NEW S, \A x, y \in S : x = y
  PROVE  Cardinality(S) <= 1
<1>1. CASE S = {}
  BY <1>1, FS_EmptySet
<1>2. CASE S # {}
  <2>1. PICK x : S = {x}
    BY <1>2
  <2> QED
    BY <2>1, FS_Singleton
<1> QED
  BY <1>1, <1>2

(* No check of an import refuses what a project exports. *)
LEMMA BundleIsAccepted ==
  ASSUME NEW rows, RowsOK(rows), PurposesOK(rows)
  PROVE  Accepted(Bundle(rows))
<1> DEFINE b == Bundle(rows)
<1>1. /\ DOMAIN b \subseteq 1..Len(rows) /\ Len(rows) \in Nat
      /\ DOMAIN b = Carried(rows)
      /\ \A i \in DOMAIN b : b[i] = Record(rows, i)
  <2>1. DOMAIN rows = 1..Len(rows) /\ Len(rows) \in Nat
    BY DEF RowsOK
  <2> QED
    BY <2>1 DEF Bundle, Carried
<1> HIDE DEF b
<1>2. ASSUME NEW i \in DOMAIN b
      PROVE  /\ Fits(b[i]) /\ b[i].supersedes \in {0} \cup (DOMAIN b \cap 1..(i - 1))
             /\ b[i].kind = rows[i].kind /\ b[i].status = rows[i].status
  <2>1. i \in 1..Len(rows)
    BY <1>1
  <2>2. /\ EntryOK(b[i]) /\ b[i].kind = rows[i].kind /\ b[i].status = rows[i].status
        /\ b[i].supersedes = IF rows[i].supersedes \in Carried(rows)
                                  /\ rows[i].supersedes < i
                             THEN rows[i].supersedes ELSE 0
    BY <1>1, <2>1, RecordFacts
  <2>3. {b[i].by, b[i].confirmedBy, b[i].reconfirmedBy} \subseteq Members \cup {None}
    <3>1. /\ b[i].by \in Members
          /\ {b[i].confirmedBy, b[i].reconfirmedBy} \subseteq Members \cup {None}
      BY <1>1, <2>1, RecordFacts
    <3> QED
      BY <3>1
  <2>4. Fits(b[i])
    BY <2>2, <2>3 DEF Fits, EntryOK, WellFormed, Note, Live
  <2>5. b[i].supersedes \in {0} \cup (DOMAIN b \cap 1..(i - 1))
    <3>1. \A k \in 1..Len(rows) : k < i => k \in 1..(i - 1)
      BY <1>1, <2>1
    <3> QED
      BY <1>1, <2>2, <3>1
  <2> QED
    BY <2>2, <2>4, <2>5
<1>3. ASSUME NEW status \in {"proposed", "confirmed"}
      PROVE  Cardinality(LivePurposes(b, status)) <= 1
  <2>1. \A i \in LivePurposes(b, status) :
          /\ i \in 1..Len(rows)
          /\ status = "proposed" => Pending(rows[i])
          /\ status = "confirmed" => Current(rows[i])
    BY <1>1, <1>2 DEF LivePurposes, Pending, Current, Purpose
  <2>2. \A i, j \in LivePurposes(b, status) : i = j
    BY <2>1 DEF PurposesOK
  <2> QED
    BY <2>2, AtMostOne
<1> QED
  BY <1>2, <1>3 DEF Accepted, b

-----------------------------------------------------------------------------
(* The import *)

(* A note wherever it stands: whether its project has room is only known   *)
(* at the end of an import.                                                *)
AnyNote == [kind : Kinds, anchor : {"project", "symbol"}, body : Bodies,
            by : Uids, stamp : Projects \X (0..MaxNotes), supersedes : Nat,
            status : {"proposed", "confirmed", "retired"},
            reason : {None, "rejected", "outdated", "superseded"},
            edited : BOOLEAN, confirmedBy : Uids \cup {None},
            reconfirmedBy : Uids \cup {None}]

Allowed(rows) == \A i \in DOMAIN rows : ~(Purpose(rows[i]) /\ Live(rows[i]))

(* The record that becomes the pending purpose.                            *)
PendingFrom(b, keep, e) ==
  /\ Purpose(b[e])
  /\ \/ b[e].status = "proposed"
     \/ ~keep /\ b[e].status = "confirmed" /\ LivePurposes(b, "proposed") = {}

(* What holds when the records up to i are done: the target's notes are as *)
(* they were, those of the bundle are well formed and in order, and where  *)
(* only purposes are about the whole project a record stands for a note    *)
(* that is a purpose just when it is.                                      *)
DoneOK(rows, b, keep, done, i) ==
  LET all == 1..Len(done.rows)
      new == all \ (1..Len(rows))
  IN  /\ done \in [rows : Seq(AnyNote), at : [DOMAIN b -> Nat]]
      /\ Len(rows) <= Len(done.rows) /\ \A e \in DOMAIN b : done.at[e] <= Len(done.rows)
      /\ \A k \in 1..Len(rows) : done.rows[k] = rows[k]
      /\ \A k \in all : WellFormed(done.rows[k]) /\ done.rows[k].supersedes < k
      /\ \A k \in new : done.rows[k].by \notin Members
      /\ \A k \in new : Pending(done.rows[k]) =>
           \E e \in DOMAIN b : e <= i /\ PendingFrom(b, keep, e)
      /\ \A k \in new : Current(done.rows[k]) =>
           keep /\ \E e \in DOMAIN b : e <= i /\ Current(b[e]) /\ done.at[e] = k
      /\ LinksOK(done.rows) /\ PurposesOK(done.rows) /\ VersionsOK(done.rows)
      /\ "project" \notin Anchors =>
           \A e \in DOMAIN b :
             done.at[e] # 0 => (Purpose(b[e]) <=> Purpose(done.rows[done.at[e]]))

LEMMA NotesAreAny ==
  ASSUME NEW n \in Note
  PROVE  n \in AnyNote
<1>1. 0..MaxNotes \subseteq Nat
  BY NotesAssumption
<1> QED
  BY <1>1 DEF Note, AnyNote

LEMMA FittingNotes ==
  ASSUME NEW n \in AnyNote, n.supersedes \in 0..MaxNotes
  PROVE  n \in Note
BY DEF Note, AnyNote

LEMMA ProposedEntry ==
  ASSUME NEW n \in AnyNote, WellFormed(n), Live(n)
  PROVE  LET o == AsProposed(n)
         IN  /\ o \in AnyNote /\ WellFormed(o) /\ o.status = "proposed"
             /\ o.kind = n.kind /\ o.anchor = n.anchor
             /\ o.by = n.by /\ o.supersedes = n.supersedes
<1> DEFINE o == AsProposed(n)
<1>1. /\ o \in AnyNote /\ o.status = "proposed" /\ o.edited = FALSE
      /\ o.confirmedBy = None /\ o.reconfirmedBy = None
      /\ o.kind = n.kind /\ o.anchor = n.anchor /\ o.reason = n.reason
      /\ o.by = n.by /\ o.supersedes = n.supersedes
  BY DEF AsProposed, AnyNote
<1> HIDE DEF o
<1>2. WellFormed(o)
  BY <1>1 DEF WellFormed, Purpose, Live
<1> QED
  BY <1>1, <1>2 DEF o

(* What is stored of a record is its note, but proposed by somebody who is *)
(* no member here, and waiting if its status is not kept.                  *)
LEMMA StoredRecord ==
  ASSUME NEW n, EntryOK(n), Fits(n), n.by \in Members, NEW keep \in BOOLEAN
  PROVE  LET o == Stored(n, keep)
         IN  /\ o \in AnyNote /\ WellFormed(o) /\ o.by \notin Members
             /\ o.kind = n.kind /\ o.anchor = n.anchor /\ o.supersedes = n.supersedes
             /\ o.status = IF n.status = "confirmed" /\ ~keep THEN "proposed" ELSE n.status
<1> DEFINE i == [n EXCEPT !.by = Prefixed(n.by), !.confirmedBy = Prefixed(n.confirmedBy),
                          !.reconfirmedBy = Prefixed(n.reconfirmedBy)]
<1>1. n \in Note /\ n \in AnyNote /\ WellFormed(n)
  BY NotesAreAny DEF EntryOK
<1>2. /\ Prefixed(n.by) \in Uids /\ Prefixed(n.by) \notin Members
      /\ {Prefixed(n.confirmedBy), Prefixed(n.reconfirmedBy)} \subseteq Uids \cup {None}
      /\ n.confirmedBy = None <=> Prefixed(n.confirmedBy) = None
      /\ n.reconfirmedBy = None <=> Prefixed(n.reconfirmedBy) = None
  <2>1. \A uid \in Members \cup {None} :
          /\ uid \in Members =>
               /\ Prefixed(uid) \in {"imported"} \X Members
               /\ Prefixed(uid) \in Uids
          /\ uid = None => Prefixed(uid) = None
    BY NotesAssumption DEF Prefixed, Uids
  <2>2. n.confirmedBy \in Members \cup {None} /\ n.reconfirmedBy \in Members \cup {None}
    BY DEF Fits
  <2> QED
    BY <2>1, <2>2, NotesAssumption
<1>3. /\ i \in AnyNote /\ i.kind = n.kind /\ i.anchor = n.anchor /\ i.status = n.status
      /\ i.reason = n.reason /\ i.edited = n.edited /\ i.supersedes = n.supersedes
      /\ i.by = Prefixed(n.by) /\ i.confirmedBy = Prefixed(n.confirmedBy)
      /\ i.reconfirmedBy = Prefixed(n.reconfirmedBy)
  BY <1>1, <1>2 DEF AnyNote
<1>4. Stored(n, keep) = IF n.status = "confirmed" /\ ~keep THEN AsProposed(i) ELSE i
  BY <1>1 DEF Stored, AnyNote
<1> HIDE DEF i
<1>5. WellFormed(i)
  BY <1>1, <1>2, <1>3 DEF WellFormed, Purpose, Live
<1>6. CASE n.status = "confirmed" /\ ~keep
  BY <1>2, <1>3, <1>4, <1>5, <1>6, ProposedEntry DEF Live
<1>7. CASE ~(n.status = "confirmed" /\ ~keep)
  BY <1>2, <1>3, <1>4, <1>5, <1>7
<1> QED
  BY <1>6, <1>7

(* A note given its link in the target. *)
LEMMA LinkedEntry ==
  ASSUME NEW n \in AnyNote, WellFormed(n), NEW k \in Nat
  PROVE  LET o == [n EXCEPT !.supersedes = k]
         IN  /\ o \in AnyNote /\ WellFormed(o) /\ o.supersedes = k
             /\ o.kind = n.kind /\ o.status = n.status /\ o.by = n.by
<1> DEFINE o == [n EXCEPT !.supersedes = k]
<1>1. /\ o \in AnyNote /\ o.supersedes = k /\ o.kind = n.kind /\ o.status = n.status
      /\ o.by = n.by /\ o.anchor = n.anchor /\ o.reason = n.reason
      /\ o.edited = n.edited /\ o.confirmedBy = n.confirmedBy
      /\ o.reconfirmedBy = n.reconfirmedBy
  BY DEF AnyNote
<1> HIDE DEF o
<1>2. WellFormed(o)
  BY <1>1 DEF WellFormed, Purpose, Live
<1> QED
  BY <1>1, <1>2 DEF o

LEMMA OnePendingRecord ==
  ASSUME NEW b, BundleOK(b), Accepted(b), NEW keep \in BOOLEAN
  PROVE  /\ \A d, e \in DOMAIN b :
              PendingFrom(b, keep, d) /\ PendingFrom(b, keep, e) => d = e
         /\ \A d, e \in DOMAIN b : Current(b[d]) /\ Current(b[e]) => d = e
<1>1. \A status \in {"proposed", "confirmed"} :
        \A d, e \in LivePurposes(b, status) : d = e
  <2> SUFFICES ASSUME NEW status \in {"proposed", "confirmed"},
                      NEW d \in LivePurposes(b, status), NEW e \in LivePurposes(b, status),
                      d # e
               PROVE  FALSE
    OBVIOUS
  <2> DEFINE S == LivePurposes(b, status)
  <2>1. MaxNotes \in Nat /\ S \subseteq 1..MaxNotes
    BY NotesAssumption DEF BundleOK, LivePurposes
  <2>2. IsFiniteSet(S)
    <3>1. IsFiniteSet(1..MaxNotes)
      BY <2>1, FS_Interval
    <3> QED
      BY <2>1, <3>1, FS_Subset
  <2>3. {d, e} \subseteq S
    OBVIOUS
  <2>4. Cardinality({d, e}) <= Cardinality(S) /\ Cardinality(S) <= 1
    BY <2>2, <2>3, FS_Subset DEF Accepted
  <2>5. IsFiniteSet({e}) /\ Cardinality({e}) = 1
    BY FS_Singleton
  <2>6. Cardinality({e} \cup {d}) = Cardinality({e}) + 1
    BY <2>5, FS_AddElement
  <2>7. {d, e} = {e} \cup {d} /\ Cardinality(S) \in Nat
    BY <2>2, FS_CardinalityType
  <2> HIDE DEF S
  <2> QED
    BY <2>4, <2>5, <2>6, <2>7
<1>2. \A d \in DOMAIN b : PendingFrom(b, keep, d) =>
        \/ d \in LivePurposes(b, "proposed")
        \/ LivePurposes(b, "proposed") = {} /\ d \in LivePurposes(b, "confirmed")
  BY DEF PendingFrom, LivePurposes
<1>3. \A d \in DOMAIN b : Current(b[d]) => d \in LivePurposes(b, "confirmed")
  BY DEF LivePurposes, Current
<1> QED
  BY <1>1, <1>2, <1>3

(* What an import adds for record i. *)
Mapped(b, done, i) == IF b[i].supersedes = 0 THEN 0 ELSE done.at[b[i].supersedes]

Entering(rows, b, keep, done, i, o) ==
  /\ o \in AnyNote /\ WellFormed(o) /\ o.by \notin Members
  /\ Purpose(o) <=> Purpose(b[i])
  /\ Purpose(o) => Allowed(rows)
  /\ o.supersedes \in {0, Mapped(b, done, i)}
  /\ Pending(o) =>
       /\ PendingFrom(b, keep, i)
       /\ o.supersedes = IF ConfirmedAt(done.rows, Mapped(b, done, i))
                         THEN Mapped(b, done, i) ELSE 0
  /\ Current(o) => keep /\ Current(b[i])

LEMMA MappedPlace ==
  ASSUME NEW rows, NEW b, Accepted(b), NEW keep, NEW done, NEW i \in DOMAIN b,
         DoneOK(rows, b, keep, done, i - 1)
  PROVE  Mapped(b, done, i) \in 0..Len(done.rows)
<1>1. /\ done.at \in [DOMAIN b -> Nat] /\ done.rows \in Seq(AnyNote)
      /\ \A e \in DOMAIN b : done.at[e] <= Len(done.rows)
  BY DEF DoneOK
<1>2. b[i].supersedes = 0 \/ b[i].supersedes \in DOMAIN b
  BY DEF Accepted
<1> QED
  BY <1>1, <1>2 DEF Mapped

LEMMA InsertedNote ==
  ASSUME NEW rows, NEW b, BundleOK(b), Accepted(b), NEW keep \in BOOLEAN,
         NEW i \in DOMAIN b, i \notin SkippedPurposes(b, keep, Allowed(rows)),
         NEW done, DoneOK(rows, b, keep, done, i - 1)
  PROVE  LET next == Insert(done, i, Stored(b[i], keep))
         IN  \/ next = done
             \/ \E o : /\ Entering(rows, b, keep, done, i, o)
                       /\ next = [rows |-> Append(done.rows, o),
                                  at |-> [done.at EXCEPT ![i] = Len(done.rows) + 1]]
<1> DEFINE n == Stored(b[i], keep)
           mapped == Mapped(b, done, i)
           unlinked == n.status = "proposed" /\ ~ConfirmedAt(done.rows, mapped)
           k == IF unlinked THEN 0 ELSE mapped
           linked == [n EXCEPT !.supersedes = k]
           second == n.status = "confirmed" /\ ConfirmedAt(done.rows, mapped)
           o == IF second THEN AsProposed(linked) ELSE linked
           next == Insert(done, i, n)
<1>1. /\ n \in AnyNote /\ WellFormed(n) /\ n.by \notin Members
      /\ n.kind = b[i].kind /\ n.supersedes = b[i].supersedes
      /\ n.status = IF b[i].status = "confirmed" /\ ~keep THEN "proposed" ELSE b[i].status
  BY StoredRecord DEF BundleOK, Accepted
<1> HIDE DEF n
<1>2. k \in Nat
  BY MappedPlace
<1>3. next = IF second /\ Purpose(n) THEN done
             ELSE [rows |-> Append(done.rows, o),
                   at |-> [done.at EXCEPT ![i] = Len(done.rows) + 1]]
  BY <1>1 DEF Insert, Mapped
<1> HIDE DEF mapped
<1>4. /\ linked \in AnyNote /\ WellFormed(linked) /\ linked.supersedes = k
      /\ linked.kind = n.kind /\ linked.status = n.status /\ linked.by = n.by
  BY <1>1, <1>2, LinkedEntry
<1> HIDE DEF linked, next
<1>5. CASE second /\ Purpose(n)
  BY <1>3, <1>5 DEF next, n
<1>6. CASE ~(second /\ Purpose(n))
  <2>1. /\ o \in AnyNote /\ WellFormed(o) /\ o.by = n.by /\ o.kind = n.kind
        /\ o.supersedes = k /\ o.status = IF second THEN "proposed" ELSE n.status
    BY <1>4, ProposedEntry DEF Live
  <2> HIDE DEF o
  <2>2. Purpose(o) <=> Purpose(b[i])
    BY <1>1, <2>1 DEF Purpose
  <2>3. Purpose(o) => o.status = n.status
    BY <1>6, <2>1 DEF Purpose
  <2>4. Purpose(o) => Allowed(rows)
    BY <2>2 DEF SkippedPurposes
  <2>5. Pending(o) => PendingFrom(b, keep, i) /\ unlinked = ~ConfirmedAt(done.rows, mapped)
    BY <1>1, <2>2, <2>3 DEF Pending, PendingFrom, SkippedPurposes
  <2>6. Current(o) => keep /\ Current(b[i])
    BY <1>1, <2>2, <2>3 DEF Current
  <2>7. Entering(rows, b, keep, done, i, o)
    BY <1>1, <2>1, <2>2, <2>4, <2>5, <2>6 DEF Entering, mapped
  <2>8. next = [rows |-> Append(done.rows, o),
                at |-> [done.at EXCEPT ![i] = Len(done.rows) + 1]]
    BY <1>3, <1>6
  <2> QED
    BY <2>7, <2>8 DEF next, n
<1> QED
  BY <1>5, <1>6

LEMMA AppendedDone ==
  ASSUME NEW rows, RowsOK(rows), NEW b, BundleOK(b), Accepted(b), NEW keep \in BOOLEAN,
         NEW i \in DOMAIN b, NEW done, DoneOK(rows, b, keep, done, i - 1),
         NEW o, Entering(rows, b, keep, done, i, o), NEW next,
         next = [rows |-> Append(done.rows, o),
                 at |-> [done.at EXCEPT ![i] = Len(done.rows) + 1]]
  PROVE  DoneOK(rows, b, keep, next, i)
<1> DEFINE was == done.rows
           new == next.rows
           L == Len(was)
           R == Len(rows)
           mapped == Mapped(b, done, i)
<1>1. /\ was \in Seq(AnyNote) /\ L \in Nat /\ R \in Nat /\ R <= L /\ i \in Nat
      /\ done.at \in [DOMAIN b -> Nat] /\ \A e \in DOMAIN b : done.at[e] <= L
      /\ o \in AnyNote /\ DOMAIN rows = 1..R
  BY NotesAssumption DEF DoneOK, RowsOK, BundleOK, Entering
<1>2. /\ new = Append(was, o) /\ next.at = [done.at EXCEPT ![i] = L + 1]
  OBVIOUS
<1>3. /\ new \in Seq(AnyNote) /\ Len(new) = L + 1 /\ new[L + 1] = o
      /\ \A k \in 1..L : new[k] = was[k]
  BY <1>1, <1>2
<1>4. /\ next.at \in [DOMAIN b -> Nat] /\ next.at[i] = L + 1
      /\ \A e \in DOMAIN b : e # i => next.at[e] = done.at[e] /\ done.at[e] \in 0..L
  <2>1. next.at[i] = L + 1 /\ \A e \in DOMAIN b : e # i => next.at[e] = done.at[e]
    BY <1>1, <1>2
  <2>2. next.at \in [DOMAIN b -> Nat]
    BY <1>1, <1>2
  <2> QED
    BY <1>1, <2>1, <2>2
<1>5. mapped \in 0..L
  BY MappedPlace
<1>6. /\ \A k \in 1..R : was[k] = rows[k]
      /\ \A k \in 1..L : WellFormed(was[k]) /\ was[k].supersedes \in Nat
                           /\ was[k].supersedes < k
      /\ \A k \in 1..L : k \notin 1..R => was[k].by \notin Members
  <2>1. \A k \in 1..L : was[k] \in AnyNote
    BY <1>1
  <2> QED
    BY <2>1 DEF DoneOK, AnyNote
<1>7. /\ LinksOK(was) /\ PurposesOK(was)
      /\ \A k \in 1..L : k \notin 1..R =>
           /\ Pending(was[k]) => \E e \in DOMAIN b : e <= i - 1 /\ PendingFrom(b, keep, e)
           /\ Current(was[k]) =>
                keep /\ \E e \in DOMAIN b : e <= i - 1 /\ Current(b[e]) /\ done.at[e] = k
      /\ "project" \notin Anchors =>
           \A e \in DOMAIN b : done.at[e] # 0 => (Purpose(b[e]) <=> Purpose(was[done.at[e]]))
  BY DEF DoneOK
<1>8. /\ WellFormed(o) /\ o.by \notin Members /\ (Purpose(o) <=> Purpose(b[i]))
      /\ Purpose(o) => Allowed(rows)
      /\ o.supersedes \in {0, mapped}
      /\ Pending(o) =>
           /\ PendingFrom(b, keep, i)
           /\ o.supersedes = IF ConfirmedAt(was, mapped) THEN mapped ELSE 0
      /\ Current(o) => keep /\ Current(b[i])
  BY DEF Entering
<1>9. \A e \in DOMAIN b : e \in Nat
                          /\ b[e].supersedes \in {0} \cup (DOMAIN b \cap 1..(e - 1))
  BY NotesAssumption DEF Accepted, BundleOK
<1>10. mapped = IF b[i].supersedes = 0 THEN 0 ELSE done.at[b[i].supersedes]
  BY DEF Mapped
<1> HIDE DEF was, new, L, R, mapped
(* An earlier live purpose came with an earlier record. *)
<1>11. ASSUME Purpose(o), NEW k \in 1..L, Pending(was[k]) \/ Current(was[k])
       PROVE  k \notin 1..R
  BY <1>1, <1>6, <1>8, <1>11 DEF Allowed, Pending, Current, Live
<1>12. ~ImportedNothing(new)
  <2>1. L + 1 \in DOMAIN new
    BY <1>1, <1>3
  <2> QED
    BY <1>3, <1>8, <2>1 DEF ImportedNothing
<1>13. Plain(new) => Plain(was) /\ "project" \notin Anchors
  BY <1>12 DEF Plain
<1>14. LinksOK(new)
  <2>0. SUFFICES ASSUME Plain(new), NEW k \in 1..(L + 1), new[k].supersedes # 0
                 PROVE  Purpose(new[k]) <=> Purpose(new[new[k].supersedes])
    BY <1>3 DEF LinksOK
  <2>1. CASE k \in 1..L
    <3>1. new[k] = was[k] /\ was[k].supersedes \in 1..L
      <4>1. /\ new[k] = was[k] /\ was[k].supersedes \in Nat
            /\ was[k].supersedes < k /\ was[k].supersedes # 0
        BY <1>3, <1>6, <2>0, <2>1
      <4> QED
        BY <1>1, <2>1, <4>1
    <3>2. Purpose(was[k]) <=> Purpose(was[was[k].supersedes])
      BY <1>7, <1>13, <2>0, <2>1, <3>1 DEF LinksOK, L
    <3> QED
      BY <1>3, <3>1, <3>2
  <2>2. CASE k = L + 1
    <3> DEFINE s == b[i].supersedes
    <3>1. new[k] = o /\ o.supersedes = mapped /\ mapped \in 1..L
      BY <1>3, <1>5, <1>8, <2>0, <2>2
    <3>2. s \in DOMAIN b /\ mapped = done.at[s]
      BY <1>9, <1>10, <3>1
    <3>3. Purpose(b[s]) <=> Purpose(was[mapped])
      BY <1>7, <1>13, <2>0, <3>1, <3>2
    <3>4. Purpose(b[i]) <=> Purpose(b[s])
      BY <1>13, <2>0, <3>2 DEF BundleOK
    <3> QED
      BY <1>3, <1>8, <3>1, <3>3, <3>4
  <2> QED
    BY <1>1, <2>0, <2>1, <2>2
<1>15. PurposesOK(new)
  <2>1. ASSUME Pending(o), NEW k \in 1..L
        PROVE  ~Pending(was[k])
    <3> SUFFICES ASSUME Pending(was[k]) PROVE FALSE
      OBVIOUS
    <3>1. k \notin 1..R
      BY <1>11, <2>1 DEF Pending
    <3>2. PICK e \in DOMAIN b : e <= i - 1 /\ PendingFrom(b, keep, e)
      BY <1>7, <3>1
    <3>3. e = i
      BY <1>8, <2>1, <3>2, OnePendingRecord
    <3> QED
      BY <1>1, <3>2, <3>3
  <2>2. ASSUME Current(o), NEW k \in 1..L
        PROVE  ~Current(was[k])
    <3> SUFFICES ASSUME Current(was[k]) PROVE FALSE
      OBVIOUS
    <3>1. k \notin 1..R
      BY <1>11, <2>2 DEF Current
    <3>2. PICK e \in DOMAIN b : e <= i - 1 /\ Current(b[e])
      BY <1>7, <3>1
    <3>3. e = i
      BY <1>8, <2>2, <3>2, OnePendingRecord
    <3> QED
      BY <1>1, <3>2, <3>3
  <2>3. ASSUME Pending(o), NEW k \in 1..L, Current(was[k])
        PROVE  k = o.supersedes
    <3>1. k \notin 1..R
      BY <1>11, <2>3 DEF Pending
    <3>2. keep /\ \E e \in DOMAIN b : Current(b[e]) /\ done.at[e] = k
      BY <1>7, <2>3, <3>1
    <3>3. PICK e \in DOMAIN b : Current(b[e]) /\ done.at[e] = k
      BY <3>2
    <3>4. Pending(b[i])
      BY <1>8, <2>3, <3>2 DEF PendingFrom, Pending
    <3>5. e = b[i].supersedes /\ e # 0
      BY <1>9, <3>3, <3>4, NotesAssumption DEF BundleOK
    <3>6. mapped = k /\ k # 0
      BY <1>1, <1>10, <3>3, <3>5
    <3> QED
      BY <1>8, <2>3, <3>6 DEF ConfirmedAt, Current
  <2>4. ASSUME Current(o), NEW k \in 1..L
        PROVE  ~Pending(was[k])
    <3> SUFFICES ASSUME Pending(was[k]) PROVE FALSE
      OBVIOUS
    <3>1. k \notin 1..R
      BY <1>11, <2>4 DEF Current
    <3>2. PICK e \in DOMAIN b : e <= i - 1 /\ PendingFrom(b, keep, e)
      BY <1>7, <3>1
    <3>3. Pending(b[e]) /\ Current(b[i])
      BY <1>8, <2>4, <3>2 DEF PendingFrom, Pending
    <3>4. i = b[e].supersedes
      BY <3>3 DEF BundleOK
    <3>5. i = 0 \/ i \in 1..(e - 1)
      BY <1>9, <3>4
    <3>6. e \in Nat
      BY <1>9
    <3> QED
      BY <1>1, <3>2, <3>5, <3>6
  <2>5. ASSUME Plain(new), NEW k \in 1..(L + 1), Pending(new[k]), new[k].supersedes # 0
        PROVE  Current(new[new[k].supersedes])
    <3>1. CASE k \in 1..L
      <4>1. new[k] = was[k] /\ was[k].supersedes \in 1..L
        BY <1>1, <1>3, <1>6, <2>5, <3>1, SMTT(30)
      <4>2. Current(was[was[k].supersedes])
        BY <1>7, <1>13, <2>5, <3>1, <4>1 DEF PurposesOK, L
      <4> QED
        BY <1>3, <4>1, <4>2
    <3>2. CASE k = L + 1
      <4>1. /\ new[k] = o /\ o.supersedes = mapped /\ mapped \in 1..L
            /\ ConfirmedAt(was, mapped)
        BY <1>3, <1>5, <1>8, <2>5, <3>2
      <4>2. Purpose(new[mapped])
        BY <1>3, <1>14, <2>5, <4>1 DEF LinksOK, Pending
      <4> QED
        BY <1>3, <4>1, <4>2 DEF ConfirmedAt, Current
    <3> QED
      BY <1>1, <2>5, <3>1, <3>2
  <2>6. ~(Pending(o) /\ Current(o))
    BY DEF Pending, Current
  <2>7. \A k, l \in 1..L : /\ Pending(was[k]) /\ Pending(was[l]) => k = l
                           /\ Current(was[k]) /\ Current(was[l]) => k = l
                           /\ Pending(was[k]) /\ Current(was[l]) => l = was[k].supersedes
    BY <1>7 DEF PurposesOK, L
  <2>8. \A k \in 1..(L + 1) : k \in 1..L \/ k = L + 1
    BY <1>1
  <2>9. \A k, l \in 1..(L + 1) :
          /\ Pending(new[k]) /\ Pending(new[l]) => k = l
          /\ Current(new[k]) /\ Current(new[l]) => k = l
          /\ Pending(new[k]) /\ Current(new[l]) => l = new[k].supersedes
    BY <1>3, <2>1, <2>2, <2>3, <2>4, <2>6, <2>7, <2>8
  <2> QED
    BY <1>3, <2>5, <2>9 DEF PurposesOK
<1>16. VersionsOK(new)
  BY <1>12 DEF VersionsOK
<1>17. \A k \in 1..(L + 1) :
         /\ WellFormed(new[k]) /\ new[k].supersedes < k
         /\ k \notin 1..R =>
              /\ new[k].by \notin Members
              /\ Pending(new[k]) => \E e \in DOMAIN b : e <= i /\ PendingFrom(b, keep, e)
              /\ Current(new[k]) =>
                   keep /\ \E e \in DOMAIN b : e <= i /\ Current(b[e]) /\ next.at[e] = k
  <2> SUFFICES ASSUME NEW k \in 1..(L + 1)
               PROVE  /\ WellFormed(new[k]) /\ new[k].supersedes < k
                      /\ k \notin 1..R =>
                           /\ new[k].by \notin Members
                           /\ Pending(new[k]) =>
                                \E e \in DOMAIN b : e <= i /\ PendingFrom(b, keep, e)
                           /\ Current(new[k]) =>
                                keep /\ \E e \in DOMAIN b :
                                          e <= i /\ Current(b[e]) /\ next.at[e] = k
    OBVIOUS
  <2>1. CASE k \in 1..L
    <3>1. new[k] = was[k] /\ WellFormed(was[k]) /\ was[k].supersedes < k
            /\ (k \notin 1..R => was[k].by \notin Members)
      BY <1>3, <1>6, <2>1
    <3>2. \A e \in DOMAIN b : e <= i - 1 => e <= i /\ e # i
      <4>1. \A e \in Nat : e <= i - 1 => e <= i /\ e # i
        BY <1>1
      <4> QED
        BY <1>9, <4>1
    <3>3. \A e \in DOMAIN b : e <= i - 1 => next.at[e] = done.at[e]
      BY <1>4, <3>2
    <3> QED
      BY <1>7, <2>1, <3>1, <3>2, <3>3
  <2>2. CASE k = L + 1
    <3>1. new[k] = o /\ o.supersedes < k /\ i <= i
      BY <1>1, <1>3, <1>5, <1>8, <2>2
    <3> QED
      BY <1>4, <1>8, <2>2, <3>1
  <2> QED
    BY <1>1, <2>1, <2>2
<1>18. \A k \in 1..R : new[k] = rows[k]
  <2>1. \A k \in 1..R : k \in 1..L
    BY <1>1
  <2> QED
    BY <1>3, <1>6, <2>1
<1>19. ASSUME "project" \notin Anchors, NEW e \in DOMAIN b, next.at[e] # 0
       PROVE  Purpose(b[e]) <=> Purpose(new[next.at[e]])
  <2>1. CASE e = i
    BY <1>3, <1>4, <1>8, <2>1
  <2>2. CASE e # i
    <3>1. next.at[e] = done.at[e] /\ done.at[e] \in 1..L
      BY <1>1, <1>4, <1>19, <2>2
    <3> QED
      BY <1>3, <1>7, <1>19, <3>1
  <2> QED
    BY <2>1, <2>2
<1>20. /\ R <= Len(new) /\ \A e \in DOMAIN b : next.at[e] <= Len(new)
       /\ next \in [rows : Seq(AnyNote), at : [DOMAIN b -> Nat]]
  <2>1. R <= Len(new) /\ \A e \in DOMAIN b : next.at[e] <= Len(new)
    BY <1>1, <1>3, <1>4
  <2>2. next \in [rows : Seq(AnyNote), at : [DOMAIN b -> Nat]]
    BY <1>3, <1>4 DEF new
  <2> QED
    BY <2>1, <2>2
<1> QED
  BY <1>3, <1>4, <1>14, <1>15, <1>16, <1>17, <1>18, <1>19, <1>20 DEF DoneOK, new, R

(* A record that is skipped, or stands for what is there already. *)
LEMMA SameRowsDone ==
  ASSUME NEW rows, NEW b, BundleOK(b), NEW keep, NEW i \in Nat,
         NEW done, DoneOK(rows, b, keep, done, i - 1),
         NEW next, next \in [rows : Seq(AnyNote), at : [DOMAIN b -> Nat]],
         next.rows = done.rows,
         \A e \in DOMAIN b :
           next.at[e] = done.at[e]
           \/ /\ e = i /\ next.at[e] \in 1..Len(done.rows)
              /\ "project" \notin Anchors =>
                   (Purpose(b[e]) <=> Purpose(done.rows[next.at[e]]))
  PROVE  DoneOK(rows, b, keep, next, i)
<1>1. \A e \in DOMAIN b : e \in Nat
  BY NotesAssumption DEF BundleOK
<1>2. \A e \in DOMAIN b : e <= i - 1 => e <= i /\ next.at[e] = done.at[e]
  <2> SUFFICES ASSUME NEW e \in DOMAIN b, e <= i - 1 PROVE e <= i /\ next.at[e] = done.at[e]
    OBVIOUS
  <2>1. e <= i /\ e # i
    BY <1>1
  <2> QED
    BY <2>1
<1>3. \A e \in DOMAIN b :
        /\ next.at[e] <= Len(done.rows)
        /\ "project" \notin Anchors /\ next.at[e] # 0 =>
             (Purpose(b[e]) <=> Purpose(done.rows[next.at[e]]))
  <2>1. \A e \in DOMAIN b :
          /\ done.at[e] <= Len(done.rows)
          /\ "project" \notin Anchors /\ done.at[e] # 0 =>
               (Purpose(b[e]) <=> Purpose(done.rows[done.at[e]]))
    BY DEF DoneOK
  <2> QED
    BY <2>1
<1>4. /\ \A k \in (1..Len(done.rows)) \ (1..Len(rows)) :
           /\ Pending(done.rows[k]) =>
                \E e \in DOMAIN b : e <= i - 1 /\ PendingFrom(b, keep, e)
           /\ Current(done.rows[k]) =>
                keep /\ \E e \in DOMAIN b : e <= i - 1 /\ Current(b[e]) /\ done.at[e] = k
  BY DEF DoneOK
<1>5. /\ \A k \in (1..Len(done.rows)) \ (1..Len(rows)) :
           /\ Pending(done.rows[k]) =>
                \E e \in DOMAIN b : e <= i /\ PendingFrom(b, keep, e)
           /\ Current(done.rows[k]) =>
                keep /\ \E e \in DOMAIN b : e <= i /\ Current(b[e]) /\ next.at[e] = k
  BY <1>2, <1>4
<1> QED
  BY <1>3, <1>5 DEF DoneOK

LEMMA Least ==
  ASSUME NEW S, S \subseteq Nat, S # {}
  PROVE  \E m \in S : \A n \in S : m <= n
<1> DEFINE R == OpToRel(<, Nat)
<1>1. IsWellFoundedOn(R, Nat)
  BY NatLessThanWellFounded, Zenon
<1>2. R = {ss \in Nat \X Nat : ss[1] < ss[2]}
  BY Zenon DEF OpToRel
<1> HIDE DEF R
<1>3. PICK m \in S : \A n \in S : ~ (<<n, m>> \in R)
  BY <1>1, WFMin, Zenon
<1>4. ASSUME NEW n \in S PROVE m <= n
  <2>1. <<n, m>> \notin R
    BY <1>3
  <2> QED BY <1>2, <2>1
<1> QED BY <1>3, <1>4

(* The note found for a record is a purpose just when the record is, where *)
(* no other note is about the whole project; a retired record is only      *)
(* found by its provenance.                                                *)
LEMMA FoundNote ==
  ASSUME NEW rows \in Seq(AnyNote), \A k \in 1..Len(rows) : WellFormed(rows[k]),
         NEW n, WellFormed(n), NEW found, found = Matches(rows, n), found # {}
  PROVE  /\ Min(found) \in 1..Len(rows)
         /\ "project" \notin Anchors => (Purpose(n) <=> Purpose(rows[Min(found)]))
         /\ ~Live(n) => rows[Min(found)].kind = n.kind
<1>1. DOMAIN rows = 1..Len(rows)
  OBVIOUS
<1>2. found \subseteq 1..Len(rows)
  BY <1>1 DEF Matches
<1>3. found \subseteq Nat
  BY <1>2
<1>4. \E m \in found : \A k \in found : m <= k
  BY <1>3, Least
<1>5. Min(found) \in found
  BY <1>4 DEF Min
<1>6. rows[Min(found)].anchor = n.anchor \/ rows[Min(found)].kind = n.kind
  BY <1>5 DEF Matches, SameProvenance, Alike
<1>7. WellFormed(rows[Min(found)])
  BY <1>2, <1>5
<1>8. "project" \notin Anchors => (Purpose(n) <=> Purpose(rows[Min(found)]))
  BY <1>6, <1>7 DEF WellFormed, Purpose
<1>9. ~Live(n) => rows[Min(found)].kind = n.kind
  BY <1>5 DEF Matches, SameProvenance
<1> QED
  BY <1>2, <1>5, <1>8, <1>9

LEMMA RecordDone ==
  ASSUME NEW rows, RowsOK(rows), NEW b, BundleOK(b), Accepted(b), NEW keep \in BOOLEAN,
         NEW i \in DOMAIN b, i \notin SkippedPurposes(b, keep, Allowed(rows)),
         NEW done, DoneOK(rows, b, keep, done, i - 1)
  PROVE  DoneOK(rows, b, keep, ImportRecord(done, i, Stored(b[i], keep)), i)
<1> DEFINE n == Stored(b[i], keep)
           found == Matches(done.rows, n)
           next == ImportRecord(done, i, n)
<1>1. done \in [rows : Seq(AnyNote), at : [DOMAIN b -> Nat]] /\ i \in Nat
  BY NotesAssumption DEF DoneOK, BundleOK
<1>2. WellFormed(n) /\ n.kind = b[i].kind
  BY StoredRecord DEF BundleOK, Accepted
<1>3. next = IF found = {} THEN Insert(done, i, n) ELSE [done EXCEPT !.at[i] = Min(found)]
  BY DEF ImportRecord
<1>4. CASE found = {}
  <2>1. next = Insert(done, i, n)
    BY <1>3, <1>4
  <2>2. CASE next = done
    <3> HIDE DEF next
    <3>1. DoneOK(rows, b, keep, done, i)
      BY <1>1, SameRowsDone
    <3> QED
      BY <2>2, <3>1 DEF next
  <2>3. CASE \E o : /\ Entering(rows, b, keep, done, i, o)
                    /\ next = [rows |-> Append(done.rows, o),
                               at |-> [done.at EXCEPT ![i] = Len(done.rows) + 1]]
    BY <2>3, AppendedDone
  <2> QED
    BY <2>1, <2>2, <2>3, InsertedNote
<1>5. CASE found # {}
  <2> DEFINE k == Min(found)
  <2>1. \A j \in 1..Len(done.rows) : WellFormed(done.rows[j])
    BY DEF DoneOK
  <2>2. /\ k \in 1..Len(done.rows)
        /\ "project" \notin Anchors => (Purpose(n) <=> Purpose(done.rows[k]))
    BY <1>1, <1>2, <1>5, <2>1, FoundNote
  <2>3. next = [done EXCEPT !.at = [done.at EXCEPT ![i] = k]]
    BY <1>1, <1>3, <1>5
  <2> HIDE DEF k, next
  <2>4. /\ next \in [rows : Seq(AnyNote), at : [DOMAIN b -> Nat]]
        /\ next.rows = done.rows /\ next.at = [done.at EXCEPT ![i] = k]
    <3>1. k \in Nat
      BY <2>2
    <3>2. [done.at EXCEPT ![i] = k] \in [DOMAIN b -> Nat]
      BY <1>1, <3>1
    <3> QED
      BY <1>1, <2>3, <3>2
  <2>5. \A e \in DOMAIN b : next.at[e] = IF e = i THEN k ELSE done.at[e]
    BY <1>1, <2>4
  <2>6. Purpose(n) <=> Purpose(b[i])
    BY <1>2 DEF Purpose
  <2>7. \A e \in DOMAIN b :
          next.at[e] = done.at[e]
          \/ /\ e = i /\ next.at[e] \in 1..Len(done.rows)
             /\ "project" \notin Anchors =>
                  (Purpose(b[e]) <=> Purpose(done.rows[next.at[e]]))
    BY <2>2, <2>5, <2>6
  <2>8. DoneOK(rows, b, keep, next, i)
    BY <1>1, <2>4, <2>7, SameRowsDone
  <2> QED
    BY <2>8 DEF next
<1> QED
  BY <1>4, <1>5

(* An import's records up to m, done one after the other. *)
StartOf(rows, b) == [rows |-> rows, at |-> [j \in DOMAIN b |-> 0]]

Taken(b, keep, allowed) == DOMAIN b \ SkippedPurposes(b, keep, allowed)

NextOf(b, keep, allowed, done, i) ==
  IF i \in Taken(b, keep, allowed) THEN ImportRecord(done, i, Stored(b[i], keep)) ELSE done

DoneUpTo(rows, b, keep, allowed, m, g) ==
  g = [i \in 0..m |-> IF i = 0 THEN StartOf(rows, b) ELSE NextOf(b, keep, allowed, g[i-1], i)]

LEMMA DoneExists ==
  ASSUME NEW rows, NEW b, NEW keep, NEW allowed, NEW N \in Nat
  PROVE  \E g : DoneUpTo(rows, b, keep, allowed, N, g)
<1> DEFINE Bad == {m \in 0..N : ~\E g : DoneUpTo(rows, b, keep, allowed, m, g)}
<1>1. ASSUME Bad # {} PROVE FALSE
  <2>1. PICK m \in Bad : \A n \in Bad : m <= n
    <3>1. Bad \subseteq Nat
      OBVIOUS
    <3> HIDE DEF Bad
    <3> QED
      BY <1>1, <3>1, Least
  <2>2. m \in 0..N /\ ~\E g : DoneUpTo(rows, b, keep, allowed, m, g)
    OBVIOUS
  <2>3. CASE m = 0
    <3> DEFINE g == [i \in 0..0 |-> StartOf(rows, b)]
    <3>1. DoneUpTo(rows, b, keep, allowed, 0, g)
      BY DEF DoneUpTo
    <3> QED
      BY <2>2, <2>3, <3>1
  <2>4. CASE m > 0
    <3>1. \E g : DoneUpTo(rows, b, keep, allowed, m - 1, g)
      <4>1. m - 1 \in 0..N /\ ~(m <= m - 1)
        BY <2>2, <2>4
      <4> QED
        BY <2>1, <4>1
    <3>2. PICK g : DoneUpTo(rows, b, keep, allowed, m - 1, g)
      BY <3>1
    <3> DEFINE h == [i \in 0..m |-> IF i < m THEN g[i] ELSE NextOf(b, keep, allowed, g[m-1], m)]
               k == [i \in 0..m |-> IF i = 0 THEN StartOf(rows, b)
                                    ELSE NextOf(b, keep, allowed, h[i-1], i)]
    <3>3. ASSUME NEW i \in 0..m PROVE h[i] = k[i]
      <4>1. CASE i = 0
        <5>1. g[0] = StartOf(rows, b)
          BY <2>2, <2>4, <3>2 DEF DoneUpTo
        <5> QED
          BY <2>2, <2>4, <4>1, <5>1
      <4>2. CASE i \in 1..m
        <5>1. h[i-1] = g[i-1]
          BY <2>2, <4>2
        <5>2. k[i] = NextOf(b, keep, allowed, g[i-1], i)
          BY <4>2, <5>1
        <5>3. CASE i = m
          BY <5>2, <5>3
        <5>4. CASE i < m
          <6>1. i \in 0..(m - 1) /\ i # 0
            BY <2>2, <4>2, <5>4
          <6>2. g[i] = NextOf(b, keep, allowed, g[i-1], i)
            BY <3>2, <6>1 DEF DoneUpTo
          <6>3. h[i] = g[i]
            BY <4>2, <5>4
          <6> HIDE DEF h, k
          <6> QED
            BY <5>2, <6>2, <6>3
        <5> QED
          BY <2>2, <4>2, <5>3, <5>4
      <4> QED
        BY <2>2, <4>1, <4>2
    <3>4. h = k
      <4>1. h = [i \in 0..m |-> h[i]] /\ k = [i \in 0..m |-> k[i]]
        OBVIOUS
      <4> HIDE DEF h, k
      <4> QED
        BY <3>3, <4>1
    <3>5. DoneUpTo(rows, b, keep, allowed, m, h)
      <4> HIDE DEF h
      <4> QED
        BY <3>4 DEF DoneUpTo
    <3> QED
      BY <2>2, <3>5
  <2> QED
    BY <2>2, <2>3, <2>4
<1> QED
  BY <1>1

LEMMA ImportedSteps ==
  ASSUME NEW rows, NEW b, NEW keep, NEW allowed,
         NEW done, done = Imported(rows, b, keep, allowed),
         NEW i \in 0..MaxNotes
  PROVE  done[i] = IF i = 0 THEN StartOf(rows, b)
                   ELSE NextOf(b, keep, allowed, done[i-1], i)
<1>1. done = CHOOSE g :
        g = [k \in 0..MaxNotes |->
               IF k = 0 THEN [rows |-> rows, at |-> [j \in DOMAIN b |-> 0]]
               ELSE IF k \in Taken(b, keep, allowed)
                    THEN ImportRecord(g[k-1], k, Stored(b[k], keep))
               ELSE g[k-1]]
  BY DEF Imported, Taken
<1>2. \E g : DoneUpTo(rows, b, keep, allowed, MaxNotes, g)
  BY NotesAssumption, DoneExists
<1>3. done = [k \in 0..MaxNotes |->
               IF k = 0 THEN [rows |-> rows, at |-> [j \in DOMAIN b |-> 0]]
               ELSE IF k \in Taken(b, keep, allowed)
                    THEN ImportRecord(done[k-1], k, Stored(b[k], keep))
               ELSE done[k-1]]
  BY <1>1, <1>2 DEF DoneUpTo, StartOf, NextOf
<1>4. done[i] = IF i = 0 THEN [rows |-> rows, at |-> [j \in DOMAIN b |-> 0]]
                ELSE IF i \in Taken(b, keep, allowed)
                     THEN ImportRecord(done[i-1], i, Stored(b[i], keep))
                ELSE done[i-1]
  BY <1>3
<1> QED
  BY <1>4 DEF StartOf, NextOf

LEMMA StartDone ==
  ASSUME NEW rows, RowsOK(rows), LinksOK(rows), PurposesOK(rows), VersionsOK(rows),
         NEW b, NEW keep
  PROVE  DoneOK(rows, b, keep, StartOf(rows, b), 0)
<1> DEFINE done == StartOf(rows, b)
<1>1. done.rows = rows /\ done.at = [j \in DOMAIN b |-> 0]
  BY DEF StartOf
<1>2. rows \in Seq(Note) /\ Len(rows) \in Nat
  BY DEF RowsOK
<1>3. rows \in Seq(AnyNote)
  BY <1>2, NotesAreAny
<1>4. done \in [rows : Seq(AnyNote), at : [DOMAIN b -> Nat]]
  BY <1>3 DEF StartOf
<1> HIDE DEF done
<1>5. \A k \in 1..Len(rows) : WellFormed(rows[k]) /\ rows[k].supersedes < k
  BY DEF RowsOK, NoteOK, EntryOK
<1> QED
  BY <1>1, <1>2, <1>4, <1>5 DEF DoneOK, done

LEMMA ImportedIsOK ==
  ASSUME NEW rows, RowsOK(rows), LinksOK(rows), PurposesOK(rows), VersionsOK(rows),
         NEW b, BundleOK(b), Accepted(b), NEW keep \in BOOLEAN
  PROVE  \A i \in 0..MaxNotes :
           DoneOK(rows, b, keep, Imported(rows, b, keep, Allowed(rows))[i], i)
<1> DEFINE allowed == Allowed(rows)
           done == Imported(rows, b, keep, allowed)
           Bad == {i \in 0..MaxNotes : ~DoneOK(rows, b, keep, done[i], i)}
<1>1. ASSUME NEW i \in 0..MaxNotes
      PROVE  done[i] = IF i = 0 THEN StartOf(rows, b)
                       ELSE NextOf(b, keep, allowed, done[i-1], i)
  <2> HIDE DEF allowed
  <2> QED
    BY ImportedSteps
<1> HIDE DEF done
<1>2. ASSUME Bad # {} PROVE FALSE
  <2>1. PICK i \in Bad : \A j \in Bad : i <= j
    <3>1. Bad \subseteq Nat
      OBVIOUS
    <3> HIDE DEF Bad
    <3> QED
      BY <1>2, <3>1, Least
  <2>2. i \in 0..MaxNotes /\ ~DoneOK(rows, b, keep, done[i], i)
    OBVIOUS
  <2>3. i # 0
    BY <1>1, <2>2, StartDone
  <2>4. DoneOK(rows, b, keep, done[i-1], i - 1)
    <3>1. i - 1 \in 0..MaxNotes /\ ~(i <= i - 1)
      BY <2>2, <2>3, NotesAssumption
    <3> QED
      BY <2>1, <3>1
  <2>5. done[i] = NextOf(b, keep, allowed, done[i-1], i)
    BY <1>1, <2>2, <2>3, NotesAssumption
  <2>6. CASE i \in Taken(b, keep, allowed)
    <3>1. DoneOK(rows, b, keep, ImportRecord(done[i-1], i, Stored(b[i], keep)), i)
      BY <2>4, <2>6, RecordDone DEF Taken
    <3> QED
      BY <2>2, <2>5, <2>6, <3>1 DEF NextOf
  <2>7. CASE i \notin Taken(b, keep, allowed)
    <3>1. done[i] = done[i-1] /\ i \in Nat
      BY <2>2, <2>5, <2>7 DEF NextOf
    <3>2. done[i] \in [rows : Seq(AnyNote), at : [DOMAIN b -> Nat]]
      BY <2>4, <3>1 DEF DoneOK
    <3>3. DoneOK(rows, b, keep, done[i], i)
      BY <2>4, <3>1, <3>2, SameRowsDone
    <3> QED
      BY <2>2, <3>3
  <2> QED
    BY <2>6, <2>7
<1> QED
  BY <1>2 DEF done

(* What an import gives when there is room for it. *)
LEMMA ImportedRows ==
  ASSUME NEW rows, RowsOK(rows), LinksOK(rows), PurposesOK(rows), VersionsOK(rows),
         NEW b, BundleOK(b), Accepted(b), NEW keep \in BOOLEAN,
         NEW new, new = import_notes(rows, b, keep), Len(new) <= MaxNotes
  PROVE  RowsStep(rows, new) /\ LinksOK(new) /\ PurposesOK(new) /\ VersionsOK(new)
<1> DEFINE done == Imported(rows, b, keep, Allowed(rows))[MaxNotes]
<1>1. new = done.rows
  BY DEF import_notes, Allowed
<1>2. DoneOK(rows, b, keep, done, MaxNotes)
  BY ImportedIsOK, NotesAssumption
<1> HIDE DEF done
<1>3. /\ new \in Seq(AnyNote) /\ Len(rows) <= Len(new)
      /\ \A k \in 1..Len(rows) : new[k] = rows[k]
      /\ \A k \in 1..Len(new) : /\ WellFormed(new[k]) /\ new[k].supersedes < k
                                /\ k \notin 1..Len(rows) => new[k].by \notin Members
      /\ LinksOK(new) /\ PurposesOK(new) /\ VersionsOK(new)
  BY <1>1, <1>2 DEF DoneOK
<1>4. \A k \in 1..Len(new) : NoteOK(k, new[k])
  <2> SUFFICES ASSUME NEW k \in 1..Len(new) PROVE NoteOK(k, new[k])
    OBVIOUS
  <2>0. new[k] \in AnyNote /\ Len(new) \in Nat
    BY <1>3
  <2>1. new[k] \in AnyNote /\ new[k].supersedes \in Nat /\ Len(new) \in Nat
    BY <2>0 DEF AnyNote
  <2>2. new[k].supersedes \in 0..MaxNotes
    BY <1>3, <2>1, NotesAssumption
  <2>3. new[k] \in Note
    BY <2>1, <2>2, FittingNotes
  <2>4. k \in 1..Len(rows) => SecondedOK(new[k]) \/ new[k].by \notin Members
    BY <1>3 DEF RowsOK, NoteOK
  <2> QED
    BY <1>3, <2>3, <2>4 DEF NoteOK, EntryOK
<1>5. RowsStep(rows, new)
  <2>1. new \in Seq(Note)
    BY <1>3, <1>4 DEF NoteOK, EntryOK
  <2> QED
    BY <1>3, <1>4, <2>1 DEF RowsStep, RowsOK, Identity, Kept
<1> QED
  BY <1>3, <1>5

LEMMA ImportKeeps ==
  ASSUME TransferInv, NEW q \in Projects, NEW keep \in BOOLEAN, Import(q, keep)
  PROVE  TransferInv' /\ HistoryStep
<1> DEFINE rows == notes[q]
           new == import_notes(rows, bundle, keep)
<1>1. /\ RowsOK(rows) /\ LinksOK(rows) /\ PurposesOK(rows) /\ VersionsOK(rows)
      /\ BundleOK(bundle) /\ Accepted(bundle)
  BY DEF TransferInv, IInv, Import
<1>2. /\ Len(new) <= MaxNotes /\ notes' = [notes EXCEPT ![q] = new]
      /\ request' = request /\ bundle' = bundle
  BY DEF Import
<1>3. RowsStep(rows, new) /\ LinksOK(new) /\ PurposesOK(new) /\ VersionsOK(new)
  <2> HIDE DEF new
  <2>1. new = import_notes(rows, bundle, keep)
    BY DEF new
  <2> QED
    BY <1>1, <1>2, <2>1, ImportedRows
<1> HIDE DEF new
<1> QED
  BY <1>1, <1>2, <1>3, WriteKeeps DEF TransferInv, IInv

LEMMA ExportKeeps ==
  ASSUME TransferInv, NEW p \in Projects, Export(p)
  PROVE  TransferInv' /\ HistoryStep
<1>1. bundle' = Bundle(notes[p]) /\ notes' = notes /\ request' = request
  BY DEF Export, vars
<1>2. BundleOK(Bundle(notes[p])) /\ Accepted(Bundle(notes[p]))
  BY BundleIsOK, BundleIsAccepted DEF TransferInv, IInv
<1> QED
  BY <1>1, <1>2, ReadKeeps DEF TransferInv, IInv

-----------------------------------------------------------------------------
(* A bundle again, and a round trip *)

SameNote(o, n) ==
  o.kind = n.kind /\ o.anchor = n.anchor /\ o.body = n.body /\ o.stamp = n.stamp

(* Neither an export nor an import changes what provenance compares.       *)
LEMMA RecordIsSame ==
  ASSUME NEW rows, RowsOK(rows), NEW i \in 1..Len(rows)
  PROVE  SameNote(Record(rows, i), rows[i])
<1>1. rows[i] \in Note
  BY DEF RowsOK, NoteOK, EntryOK
<1> QED
  BY <1>1 DEF Record, SameNote, Note

LEMMA StoredIsSame ==
  ASSUME NEW n \in Note, NEW keep \in BOOLEAN
  PROVE  SameNote(Stored(n, keep), n)
<1> DEFINE i == [n EXCEPT !.by = Prefixed(n.by), !.confirmedBy = Prefixed(n.confirmedBy),
                          !.reconfirmedBy = Prefixed(n.reconfirmedBy)]
           o == AsProposed(i)
<1>1. SameNote(i, n)
  BY DEF SameNote, Note
<1>2. SameNote(o, n)
  BY DEF AsProposed, SameNote, Note
<1>3. Stored(n, keep) = IF n.status = "confirmed" /\ ~keep THEN o ELSE i
  BY DEF Stored, Note
<1> HIDE DEF i, o
<1> QED
  BY <1>1, <1>2, <1>3

(* An import that finds every record it takes leaves the notes alone.      *)
LEMMA NothingIsAdded ==
  ASSUME NEW rows, NEW b, NEW keep,
         \A i \in Taken(b, keep, Allowed(rows)) : Matches(rows, Stored(b[i], keep)) # {}
  PROVE  import_notes(rows, b, keep) = rows
<1> DEFINE allowed == Allowed(rows)
           done == Imported(rows, b, keep, allowed)
           Same(d) == \E at : d = [rows |-> rows, at |-> at]
           Bad == {i \in 0..MaxNotes : ~Same(done[i])}
<1>1. ASSUME NEW i \in 0..MaxNotes
      PROVE  done[i] = IF i = 0 THEN StartOf(rows, b)
                       ELSE NextOf(b, keep, allowed, done[i-1], i)
  <2> HIDE DEF allowed
  <2> QED
    BY ImportedSteps
<1>2. import_notes(rows, b, keep) = done[MaxNotes].rows
  BY DEF import_notes, Allowed
<1> HIDE DEF done
<1>3. ASSUME Bad # {} PROVE FALSE
  <2>1. PICK i \in Bad : \A j \in Bad : i <= j
    <3>1. Bad \subseteq Nat
      OBVIOUS
    <3> HIDE DEF Bad
    <3> QED
      BY <1>3, <3>1, Least
  <2>2. i \in 0..MaxNotes /\ ~Same(done[i])
    OBVIOUS
  <2>3. i # 0
    BY <1>1, <2>2 DEF StartOf
  <2>4. Same(done[i-1])
    <3>1. i - 1 \in 0..MaxNotes /\ ~(i <= i - 1)
      BY <2>2, <2>3, NotesAssumption
    <3> QED
      BY <2>1, <3>1
  <2>5. PICK at : done[i-1] = [rows |-> rows, at |-> at]
    BY <2>4
  <2>6. done[i] = NextOf(b, keep, allowed, done[i-1], i)
    BY <1>1, <2>2, <2>3, NotesAssumption
  <2>7. CASE i \in Taken(b, keep, allowed)
    <3> DEFINE n == Stored(b[i], keep)
    <3>1. Matches(done[i-1].rows, n) # {}
      BY <2>5, <2>7
    <3>2. done[i] = [done[i-1] EXCEPT !.at[i] = Min(Matches(done[i-1].rows, n))]
      BY <2>6, <2>7, <3>1 DEF NextOf, ImportRecord
    <3> HIDE DEF n
    <3>3. \E found : done[i] = [done[i-1] EXCEPT !.at[i] = found]
      BY <3>2
    <3>4. PICK found : done[i] = [done[i-1] EXCEPT !.at[i] = found]
      BY <3>3
    <3>5. done[i] = [rows |-> rows, at |-> [at EXCEPT ![i] = found]]
      BY <2>5, <3>4
    <3> QED
      BY <2>2, <3>5
  <2>8. CASE i \notin Taken(b, keep, allowed)
    BY <2>2, <2>4, <2>6, <2>8 DEF NextOf
  <2> QED
    BY <2>7, <2>8
<1>4. MaxNotes \in 0..MaxNotes
  BY NotesAssumption
<1>5. Same(done[MaxNotes])
  BY <1>3, <1>4
<1> QED
  BY <1>2, <1>5

(* What is found in some notes is found when there are more.               *)
LEMMA FoundAgain ==
  ASSUME NEW rows \in Seq(AnyNote), NEW o \in AnyNote, NEW n
  PROVE  /\ Matches(rows, n) # {} => Matches(Append(rows, o), n) # {}
         /\ SameNote(o, n) => Matches(Append(rows, o), n) # {}
         /\ Allowed(Append(rows, o)) => Allowed(rows)
<1> DEFINE new == Append(rows, o)
<1>1. /\ DOMAIN rows = 1..Len(rows) /\ DOMAIN new = 1..(Len(rows) + 1) /\ Len(rows) \in Nat
      /\ new[Len(rows) + 1] = o /\ \A k \in 1..Len(rows) : new[k] = rows[k]
  OBVIOUS
<1>2. /\ DOMAIN rows \subseteq DOMAIN new /\ Len(rows) + 1 \in DOMAIN new
      /\ \A k \in DOMAIN rows : new[k] = rows[k]
  BY <1>1
<1> HIDE DEF new
<1>3. ASSUME Matches(rows, n) # {} PROVE Matches(new, n) # {}
  <2>1. \E k \in DOMAIN rows : SameProvenance(rows[k], n) \/ (Live(n) /\ Alike(rows[k], n))
    <3>1. PICK k : k \in Matches(rows, n)
      BY <1>3
    <3> QED
      BY <3>1 DEF Matches
  <2>2. \E k \in DOMAIN new : SameProvenance(new[k], n) \/ (Live(n) /\ Alike(new[k], n))
    BY <1>2, <2>1
  <2> QED
    BY <2>2 DEF Matches
<1>4. ASSUME SameNote(o, n) PROVE Matches(new, n) # {}
  <2>1. SameProvenance(new[Len(rows) + 1], n)
    BY <1>1, <1>4 DEF SameNote, SameProvenance
  <2> QED
    BY <1>2, <2>1 DEF Matches
<1>5. Allowed(new) => Allowed(rows)
  BY <1>2 DEF Allowed
<1> QED
  BY <1>3, <1>4, <1>5 DEF new

(* A record without a match is added, but for a confirmed purpose whose    *)
(* revised note is confirmed here.                                         *)
LEMMA InsertedIsSame ==
  ASSUME NEW done, NEW i, NEW n \in AnyNote,
         NEW mapped \in Nat, mapped = IF n.supersedes = 0 THEN 0 ELSE done.at[n.supersedes]
  PROVE  LET next == Insert(done, i, n)
         IN  \/ /\ next = done
                /\ Purpose(n) /\ n.status = "confirmed" /\ ConfirmedAt(done.rows, mapped)
             \/ \E o \in AnyNote :
                  /\ SameNote(o, n)
                  /\ next = [rows |-> Append(done.rows, o),
                             at |-> [done.at EXCEPT ![i] = Len(done.rows) + 1]]
<1> DEFINE unlinked == n.status = "proposed" /\ ~ConfirmedAt(done.rows, mapped)
           k == IF unlinked THEN 0 ELSE mapped
           linked == [n EXCEPT !.supersedes = k]
           second == n.status = "confirmed" /\ ConfirmedAt(done.rows, mapped)
           o == IF second THEN AsProposed(linked) ELSE linked
           next == Insert(done, i, n)
<1>1. next = IF second /\ Purpose(n) THEN done
             ELSE [rows |-> Append(done.rows, o),
                   at |-> [done.at EXCEPT ![i] = Len(done.rows) + 1]]
  BY DEF Insert
<1>2. linked \in AnyNote /\ SameNote(linked, n)
  BY DEF AnyNote, SameNote
<1> HIDE DEF linked
<1>3. AsProposed(linked) \in AnyNote /\ SameNote(AsProposed(linked), linked)
  BY <1>2 DEF AnyNote, SameNote, AsProposed
<1>4. o \in AnyNote /\ SameNote(o, n)
  BY <1>2, <1>3 DEF SameNote
<1> HIDE DEF o, next
<1> QED
  BY <1>1, <1>4 DEF next

RetiredPurpose(n) == Purpose(n) /\ n.status = "retired"

(* Every record taken up to i is found in what there is now, or is a       *)
(* purpose where one lives.                                                *)
Covered(b, keep, allowed, done, i) ==
  /\ \A e \in DOMAIN b : done.at[e] # 0 /\ RetiredPurpose(b[e]) =>
       Purpose(done.rows[done.at[e]])
  /\ \A e \in Taken(b, keep, allowed) : e <= i =>
       \/ Matches(done.rows, Stored(b[e], keep)) # {}
       \/ Purpose(b[e]) /\ ~Allowed(done.rows)

LEMMA RevisedIsRetired ==
  ASSUME NEW b, BundleOK(b), Accepted(b), PurposesRevisePurposes(b),
         NEW i \in DOMAIN b, Current(b[i]), b[i].supersedes # 0
  PROVE  b[i].supersedes \in DOMAIN b /\ RetiredPurpose(b[b[i].supersedes])
<1> DEFINE d == b[i].supersedes
<1>1. d \in DOMAIN b /\ d \in 1..(i - 1) /\ i \in Nat
  BY NotesAssumption DEF Accepted, BundleOK
<1>2. Purpose(b[d]) /\ b[d].status \in {"proposed", "confirmed", "retired"}
  BY <1>1 DEF PurposesRevisePurposes, Current, BundleOK, EntryOK, Note
<1> HIDE DEF d
<1>3. ~Current(b[d])
  <2>1. Current(b[d]) => d = i
    BY <1>1, OnePendingRecord
  <2> QED
    BY <1>1, <2>1
<1>4. ~Pending(b[d])
  <2>1. Pending(b[d]) => i = b[d].supersedes
    BY <1>1 DEF BundleOK
  <2>2. b[d].supersedes \in {0} \cup 1..(d - 1)
    BY <1>1 DEF Accepted
  <2> QED
    BY <1>1, <2>1, <2>2
<1> QED
  BY <1>1, <1>2, <1>3, <1>4 DEF RetiredPurpose, Pending, Current, d

LEMMA CoveredAppend ==
  ASSUME NEW rows, NEW b, BundleOK(b), NEW keep, NEW allowed, NEW i \in DOMAIN b,
         NEW done, DoneOK(rows, b, keep, done, i - 1),
         Covered(b, keep, allowed, done, i - 1),
         NEW o \in AnyNote, SameNote(o, Stored(b[i], keep)),
         Purpose(b[i]) <=> Purpose(o),
         NEW next,
         next = [rows |-> Append(done.rows, o),
                 at |-> [done.at EXCEPT ![i] = Len(done.rows) + 1]]
  PROVE  Covered(b, keep, allowed, next, i)
<1> DEFINE was == done.rows
           new == next.rows
<1>1. /\ was \in Seq(AnyNote) /\ done.at \in [DOMAIN b -> Nat] /\ i \in Nat
      /\ \A e \in DOMAIN b : done.at[e] <= Len(was) /\ e \in Nat
  BY NotesAssumption DEF DoneOK, BundleOK
<1>2. new = Append(was, o) /\ next.at = [done.at EXCEPT ![i] = Len(was) + 1]
  OBVIOUS
<1>3. new[Len(was) + 1] = o /\ \A k \in 1..Len(was) : new[k] = was[k]
  BY <1>1, <1>2
<1>4. /\ next.at[i] = Len(was) + 1
      /\ \A e \in DOMAIN b : e # i => next.at[e] = done.at[e] /\ done.at[e] \in 0..Len(was)
  BY <1>1, <1>2
<1>5. /\ \A e \in DOMAIN b : done.at[e] # 0 /\ RetiredPurpose(b[e]) =>
           Purpose(was[done.at[e]])
      /\ \A e \in Taken(b, keep, allowed) : e <= i - 1 =>
           \/ Matches(was, Stored(b[e], keep)) # {}
           \/ Purpose(b[e]) /\ ~Allowed(was)
  BY DEF Covered
<1> HIDE DEF was, new
<1>6. ASSUME NEW e \in DOMAIN b, next.at[e] # 0, RetiredPurpose(b[e])
      PROVE  Purpose(new[next.at[e]])
  <2>1. CASE e = i
    BY <1>3, <1>4, <1>6, <2>1 DEF RetiredPurpose
  <2>2. CASE e # i
    <3>1. next.at[e] = done.at[e] /\ done.at[e] \in 1..Len(was)
      BY <1>4, <1>6, <2>2
    <3> QED
      BY <1>3, <1>5, <1>6, <3>1
  <2> QED
    BY <2>1, <2>2
<1>7. ASSUME NEW e \in Taken(b, keep, allowed), e <= i
      PROVE  \/ Matches(new, Stored(b[e], keep)) # {}
             \/ Purpose(b[e]) /\ ~Allowed(new)
  <2>1. CASE e = i
    <3>1. Matches(Append(was, o), Stored(b[i], keep)) # {}
      BY <1>1, FoundAgain
    <3> QED
      BY <1>2, <2>1, <3>1
  <2>2. CASE e # i
    <3>1. e \in Nat /\ e <= i - 1
      BY <1>1, <1>7, <2>2 DEF Taken
    <3>2. CASE Matches(was, Stored(b[e], keep)) # {}
      BY <1>1, <1>2, <3>2, FoundAgain
    <3>3. CASE Purpose(b[e]) /\ ~Allowed(was)
      BY <1>1, <1>2, <3>3, FoundAgain
    <3> QED
      BY <1>5, <3>1, <3>2, <3>3
  <2> QED
    BY <2>1, <2>2
<1> QED
  BY <1>6, <1>7 DEF Covered, new

LEMMA RecordCovered ==
  ASSUME NEW rows, RowsOK(rows), NEW b, BundleOK(b), Accepted(b),
         PurposesRevisePurposes(b), NEW keep \in BOOLEAN, NEW allowed,
         NEW i \in DOMAIN b, NEW done, DoneOK(rows, b, keep, done, i - 1),
         Covered(b, keep, allowed, done, i - 1)
  PROVE  Covered(b, keep, allowed, ImportRecord(done, i, Stored(b[i], keep)), i)
<1> DEFINE n == Stored(b[i], keep)
           found == Matches(done.rows, n)
           mapped == Mapped(b, done, i)
           next == ImportRecord(done, i, n)
<1>1. /\ done \in [rows : Seq(AnyNote), at : [DOMAIN b -> Nat]]
      /\ \A k \in 1..Len(done.rows) : WellFormed(done.rows[k])
      /\ i \in Nat /\ \A e \in DOMAIN b : e \in Nat
  BY NotesAssumption DEF DoneOK, BundleOK
<1>2. /\ n \in AnyNote /\ WellFormed(n) /\ n.supersedes = b[i].supersedes
      /\ n.kind = b[i].kind
      /\ n.status = IF b[i].status = "confirmed" /\ ~keep THEN "proposed" ELSE b[i].status
  BY StoredRecord DEF BundleOK, Accepted
<1>3. next = IF found = {} THEN Insert(done, i, n) ELSE [done EXCEPT !.at[i] = Min(found)]
  BY DEF ImportRecord
<1>4. mapped \in Nat
  <2>1. mapped \in 0..Len(done.rows)
    BY MappedPlace
  <2> QED
    BY <1>1, <2>1
<1>5. mapped = IF n.supersedes = 0 THEN 0 ELSE done.at[n.supersedes]
  BY <1>2 DEF Mapped
<1>6. /\ \A e \in DOMAIN b : done.at[e] # 0 /\ RetiredPurpose(b[e]) =>
           Purpose(done.rows[done.at[e]])
      /\ \A e \in Taken(b, keep, allowed) : e <= i - 1 =>
           \/ Matches(done.rows, Stored(b[e], keep)) # {}
           \/ Purpose(b[e]) /\ ~Allowed(done.rows)
  BY DEF Covered
<1>7. \A e \in Taken(b, keep, allowed) : e <= i => e = i \/ e <= i - 1
  BY <1>1 DEF Taken
<1> HIDE DEF n, mapped
<1>8. CASE found # {}
  <2> DEFINE k == Min(found)
  <2>1. k \in 1..Len(done.rows) /\ (~Live(n) => done.rows[k].kind = n.kind)
    BY <1>1, <1>2, <1>8, FoundNote
  <2>2. next = [done EXCEPT !.at = [done.at EXCEPT ![i] = k]]
    BY <1>1, <1>3, <1>8
  <2> HIDE DEF k, next
  <2>3. next.rows = done.rows /\ next.at = [done.at EXCEPT ![i] = k]
    BY <1>1, <2>2
  <2>4. \A e \in DOMAIN b : next.at[e] = IF e = i THEN k ELSE done.at[e]
    BY <1>1, <2>3
  <2>5. RetiredPurpose(b[i]) => Purpose(done.rows[k])
    BY <1>2, <2>1 DEF RetiredPurpose, Purpose, Live
  <2>6. Covered(b, keep, allowed, next, i)
    BY <1>6, <1>7, <1>8, <2>3, <2>4, <2>5 DEF Covered, n
  <2> QED
    BY <2>6 DEF next, n
<1>9. CASE found = {}
  <2>1. next = Insert(done, i, n)
    BY <1>3, <1>9
  <2> HIDE DEF next, found
  <2>2. CASE /\ next = done
             /\ Purpose(n) /\ n.status = "confirmed" /\ ConfirmedAt(done.rows, mapped)
    <3>1. Current(b[i]) /\ b[i].supersedes # 0 /\ mapped = done.at[b[i].supersedes]
          /\ mapped # 0 /\ done.rows[mapped].status = "confirmed"
      BY <1>2, <1>5, <2>2 DEF Current, Purpose, ConfirmedAt
    <3>2. Purpose(done.rows[mapped])
      BY <1>6, <3>1, RevisedIsRetired
    <3>3. mapped \in DOMAIN done.rows
      <4>1. mapped \in 0..Len(done.rows)
        BY MappedPlace DEF mapped
      <4> QED
        BY <1>1, <3>1, <4>1
    <3>4. Purpose(b[i]) /\ ~Allowed(done.rows)
      BY <3>1, <3>2, <3>3 DEF Allowed, Live, Current
    <3>5. Covered(b, keep, allowed, done, i)
      BY <1>6, <1>7, <3>4 DEF Covered
    <3> QED
      BY <2>2, <3>5 DEF next, n
  <2>3. ASSUME NEW o \in AnyNote, SameNote(o, n),
               next = [rows |-> Append(done.rows, o),
                       at |-> [done.at EXCEPT ![i] = Len(done.rows) + 1]]
        PROVE  Covered(b, keep, allowed, next, i)
    <3>1. Purpose(b[i]) <=> Purpose(o)
      BY <1>2, <2>3 DEF SameNote, Purpose
    <3> QED
      BY <2>3, <3>1, CoveredAppend DEF n
  <2> QED
    BY <1>2, <1>4, <1>5, <2>1, <2>2, <2>3, InsertedIsSame DEF next, n
<1> QED
  BY <1>8, <1>9

LEMMA ImportedCovered ==
  ASSUME NEW rows, RowsOK(rows), LinksOK(rows), PurposesOK(rows), VersionsOK(rows),
         NEW b, BundleOK(b), Accepted(b), PurposesRevisePurposes(b), NEW keep \in BOOLEAN
  PROVE  \A i \in 0..MaxNotes :
           Covered(b, keep, Allowed(rows), Imported(rows, b, keep, Allowed(rows))[i], i)
<1> DEFINE allowed == Allowed(rows)
           done == Imported(rows, b, keep, allowed)
           Bad == {i \in 0..MaxNotes : ~Covered(b, keep, allowed, done[i], i)}
<1>1. ASSUME NEW i \in 0..MaxNotes
      PROVE  done[i] = IF i = 0 THEN StartOf(rows, b)
                       ELSE NextOf(b, keep, allowed, done[i-1], i)
  <2> HIDE DEF allowed
  <2> QED
    BY ImportedSteps
<1>2. \A i \in 0..MaxNotes : DoneOK(rows, b, keep, done[i], i)
  BY ImportedIsOK
<1>3. \A e \in DOMAIN b : e \in Nat /\ e # 0
  BY NotesAssumption DEF BundleOK
<1> HIDE DEF done
<1>4. ASSUME Bad # {} PROVE FALSE
  <2>1. PICK i \in Bad : \A j \in Bad : i <= j
    <3>1. Bad \subseteq Nat
      OBVIOUS
    <3> HIDE DEF Bad
    <3> QED
      BY <1>4, <3>1, Least
  <2>2. i \in 0..MaxNotes /\ ~Covered(b, keep, allowed, done[i], i)
    OBVIOUS
  <2>3. i # 0
    <3>1. Covered(b, keep, allowed, StartOf(rows, b), 0)
      <4>1. \A e \in Taken(b, keep, allowed) : ~(e <= 0)
        BY <1>3 DEF Taken
      <4> QED
        BY <4>1 DEF Covered, StartOf
    <3> QED
      BY <1>1, <2>2, <3>1
  <2>4. /\ Covered(b, keep, allowed, done[i-1], i - 1)
        /\ DoneOK(rows, b, keep, done[i-1], i - 1)
    <3>1. i - 1 \in 0..MaxNotes /\ ~(i <= i - 1)
      BY <2>2, <2>3, NotesAssumption
    <3> QED
      BY <1>2, <2>1, <3>1
  <2>5. done[i] = NextOf(b, keep, allowed, done[i-1], i)
    BY <1>1, <2>2, <2>3, NotesAssumption
  <2>6. CASE i \in Taken(b, keep, allowed)
    <3>1. i \in DOMAIN b
      BY <2>6 DEF Taken
    <3> HIDE DEF allowed
    <3>2. Covered(b, keep, allowed, ImportRecord(done[i-1], i, Stored(b[i], keep)), i)
      BY <2>4, <3>1, RecordCovered
    <3> QED
      BY <2>2, <2>5, <2>6, <3>2 DEF NextOf
  <2>7. CASE i \notin Taken(b, keep, allowed)
    <3>1. done[i] = done[i-1]
      BY <2>5, <2>7 DEF NextOf
    <3>2. \A e \in Taken(b, keep, allowed) : e <= i => e <= i - 1
      BY <1>3, <2>2, <2>7 DEF Taken
    <3>3. Covered(b, keep, allowed, done[i], i)
      BY <2>4, <3>1, <3>2 DEF Covered
    <3> QED
      BY <2>2, <3>3
  <2> QED
    BY <2>6, <2>7
<1> QED
  BY <1>4 DEF done

(* The same bundle twice. *)
LEMMA SecondAddsNothing ==
  ASSUME NEW rows, RowsOK(rows), LinksOK(rows), PurposesOK(rows), VersionsOK(rows),
         NEW b, BundleOK(b), Accepted(b), PurposesRevisePurposes(b), NEW keep \in BOOLEAN,
         NEW once, once = import_notes(rows, b, keep)
  PROVE  import_notes(once, b, keep) = once
<1> DEFINE done == Imported(rows, b, keep, Allowed(rows))[MaxNotes]
<1>1. once = done.rows
  BY DEF import_notes, Allowed
<1>2. DoneOK(rows, b, keep, done, MaxNotes) /\ Covered(b, keep, Allowed(rows), done, MaxNotes)
  BY ImportedIsOK, ImportedCovered, NotesAssumption
<1> HIDE DEF done
<1>3. Allowed(once) => Allowed(rows)
  <2>1. /\ DOMAIN rows \subseteq DOMAIN once
        /\ \A k \in DOMAIN rows : once[k] = rows[k]
    BY <1>1, <1>2 DEF DoneOK, RowsOK
  <2> QED
    BY <2>1 DEF Allowed
<1>4. Taken(b, keep, Allowed(once)) \subseteq Taken(b, keep, Allowed(rows))
  BY <1>3 DEF Taken, SkippedPurposes
<1>5. \A i \in Taken(b, keep, Allowed(once)) : Purpose(b[i]) => Allowed(once)
  BY DEF Taken, SkippedPurposes
<1>6. \A i \in Taken(b, keep, Allowed(once)) : i <= MaxNotes
  BY NotesAssumption DEF Taken, BundleOK
<1>7. \A i \in Taken(b, keep, Allowed(once)) : Matches(once, Stored(b[i], keep)) # {}
  BY <1>1, <1>2, <1>4, <1>5, <1>6 DEF Covered
<1> QED
  BY <1>7, NothingIsAdded

LEMMA NoRowsAreOK == RowsOK(<<>>) /\ LinksOK(<<>>) /\ PurposesOK(<<>>) /\ VersionsOK(<<>>)
BY NotesAssumption DEF RowsOK, LinksOK, PurposesOK, VersionsOK, Versions

(* In a new project there is a note at most for a record. *)
CopyOf(b, done, i) ==
  /\ Len(done.rows) <= i
  /\ \A k \in 1..Len(done.rows) : \E e \in DOMAIN b : SameNote(done.rows[k], b[e])

LEMMA RecordCopied ==
  ASSUME NEW b, BundleOK(b), Accepted(b), NEW keep \in BOOLEAN,
         NEW i \in DOMAIN b, NEW done, DoneOK(<<>>, b, keep, done, i - 1),
         CopyOf(b, done, i - 1)
  PROVE  CopyOf(b, ImportRecord(done, i, Stored(b[i], keep)), i)
<1> DEFINE n == Stored(b[i], keep)
           found == Matches(done.rows, n)
           mapped == Mapped(b, done, i)
           next == ImportRecord(done, i, n)
<1>1. /\ done \in [rows : Seq(AnyNote), at : [DOMAIN b -> Nat]]
      /\ Len(done.rows) \in Nat /\ i \in Nat
  BY NotesAssumption DEF DoneOK, BundleOK
<1>2. /\ n \in AnyNote /\ n.supersedes = b[i].supersedes /\ SameNote(n, b[i])
  BY StoredRecord, StoredIsSame DEF BundleOK, Accepted, EntryOK
<1>3. next = IF found = {} THEN Insert(done, i, n) ELSE [done EXCEPT !.at[i] = Min(found)]
  BY DEF ImportRecord
<1>4. mapped \in Nat /\ mapped = IF n.supersedes = 0 THEN 0 ELSE done.at[n.supersedes]
  <2>1. mapped \in 0..Len(done.rows)
    BY MappedPlace
  <2> QED
    BY <1>1, <1>2, <2>1 DEF Mapped
<1>5. CopyOf(b, done, i)
  BY <1>1 DEF CopyOf
<1> HIDE DEF n, mapped, found
<1>6. CASE found # {}
  <2>1. next.rows = done.rows
    BY <1>1, <1>3, <1>6
  <2> HIDE DEF next
  <2>2. CopyOf(b, next, i)
    BY <1>5, <2>1 DEF CopyOf
  <2> QED
    BY <2>2 DEF next, n
<1>7. CASE found = {}
  <2>1. next = Insert(done, i, n)
    BY <1>3, <1>7
  <2> HIDE DEF next
  <2>2. ASSUME NEW o \in AnyNote, SameNote(o, n),
               next = [rows |-> Append(done.rows, o),
                       at |-> [done.at EXCEPT ![i] = Len(done.rows) + 1]]
        PROVE  CopyOf(b, next, i)
    <3>1. next.rows = Append(done.rows, o)
      BY <2>2
    <3>2. /\ Len(next.rows) = Len(done.rows) + 1 /\ next.rows[Len(done.rows) + 1] = o
          /\ \A k \in 1..Len(done.rows) : next.rows[k] = done.rows[k]
      BY <1>1, <3>1
    <3>3. SameNote(o, b[i])
      BY <1>2, <2>2 DEF SameNote
    <3>4. Len(next.rows) <= i
      BY <1>1, <3>2 DEF CopyOf
    <3>5. \A k \in 1..Len(next.rows) : k \in 1..Len(done.rows) \/ k = Len(done.rows) + 1
      BY <1>1, <3>2
    <3>6. \A k \in 1..Len(next.rows) : \E e \in DOMAIN b : SameNote(next.rows[k], b[e])
      BY <3>2, <3>3, <3>5 DEF CopyOf
    <3> QED
      BY <3>4, <3>6 DEF CopyOf
  <2> QED
    BY <1>2, <1>4, <1>5, <2>1, <2>2, InsertedIsSame DEF next, n
<1> QED
  BY <1>6, <1>7

LEMMA ImportedCopy ==
  ASSUME NEW b, BundleOK(b), Accepted(b), NEW keep \in BOOLEAN
  PROVE  CopyOf(b, Imported(<<>>, b, keep, Allowed(<<>>))[MaxNotes], MaxNotes)
<1> DEFINE allowed == Allowed(<<>>)
           done == Imported(<<>>, b, keep, allowed)
           Bad == {i \in 0..MaxNotes : ~CopyOf(b, done[i], i)}
<1>1. ASSUME NEW i \in 0..MaxNotes
      PROVE  done[i] = IF i = 0 THEN StartOf(<<>>, b)
                       ELSE NextOf(b, keep, allowed, done[i-1], i)
  <2> HIDE DEF allowed
  <2> QED
    BY ImportedSteps
<1>2. \A i \in 0..MaxNotes : DoneOK(<<>>, b, keep, done[i], i)
  BY ImportedIsOK, NoRowsAreOK
<1> HIDE DEF done
<1>3. ASSUME Bad # {} PROVE FALSE
  <2>1. PICK i \in Bad : \A j \in Bad : i <= j
    <3>1. Bad \subseteq Nat
      OBVIOUS
    <3> HIDE DEF Bad
    <3> QED
      BY <1>3, <3>1, Least
  <2>2. i \in 0..MaxNotes /\ ~CopyOf(b, done[i], i)
    OBVIOUS
  <2>3. i # 0
    <3>1. CopyOf(b, StartOf(<<>>, b), 0)
      BY DEF CopyOf, StartOf
    <3> QED
      BY <1>1, <2>2, <3>1
  <2>4. CopyOf(b, done[i-1], i - 1) /\ DoneOK(<<>>, b, keep, done[i-1], i - 1)
    <3>1. i - 1 \in 0..MaxNotes /\ ~(i <= i - 1)
      BY <2>2, <2>3, NotesAssumption
    <3> QED
      BY <1>2, <2>1, <3>1
  <2>5. done[i] = NextOf(b, keep, allowed, done[i-1], i)
    BY <1>1, <2>2, <2>3, NotesAssumption
  <2>6. CASE i \in Taken(b, keep, allowed)
    <3>1. i \in DOMAIN b
      BY <2>6 DEF Taken
    <3>2. CopyOf(b, ImportRecord(done[i-1], i, Stored(b[i], keep)), i)
      BY <2>4, <3>1, RecordCopied
    <3> QED
      BY <2>2, <2>5, <2>6, <3>2 DEF NextOf
  <2>7. CASE i \notin Taken(b, keep, allowed)
    <3>1. done[i] = done[i-1]
      BY <2>5, <2>7 DEF NextOf
    <3>2. Len(done[i-1].rows) \in Nat
      BY <2>4 DEF DoneOK
    <3>3. CopyOf(b, done[i], i)
      BY <2>2, <2>4, <3>1, <3>2 DEF CopyOf
    <3> QED
      BY <2>2, <3>3
  <2> QED
    BY <2>6, <2>7
<1> QED
  BY <1>3, NotesAssumption DEF done

LEMMA RoundTrip ==
  ASSUME NEW rows, RowsOK(rows), LinksOK(rows), PurposesOK(rows),
         NEW there \in BOOLEAN, NEW keep \in BOOLEAN,
         NEW b, b = Bundle(rows), NEW new, new = import_notes(<<>>, b, there)
  PROVE  Accepted(Bundle(new)) /\ import_notes(rows, Bundle(new), keep) = rows
<1> DEFINE done == Imported(<<>>, b, there, Allowed(<<>>))[MaxNotes]
           copy == Bundle(new)
<1>1. BundleOK(b) /\ Accepted(b)
  BY BundleIsOK, BundleIsAccepted
<1>2. new = done.rows
  BY DEF import_notes, Allowed
<1>3. CopyOf(b, done, MaxNotes)
  BY <1>1, ImportedCopy
<1> HIDE DEF done
<1>4. Len(new) <= MaxNotes /\ \A k \in 1..Len(new) : \E e \in DOMAIN b : SameNote(new[k], b[e])
  BY <1>2, <1>3 DEF CopyOf
<1>5. RowsOK(new) /\ PurposesOK(new)
  BY <1>1, <1>4, NoRowsAreOK, ImportedRows DEF RowsStep
<1>6. \A e \in DOMAIN b : e \in DOMAIN rows /\ SameNote(b[e], rows[e])
  <2>1. DOMAIN rows = 1..Len(rows)
    BY DEF RowsOK
  <2> QED
    BY <2>1, RecordIsSame DEF Bundle, Carried
<1>7. \A k \in DOMAIN copy : k \in 1..Len(new) /\ copy[k] = Record(new, k)
  <2>1. DOMAIN new = 1..Len(new)
    BY <1>5 DEF RowsOK
  <2> QED
    BY <2>1 DEF Bundle, Carried
<1> HIDE DEF copy
<1>8. ASSUME NEW k \in DOMAIN copy
      PROVE  Matches(rows, Stored(copy[k], keep)) # {}
  <2>1. copy[k] \in Note /\ SameNote(copy[k], new[k])
    BY <1>5, <1>7, RecordFacts, RecordIsSame DEF EntryOK
  <2>2. PICK e \in DOMAIN b : SameNote(new[k], b[e])
    BY <1>4, <1>7
  <2>3. SameNote(Stored(copy[k], keep), copy[k])
    BY <2>1, StoredIsSame
  <2>4. e \in DOMAIN rows /\ SameProvenance(rows[e], Stored(copy[k], keep))
    BY <1>6, <2>1, <2>2, <2>3 DEF SameNote, SameProvenance
  <2> QED
    BY <2>4 DEF Matches
<1>9. import_notes(rows, copy, keep) = rows
  BY <1>8, NothingIsAdded DEF Taken
<1> QED
  BY <1>5, <1>9, BundleIsAccepted DEF copy

-----------------------------------------------------------------------------
(* The theorems *)

LEMMA InitEstablishes ==
  ASSUME Init
  PROVE  IInv
<1>1. RowsOK(<<>>) /\ LinksOK(<<>>) /\ PurposesOK(<<>>) /\ VersionsOK(<<>>)
  BY NoRowsAreOK
<1>2. NoRequest.op = "none"
  BY DEF NoRequest
<1>3. request \in [Members -> Requests] /\ \A m \in Members : request[m] = NoRequest
  BY DEF Init, Requests
<1>4. FramesOK(notes, request)
  BY <1>2, <1>3 DEF FramesOK
<1> QED
  BY <1>1, <1>3, <1>4 DEF IInv, Init

LEMMA StepKeeps ==
  ASSUME IInv, [NotesNext]_vars
  PROVE  IInv' /\ HistoryStep
<1>1. CASE UNCHANGED vars
  <2>1. notes' = notes /\ request' = request
    BY <1>1 DEF vars
  <2> QED
    BY <2>1, ReadKeeps DEF IInv
<1>2. CASE \E p \in Homes, m \in Members, body \in Bodies :
             \/ \E kind \in Kinds \ {"purpose"}, anchor \in Anchors,
                   prior \in {0} \cup DOMAIN notes[p] :
                  Propose(p, m, kind, anchor, body, prior)
             \/ propose_purpose(p, m, body)
  BY <1>2, NotesAssumption, ProposeKeeps, PurposeKeeps
<1>3. CASE \E p \in Projects, m \in Members, body \in Bodies :
             \E i \in DOMAIN notes[p] :
               (p \in Homes \/ body = notes[p][i].body) /\ ReadToConfirm(m, p, i, body)
  BY <1>3, ReadToConfirmKeeps
<1>4. CASE \E p \in Homes, m \in Members : \E i \in DOMAIN notes[p] :
             notes[p][i].kind \in Renewed /\ ReadToReconfirm(m, p, i)
  BY <1>4, NotesAssumption, ReadToReconfirmKeeps
<1>5. CASE \E p \in Projects : \E i \in DOMAIN notes[p] :
             \/ \E reason \in {"rejected", "outdated"} : Retire(p, i, reason)
             \/ reject_agent_proposals(p, notes[p][i].by)
  BY <1>5, RetireKeeps, RejectKeeps
<1>6. CASE \E m \in Members : Confirm(m) \/ Reconfirm(m)
  BY <1>6, ConfirmKeeps, ReconfirmKeeps
<1> QED
  BY <1>1, <1>2, <1>3, <1>4, <1>5, <1>6 DEF NotesNext

LEMMA TransferStepKeeps ==
  ASSUME TransferInv, [TransferNext]_<<vars, bundle>>
  PROVE  TransferInv' /\ HistoryStep
<1>1. CASE [NotesNext]_vars /\ UNCHANGED bundle
  BY <1>1, StepKeeps DEF TransferInv
<1>2. CASE \E p \in Projects : Export(p)
  BY <1>2, ExportKeeps
<1>3. CASE \E q \in Projects, keep \in BOOLEAN : Import(q, keep)
  BY <1>3, ImportKeeps
<1> QED
  BY <1>1, <1>2, <1>3 DEF TransferNext

(***************************************************************************)
(* The inductive invariant: the notes are well formed, revisions and       *)
(* purposes are in order, here and in the bundle, and what a confirm or    *)
(* reconfirm read before the write lock still holds of its note.           *)
(***************************************************************************)
THEOREM NotesInvariance == TransferSpec => []TransferInv
<1>1. TransferInit => TransferInv
  <2> SUFFICES ASSUME TransferInit PROVE TransferInv
    OBVIOUS
  <2>1. Init /\ bundle = <<>>
    BY DEF TransferInit, NoBundle
  <2>2. BundleOK(bundle) /\ Accepted(bundle)
    <3>1. \A status \in {"proposed", "confirmed"} : LivePurposes(bundle, status) = {}
      BY <2>1 DEF LivePurposes
    <3>2. \A status \in {"proposed", "confirmed"} :
            Cardinality(LivePurposes(bundle, status)) <= 1
      BY <3>1, FS_EmptySet
    <3> QED
      BY <2>1, <3>2 DEF BundleOK, Accepted
  <2> QED
    BY <2>1, <2>2, InitEstablishes DEF TransferInv
<1>2. TransferInv /\ [TransferNext]_<<vars, bundle>> => TransferInv'
  BY TransferStepKeeps
<1> QED
  BY <1>1, <1>2, PTL DEF TransferSpec

(***************************************************************************)
(* However proposals, regenerations, confirmations, retirements and        *)
(* imports interleave, one purpose at most is proposed, one confirmed, and *)
(* the proposed one revises it; it can be confirmed wherever no other note *)
(* was taken for a purpose.                                                *)
(***************************************************************************)
THEOREM PurposeIsOne == TransferSpec => []OnePurpose
<1>1. TransferInv => OnePurpose
  <2> SUFFICES ASSUME IInv PROVE OnePurpose
    BY DEF TransferInv
  <2>1. \A p \in Projects : /\ RowsOK(notes[p]) /\ PurposesOK(notes[p])
                            /\ DOMAIN notes[p] = 1..Len(notes[p])
    BY DEF IInv, RowsOK
  <2>2. TypeOK
    BY <2>1 DEF TypeOK, RowsOK, NoteOK, IInv, Requests, NoRequest
  <2>3. ASSUME NEW p \in Projects
        PROVE  LET rows == notes[p]
                   pending == Purposes(rows, "proposed")
                   current == Purposes(rows, "confirmed")
               IN  /\ Cardinality(pending) <= 1 /\ Cardinality(current) <= 1
                   /\ \A i \in pending : current \subseteq {rows[i].supersedes}
                   /\ Plain(rows) =>
                        \A i \in pending : {rows[i].supersedes} \ {0} \subseteq current
    <3> DEFINE rows == notes[p]
               pending == Purposes(rows, "proposed")
               current == Purposes(rows, "confirmed")
    <3>1. /\ pending = {i \in 1..Len(rows) : Pending(rows[i])}
          /\ current = {i \in 1..Len(rows) : Current(rows[i])}
      BY <2>1 DEF Purposes, Pending, Current
    <3> HIDE DEF pending, current
    <3>2. \A i, j \in pending : i = j
      BY <2>1, <3>1 DEF PurposesOK
    <3>3. \A i, j \in current : i = j
      BY <2>1, <3>1 DEF PurposesOK
    <3>4. ASSUME NEW i \in pending
          PROVE  /\ current \subseteq {rows[i].supersedes}
                 /\ Plain(rows) => {rows[i].supersedes} \ {0} \subseteq current
      <4>1. i \in 1..Len(rows) /\ Pending(rows[i])
        BY <3>1, <3>4
      <4>2. \A j \in current : j = rows[i].supersedes
        BY <2>1, <3>1, <4>1 DEF PurposesOK
      <4>3. ASSUME Plain(rows), rows[i].supersedes # 0
            PROVE  rows[i].supersedes \in current
        BY <2>1, <3>1, <4>1, <4>3, RevisesEarlier DEF PurposesOK
      <4> QED
        BY <4>2, <4>3
    <3>5. Cardinality(pending) <= 1 /\ Cardinality(current) <= 1
      BY <3>2, <3>3, AtMostOne
    <3> QED
      BY <3>4, <3>5 DEF pending, current
  <2> QED
    BY <2>2, <2>3 DEF OnePurpose, Plain
<1> QED
  BY <1>1, NotesInvariance, PTL

(***************************************************************************)
(* No step removes a note, changes a retired one, or rewrites what a       *)
(* member confirmed, whatever its read before the write lock saw.          *)
(***************************************************************************)
THEOREM HistoryIsKept == TransferSpec => HistoryKept
<1> DEFINE Step ==
             \A p \in Projects : \A i \in DOMAIN notes[p] :
               LET was == notes[p][i]
                   is == notes'[p][i]
               IN  /\ i \in DOMAIN notes'[p]
                   /\ ~Live(was) => is = was
                   /\ was.confirmedBy # None =>
                        is.body = was.body /\ is.confirmedBy = was.confirmedBy
<1>1. TransferInv /\ [TransferNext]_<<vars, bundle>> => [Step]_vars
  <2> SUFFICES ASSUME TransferInv, [TransferNext]_<<vars, bundle>> PROVE Step
    OBVIOUS
  <2>1. HistoryStep
    BY TransferStepKeeps
  <2> QED
    BY <2>1 DEF HistoryStep, Kept
<1>2. TransferSpec => [][Step]_vars
  BY <1>1, NotesInvariance, PTL DEF TransferSpec
<1> QED
  BY <1>2 DEF HistoryKept

(***************************************************************************)
(* A note that reaches every session was decided by a second person or an  *)
(* admin: the check made before the write lock is still true under it.     *)
(***************************************************************************)
THEOREM WideNotesAreSeconded == TransferSpec => []WideIsSeconded
<1>1. TransferInv => WideIsSeconded
  <2> SUFFICES ASSUME IInv, NEW p \in Projects, NEW i \in DOMAIN notes[p],
                      is_wide_anchor(notes[p][i]), notes[p][i].by \in Members
               PROVE  LET n == notes[p][i]
                      IN  /\ n.by \notin Admins => n.confirmedBy # n.by /\ n.reconfirmedBy # n.by
                          /\ n.confirmedBy \in Members \ Admins => ~n.edited
    BY DEF WideIsSeconded, TransferInv
  <2>1. i \in 1..Len(notes[p])
    BY DEF IInv
  <2>2. SecondedOK(notes[p][i])
    BY <2>1 DEF IInv, RowsOK, NoteOK
  <2> QED
    BY <2>2 DEF SecondedOK
<1> QED
  BY <1>1, NotesInvariance, PTL

(***************************************************************************)
(* Agents never read two versions of a note, whatever was confirmed while  *)
(* somebody else's confirm waited for the write lock.                      *)
(***************************************************************************)
THEOREM OneVersionIsConfirmed == TransferSpec => []OneConfirmedVersion
<1>1. TransferInv => OneConfirmedVersion
  <2> SUFFICES ASSUME IInv, NEW p \in Projects, ImportedNothing(notes[p]),
                      NEW i \in DOMAIN notes[p], NEW j \in DOMAIN notes[p], i # j,
                      notes[p][i].status = "confirmed", notes[p][j].status = "confirmed"
               PROVE  \E S \in Families(notes[p]) : i \in S /\ j \notin S
    BY DEF OneConfirmedVersion, TransferInv
  <2>1. i \in 1..Len(notes[p]) /\ j \in 1..Len(notes[p]) /\ VersionsOK(notes[p])
    BY DEF IInv
  <2> QED
    BY <2>1 DEF VersionsOK, Versions
<1> QED
  BY <1>1, NotesInvariance, PTL

(***************************************************************************)
(* "Re-importing is safe": a bundle that was exported is accepted, and     *)
(* adds nothing when it is imported again, or comes back through a new     *)
(* project, however many notes there are and whatever happened to them.    *)
(***************************************************************************)
THEOREM ReimportsAreSafe == TransferSpec => []ReimportingIsSafe
<1>1. TransferInv => ReimportingIsSafe
  <2> SUFFICES ASSUME TransferInv PROVE ReimportingIsSafe
    OBVIOUS
  <2>1. /\ BundleOK(bundle) /\ Accepted(bundle)
        /\ \A p \in Projects : /\ RowsOK(notes[p]) /\ LinksOK(notes[p])
                               /\ PurposesOK(notes[p]) /\ VersionsOK(notes[p])
    BY DEF TransferInv, IInv
  <2>2. \A p \in Projects, keep \in BOOLEAN :
          PurposesRevisePurposes(bundle) =>
            LET once == import_notes(notes[p], bundle, keep)
            IN  import_notes(once, bundle, keep) = once
    BY <2>1, SecondAddsNothing
  <2>3. \A p \in Projects, keep, there \in BOOLEAN :
          bundle = Bundle(notes[p]) =>
            LET copy == Bundle(import_notes(<<>>, bundle, there))
            IN  Accepted(copy) /\ import_notes(notes[p], copy, keep) = notes[p]
    BY <2>1, RoundTrip
  <2> QED
    BY <2>1, <2>2, <2>3 DEF ReimportingIsSafe
<1> QED
  BY <1>1, NotesInvariance, PTL
=============================================================================
