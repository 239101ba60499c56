---------------------------- MODULE ProjectNotes ----------------------------
(***************************************************************************)
(* The notes of projects (mcp/notes.py): members, chats and agents propose *)
(* them, members confirm, reconfirm and retire them, and a confirmed note  *)
(* is only replaced by confirming a revision of it.                        *)
(*                                                                         *)
(* A step is one transaction on a project's database, or the read a        *)
(* confirm makes before it takes the write lock.  A note's id is its place *)
(* in its project's sequence.  Its stamp is the proposal's time and author,*)
(* which no two proposals share: here where it was first written.  Of the  *)
(* kinds only the purpose is told apart, of the anchors whether they are   *)
(* wide; the two daily caps are above MaxNotes and never met.              *)
(***************************************************************************)
EXTENDS Integers, Sequences, FiniteSets

CONSTANTS
  Projects, Members,
  Admins,      \* the members with project.configure
  Homes,       \* bound: the projects where notes are proposed, edited and reconfirmed
  Renewed,     \* bound: the kinds reconfirmed there
  Bodies,      \* note texts
  Kinds,       \* kinds proposed: of "human", "agent" and "purpose"
  Anchors,     \* anchors proposed: of "project" and "symbol"
  None,
  MAX_PENDING, \* agents' proposals a project may have waiting
  MaxNotes     \* bound: the notes of a project

ASSUME NotesAssumption ==
  /\ Admins \subseteq Members /\ Homes \subseteq Projects
  /\ None \notin Members \cup {"imported"} \X Members \cup Bodies
  /\ None \notin {"rejected", "outdated", "superseded"}
  /\ Members \cap ({"imported"} \X Members) = {}
  /\ Kinds \subseteq {"human", "agent", "purpose"} /\ Renewed \subseteq Kinds
  /\ Anchors \subseteq {"project", "symbol"}
  /\ MAX_PENDING \in Nat /\ MaxNotes \in Nat

VARIABLES
  notes,   \* project_note of each project
  request  \* a member's confirm or reconfirm between its read and its write

vars == <<notes, request>>

NoRequest == [op |-> "none"]

Init ==
  /\ notes = [p \in Projects |-> <<>>]
  /\ request = [m \in Members |-> NoRequest]

Live(n) == n.status # "retired"
Purpose(n) == n.kind = "purpose"
Waits(n) == n.kind = "agent" /\ n.status = "proposed"
Alike(n, o) == Live(n) /\ n.anchor = o.anchor /\ n.body = o.body
Waiting(rows) == {i \in DOMAIN rows : Waits(rows[i])}

is_wide_anchor(n) == n.anchor = "project"

Proposal(p, m, kind, anchor, body, prior) ==
  [kind |-> kind, anchor |-> anchor, body |-> body, by |-> m,
   stamp |-> <<p, Len(notes[p]) + 1>>, supersedes |-> prior,
   status |-> "proposed", reason |-> None, edited |-> FALSE,
   confirmedBy |-> None, reconfirmedBy |-> None]

Retired(n, reason) == [n EXCEPT !.status = "retired", !.reason = reason]
RetireAll(rows, ids, reason) ==
  [i \in DOMAIN rows |-> IF i \in ids THEN Retired(rows[i], reason) ELSE rows[i]]

-----------------------------------------------------------------------------

Propose(p, m, kind, anchor, body, prior) ==
  LET rows == notes[p]
      new == Proposal(p, m, kind, anchor, body, prior)
  IN  /\ Len(rows) < MaxNotes
      /\ prior # 0 => rows[prior].status = "confirmed" /\ ~Purpose(rows[prior])
      /\ \A i \in DOMAIN rows : ~Alike(rows[i], new)
      /\ kind = "agent" => Cardinality(Waiting(rows)) < MAX_PENDING
      /\ notes' = [notes EXCEPT ![p] = Append(@, new)]
      /\ UNCHANGED request

Purposes(rows, status) == {i \in DOMAIN rows : Purpose(rows[i]) /\ rows[i].status = status}

(* The new purpose revises the confirmed one and replaces every other      *)
(* proposal.                                                               *)

propose_purpose(p, m, body) ==
  LET rows == notes[p]
      confirmed == Purposes(rows, "confirmed")
      prior == CHOOSE i \in confirmed \cup {0} : \A j \in confirmed : j <= i
  IN  /\ Len(rows) < MaxNotes /\ "purpose" \in Kinds
      /\ \A i \in Purposes(rows, "proposed") \cup confirmed : rows[i].body # body
      /\ notes' = [notes EXCEPT ![p] =
           Append(RetireAll(rows, Purposes(rows, "proposed"), "superseded"),
                  Proposal(p, m, "purpose", "project", body, prior))]
      /\ UNCHANGED request

(* _check_second_confirmer *)
Seconded(n, m, edits) ==
  is_wide_anchor(n) /\ m \notin Admins => n.by # m /\ ~edits

ReadToConfirm(m, p, i, body) ==
  LET n == notes[p][i]
      edited == body # n.body
  IN  /\ request[m] = NoRequest
      /\ Seconded(n, m, edited)
      /\ n.status = "proposed"
      /\ request' = [request EXCEPT ![m] =
           [op |-> "confirm", project |-> p, id |-> i, body |-> body,
            edited |-> edited, prior |-> n.supersedes]]
      /\ UNCHANGED notes

(* Mutant: the read status is trusted. *)
PriorStillConfirmed(rows, r) ==
  r.prior = 0 \/ rows[r.prior].status = "confirmed"

(* Both conditional updates of the confirm's transaction hit their row.    *)
StillConfirmable(rows, r) ==
  /\ rows[r.id].status = "proposed"
  /\ r.prior = 0 \/ rows[r.prior].status = "confirmed"

(* Mutant: the revised note stays. *)
ConfirmedBeside(rows, m, r) ==
  [rows EXCEPT ![r.id].status = "confirmed", ![r.id].confirmedBy = m,
     ![r.id].body = r.body, ![r.id].edited = r.edited]
Confirmed(rows, m, r) ==
  [RetireAll(rows, {r.prior}, "superseded") EXCEPT ![r.id].status = "confirmed",
     ![r.id].confirmedBy = m, ![r.id].body = r.body, ![r.id].edited = r.edited]

Confirm(m) ==
  LET r == request[m]
  IN  /\ r.op = "confirm"
      /\ request' = [request EXCEPT ![m] = NoRequest]
      /\ IF StillConfirmable(notes[r.project], r)
           THEN notes' = [notes EXCEPT ![r.project] = Confirmed(@, m, r)]
           ELSE UNCHANGED notes

ReadToReconfirm(m, p, i) ==
  LET n == notes[p][i]
  IN  /\ request[m] = NoRequest
      /\ Seconded(n, m, FALSE)
      /\ n.status = "confirmed"
      /\ request' = [request EXCEPT ![m] = [op |-> "reconfirm", project |-> p, id |-> i]]
      /\ UNCHANGED notes

Reconfirm(m) ==
  LET r == request[m]
  IN  /\ r.op = "reconfirm"
      /\ request' = [request EXCEPT ![m] = NoRequest]
      /\ IF notes[r.project][r.id].status = "confirmed"
           THEN notes' = [notes EXCEPT ![r.project][r.id].reconfirmedBy = m]
           ELSE UNCHANGED notes

(* A confirmed purpose takes its pending revision with it.                 *)
PendingRevisions(rows, i) ==
  {j \in DOMAIN rows : /\ Purpose(rows[i]) /\ rows[i].status = "confirmed"
                       /\ rows[j].supersedes = i /\ rows[j].status = "proposed"}

(* "outdated" stands for "wrong" too. *)
Retire(p, i, reason) ==
  LET rows == notes[p]
  IN  /\ rows[i].status = IF reason = "rejected" THEN "proposed" ELSE "confirmed"
      /\ notes' = [notes EXCEPT ![p] =
           [RetireAll(rows, PendingRevisions(rows, i), "rejected")
              EXCEPT ![i] = Retired(@, reason)]]
      /\ UNCHANGED request

(* All agents have one origin. *)
reject_agent_proposals(p, proposer) ==
  LET rows == notes[p]
      ids == {i \in Waiting(rows) : rows[i].by = proposer}
  IN  /\ ids # {}
      /\ notes' = [notes EXCEPT ![p] = RetireAll(rows, ids, "rejected")]
      /\ UNCHANGED request

NotesNext ==
  \/ \E p \in Homes, m \in Members, body \in Bodies :
       \/ \E kind \in Kinds \ {"purpose"}, anchor \in Anchors,
             prior \in {0} \cup DOMAIN notes[p] :
            Propose(p, m, kind, anchor, body, prior)
       \/ propose_purpose(p, m, body)
  \/ \E p \in Projects, m \in Members, body \in Bodies :
       \E i \in DOMAIN notes[p] :
         (p \in Homes \/ body = notes[p][i].body) /\ ReadToConfirm(m, p, i, body)
  \/ \E p \in Homes, m \in Members : \E i \in DOMAIN notes[p] :
       notes[p][i].kind \in Renewed /\ ReadToReconfirm(m, p, i)
  \/ \E p \in Projects : \E i \in DOMAIN notes[p] :
       \/ \E reason \in {"rejected", "outdated"} : Retire(p, i, reason)
       \/ reject_agent_proposals(p, notes[p][i].by)
  \/ \E m \in Members : Confirm(m) \/ Reconfirm(m)

Spec == Init /\ [][NotesNext]_vars

-----------------------------------------------------------------------------

Uids == Members \cup {"imported"} \X Members

Note == [kind : Kinds, anchor : {"project", "symbol"}, body : Bodies,
         by : Uids, stamp : Projects \X (0..MaxNotes), supersedes : 0..MaxNotes,
         status : {"proposed", "confirmed", "retired"},
         reason : {None, "rejected", "outdated", "superseded"},
         edited : BOOLEAN, confirmedBy : Uids \cup {None},
         reconfirmedBy : Uids \cup {None}]

TypeOK ==
  /\ \A p \in Projects :
       /\ Len(notes[p]) <= MaxNotes
       /\ \A i \in DOMAIN notes[p] : notes[p][i] \in Note /\ notes[p][i].supersedes < i
  /\ \A m \in Members : request[m].op \in {"none", "confirm", "reconfirm"}

(* No note came with a bundle. *)
ImportedNothing(rows) == \A i \in DOMAIN rows : rows[i].by \in Members

(***************************************************************************)
(* At most one purpose is proposed and one confirmed, and when both are    *)
(* the proposed one revises the confirmed one: so whatever is generated,   *)
(* confirmed, retired or imported in between.  And the proposed one can be *)
(* confirmed: it revises a confirmed purpose or nothing.  That much is     *)
(* said of projects that imported nothing, and of all if purposes alone    *)
(* have the whole project as their anchor: an import takes any note with   *)
(* the anchor and text of a purpose for that purpose.                      *)
(***************************************************************************)
OnePurpose ==
  /\ TypeOK
  /\ \A p \in Projects :
       LET rows == notes[p]
           proposed == Purposes(rows, "proposed")
           confirmed == Purposes(rows, "confirmed")
       IN  /\ Cardinality(proposed) <= 1 /\ Cardinality(confirmed) <= 1
           /\ \A i \in proposed : confirmed \subseteq {rows[i].supersedes}
           /\ ImportedNothing(rows) \/ "project" \notin Anchors =>
                \A i \in proposed : {rows[i].supersedes} \ {0} \subseteq confirmed

(***************************************************************************)
(* Of a note and all its revisions, and theirs, one at most is confirmed:  *)
(* agents never read two versions.  So any two confirmed notes are told    *)
(* apart by a set of notes no revision leads into or out of.  This is said *)
(* of projects that imported nothing.                                      *)
(***************************************************************************)
Families(rows) ==
  {S \in SUBSET DOMAIN rows :
     \A i \in DOMAIN rows : rows[i].supersedes # 0 => (i \in S <=> rows[i].supersedes \in S)}

OneConfirmedVersion ==
  \A p \in Projects :
    ImportedNothing(notes[p]) =>
      \A i, j \in DOMAIN notes[p] :
        i # j /\ notes[p][i].status = "confirmed" /\ notes[p][j].status = "confirmed"
          => \E S \in Families(notes[p]) : i \in S /\ j \notin S

(***************************************************************************)
(* History is kept: no note goes away, a retired one never changes, and    *)
(* what a member confirmed keeps its text and its confirmer, although a    *)
(* confirm writes what it computed from an older read.                     *)
(***************************************************************************)
HistoryKept ==
  [][\A p \in Projects : \A i \in DOMAIN notes[p] :
       LET was == notes[p][i]
           is == notes'[p][i]
       IN  /\ i \in DOMAIN notes'[p]
           /\ ~Live(was) => is = was
           /\ was.confirmedBy # None =>
                is.body = was.body /\ is.confirmedBy = was.confirmedBy]_vars

(***************************************************************************)
(* A note that reaches every session is a second person's decision, unless *)
(* an admin's: nobody else confirms or reconfirms their own proposal, or   *)
(* confirms one with a change, whatever happens between their read and     *)
(* their write.  An imported note keeps the decisions of its source.       *)
(***************************************************************************)
WideIsSeconded ==
  \A p \in Projects : \A i \in DOMAIN notes[p] :
    LET n == notes[p][i]
    IN  is_wide_anchor(n) /\ n.by \in Members =>
        /\ n.by \notin Admins => n.confirmedBy # n.by /\ n.reconfirmedBy # n.by
        /\ n.confirmedBy \in Members \ Admins => ~n.edited
=============================================================================
