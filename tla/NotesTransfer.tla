--------------------------- MODULE NotesTransfer ----------------------------
(***************************************************************************)
(* The notes' part of a transfer: a project is exported to a bundle        *)
(* (portal/transfer_export.py), a file that may be imported at any later   *)
(* time, and again, into other projects (import_notes in mcp/notes.py,     *)
(* under the lock apply_import takes in portal/transfer_import.py).        *)
(*                                                                         *)
(* A bundle maps the ids of the notes it carries to their records.  The    *)
(* chats, caches and settings of a bundle, and the anchors and lengths     *)
(* that make the import skip a note, are left out.                         *)
(***************************************************************************)
EXTENDS ProjectNotes, FiniteSetsExt

VARIABLE bundle \* the file last exported

NoBundle == <<>>

TransferInit == Init /\ bundle = NoBundle

-----------------------------------------------------------------------------
(* The export *)

Strip(uid) == IF uid \in {"imported"} \X Members THEN uid[2] ELSE uid

Carried(rows) == {i \in DOMAIN rows \ Waiting(rows) : rows[i].reason # "rejected"}

Record(rows, i) ==
  [rows[i] EXCEPT !.by = Strip(@), !.confirmedBy = Strip(@), !.reconfirmedBy = Strip(@),
                  !.supersedes = IF @ \in Carried(rows) /\ @ < i THEN @ ELSE 0]

Bundle(rows) == [i \in Carried(rows) |-> Record(rows, i)]

Export(p) ==
  /\ bundle' = Bundle(notes[p])
  /\ UNCHANGED vars

-----------------------------------------------------------------------------
(* The import *)

(* The purpose notes of a bundle that are live in its source.              *)
LivePurposes(b, status) == {i \in DOMAIN b : Purpose(b[i]) /\ b[i].status = status}

(* check_import_notes: what does not raise ImportFormatError.              *)
Fits(n) ==
  /\ (n.reason # None) = (n.status = "retired")
  /\ n.status = "confirmed" => n.confirmedBy # None
  /\ n.status = "proposed" => n.confirmedBy = None
  /\ n.reconfirmedBy # None => n.confirmedBy # None
  /\ {n.by, n.confirmedBy, n.reconfirmedBy} \subseteq Members \cup {None}

Accepted(b) ==
  /\ \A i \in DOMAIN b : Fits(b[i]) /\ b[i].supersedes \in {0} \cup (DOMAIN b \cap 1..i-1)
  /\ \A status \in {"proposed", "confirmed"} : Cardinality(LivePurposes(b, status)) <= 1

AsProposed(n) ==
  [n EXCEPT !.status = "proposed", !.edited = FALSE,
            !.confirmedBy = None, !.reconfirmedBy = None]

(* _check_import_record: what is stored of a record.                       *)
Prefixed(uid) == IF uid = None THEN None ELSE <<"imported", uid>>

Stored(n, keep) ==
  LET imported == [n EXCEPT !.by = Prefixed(@), !.confirmedBy = Prefixed(@),
                            !.reconfirmedBy = Prefixed(@)]
  IN  IF n.status = "confirmed" /\ ~keep THEN AsProposed(imported) ELSE imported

(* Without keep a bundle's confirmed purpose would be proposed beside its  *)
(* pending one.                                                            *)
(* Mutant: both become proposals. *)
SkippedIfRefused(b, keep, allowed) ==
  {i \in DOMAIN b : Purpose(b[i]) /\ ~allowed}
SkippedPurposes(b, keep, allowed) ==
  {i \in DOMAIN b :
     /\ Purpose(b[i])
     /\ \/ ~allowed
        \/ ~keep /\ b[i].status = "confirmed" /\ LivePurposes(b, "proposed") # {}}

(* _provenance_key *)
(* Mutant: the imported: prefix is compared too. *)
SameProposer(n, o) ==
  /\ n.kind = o.kind /\ n.anchor = o.anchor /\ n.body = o.body
  /\ n.stamp = o.stamp /\ n.by = o.by
SameProvenance(n, o) ==
  n.kind = o.kind /\ n.anchor = o.anchor /\ n.body = o.body /\ n.stamp = o.stamp

Matches(rows, n) ==
  LET same == {i \in DOMAIN rows : SameProvenance(rows[i], n)}
  IN  IF same = {} /\ Live(n) THEN {i \in DOMAIN rows : Alike(rows[i], n)} ELSE same

(* One record, the others before it done: at maps the ids of the bundle to *)
(* ids of the target, 0 for what was skipped.                              *)
ConfirmedAt(rows, i) == i # 0 /\ rows[i].status = "confirmed"

Insert(done, i, n) ==
  LET mapped == IF n.supersedes = 0 THEN 0 ELSE done.at[n.supersedes]
      unlinked == n.status = "proposed" /\ ~ConfirmedAt(done.rows, mapped)
      linked == [n EXCEPT !.supersedes = IF unlinked THEN 0 ELSE mapped]
      second == n.status = "confirmed" /\ ConfirmedAt(done.rows, mapped)
  IN  IF second /\ Purpose(n) THEN done
      ELSE [rows |-> Append(done.rows, IF second THEN AsProposed(linked) ELSE linked),
            at |-> [done.at EXCEPT ![i] = Len(done.rows) + 1]]

ImportRecord(done, i, n) ==
  LET found == Matches(done.rows, n)
  IN  IF found = {} THEN Insert(done, i, n)
      ELSE [done EXCEPT !.at[i] = Min(found)]

(* In the order of the bundle's ids; allowed is _has_live_purpose's answer *)
(* under the lock.                                                         *)
Imported(rows, b, keep, allowed) ==
  LET taken == DOMAIN b \ SkippedPurposes(b, keep, allowed)
      done[i \in 0..MaxNotes] ==
        IF i = 0 THEN [rows |-> rows, at |-> [j \in DOMAIN b |-> 0]]
        ELSE IF i \in taken THEN ImportRecord(done[i-1], i, Stored(b[i], keep))
        ELSE done[i-1]
  IN  done

import_notes(rows, b, keep) ==
  LET allowed == \A i \in DOMAIN rows : ~(Purpose(rows[i]) /\ Live(rows[i]))
  IN  Imported(rows, b, keep, allowed)[MaxNotes].rows

(* An importer who may configure the project keeps the statuses.           *)
Import(q, keep) ==
  LET result == import_notes(notes[q], bundle, keep)
  IN  /\ Accepted(bundle) /\ Len(result) <= MaxNotes
      /\ notes' = [notes EXCEPT ![q] = result]
      /\ UNCHANGED <<request, bundle>>

TransferNext ==
  \/ NotesNext /\ UNCHANGED bundle
  \/ \E p \in Projects : Export(p)
  \/ \E q \in Projects, keep \in BOOLEAN : Import(q, keep)

TransferSpec == TransferInit /\ [][TransferNext]_<<vars, bundle>>

-----------------------------------------------------------------------------

(* An import may have taken a target's note for the purpose of its bundle; *)
(* what was exported then may have a purpose that revises another note.    *)
PurposesRevisePurposes(b) ==
  \A i \in DOMAIN b : Purpose(b[i]) /\ b[i].supersedes # 0 => Purpose(b[b[i].supersedes])

(***************************************************************************)
(* "Re-importing is safe": no check of an import refuses what a project    *)
(* exports; the same bundle twice adds nothing the second time, into       *)
(* whatever project and however old the bundle is; and a round trip        *)
(* through a new project adds nothing to the source either.  All this for  *)
(* importers who keep the statuses and for those who do not.               *)
(***************************************************************************)
ReimportingIsSafe ==
  /\ Accepted(bundle)
  /\ \A p \in Projects, keep \in BOOLEAN :
       /\ PurposesRevisePurposes(bundle) =>
            LET once == import_notes(notes[p], bundle, keep)
            IN  import_notes(once, bundle, keep) = once
       /\ bundle = Bundle(notes[p]) =>
            \A there \in BOOLEAN :
              LET copy == Bundle(import_notes(<<>>, bundle, there))
              IN  Accepted(copy) /\ import_notes(notes[p], copy, keep) = notes[p]
=============================================================================
