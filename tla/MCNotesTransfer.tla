-------------------------- MODULE MCNotesTransfer ---------------------------
(* A small instance of NotesTransfer: two projects, exported to and from.  *)
EXTENDS NotesTransfer, TLC

(* No instance names a text. *)
Symmetry == Permutations(Bodies)
=============================================================================
