----------------------------- MODULE MCNotesStore -----------------------------
(* Instances of NotesStore for TLC. *)
EXTENDS NotesStore

CONSTANTS a, b

\* a is starred; b is in the trash and changed later.
TwoSeed ==
  a :> [title |-> 0, starred |-> TRUE, trashed |-> FALSE, at |-> 1]
    @@ b :> [title |-> 0, starred |-> FALSE, trashed |-> TRUE, at |-> 2]
=============================================================================
