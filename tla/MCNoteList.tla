------------------------------ MODULE MCNoteList ------------------------------
(* Instances of NoteList for TLC. *)
EXTENDS NoteList

\* Notes 1 to 5 match "all", note 6 matches "trash"; note 5 is not made yet.
SixQuery == [n \in Notes |-> IF n = 6 THEN "trash" ELSE "all"]
SixSeed == [n \in Notes |-> IF n = 5 THEN 0 ELSE IF n = 6 THEN 5 ELSE n]
=============================================================================
