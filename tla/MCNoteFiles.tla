----------------------------- MODULE MCNoteFiles -----------------------------
(* Instances of NoteFiles for TLC. *)
EXTENDS NoteFiles, TLC

CONSTANTS a1, a2, n1, n2, n3, k1, k2, k3, r1, r2, r3, r4

\* Every note is an active one of a1.
SeedActive == [n \in NoteIds |-> [state |-> "active", owner |-> a1]]

\* n1 is a trashed note of a1, n2 an active one; n3 is not
\* made yet and a2 has nothing.
SeedMixed == [n \in NoteIds |->
  IF n = n1 THEN [state |-> "trashed", owner |-> a1]
  ELSE IF n = n2 THEN [state |-> "active", owner |-> a1] ELSE [state |-> "fresh", owner |-> None]]

\* k1 is a file of n1.
OneFile == [k \in Keys |->
  IF k = k1 THEN [state |-> "row", owner |-> a1, note |-> n1]
            ELSE [state |-> "fresh", owner |-> None, note |-> None]]

RequestSymmetry == Permutations(Requests)
=============================================================================
