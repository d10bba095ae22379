------------------------------- MODULE NoteIds --------------------------------
(***************************************************************************)
(* What stores/notes.ts does to its ids in more than one of the models:    *)
(* removeNote takes a note out of the list (NoteList, NotesStore).         *)
(***************************************************************************)
EXTENDS Naturals, FiniteSets, SequencesExt

\* ids.filter in removeNote: s without n, the rest in its order. SelectSeq
\* says the same, but the prover cannot look into it.
Without(s, n) ==
  LET kept  == {i \in DOMAIN s : s[i] # n}
      at(k) == CHOOSE i \in kept : Cardinality({j \in kept : j < i}) = k - 1
  IN [k \in 1 .. Cardinality(kept) |-> s[at(k)]]
=============================================================================
