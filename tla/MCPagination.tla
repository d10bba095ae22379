----------------------------- MODULE MCPagination -----------------------------
(* Instances of Pagination for TLC. *)
EXTENDS Pagination

\* Notes 1 and 2 are made in the first millisecond, in the order 2, 1, and note
\* 3 in the next; two of them share a title. Note 4 is not made yet.
Made == {1, 2, 3}
MadeAt(n) == CASE n = 1 -> 1 [] n = 2 -> 0 [] OTHER -> 3
MCSeed == [n \in NoteIds |->
  IF n \in Made
  THEN [status |-> "listed", updatedAt |-> MadeAt(n), createdAt |-> MadeAt(n),
        title |-> IF n = 2 THEN 2 ELSE 1]
  ELSE [status |-> "none", updatedAt |-> 0, createdAt |-> 0, title |-> 1]]

EveryOrder == Fields \X Directions
NewestCreated == {<<"createdAt", "desc">>}
=============================================================================
