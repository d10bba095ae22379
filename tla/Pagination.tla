------------------------------ MODULE Pagination ------------------------------
(***************************************************************************)
(* GET /notes page by page: list in notes.service.ts (the cursor) and in   *)
(* notes.repository.ts (the query), while other requests create, edit,     *)
(* trash and delete notes of the same user. One client walks the list: it  *)
(* sends the nextCursor of each page back until there is none.             *)
(*                                                                         *)
(* Each page is one SELECT, so it is one step. Which filters the walk uses *)
(* (view, q) does not matter: a note is "listed" while it matches them and *)
(* "hidden" while it does not. Times count in the database's unit (µs);    *)
(* Precision of them make one unit of a JavaScript Date (ms).              *)
(***************************************************************************)
EXTENDS Integers, FiniteSets

CONSTANTS
  NoteIds,    \* ids, numbered in the order of uuid comparison
  Titles,     \* titles, numbered in the order of the column's collation
  Limit,      \* page size
  Precision,  \* 1000 in production
  MaxTime,    \* bound on the clock
  MaxWrites,  \* bound on the writes of other requests
  Orders,     \* the <<orderBy, orderDir>> this client asks for
  Seed        \* the table at the start

Fields == {"updatedAt", "createdAt", "title"}
Directions == {"asc", "desc"}
Times == 0 .. MaxTime

\* "none": the id is not drawn yet; "gone": the note was deleted for good.
NoteRow == [status : {"none", "listed", "hidden", "gone"},
            updatedAt : Times, createdAt : Times, title : Titles]

ASSUME BoundsAssumption ==
  /\ NoteIds \subseteq Nat /\ IsFiniteSet(NoteIds) /\ Titles \subseteq Nat
  /\ Limit \in Nat \ {0} /\ Precision \in Nat \ {0}
  /\ MaxTime \in Nat \ {0} /\ MaxWrites \in Nat
ASSUME OrdersAssumption == Orders \subseteq Fields \X Directions
ASSUME SeedAssumption == Seed \in [NoteIds -> NoteRow]

VARIABLES
  now,     \* the clock
  notes,   \* the user's rows of table notes
  writes,  \* how many writes other requests have made
  walk     \* the client

vars == <<now, notes, writes, walk>>

(***************************************************************************)
(* The client keeps the cursor of the last page; pc "more" says that there *)
(* is one. The rest is history that no code reads: times counts how often  *)
(* the walk got each note (2: more than once), start and touched are the   *)
(* notes that matched when it began and those written since, cursors is    *)
(* every cursor it got.                                                    *)
(***************************************************************************)
Cursor == [field : Fields, dir : Directions, value : Nat, id : NoteIds]
NoCursor == [field |-> "none"]
Walk == [pc : {"idle", "more", "end", "refused"}, cursor : Cursor \cup {NoCursor},
         times : [NoteIds -> 0 .. 2], start : SUBSET NoteIds, touched : SUBSET NoteIds,
         cursors : SUBSET Cursor]

Listed == {n \in NoteIds : notes[n].status = "listed"}

\* toISOString: a Date holds milliseconds, whatever the column holds.
ToDate(t) == t - (t % Precision)

Init ==
  /\ now = MaxTime - 1
  /\ notes = Seed
  /\ writes = 0
  /\ walk = [pc |-> "idle", cursor |-> NoCursor, times |-> [n \in NoteIds |-> 0],
             start |-> {}, touched |-> {}, cursors |-> {}]

-----------------------------------------------------------------------------
(* The other requests *)

Tick == now < MaxTime /\ now' = now + 1 /\ UNCHANGED <<notes, writes, walk>>

Write(n) ==
  /\ writes < MaxWrites
  /\ writes' = writes + 1
  /\ walk' = [walk EXCEPT !.touched = @ \cup {n}]
  /\ UNCHANGED now

\* create: both timestamps are the database's now().
CreateNote(n, t, s) ==
  /\ notes[n].status = "none"
  /\ notes' = [notes EXCEPT ![n] = [status |-> s, updatedAt |-> now, createdAt |-> now, title |-> t]]
  /\ Write(n)

\* update: whatever changes, updated_at is the application's new Date().
UpdateNote(n, t, s) ==
  /\ notes[n].status \in {"listed", "hidden"}
  /\ notes' = [notes EXCEPT ![n] = [@ EXCEPT !.status = s, !.updatedAt = ToDate(now), !.title = t]]
  /\ Write(n)

DeleteNote(n) ==
  /\ notes[n].status \in {"listed", "hidden"}
  /\ notes' = [notes EXCEPT ![n].status = "gone"]
  /\ Write(n)

-----------------------------------------------------------------------------
(* GET /notes *)

Lead(n, f) == notes[n][f]

\* <<value, id>> of a row against another, in the direction of the walk: the
\* ORDER BY clauses and the row comparison of the cursor filter.
\* Defect for the mutation runs: the comparison is not strict.
BeyondOrEqual(d, v, i, w, j) ==
  IF d = "desc" THEN v < w \/ (v = w /\ i <= j) ELSE v > w \/ (v = w /\ i >= j)

Beyond(d, v, i, w, j) ==
  IF d = "desc" THEN v < w \/ (v = w /\ i < j) ELSE v > w \/ (v = w /\ i > j)
Comes(f, d, m, n) == Beyond(d, Lead(n, f), n, Lead(m, f), m)

\* encodeCursor of the last row of a page.
EncodeCursor(n, f, d) ==
  [field |-> f, dir |-> d, id |-> n,
   value |-> IF f = "title" THEN Lead(n, f) ELSE ToDate(Lead(n, f))]

\* decodeCursor: a cursor is only good for the order it was issued under.
Matches(c, f, d) == c = NoCursor \/ (c.field = f /\ c.dir = d)

\* Defect: the cursor is not applied.
SelectedAnew(c, f, d) == Listed

Selected(c, f, d) ==
  IF c = NoCursor THEN Listed
  ELSE {n \in Listed : Beyond(d, Lead(n, f), n, c.value, c.id)}

\* limit + 1 rows are fetched and the page is the first limit of them.
\* Defect: the extra row is not fetched, so there never seem to be more.
HasMoreInPage(S) == Cardinality(S) > Limit + 1

HasMore(S) == Cardinality(S) > Limit
Page(S, f, d) == {n \in S : Cardinality({m \in S : Comes(f, d, m, n)}) < Limit}

ListPage(f, d) ==
  LET S    == Selected(walk.cursor, f, d)
      P    == Page(S, f, d)
      end  == CHOOSE n \in P : \A m \in P \ {n} : Comes(f, d, m, n)
      next == EncodeCursor(end, f, d)
      got  == [walk EXCEPT
                 !.times = [n \in NoteIds |-> IF n \in P /\ @[n] < 2 THEN @[n] + 1 ELSE @[n]],
                 !.start = IF walk.pc = "idle" THEN Listed ELSE @,
                 !.touched = IF walk.pc = "idle" THEN {} ELSE @]
  IN /\ walk.pc \in {"idle", "more"}
     /\ Matches(walk.cursor, f, d)
     /\ walk' = IF HasMore(S)
                THEN [got EXCEPT !.pc = "more", !.cursor = next, !.cursors = @ \cup {next}]
                ELSE [got EXCEPT !.pc = "end"]
     /\ UNCHANGED <<now, notes, writes>>

\* 400 'Cursor does not match order'.
RefusePage(f, d) ==
  /\ walk.pc = "more"
  /\ ~Matches(walk.cursor, f, d)
  /\ walk' = [walk EXCEPT !.pc = "refused"]
  /\ UNCHANGED <<now, notes, writes>>

Others ==
  \E n \in NoteIds :
    \/ \E t \in Titles, s \in {"listed", "hidden"} : CreateNote(n, t, s) \/ UpdateNote(n, t, s)
    \/ DeleteNote(n)

Client == \E o \in Orders : ListPage(o[1], o[2]) \/ RefusePage(o[1], o[2])

Next == Tick \/ Others \/ Client

Spec == Init /\ [][Next]_vars

\* The client asks for the next page as long as there is one. (Asking for the
\* same page again changes nothing that is modelled: it is a stuttering step.)
FairSpec == Spec /\ WF_vars(\E o \in Orders : ListPage(o[1], o[2]))

-----------------------------------------------------------------------------
(* Properties *)

\* The table, the clock and the client's state have their types.
TypeOK ==
  /\ now \in Times
  /\ notes \in [NoteIds -> NoteRow]
  /\ writes \in 0 .. MaxWrites
  /\ walk \in Walk

\* The notes a walk owes its client: there from its first page on, unchanged.
Stable == walk.start \ walk.touched

\* A walk that ends has listed every stable note exactly once, whatever was
\* written meanwhile, except notes that share a millisecond of the sorted
\* timestamp with the row a page ended on: the cursor cannot tell those apart.
ExactUpToTheMillisecond ==
  walk.pc = "end" =>
    \A n \in Stable :
      \/ walk.times[n] = 1
      \/ \E c \in walk.cursors :
           c.field # "title" /\ c.value = ToDate(Lead(n, c.field))

\* The truncated cursor errs to one side only: a descending walk may skip such
\* a note but never repeats one, and an ascending walk may repeat one but never
\* skips it.
Direction == IF walk.cursor = NoCursor THEN Directions ELSE {walk.cursor.dir}
ErrsToOneSide ==
  \A n \in Stable :
    /\ "desc" \in Direction => walk.times[n] <= 1
    /\ walk.pc = "end" /\ "asc" \in Direction => walk.times[n] >= 1

\* The walk comes to an end: every page moves the cursor on. The exception is
\* an ascending walk by a timestamp whose pages stay within one millisecond.
Crowded ==
  /\ walk.pc = "more" /\ walk.cursor.dir = "asc" /\ walk.cursor.field # "title"
  /\ \E P \in SUBSET Listed :
       /\ Cardinality(P) = Limit
       /\ \A n \in P : ToDate(Lead(n, walk.cursor.field)) = walk.cursor.value
WalkEnds == <>(walk.pc \in {"end", "refused"}) \/ []<>Crowded

-----------------------------------------------------------------------------
(* What a test promises and truncated cursors break *)

\* notes.repository.pagination.test.ts:100 "a paged walk reproduces the full
\* ordering exactly": with nobody writing, every note is listed once.
PagedWalkIsExact == walk.pc = "end" => \A n \in Stable : walk.times[n] = 1
=============================================================================
