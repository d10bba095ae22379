--------------------------- MODULE PaginationProofs ---------------------------
(***************************************************************************)
(* What a walk through GET /notes lists, for every set of notes, page      *)
(* size, precision of the column and number of writes by other requests.   *)
(***************************************************************************)
EXTENDS Pagination, FiniteSetTheorems, TLAPS

-----------------------------------------------------------------------------
(* Dates *)

LEMMA Division ==
  ASSUME NEW t \in Nat
  PROVE  /\ t \div Precision \in Nat /\ t % Precision \in 0 .. Precision - 1
         /\ t = Precision * (t \div Precision) + (t % Precision)
<1>1. t \div Precision >= 0
  BY BoundsAssumption
<1> QED
  BY <1>1, BoundsAssumption

\* A Date is no later than what it was made from.
LEMMA DateType ==
  ASSUME NEW t \in Nat
  PROVE  ToDate(t) \in 0 .. t /\ ToDate(t) = Precision * (t \div Precision)
<1> DEFINE q == t \div Precision
           r == t % Precision
<1>1. q \in Nat /\ r \in 0 .. Precision - 1 /\ t = Precision * q + r
  BY Division
<1>2. ToDate(t) = t - r
  BY DEF ToDate
<1> HIDE DEF q, r
<1>3. Precision \in Nat /\ Precision * q \in Nat
  BY <1>1, BoundsAssumption
<1>4. r \in Nat
  BY <1>1, <1>3
<1>5. t - r = Precision * q /\ Precision * q <= t
  BY <1>1, <1>3, <1>4
<1>6. ToDate(t) \in 0 .. t /\ ToDate(t) = Precision * q
  BY <1>2, <1>3, <1>5
<1> QED
  BY <1>6 DEF q

LEMMA ExactDate ==
  ASSUME NEW t \in Nat, Precision = 1
  PROVE  ToDate(t) = t
<1>1. t % Precision = 0
  BY Division
<1> QED
  BY <1>1 DEF ToDate

\* A time between a Date and what it was made from has the same Date.
LEMMA SameDate ==
  ASSUME NEW s \in Nat, NEW e \in Nat, ToDate(e) <= s, s <= e
  PROVE  ToDate(s) = ToDate(e)
<1> DEFINE a == s \div Precision
           b == e \div Precision
<1>1. a \in Nat /\ b \in Nat
  BY Division
<1>2. ToDate(s) = Precision * a /\ ToDate(e) = Precision * b
  BY DateType
<1>3. /\ s % Precision \in 0 .. Precision - 1 /\ s = Precision * a + (s % Precision)
      /\ e % Precision \in 0 .. Precision - 1 /\ e = Precision * b + (e % Precision)
  BY Division
<1> HIDE DEF a, b
<1>4. Precision * b < Precision * (a + 1) /\ Precision * a < Precision * (b + 1)
  BY <1>1, <1>2, <1>3, BoundsAssumption
<1>5. a = b
  BY <1>1, <1>4, BoundsAssumption
<1> QED
  BY <1>2, <1>5

-----------------------------------------------------------------------------
(* Pages: the rows in the order of a walk. *)

LEMMA Keys ==
  ASSUME TypeOK, NEW f \in Fields, NEW n \in NoteIds
  PROVE  Lead(n, f) \in Nat /\ n \in Nat
<1>1. notes[n] \in NoteRow
  BY DEF TypeOK
<1>2. n \in Nat /\ Titles \subseteq Nat /\ Times \subseteq Nat
  BY BoundsAssumption DEF Times
<1>3. /\ notes[n].updatedAt \in Times /\ notes[n].createdAt \in Times
      /\ notes[n].title \in Titles
  BY <1>1 DEF NoteRow
<1>4. CASE f = "title"
  BY <1>2, <1>3, <1>4 DEF Lead
<1>5. CASE f = "updatedAt"
  BY <1>2, <1>3, <1>5 DEF Lead
<1>6. CASE f = "createdAt"
  BY <1>2, <1>3, <1>6 DEF Lead
<1> QED
  BY <1>4, <1>5, <1>6 DEF Fields

Earlier(S, f, d, n) == {m \in S : Comes(f, d, m, n)}

LEMMA Ordered ==
  ASSUME TypeOK, NEW f \in Fields, NEW d \in Directions,
         NEW l \in NoteIds, NEW m \in NoteIds, NEW n \in NoteIds
  PROVE  /\ ~Comes(f, d, n, n)
         /\ m # n => Comes(f, d, m, n) \/ Comes(f, d, n, m)
         /\ Comes(f, d, l, m) /\ Comes(f, d, m, n) => Comes(f, d, l, n)
  BY Keys DEF Comes, Beyond, Directions

LEMMA Finite ==
  ASSUME NEW S \in SUBSET NoteIds, NEW f, NEW d, NEW n
  PROVE  /\ IsFiniteSet(S) /\ Cardinality(S) \in Nat
         /\ Earlier(S, f, d, n) \in SUBSET S
         /\ IsFiniteSet(Earlier(S, f, d, n)) /\ Cardinality(Earlier(S, f, d, n)) \in Nat
<1>1. Earlier(S, f, d, n) \in SUBSET S
  BY DEF Earlier
<1> QED
  BY <1>1, BoundsAssumption, FS_Subset, FS_CardinalityType

\* A row has more rows before it than any row before it has.
LEMMA Ranked ==
  ASSUME TypeOK, NEW f \in Fields, NEW d \in Directions, NEW S \in SUBSET NoteIds,
         NEW m \in S, NEW n \in S, Comes(f, d, m, n)
  PROVE  Cardinality(Earlier(S, f, d, m)) < Cardinality(Earlier(S, f, d, n))
<1> DEFINE M == Earlier(S, f, d, m)
           N == Earlier(S, f, d, n)
<1>1. M \in SUBSET N /\ m \in N /\ m \notin M
  BY Ordered DEF Earlier
<1>2. IsFiniteSet(N) /\ Cardinality(N) \in Nat /\ Cardinality(M) \in Nat
  BY Finite
<1>3. Cardinality(M) <= Cardinality(N) /\ (Cardinality(M) = Cardinality(N) => M = N)
  BY <1>1, <1>2, FS_Subset
<1> HIDE DEF M, N
<1>4. Cardinality(M) < Cardinality(N)
  BY <1>1, <1>2, <1>3
<1> QED
  BY <1>4 DEF M, N

\* A page is cut between rows that come before and rows that come after.
LEMMA PageComesFirst ==
  ASSUME TypeOK, NEW f \in Fields, NEW d \in Directions, NEW S \in SUBSET NoteIds,
         NEW m \in Page(S, f, d), NEW n \in S \ Page(S, f, d)
  PROVE  Comes(f, d, m, n)
<1>1. /\ m \in S /\ Cardinality(Earlier(S, f, d, m)) < Limit
      /\ ~(Cardinality(Earlier(S, f, d, n)) < Limit)
  BY DEF Page, Earlier
<1>2. ASSUME Comes(f, d, n, m)
      PROVE  FALSE
  <2>1. Cardinality(Earlier(S, f, d, n)) < Cardinality(Earlier(S, f, d, m))
    BY <1>1, <1>2, Ranked
  <2> QED
    BY <1>1, <2>1, Finite, BoundsAssumption
<1>3. m # n
  BY <1>1
<1> QED
  BY <1>1, <1>2, <1>3, Ordered

\* The last page is all that is left.
LEMMA LastPageIsAll ==
  ASSUME TypeOK, NEW f \in Fields, NEW d \in Directions, NEW S \in SUBSET NoteIds, ~HasMore(S)
  PROVE  Page(S, f, d) = S
<1> SUFFICES ASSUME NEW n \in S
             PROVE  Cardinality(Earlier(S, f, d, n)) < Limit
  BY DEF Page, Earlier
<1> DEFINE N == Earlier(S, f, d, n)
<1>1. N \in SUBSET S /\ n \notin N
  BY Ordered DEF Earlier
<1>2. IsFiniteSet(S) /\ Cardinality(S) \in Nat /\ Cardinality(N) \in Nat
  BY Finite
<1>3. Cardinality(N) <= Cardinality(S) /\ (Cardinality(S) = Cardinality(N) => S = N)
  BY <1>1, <1>2, FS_Subset
<1> HIDE DEF N
<1>4. Cardinality(N) < Limit
  BY <1>1, <1>2, <1>3, BoundsAssumption DEF HasMore
<1> QED
  BY <1>4 DEF N

\* Any other page has a last row.
LEMMA PageHasAnEnd ==
  ASSUME TypeOK, NEW f \in Fields, NEW d \in Directions, NEW S \in SUBSET NoteIds, HasMore(S)
  PROVE  \E n \in Page(S, f, d) : \A m \in Page(S, f, d) \ {n} : Comes(f, d, m, n)
<1> DEFINE size == Cardinality(S)
           rank == [n \in S |-> Cardinality(Earlier(S, f, d, n))]
           ranks == 0 .. size - 1
<1>1. IsFiniteSet(S) /\ size \in Nat /\ Limit \in Nat \ {0} /\ size > Limit
  BY Finite, BoundsAssumption DEF HasMore
<1>2. ASSUME NEW n \in S
      PROVE  rank[n] \in ranks
  <2> DEFINE N == Earlier(S, f, d, n)
  <2>1. N \in SUBSET S /\ n \notin N
    BY Ordered DEF Earlier
  <2>2. Cardinality(N) \in Nat
    BY Finite
  <2>3. Cardinality(N) <= size /\ (size = Cardinality(N) => S = N)
    BY <1>1, <2>1, FS_Subset
  <2> HIDE DEF N
  <2>4. Cardinality(N) \in ranks
    BY <1>1, <2>1, <2>2, <2>3
  <2> QED
    BY <2>4 DEF N
<1>3. \A m, n \in S : Comes(f, d, m, n) => rank[m] < rank[n]
  BY Ranked
<1>4. \A m, n \in S : rank[m] = rank[n] => m = n
  <2> SUFFICES ASSUME NEW m \in S, NEW n \in S, rank[m] = rank[n], m # n
               PROVE  FALSE
    OBVIOUS
  <2>1. Comes(f, d, m, n) \/ Comes(f, d, n, m)
    BY Ordered
  <2>2. rank[m] < rank[n] \/ rank[n] < rank[m]
    BY <1>3, <2>1
  <2>3. rank[m] \in Int /\ rank[n] \in Int
    BY <1>1, <1>2
  <2> QED
    BY <2>2, <2>3
<1> HIDE DEF size, rank
<1>5. rank \in Injection(S, ranks)
  <2>1. rank \in [S -> ranks]
    BY <1>2 DEF rank
  <2> QED
    BY <1>4, <2>1 DEF Injection, IsInjective
<1>6. IsFiniteSet(ranks) /\ Cardinality(ranks) = size
  BY <1>1, FS_Interval
<1>7. rank \in Surjection(S, ranks)
  BY <1>5, <1>6, FS_Injection DEF size
<1>8. Limit - 1 \in ranks
  BY <1>1
<1>9. PICK n \in S : rank[n] = Limit - 1
  BY <1>7, <1>8 DEF Surjection
<1>10. n \in Page(S, f, d)
  BY <1>1, <1>9 DEF Page, rank, Earlier
<1>11. ASSUME NEW m \in Page(S, f, d) \ {n}
       PROVE  Comes(f, d, m, n)
  <2>1. m \in S /\ rank[m] < Limit /\ rank[m] \in Int
    BY <1>1, <1>2 DEF Page, rank, Earlier
  <2>2. ~(rank[n] < rank[m])
    BY <1>1, <1>9, <2>1
  <2> QED
    BY <1>3, <2>1, <2>2, Ordered
<1> QED
  BY <1>10, <1>11

-----------------------------------------------------------------------------
(* Cursors *)

BeyondCursor(n, c) == Beyond(c.dir, Lead(n, c.field), n, c.value, c.id)
SharesDate(n, c) ==
  /\ Precision # 1  \* else a Date holds what the column holds
  /\ c.field # "title" /\ c.value = ToDate(Lead(n, c.field))

LEMMA CursorType ==
  ASSUME TypeOK, NEW f \in Fields, NEW d \in Directions, NEW e \in NoteIds
  PROVE  /\ EncodeCursor(e, f, d) \in Cursor
         /\ EncodeCursor(e, f, d).field = f /\ EncodeCursor(e, f, d).dir = d
         /\ EncodeCursor(e, f, d).id = e
         /\ EncodeCursor(e, f, d).value = IF f = "title" THEN Lead(e, f) ELSE ToDate(Lead(e, f))
<1>1. Lead(e, f) \in Nat /\ ToDate(Lead(e, f)) \in Nat
  BY Keys, DateType
<1> QED
  BY <1>1 DEF EncodeCursor, Cursor

\* Where a cursor cuts the rows: a descending walk loses rows behind it, and an
\* ascending one gets rows before it again, of its own date only.
LEMMA CursorCuts ==
  ASSUME TypeOK, NEW f \in Fields, NEW d \in Directions, NEW e \in NoteIds, NEW n \in NoteIds,
         NEW c, c = EncodeCursor(e, f, d)
  PROVE  /\ d = "desc" /\ (n = e \/ Comes(f, d, n, e)) => ~BeyondCursor(n, c)
         /\ d = "desc" /\ Comes(f, d, e, n) /\ ~BeyondCursor(n, c) => SharesDate(n, c)
         /\ d = "asc" /\ Comes(f, d, e, n) => BeyondCursor(n, c)
         /\ d = "asc" /\ (n = e \/ Comes(f, d, n, e)) /\ BeyondCursor(n, c) => SharesDate(n, c)
<1> DEFINE v == Lead(n, f)
           w == Lead(e, f)
<1>1. v \in Nat /\ w \in Nat /\ n \in Nat /\ e \in Nat
  BY Keys
<1>2. ToDate(w) \in 0 .. w
  BY <1>1, DateType
<1>3. ToDate(w) <= v /\ v <= w => ToDate(v) = ToDate(w)
  BY <1>1, SameDate
<1>4. /\ BeyondCursor(n, c) <=> Beyond(d, v, n, IF f = "title" THEN w ELSE ToDate(w), e)
      /\ SharesDate(n, c) <=> Precision # 1 /\ f # "title" /\ ToDate(w) = ToDate(v)
  BY CursorType DEF BeyondCursor, SharesDate
<1>5. /\ Comes(f, d, e, n) <=> Beyond(d, v, n, w, e)
      /\ Comes(f, d, n, e) <=> Beyond(d, w, e, v, n)
  BY DEF Comes
<1> HIDE DEF v, w
<1>6. Precision = 1 => ToDate(w) = w
  BY <1>1, ExactDate DEF w
<1>7. CASE f = "title" \/ Precision = 1
  BY <1>1, <1>4, <1>5, <1>6, <1>7 DEF Beyond
<1>8. CASE f # "title" /\ Precision # 1
  BY <1>1, <1>2, <1>3, <1>4, <1>5, <1>8 DEF Beyond
<1> QED
  BY <1>7, <1>8

\* What a cursor has passed comes before what it has not.
LEMMA PassedFirst ==
  ASSUME TypeOK, NEW c \in Cursor, NEW m \in NoteIds, NEW n \in NoteIds,
         BeyondCursor(n, c), ~BeyondCursor(m, c)
  PROVE  Comes(c.field, c.dir, m, n)
<1>1. c.field \in Fields /\ c.dir \in Directions /\ c.value \in Nat /\ c.id \in Nat
  BY BoundsAssumption DEF Cursor
<1> QED
  BY <1>1, Keys DEF BeyondCursor, Comes, Beyond, Directions

-----------------------------------------------------------------------------
(***************************************************************************)
(* The invariant. Between two pages every stable note is on its side of    *)
(* the cursor: passed and counted once, or yet to come. A descending walk  *)
(* may have passed an excused note without counting it; an ascending one   *)
(* may have such a note to come although it was counted.                   *)
(***************************************************************************)
Excused(n) == \E c \in walk.cursors : SharesDate(n, c)
Counted(n, d) ==
  \/ walk.times[n] = 1
  \/ Excused(n) /\ walk.times[n] = IF d = "desc" THEN 0 ELSE 2
OnCourse(n) ==
  IF BeyondCursor(n, walk.cursor)
  THEN walk.times[n] = 0 \/ (walk.cursor.dir = "asc" /\ Excused(n))
  ELSE Counted(n, walk.cursor.dir)

WalkInv ==
  /\ Stable \subseteq Listed
  /\ walk.pc = "idle" =>
       /\ walk.start = {} /\ walk.cursor = NoCursor
       /\ \A n \in NoteIds : walk.times[n] = 0
  /\ walk.pc \in {"more", "refused"} =>
       /\ walk.cursor \in Cursor
       /\ \A n \in Stable : OnCourse(n)
  /\ walk.pc = "end" =>
       \A n \in Stable : IF walk.cursor = NoCursor THEN walk.times[n] = 1
                         ELSE Counted(n, walk.cursor.dir)

PInv == TypeOK /\ WalkInv

LEMMA CursorField ==
  ASSUME NEW c \in Cursor
  PROVE  c # NoCursor /\ c.field \in Fields /\ c.dir \in Directions
<1>1. c.field \in Fields /\ c.dir \in Directions
  BY DEF Cursor
<1>2. NoCursor.field \notin Fields
  BY DEF NoCursor, Fields
<1> QED
  BY <1>1, <1>2

LEMMA WalkType ==
  ASSUME TypeOK
  PROVE  /\ DOMAIN walk.times = NoteIds /\ \A n \in NoteIds : walk.times[n] \in 0 .. 2
         /\ walk.start \in SUBSET NoteIds /\ walk.cursors \in SUBSET Cursor
         /\ walk.cursor \in Cursor \cup {NoCursor}
         /\ walk.pc \in {"idle", "more", "end", "refused"}
  BY DEF TypeOK, Walk

-----------------------------------------------------------------------------
(* A page is listed. *)

\* What listing the page P does to the history of the walk.
Got(P) ==
  [walk EXCEPT
     !.times = [n \in NoteIds |-> IF n \in P /\ @[n] < 2 THEN @[n] + 1 ELSE @[n]],
     !.start = IF walk.pc = "idle" THEN Listed ELSE @,
     !.touched = IF walk.pc = "idle" THEN {} ELSE @]

LEMMA GotFields ==
  ASSUME PInv, NEW P
  PROVE  /\ Got(P) \in Walk
         /\ Got(P).pc = walk.pc /\ Got(P).cursor = walk.cursor /\ Got(P).cursors = walk.cursors
         /\ Got(P).start = IF walk.pc = "idle" THEN Listed ELSE walk.start
         /\ Got(P).touched = IF walk.pc = "idle" THEN {} ELSE walk.touched
         /\ \A n \in NoteIds : Got(P).times[n] =
              IF n \in P /\ walk.times[n] < 2 THEN walk.times[n] + 1 ELSE walk.times[n]
<1>1. walk \in Walk
  BY DEF PInv, TypeOK
<1> DEFINE times == [n \in NoteIds |-> IF n \in P /\ walk.times[n] < 2 THEN walk.times[n] + 1
                                       ELSE walk.times[n]]
<1>2. times \in [NoteIds -> 0 .. 2]
  BY WalkType DEF PInv
<1>3. Listed \in SUBSET NoteIds
  BY DEF Listed
<1>4. Got(P) = [walk EXCEPT !.times = times,
                            !.start = IF walk.pc = "idle" THEN Listed ELSE walk.start,
                            !.touched = IF walk.pc = "idle" THEN {} ELSE walk.touched]
  BY DEF Got
<1>5. \A n \in NoteIds : times[n] = IF n \in P /\ walk.times[n] < 2 THEN walk.times[n] + 1
                                    ELSE walk.times[n]
  OBVIOUS
<1> HIDE DEF times
<1> QED
  BY <1>1, <1>2, <1>3, <1>4, <1>5 DEF Walk

\* A stable note before a page: not counted yet if the query selects it.
LEMMA BeforePage ==
  ASSUME PInv, NEW f \in Fields, NEW d \in Directions, NEW P,
         walk.pc \in {"idle", "more"}, Matches(walk.cursor, f, d),
         NEW n \in Got(P).start \ Got(P).touched
  PROVE  /\ n \in Listed /\ n \in NoteIds
         /\ n \in Selected(walk.cursor, f, d) =>
              walk.times[n] = 0 \/ (walk.cursor # NoCursor /\ d = "asc" /\ Excused(n))
         /\ n \notin Selected(walk.cursor, f, d) => walk.cursor # NoCursor /\ Counted(n, d)
<1>1. n \in Listed /\ n \in NoteIds
  BY GotFields DEF PInv, WalkInv, Stable, Listed
<1>2. CASE walk.cursor = NoCursor
  <2>1. walk.pc # "more"
    BY <1>2, CursorField DEF PInv, WalkInv
  <2> QED
    BY <1>1, <1>2, <2>1 DEF PInv, WalkInv, Selected
<1>3. CASE walk.cursor # NoCursor
  <2>1. walk.pc = "more"
    BY <1>3 DEF PInv, WalkInv
  <2>2. walk.cursor.field = f /\ walk.cursor.dir = d
    BY <1>3 DEF Matches
  <2>3. n \in Stable /\ OnCourse(n)
    BY <2>1, GotFields DEF PInv, WalkInv, Stable
  <2>4. n \in Selected(walk.cursor, f, d) <=> BeyondCursor(n, walk.cursor)
    BY <1>1, <1>3, <2>2 DEF Selected, BeyondCursor
  <2> QED
    BY <1>1, <1>3, <2>2, <2>3, <2>4 DEF OnCourse
<1> QED
  BY <1>2, <1>3

\* The cursors that have been given out still excuse the same notes.
LEMMA StillExcused ==
  ASSUME NEW n, Excused(n), notes' = notes, walk.cursors \subseteq walk'.cursors
  PROVE  Excused(n)'
  BY DEF Excused, SharesDate, Lead

LEMMA LastPageCounts ==
  ASSUME PInv, NEW f \in Fields, NEW d \in Directions,
         walk.pc \in {"idle", "more"}, Matches(walk.cursor, f, d),
         NEW S, S = Selected(walk.cursor, f, d), ~HasMore(S),
         walk' = [Got(Page(S, f, d)) EXCEPT !.pc = "end"], notes' = notes
  PROVE  walk' \in Walk /\ WalkInv'
<1> DEFINE got == Got(S)
<1>1. S \in SUBSET NoteIds
  BY DEF Selected, Listed
<1>2. walk' = [got EXCEPT !.pc = "end"]
  BY <1>1, LastPageIsAll DEF PInv
<1>3. got \in Walk
  BY GotFields
<1>4. walk' \in Walk
  BY <1>2, <1>3 DEF Walk
<1>5. /\ walk'.pc = "end" /\ walk'.cursor = got.cursor /\ walk'.cursors = got.cursors
      /\ walk'.start = got.start /\ walk'.touched = got.touched /\ walk'.times = got.times
  BY <1>2, <1>3 DEF Walk
<1>6. ASSUME NEW n \in Stable'
      PROVE  /\ n \in Listed
             /\ IF walk.cursor = NoCursor THEN walk'.times[n] = 1
                ELSE Counted(n, walk.cursor.dir)'
  <2>1. n \in got.start \ got.touched
    BY <1>5 DEF Stable
  <2>2. /\ n \in Listed /\ n \in NoteIds
        /\ n \in S => walk.times[n] = 0 \/ (walk.cursor # NoCursor /\ d = "asc" /\ Excused(n))
        /\ n \notin S => walk.cursor # NoCursor /\ Counted(n, d)
    BY <2>1, BeforePage
  <2>3. walk'.times[n] = IF n \in S /\ walk.times[n] < 2 THEN walk.times[n] + 1 ELSE walk.times[n]
    BY <1>5, <2>2, GotFields
  <2>4. walk.times[n] \in 0 .. 2
    BY <2>2, WalkType DEF PInv
  <2>5. Excused(n) => Excused(n)'
    BY <1>5, GotFields, StillExcused
  <2>6. walk.cursor # NoCursor => walk.cursor.dir = d
    BY DEF Matches
  <2>7. walk.cursor # NoCursor =>
          (Counted(n, walk.cursor.dir)' <=>
             walk'.times[n] = 1 \/ (Excused(n)' /\ walk'.times[n] = IF d = "desc" THEN 0 ELSE 2))
    BY <1>5, <2>6, GotFields DEF Counted
  <2>8. CASE n \in S
    BY <2>2, <2>3, <2>4, <2>5, <2>7, <2>8 DEF Directions
  <2>9. CASE n \notin S
    BY <2>2, <2>3, <2>4, <2>5, <2>7, <2>9 DEF Counted
  <2> QED
    BY <2>2, <2>8, <2>9
<1>7. walk'.cursor = walk.cursor /\ Listed' = Listed
  BY <1>5, GotFields DEF Listed
<1> QED
  BY <1>4, <1>5, <1>6, <1>7 DEF WalkInv, Counted, Excused

LEMMA PageCounts ==
  ASSUME PInv, NEW f \in Fields, NEW d \in Directions,
         walk.pc \in {"idle", "more"}, Matches(walk.cursor, f, d),
         NEW S, S = Selected(walk.cursor, f, d), HasMore(S),
         NEW P, P = Page(S, f, d),
         NEW e \in P, \A m \in P \ {e} : Comes(f, d, m, e),
         NEW c, c = EncodeCursor(e, f, d),
         walk' = [Got(P) EXCEPT !.pc = "more", !.cursor = c, !.cursors = walk.cursors \cup {c}],
         notes' = notes
  PROVE  walk' \in Walk /\ WalkInv'
<1> DEFINE got == Got(P)
<1>1. S \in SUBSET NoteIds /\ P \in SUBSET S /\ e \in NoteIds
  BY DEF Selected, Listed, Page
<1>2. c \in Cursor /\ c.field = f /\ c.dir = d
  BY <1>1, CursorType DEF PInv
<1>3. got \in Walk /\ walk.cursors \in SUBSET Cursor
  BY GotFields, WalkType DEF PInv
<1>4. walk' \in Walk
  BY <1>2, <1>3 DEF Walk
<1>5. /\ walk'.pc = "more" /\ walk'.cursor = c /\ walk'.cursors = walk.cursors \cup {c}
      /\ walk'.start = got.start /\ walk'.touched = got.touched /\ walk'.times = got.times
  BY <1>3 DEF Walk
<1>6. ASSUME NEW n \in Stable'
      PROVE  n \in Listed /\ OnCourse(n)'
  <2>1. n \in got.start \ got.touched
    BY <1>5 DEF Stable
  <2>2. /\ n \in Listed /\ n \in NoteIds
        /\ n \in S => walk.times[n] = 0 \/ (walk.cursor # NoCursor /\ d = "asc" /\ Excused(n))
        /\ n \notin S => walk.cursor # NoCursor /\ Counted(n, d)
    BY <2>1, BeforePage
  <2>3. walk'.times[n] = IF n \in P /\ walk.times[n] < 2 THEN walk.times[n] + 1 ELSE walk.times[n]
    BY <1>5, <2>2, GotFields
  <2>4. walk.times[n] \in 0 .. 2
    BY <2>2, WalkType DEF PInv
  <2>5. (Excused(n) \/ SharesDate(n, c)) => Excused(n)'
    BY <1>5, StillExcused DEF Excused, SharesDate, Lead
  <2>6. OnCourse(n)' <=> IF BeyondCursor(n, c)
                         THEN walk'.times[n] = 0 \/ (d = "asc" /\ Excused(n)')
                         ELSE walk'.times[n] = 1 \/ (Excused(n)' /\ walk'.times[n] = IF d = "desc" THEN 0 ELSE 2)
    BY <1>2, <1>5 DEF OnCourse, Counted, BeyondCursor, Lead
  <2>7. /\ d = "desc" /\ (n = e \/ Comes(f, d, n, e)) => ~BeyondCursor(n, c)
        /\ d = "desc" /\ Comes(f, d, e, n) /\ ~BeyondCursor(n, c) => SharesDate(n, c)
        /\ d = "asc" /\ Comes(f, d, e, n) => BeyondCursor(n, c)
        /\ d = "asc" /\ (n = e \/ Comes(f, d, n, e)) /\ BeyondCursor(n, c) => SharesDate(n, c)
    BY <1>1, <2>2, CursorCuts DEF PInv
  <2>8. d \in {"asc", "desc"}
    BY DEF Directions
  <2>9. CASE n \in P
    <3>1. n \in S /\ (n = e \/ Comes(f, d, n, e))
      BY <1>1, <2>9
    <3> QED
      BY <2>2, <2>3, <2>4, <2>5, <2>6, <2>7, <2>8, <2>9, <3>1
  <2>10. CASE n \in S \ P
    <3>1. Comes(f, d, e, n)
      BY <1>1, <2>10, PageComesFirst DEF PInv
    <3> QED
      BY <2>2, <2>3, <2>4, <2>5, <2>6, <2>7, <2>8, <2>10, <3>1
  <2>11. CASE n \notin S
    <3>1. walk.cursor # NoCursor /\ Counted(n, d)
      BY <2>2, <2>11
    <3>2. walk.cursor \in Cursor /\ walk.cursor.field = f /\ walk.cursor.dir = d
      BY <3>1, WalkType DEF Matches, PInv
    <3>3. BeyondCursor(e, walk.cursor) /\ ~BeyondCursor(n, walk.cursor)
      BY <1>1, <2>2, <2>11, <3>1, <3>2 DEF Selected, BeyondCursor
    <3>4. Comes(f, d, n, e) /\ n \notin P
      BY <1>1, <2>2, <2>11, <3>2, <3>3, PassedFirst DEF PInv
    <3> QED
      BY <2>2, <2>3, <2>4, <2>5, <2>6, <2>7, <2>8, <3>1, <3>4 DEF Counted
  <2> QED
    BY <2>2, <2>9, <2>10, <2>11
<1>7. Listed' = Listed
  BY DEF Listed
<1> QED
  BY <1>2, <1>4, <1>5, <1>6, <1>7 DEF WalkInv

LEMMA ListPageStep ==
  ASSUME PInv, NEW f \in Fields, NEW d \in Directions, ListPage(f, d)
  PROVE  PInv'
<1> DEFINE S == Selected(walk.cursor, f, d)
           P == Page(S, f, d)
           end == CHOOSE n \in P : \A m \in P \ {n} : Comes(f, d, m, n)
<1>1. /\ walk.pc \in {"idle", "more"} /\ Matches(walk.cursor, f, d)
      /\ now' = now /\ notes' = notes /\ writes' = writes
  BY DEF ListPage
<1>2. S \in SUBSET NoteIds
  BY DEF Selected, Listed
<1>3. Got(P).cursors = walk.cursors
  BY GotFields
<1>4. walk' = IF HasMore(S)
              THEN [Got(P) EXCEPT !.pc = "more", !.cursor = EncodeCursor(end, f, d),
                                  !.cursors = @ \cup {EncodeCursor(end, f, d)}]
              ELSE [Got(P) EXCEPT !.pc = "end"]
  BY DEF ListPage, Got
<1>5. walk' \in Walk /\ WalkInv'
  <2>1. CASE HasMore(S)
    <3>1. \E n \in P : \A m \in P \ {n} : Comes(f, d, m, n)
      BY <1>2, <2>1, PageHasAnEnd DEF PInv
    <3>2. end \in P /\ \A m \in P \ {end} : Comes(f, d, m, end)
      BY <3>1
    <3>3. walk' = [Got(P) EXCEPT !.pc = "more", !.cursor = EncodeCursor(end, f, d),
                                 !.cursors = walk.cursors \cup {EncodeCursor(end, f, d)}]
      BY <1>3, <1>4, <2>1
    <3> HIDE DEF S, P, end
    <3> QED
      BY <1>1, <2>1, <3>2, <3>3, PageCounts DEF S, P
  <2>2. CASE ~HasMore(S)
    <3>1. walk' = [Got(P) EXCEPT !.pc = "end"]
      BY <1>4, <2>2
    <3> QED
      BY <1>1, <2>2, <3>1, LastPageCounts
  <2> QED
    BY <2>1, <2>2
<1> QED
  BY <1>1, <1>5 DEF PInv, TypeOK

-----------------------------------------------------------------------------
(* Other steps *)

LEMMA RefuseStep ==
  ASSUME PInv, NEW f, NEW d, RefusePage(f, d)
  PROVE  PInv'
<1>1. /\ walk.pc = "more" /\ walk' = [walk EXCEPT !.pc = "refused"]
      /\ now' = now /\ notes' = notes /\ writes' = writes
  BY DEF RefusePage
<1>2. walk \in Walk /\ WalkInv
  BY DEF PInv, TypeOK
<1>3. /\ walk' \in Walk /\ walk'.pc = "refused" /\ walk'.cursor = walk.cursor
      /\ walk'.cursors = walk.cursors /\ walk'.times = walk.times
      /\ walk'.start = walk.start /\ walk'.touched = walk.touched
  BY <1>1, <1>2 DEF Walk
<1>4. WalkInv'
  BY <1>1, <1>2, <1>3
     DEF WalkInv, Stable, Listed, OnCourse, Counted, Excused, SharesDate, BeyondCursor, Lead
<1> QED
  BY <1>1, <1>3, <1>4 DEF PInv, TypeOK

\* A write makes its note unstable, and leaves the other rows alone.
LEMMA WriteStep ==
  ASSUME PInv, NEW n \in NoteIds, NEW row \in NoteRow,
         notes' = [notes EXCEPT ![n] = row], Write(n)
  PROVE  PInv'
<1>1. /\ writes < MaxWrites /\ writes' = writes + 1 /\ now' = now
      /\ walk' = [walk EXCEPT !.touched = walk.touched \cup {n}]
  BY DEF Write
<1>2. walk \in Walk /\ WalkInv /\ notes \in [NoteIds -> NoteRow]
  BY DEF PInv, TypeOK
<1>3. /\ walk' \in Walk /\ walk'.pc = walk.pc /\ walk'.cursor = walk.cursor
      /\ walk'.cursors = walk.cursors /\ walk'.times = walk.times
      /\ walk'.start = walk.start /\ walk'.touched = walk.touched \cup {n}
  BY <1>1, <1>2 DEF Walk
<1>4. notes' \in [NoteIds -> NoteRow] /\ \A m \in NoteIds \ {n} : notes'[m] = notes[m]
  BY <1>2
<1>5. ASSUME NEW m \in Stable'
      PROVE  m \in Stable /\ notes'[m] = notes[m] /\ m \in Listed'
  <2>1. m \in Stable /\ m # n /\ m \in NoteIds
    BY <1>2, <1>3 DEF Stable, Walk
  <2> QED
    BY <1>2, <1>4, <2>1 DEF WalkInv, Listed
<1>6. ASSUME NEW m \in Stable'
      PROVE  /\ \A d : Counted(m, d) => (walk'.times[m] = 1 \/ (Excused(m)' /\ walk'.times[m] = IF d = "desc" THEN 0 ELSE 2))
             /\ OnCourse(m) => OnCourse(m)'
  BY <1>3, <1>5 DEF OnCourse, Counted, Excused, SharesDate, BeyondCursor, Lead
<1>7. WalkInv'
  <2>1. Stable' \subseteq Listed'
    BY <1>5
  <2>2. walk'.pc = "idle" => /\ walk'.start = {} /\ walk'.cursor = NoCursor
                            /\ \A m \in NoteIds : walk'.times[m] = 0
    BY <1>2, <1>3 DEF WalkInv
  <2>3. walk'.pc \in {"more", "refused"} =>
          walk'.cursor \in Cursor /\ \A m \in Stable' : OnCourse(m)'
    BY <1>2, <1>3, <1>5, <1>6 DEF WalkInv
  <2>4. ASSUME walk'.pc = "end", NEW m \in Stable'
        PROVE  IF walk'.cursor = NoCursor THEN walk'.times[m] = 1
               ELSE Counted(m, walk.cursor.dir)'
    <3>1. IF walk.cursor = NoCursor THEN walk.times[m] = 1 ELSE Counted(m, walk.cursor.dir)
      BY <1>2, <1>3, <1>5, <2>4 DEF WalkInv
    <3> QED
      BY <1>3, <1>6, <3>1 DEF Counted
  <2> QED
    BY <2>1, <2>2, <2>3, <2>4 DEF WalkInv
<1>8. writes' \in 0 .. MaxWrites
  BY <1>1, BoundsAssumption DEF PInv, TypeOK
<1> QED
  BY <1>1, <1>3, <1>4, <1>7, <1>8 DEF PInv, TypeOK

LEMMA OthersStep ==
  ASSUME PInv, Others
  PROVE  PInv'
<1>1. PICK n \in NoteIds :
        \/ \E t \in Titles, s \in {"listed", "hidden"} : CreateNote(n, t, s) \/ UpdateNote(n, t, s)
        \/ DeleteNote(n)
  BY DEF Others
<1>2. notes \in [NoteIds -> NoteRow] /\ notes[n] \in NoteRow /\ now \in Times
  BY DEF PInv, TypeOK
<1>3. ToDate(now) \in Times
  <2>1. now \in Nat /\ now <= MaxTime /\ MaxTime \in Nat
    BY <1>2, BoundsAssumption DEF Times
  <2>2. ToDate(now) \in 0 .. now
    BY <2>1, DateType
  <2> QED
    BY <2>1, <2>2 DEF Times
<1>4. ASSUME NEW t \in Titles, NEW s \in {"listed", "hidden"}, CreateNote(n, t, s)
      PROVE  PInv'
  <2>1. [status |-> s, updatedAt |-> now, createdAt |-> now, title |-> t] \in NoteRow
    BY <1>2 DEF NoteRow
  <2> QED
    BY <1>4, <2>1, WriteStep DEF CreateNote
<1>5. ASSUME NEW t \in Titles, NEW s \in {"listed", "hidden"}, UpdateNote(n, t, s)
      PROVE  PInv'
  <2>1. [notes[n] EXCEPT !.status = s, !.updatedAt = ToDate(now), !.title = t] \in NoteRow
    BY <1>2, <1>3 DEF NoteRow
  <2>2. notes' = [notes EXCEPT ![n] = [notes[n] EXCEPT !.status = s, !.updatedAt = ToDate(now), !.title = t]]
    BY <1>5 DEF UpdateNote
  <2> QED
    BY <1>5, <2>1, <2>2, WriteStep DEF UpdateNote
<1>6. ASSUME DeleteNote(n)
      PROVE  PInv'
  <2>1. [notes[n] EXCEPT !.status = "gone"] \in NoteRow
    BY <1>2 DEF NoteRow
  <2>2. notes' = [notes EXCEPT ![n] = [notes[n] EXCEPT !.status = "gone"]]
    BY <1>6 DEF DeleteNote
  <2> QED
    BY <1>6, <2>1, <2>2, WriteStep DEF DeleteNote
<1> QED
  BY <1>1, <1>4, <1>5, <1>6

LEMMA StillStep ==
  ASSUME PInv, notes' = notes, walk' = walk, writes' = writes, now' \in Times
  PROVE  PInv'
  BY DEF PInv, TypeOK, WalkInv, Stable, Listed, OnCourse, Counted, Excused, SharesDate,
         BeyondCursor, Lead

LEMMA InitPInv == Init => PInv
<1> SUFFICES ASSUME Init
             PROVE  PInv
  OBVIOUS
<1>1. MaxTime - 1 \in Times /\ 0 \in 0 .. MaxWrites
  BY BoundsAssumption DEF Times
<1>2. walk \in Walk
  BY DEF Init, Walk
<1>3. TypeOK
  BY <1>1, <1>2, SeedAssumption DEF Init, TypeOK
<1>4. WalkInv
  BY DEF Init, WalkInv, Stable
<1> QED
  BY <1>3, <1>4 DEF PInv

LEMMA NextPInv == PInv /\ [Next]_vars => PInv'
<1> SUFFICES ASSUME PInv, [Next]_vars
             PROVE  PInv'
  OBVIOUS
<1>1. CASE Tick
  <2>1. now' \in Times
    BY <1>1, BoundsAssumption DEF Tick, PInv, TypeOK, Times
  <2> QED
    BY <1>1, <2>1, StillStep DEF Tick
<1>2. CASE Others
  BY <1>2, OthersStep
<1>3. CASE Client
  <2>1. PICK o \in Orders : ListPage(o[1], o[2]) \/ RefusePage(o[1], o[2])
    BY <1>3 DEF Client
  <2>2. o[1] \in Fields /\ o[2] \in Directions
    BY OrdersAssumption
  <2> QED
    BY <2>1, <2>2, ListPageStep, RefuseStep
<1>4. CASE UNCHANGED vars
  <2>1. now' \in Times
    BY <1>4 DEF vars, PInv, TypeOK
  <2> QED
    BY <1>4, <2>1, StillStep DEF vars
<1> QED
  BY <1>1, <1>2, <1>3, <1>4 DEF Next

-----------------------------------------------------------------------------
(* The theorems *)

\* A walk in progress: every note that has been in the list all along is on its
\* side of the cursor and was counted accordingly. This is about the keyset
\* cursor of list in notes.repository.ts, for every page size and precision.
THEOREM WalksStayOnCourse == Spec => []PInv
  BY InitPInv, NextPInv, PTL DEF Spec

\* The table, the clock and the client's state have their types.
THEOREM PagesAreTyped == Spec => []TypeOK
<1>1. PInv => TypeOK
  BY DEF PInv
<1> QED
  BY <1>1, WalksStayOnCourse, PTL

\* Whatever other requests write meanwhile, a walk that ends has listed every
\* note that was there all along exactly once, except notes that share a
\* millisecond of the sorted timestamp with the row a page ended on.
THEOREM WalksAreExact == Spec => []ExactUpToTheMillisecond
<1>1. PInv => ExactUpToTheMillisecond
  BY DEF PInv, WalkInv, ExactUpToTheMillisecond, Counted, Excused, SharesDate
<1> QED
  BY <1>1, WalksStayOnCourse, PTL

\* A descending walk never repeats a note and an ascending one never skips one,
\* however the cursor is truncated by toISOString.
THEOREM WalksErrToOneSide == Spec => []ErrsToOneSide
<1>1. ASSUME PInv, NEW n \in Stable
      PROVE  /\ "desc" \in Direction => walk.times[n] <= 1
             /\ walk.pc = "end" /\ "asc" \in Direction => walk.times[n] >= 1
  <2>1. walk.times[n] \in 0 .. 2 /\ walk.pc \in {"idle", "more", "end", "refused"}
    BY <1>1, WalkType DEF PInv, Stable
  <2>2. walk.cursor # NoCursor => \A d : d \in Direction <=> d = walk.cursor.dir
    BY DEF Direction
  <2>3. CASE walk.pc = "idle"
    BY <1>1, <2>1, <2>3 DEF PInv, WalkInv, Stable
  <2>4. CASE walk.pc \in {"more", "refused"}
    BY <1>1, <2>1, <2>2, <2>4, CursorField DEF PInv, WalkInv, OnCourse, Counted
  <2>5. CASE walk.pc = "end"
    BY <1>1, <2>1, <2>2, <2>5 DEF PInv, WalkInv, Counted
  <2> QED
    BY <2>1, <2>3, <2>4, <2>5
<1>2. PInv => ErrsToOneSide
  BY <1>1 DEF ErrsToOneSide
<1> QED
  BY <1>2, WalksStayOnCourse, PTL

\* Were a Date as precise as the column, a walk would list every note that was
\* there all along exactly once, whatever is written meanwhile, ties and all:
\* the (value, id) cursor of notes.repository.ts is right, and its truncation
\* is the only thing that breaks what notes.repository.pagination.test.ts says.
THEOREM ExactIfNotTruncated ==
  ASSUME Precision = 1
  PROVE  Spec => []PagedWalkIsExact
<1>1. PInv => PagedWalkIsExact
  BY DEF PInv, WalkInv, PagedWalkIsExact, Counted, Excused, SharesDate
<1> QED
  BY <1>1, WalksStayOnCourse, PTL
=============================================================================
