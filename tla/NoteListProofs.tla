---------------------------- MODULE NoteListProofs ----------------------------
(***************************************************************************)
(* What the list of notes shows, for every set of notes and queries, page  *)
(* size and number of writes.                                              *)
(***************************************************************************)
EXTENDS NoteList, FiniteSetTheorems, TLAPS

-----------------------------------------------------------------------------
(* Ranks: a finite set with numbers of its own for its elements. *)

Below(K, key, k) == {j \in K : key[j] < key[k]}
Rank(K, key, k) == Cardinality(Below(K, key, k))

LEMMA RankType ==
  ASSUME NEW K, IsFiniteSet(K), NEW key \in [K -> Int], NEW k \in K
  PROVE  Cardinality(K) \in Nat /\ Rank(K, key, k) \in 0 .. Cardinality(K) - 1
<1> DEFINE B == Below(K, key, k)
<1>1. B \in SUBSET K /\ k \notin B
  BY DEF Below
<1>2. IsFiniteSet(B) /\ Cardinality(B) \in Nat /\ Cardinality(K) \in Nat
  BY <1>1, FS_Subset, FS_CardinalityType
<1>3. Cardinality(B) <= Cardinality(K) /\ (Cardinality(K) = Cardinality(B) => K = B)
  BY <1>1, FS_Subset
<1> HIDE DEF B
<1>4. Cardinality(K) \in Nat /\ Cardinality(B) \in 0 .. Cardinality(K) - 1
  BY <1>1, <1>2, <1>3
<1> QED
  BY <1>4 DEF B, Rank

LEMMA RankGrows ==
  ASSUME NEW K, IsFiniteSet(K), NEW key \in [K -> Int], NEW j \in K, NEW k \in K, key[j] < key[k]
  PROVE  Rank(K, key, j) < Rank(K, key, k)
<1> DEFINE A == Below(K, key, j)
           B == Below(K, key, k)
<1>1. A \in SUBSET B /\ j \in B /\ j \notin A /\ B \in SUBSET K
  BY DEF Below
<1>2. IsFiniteSet(B) /\ Cardinality(B) \in Nat
  BY <1>1, FS_Subset, FS_CardinalityType
<1>3. /\ Cardinality(A) \in Nat /\ Cardinality(A) <= Cardinality(B)
      /\ Cardinality(A) = Cardinality(B) => A = B
  BY <1>1, <1>2, FS_Subset, FS_CardinalityType
<1> HIDE DEF A, B
<1>4. Cardinality(A) < Cardinality(B)
  BY <1>1, <1>2, <1>3
<1> QED
  BY <1>4 DEF A, B, Rank

\* The ranks number the set without a gap, in the order of the keys.
LEMMA RanksNumber ==
  ASSUME NEW K, IsFiniteSet(K), NEW key \in [K -> Int],
         \A j, k \in K : key[j] = key[k] => j = k
  PROVE  /\ \A i \in 1 .. Cardinality(K) : \E k \in K : Rank(K, key, k) = i - 1
         /\ \A j, k \in K : Rank(K, key, j) = Rank(K, key, k) => j = k
         /\ \A j, k \in K : Rank(K, key, j) < Rank(K, key, k) => key[j] < key[k]
<1> DEFINE size == Cardinality(K)
           rank == [k \in K |-> Rank(K, key, k)]
<1>1. size \in Nat
  BY FS_CardinalityType
<1>2. rank \in [K -> 0 .. size - 1]
  BY RankType
<1>3. \A j, k \in K : key[j] < key[k] => rank[j] < rank[k]
  BY RankGrows
<1>4. \A j, k \in K : key[j] \in Int /\ key[k] \in Int /\ rank[j] \in Int /\ rank[k] \in Int
  BY <1>1, <1>2
<1> HIDE DEF rank, size
<1>5. \A j, k \in K : rank[j] = rank[k] => j = k
  BY <1>3, <1>4
<1>6. \A j, k \in K : rank[j] < rank[k] => key[j] < key[k]
  BY <1>3, <1>4
<1>7. rank \in Injection(K, 0 .. size - 1)
  BY <1>2, <1>5 DEF Injection, IsInjective
<1>8. IsFiniteSet(0 .. size - 1) /\ Cardinality(0 .. size - 1) = size
  BY <1>1, FS_Interval
<1>9. rank \in Surjection(K, 0 .. size - 1)
  BY <1>7, <1>8, FS_Injection DEF size
<1>10. ASSUME NEW i \in 1 .. size
       PROVE  \E k \in K : rank[k] = i - 1
  <2>1. i - 1 \in 0 .. size - 1
    BY <1>1
  <2> QED
    BY <1>9, <2>1 DEF Surjection
<1> QED
  BY <1>5, <1>6, <1>10 DEF rank, size

-----------------------------------------------------------------------------
(* ids.filter *)

LEMMA Filtered ==
  ASSUME NEW S, NEW s \in Seq(S), NEW n
  PROVE  /\ Without(s, n) \in Seq(S)
         /\ ToSet(Without(s, n)) = ToSet(s) \ {n}
         /\ \A i, j \in DOMAIN Without(s, n) : i # j /\ Without(s, n)[i] = Without(s, n)[j] =>
              \E k, l \in DOMAIN s : k # l /\ s[k] = s[l] /\ s[k] = Without(s, n)[i]
<1> DEFINE K == {i \in DOMAIN s : s[i] # n}
           at(k) == CHOOSE i \in K : Cardinality({j \in K : j < i}) = k - 1
           t == Without(s, n)
           key == [i \in K |-> i]
<1>1. K \in SUBSET (1 .. Len(s)) /\ Len(s) \in Nat
  OBVIOUS
<1>2. IsFiniteSet(K)
  BY <1>1, FS_Interval, FS_Subset
<1>3. key \in [K -> Int] /\ \A j, k \in K : key[j] = key[k] => j = k
  BY <1>1
<1>4. \A k \in K : Rank(K, key, k) = Cardinality({j \in K : j < k})
  <2> SUFFICES ASSUME NEW k \in K
               PROVE  Below(K, key, k) = {j \in K : j < k}
    BY DEF Rank
  <2> QED
    BY DEF Below
<1> DEFINE size == Cardinality(K)
<1>5. size \in Nat
  BY <1>2, FS_CardinalityType
<1>6. t = [k \in 1 .. size |-> s[at(k)]]
  BY DEF Without
<1> HIDE DEF key, K
<1>7. /\ \A i \in 1 .. size : \E k \in K : Rank(K, key, k) = i - 1
      /\ \A j, k \in K : Rank(K, key, j) = Rank(K, key, k) => j = k
  BY <1>2, <1>3, RanksNumber
<1>8. ASSUME NEW i \in 1 .. size
      PROVE  at(i) \in K /\ Cardinality({j \in K : j < at(i)}) = i - 1
  <2>1. \E k \in K : Cardinality({j \in K : j < k}) = i - 1
    BY <1>4, <1>7
  <2> QED
    BY <2>1
<1>9. ASSUME NEW k \in K
      PROVE  \E i \in 1 .. size : at(i) = k
  <2> DEFINE r == Rank(K, key, k)
  <2>1. r \in 0 .. size - 1
    BY <1>2, <1>3, RankType
  <2>2. r + 1 \in 1 .. size /\ (r + 1) - 1 = r
    BY <1>5, <2>1
  <2>3. at(r + 1) \in K /\ Rank(K, key, at(r + 1)) = r
    BY <1>4, <1>8, <2>2
  <2>4. at(r + 1) = k
    BY <1>7, <2>3
  <2> QED
    BY <2>2, <2>4
<1> HIDE DEF at, size, t
<1>10. t \in Seq(S)
  <2>1. \A i \in K : s[i] \in S
    BY <1>1 DEF K
  <2>2. \A k \in 1 .. size : s[at(k)] \in S
    BY <1>8, <2>1
  <2> QED
    BY <1>5, <1>6, <2>2
<1>11. DOMAIN t = 1 .. size /\ \A k \in 1 .. size : t[k] = s[at(k)]
  BY <1>6
<1>12. ToSet(t) = ToSet(s) \ {n}
  <2>1. ASSUME NEW x \in ToSet(t)
        PROVE  x \in ToSet(s) \ {n}
    BY <1>8, <1>11 DEF ToSet, K
  <2>2. ASSUME NEW x \in ToSet(s) \ {n}
        PROVE  x \in ToSet(t)
    <3>1. PICK k \in DOMAIN s : s[k] = x
      BY DEF ToSet
    <3>2. k \in K
      BY <3>1 DEF K
    <3>3. PICK i \in 1 .. size : at(i) = k
      BY <1>9, <3>2
    <3> QED
      BY <1>11, <3>1, <3>3 DEF ToSet
  <2> QED
    BY <2>1, <2>2
<1>13. ASSUME NEW i \in DOMAIN t, NEW j \in DOMAIN t, i # j, t[i] = t[j]
       PROVE  \E k, l \in DOMAIN s : k # l /\ s[k] = s[l] /\ s[k] = t[i]
  <2>1. at(i) \in K /\ at(j) \in K
    BY <1>8, <1>11
  <2>2. at(i) # at(j)
    <3> DEFINE before(k) == Cardinality({l \in K : l < k})
    <3>1. before(at(i)) = i - 1 /\ before(at(j)) = j - 1
      BY <1>8, <1>11
    <3>2. i \in Nat /\ j \in Nat
      BY <1>5, <1>11
    <3> HIDE DEF before
    <3> QED
      BY <1>13, <3>1, <3>2
  <2> QED
    BY <1>11, <1>13, <2>1, <2>2 DEF K
<1> QED
  BY <1>10, <1>12, <1>13 DEF t

-----------------------------------------------------------------------------
(***************************************************************************)
(* The invariant.                                                          *)
(***************************************************************************)
Existed(n) == Seed[n] # 0 \/ n \in seen.made

\* The table: times tell notes apart, and a note that is gone stays gone.
TableInv ==
  /\ \A n \in Notes : updatedAt[n] <= Now /\ (updatedAt[n] # 0 => Existed(n))
  /\ \A m, n \in Notes : updatedAt[m] = updatedAt[n] /\ updatedAt[m] # 0 => m = n
  /\ \A n \in Notes : /\ pending[n] = "create" => n \in seen.made
                      /\ pending[n] = "delete" => updatedAt[n] = 0 /\ Existed(n)

\* One request at a time, and a cursor only after a page.
Phases ==
  /\ first.pc # "idle" => seen.pages = 0 /\ more.pc = "idle" /\ nextCursor = 0
  /\ more.pc # "idle" => nextCursor # 0
  /\ nextCursor # 0 => seen.pages > 0
  /\ nextCursor <= Now

\* A page read after cursor c is the notes of the current query from there down
\* to its own cursor, but for what was written since.
Goes(n, from) == updatedAt[n] = 0 \/ updatedAt[n] >= from
PageInv(r, c) ==
  r.pc = "read" =>
    /\ \A i, j \in DOMAIN r.items : r.items[i] = r.items[j] => i = j
    /\ \A n \in ToSet(r.items) : QueryOf[n] = query /\ Existed(n) /\ Goes(n, r.next)
    /\ \A n \in Rows(query) \ seen.touched :
         (c = 0 \/ updatedAt[n] < c) /\ (r.next = 0 \/ updatedAt[n] >= r.next) => n \in ToSet(r.items)
    /\ r.next <= Now
    /\ c # 0 => r.next < c

\* What is shown was there before the cursor, unless this tab made it.
ShownInv ==
  /\ \A n \in Shown : Existed(n) /\ (n \in seen.made \/ Goes(n, nextCursor))
  /\ more.pc = "read" => ToSet(more.items) \cap Shown \subseteq seen.made

LInv ==
  /\ WellFormed /\ TableInv /\ Phases /\ PageInv(first, 0) /\ PageInv(more, nextCursor) /\ ShownInv
  /\ OnlyTheCurrentQuery /\ NoGaps /\ TwiceOnlyIfCreated

-----------------------------------------------------------------------------
(* The API's answer *)

\* The sequence that Newest chooses exists: note number i in the order of the
\* negated times.
LEMMA NewestSorts ==
  ASSUME updatedAt \in [Notes -> Nat], NEW P \in SUBSET Notes,
         \A m, n \in P : updatedAt[m] = updatedAt[n] => m = n
  PROVE  /\ Newest(P) \in Seq(P) /\ Len(Newest(P)) = Cardinality(P) /\ Cardinality(P) \in Nat
         /\ \A i, j \in 1 .. Cardinality(P) :
              i < j => updatedAt[Newest(P)[i]] > updatedAt[Newest(P)[j]]
<1> DEFINE size == Cardinality(P)
           key == [n \in P |-> - updatedAt[n]]
           Sorted(s) == \A i, j \in DOMAIN s : i < j => updatedAt[s[i]] > updatedAt[s[j]]
           pick == [i \in 1 .. size |-> CHOOSE n \in P : Rank(P, key, n) = i - 1]
<1>1. IsFiniteSet(P) /\ size \in Nat
  BY BoundsAssumption, FS_Subset, FS_CardinalityType
<1>2. /\ key \in [P -> Int] /\ \A m, n \in P : key[m] = key[n] => m = n
      /\ \A m, n \in P : key[m] < key[n] => updatedAt[m] > updatedAt[n]
  OBVIOUS
<1> HIDE DEF key
<1>3. /\ \A i \in 1 .. size : \E n \in P : Rank(P, key, n) = i - 1
      /\ \A m, n \in P : Rank(P, key, m) < Rank(P, key, n) => key[m] < key[n]
  BY <1>1, <1>2, RanksNumber
<1>4. ASSUME NEW i \in 1 .. size
      PROVE  pick[i] \in P /\ Rank(P, key, pick[i]) = i - 1
  BY <1>3
<1> HIDE DEF pick, size
<1>5. pick \in [1 .. size -> P] /\ DOMAIN pick = 1 .. size
  BY <1>4 DEF pick
<1>6. ASSUME NEW i \in 1 .. size, NEW j \in 1 .. size, i < j
      PROVE  updatedAt[pick[i]] > updatedAt[pick[j]]
  <2>1. Rank(P, key, pick[i]) < Rank(P, key, pick[j])
    BY <1>1, <1>4, <1>6
  <2> QED
    BY <1>2, <1>3, <1>4, <2>1
<1>7. Sorted(pick)
  BY <1>5, <1>6
<1>8. Newest(P) = CHOOSE s \in [1 .. size -> P] : Sorted(s)
  BY DEF Newest, size
<1> HIDE DEF Sorted
<1>9. Newest(P) \in [1 .. size -> P] /\ Sorted(Newest(P))
  BY <1>5, <1>7, <1>8
<1>10. Newest(P) \in Seq(P) /\ Len(Newest(P)) = size
  BY <1>1, <1>9
<1>11. DOMAIN Newest(P) = 1 .. size
  BY <1>9
<1> QED
  BY <1>1, <1>9, <1>10, <1>11 DEF Sorted, size

\* Then no note is missing from it or in it twice.
LEMMA NewestIsAll ==
  ASSUME updatedAt \in [Notes -> Nat], NEW P \in SUBSET Notes,
         \A m, n \in P : updatedAt[m] = updatedAt[n] => m = n
  PROVE  /\ \A i, j \in DOMAIN Newest(P) : Newest(P)[i] = Newest(P)[j] => i = j
         /\ ToSet(Newest(P)) = P
<1> DEFINE size == Cardinality(P)
           s == Newest(P)
<1>1. /\ s \in Seq(P) /\ Len(s) = size /\ size \in Nat
      /\ \A i, j \in 1 .. size : i < j => updatedAt[s[i]] > updatedAt[s[j]]
  BY NewestSorts
<1> HIDE DEF size, s
<1>2. s \in [1 .. size -> P] /\ DOMAIN s = 1 .. size
  BY <1>1
<1>3. \A i, j \in 1 .. size : s[i] = s[j] => i = j
  <2> SUFFICES ASSUME NEW i \in 1 .. size, NEW j \in 1 .. size, s[i] = s[j], i # j
               PROVE  FALSE
    OBVIOUS
  <2>1. i < j \/ j < i
    BY <1>1
  <2>2. updatedAt[s[i]] > updatedAt[s[j]] \/ updatedAt[s[j]] > updatedAt[s[i]]
    BY <1>1, <2>1
  <2>3. updatedAt[s[i]] \in Nat
    BY <1>2
  <2> QED
    BY <2>2, <2>3
<1>4. s \in Injection(1 .. size, P)
  BY <1>2, <1>3 DEF Injection, IsInjective
<1>5. IsFiniteSet(P) /\ Cardinality(1 .. size) = Cardinality(P)
  <2>1. IsFiniteSet(P)
    BY BoundsAssumption, FS_Subset
  <2>2. Cardinality(1 .. size) = size
    BY <1>1, FS_Interval
  <2> QED
    BY <2>1, <2>2 DEF size
<1>6. s \in Surjection(1 .. size, P)
  BY <1>4, <1>5, FS_Injection
<1>7. \A n \in P : \E i \in 1 .. size : s[i] = n
  BY <1>6 DEF Surjection
<1>8. ToSet(s) = P
  BY <1>2, <1>7 DEF ToSet
<1> QED
  BY <1>2, <1>3, <1>8 DEF s

\* What is left out of a page comes after what is in it.
LEMMA PageIsNewest ==
  ASSUME updatedAt \in [Notes -> Nat], NEW S \in SUBSET Notes,
         \A m, n \in S : updatedAt[m] = updatedAt[n] => m = n,
         NEW P, P = {n \in S : Cardinality({m \in S : updatedAt[m] > updatedAt[n]}) < PageSize}
  PROVE  /\ \A m \in P, n \in S \ P : updatedAt[m] > updatedAt[n]
         /\ P # S => P # {}
<1> DEFINE key == [n \in S |-> - updatedAt[n]]
<1>1. IsFiniteSet(S) /\ Cardinality(S) \in Nat
  BY BoundsAssumption, FS_Subset, FS_CardinalityType
<1>2. /\ key \in [S -> Int] /\ \A m, n \in S : key[m] = key[n] => m = n
      /\ \A m, n \in S : key[m] < key[n] <=> updatedAt[m] > updatedAt[n]
  OBVIOUS
<1>3. \A n \in S : Rank(S, key, n) = Cardinality({m \in S : updatedAt[m] > updatedAt[n]})
  <2> SUFFICES ASSUME NEW n \in S
               PROVE  Below(S, key, n) = {m \in S : updatedAt[m] > updatedAt[n]}
    BY DEF Rank
  <2> QED
    BY <1>2 DEF Below
<1> HIDE DEF key
<1>4. \A n \in S : Rank(S, key, n) \in 0 .. Cardinality(S) - 1
  BY <1>1, <1>2, RankType
<1>5. \A m, n \in S : Rank(S, key, m) < Rank(S, key, n) => key[m] < key[n]
  BY <1>1, <1>2, RanksNumber
<1>6. ASSUME NEW m \in P, NEW n \in S \ P
      PROVE  updatedAt[m] > updatedAt[n]
  <2>1. m \in S /\ n \in S
    OBVIOUS
  <2>2. Rank(S, key, m) < PageSize /\ ~(Rank(S, key, n) < PageSize)
    BY <1>3, <2>1
  <2>3. Rank(S, key, m) \in Int /\ Rank(S, key, n) \in Int
    BY <1>1, <1>4, <2>1
  <2>4. Rank(S, key, m) < Rank(S, key, n)
    BY <2>2, <2>3, BoundsAssumption
  <2> QED
    BY <1>2, <1>5, <2>1, <2>4
<1>7. ASSUME P # S
      PROVE  P # {}
  <2>1. S # {}
    BY <1>7
  <2>2. 1 \in 1 .. Cardinality(S)
    BY <1>1, <2>1, FS_EmptySet
  <2>3. PICK n \in S : Rank(S, key, n) = 1 - 1
    BY <1>1, <1>2, <2>2, RanksNumber
  <2>4. n \in P
    BY <1>3, <2>3, BoundsAssumption
  <2> QED
    BY <2>4
<1> QED
  BY <1>6, <1>7

\* An answer is a page.
LEMMA Answers ==
  ASSUME LInv, NEW c \in Nat, NEW r, r = PageAfter(c)
  PROVE  /\ r \in Request /\ r.pc = "read" /\ PageInv(r, c)
         /\ \A n \in ToSet(r.items) : updatedAt[n] # 0 /\ (c = 0 \/ updatedAt[n] < c)
         /\ \A n \in Rows(query) :
              (c = 0 \/ updatedAt[n] < c) /\ (r.next = 0 \/ updatedAt[n] >= r.next) => n \in ToSet(r.items)
<1> DEFINE S == {n \in Rows(query) : c = 0 \/ updatedAt[n] < c}
           P == {n \in S : Cardinality({m \in S : updatedAt[m] > updatedAt[n]}) < PageSize}
           items == Newest(P)
           size == Cardinality(P)
<1>1. updatedAt \in [Notes -> Nat] /\ S \in SUBSET Notes /\ P \in SUBSET S
  BY DEF LInv, WellFormed, TypeOK, Rows
<1>2. \A m, n \in S : updatedAt[m] = updatedAt[n] => m = n
  BY DEF LInv, TableInv, Rows
<1>3. r = [pc |-> "read", items |-> items, next |-> IF S = P THEN 0 ELSE updatedAt[Last(items)]]
  BY DEF PageAfter
<1>4. /\ \A m \in P, n \in S \ P : updatedAt[m] > updatedAt[n]
      /\ P # S => P # {}
  BY <1>1, <1>2, PageIsNewest
<1>5. /\ items \in Seq(P) /\ Len(items) = size /\ size \in Nat
      /\ \A i, j \in 1 .. size : i < j => updatedAt[items[i]] > updatedAt[items[j]]
  BY <1>1, <1>2, NewestSorts
<1>6. /\ \A i, j \in DOMAIN items : items[i] = items[j] => i = j
      /\ ToSet(items) = P
  BY <1>1, <1>2, NewestIsAll
<1> HIDE DEF items, size
<1>7. \A n \in S : /\ n \in Notes /\ updatedAt[n] \in Nat /\ updatedAt[n] # 0
                   /\ QueryOf[n] = query /\ Existed(n) /\ updatedAt[n] <= Now
                   /\ c # 0 => updatedAt[n] < c
  BY <1>1 DEF LInv, TableInv, Rows
<1>8. Now \in Nat
  BY BoundsAssumption, FS_CardinalityType DEF Now, LInv, WellFormed, TypeOK
<1> HIDE DEF P, S
<1>9. DOMAIN items = 1 .. size
  BY <1>5
<1>10. CASE S = P
  <2>1. r.pc = "read" /\ r.items = items /\ r.next = 0
    BY <1>3, <1>10
  <2>2. r \in Request
    BY <1>1, <1>3, <1>5, <1>10 DEF Request
  <2> QED
    BY <1>1, <1>6, <1>7, <1>8, <1>10, <2>1, <2>2 DEF PageInv, Goes, S
<1>11. CASE S # P
  <2> DEFINE last == items[size]
  <2>1. size # 0 /\ size \in 1 .. size
    <3>1. ToSet(items) # {}
      BY <1>4, <1>6, <1>11
    <3> QED
      BY <1>5, <1>9, <3>1 DEF ToSet
  <2>2. Last(items) = last /\ last \in P
    BY <1>5, <2>1 DEF Last
  <2>3. ASSUME NEW n \in P
        PROVE  updatedAt[n] >= updatedAt[last]
    <3>1. PICK i \in 1 .. size : items[i] = n
      BY <1>6, <1>9 DEF ToSet
    <3>2. i = size \/ i < size
      BY <1>5, <3>1
    <3>3. n \in S /\ last \in S
      BY <1>1, <2>2
    <3>4. updatedAt[n] \in Nat /\ updatedAt[last] \in Nat
      BY <1>7, <3>3
    <3>5. i < size => updatedAt[n] > updatedAt[last]
      BY <1>5, <2>1, <3>1
    <3> QED
      BY <3>1, <3>2, <3>4, <3>5
  <2>4. ASSUME NEW n \in S, updatedAt[n] >= updatedAt[last]
        PROVE  n \in P
    BY <1>1, <1>4, <1>7, <2>2, <2>4
  <2> HIDE DEF last
  <2>5. r.pc = "read" /\ r.items = items /\ r.next = updatedAt[last]
    BY <1>3, <1>11, <2>2
  <2>6. last \in S /\ updatedAt[last] \in Nat
    BY <1>1, <1>7, <2>2
  <2>7. items \in Seq(Notes)
    BY <1>1, <1>5
  <2>8. r \in Request
    BY <1>3, <1>11, <2>2, <2>6, <2>7 DEF Request
  <2>9. \A n \in P : n \in S
    BY <1>1
  <2>10. \A n \in Rows(query) :
           (c = 0 \/ updatedAt[n] < c) /\ (r.next = 0 \/ updatedAt[n] >= r.next) => n \in ToSet(r.items)
    BY <1>6, <1>7, <2>4, <2>5, <2>6 DEF S
  <2> QED
    BY <1>6, <1>7, <2>3, <2>5, <2>6, <2>8, <2>9, <2>10 DEF PageInv, Goes
<1> QED
  BY <1>10, <1>11

-----------------------------------------------------------------------------
(* The table changes. *)

LEMMA NowType ==
  ASSUME LInv
  PROVE  Now \in Nat /\ \A n \in Notes : updatedAt[n] \in Nat /\ updatedAt[n] <= Now
  BY BoundsAssumption, FS_CardinalityType DEF Now, LInv, WellFormed, TypeOK, TableInv

LEMMA SeenType ==
  ASSUME LInv
  PROVE  /\ seen \in [pages : Nat, touched : SUBSET Notes, made : SUBSET Notes]
         /\ ids \in Seq(Notes) /\ nextCursor \in Nat /\ first \in Request /\ more \in Request
  BY DEF LInv, WellFormed, TypeOK

\* A write changes nothing of what a page or the list owes.
LEMMA PageAfterWrite ==
  ASSUME LInv, NEW n \in Notes, NEW time \in {0, Now + 1},
         updatedAt' = [updatedAt EXCEPT ![n] = time], writes' = writes + 1, query' = query,
         seen'.touched = seen.touched \cup {n}, seen.made \subseteq seen'.made,
         NEW r, r \in Request, NEW c \in Nat, PageInv(r, c)
  PROVE  PageInv(r, c)'
<1> SUFFICES ASSUME r.pc = "read"
             PROVE  PageInv(r, c)'
  BY DEF PageInv
<1>1. Now' = Now + 1 /\ Now \in Nat /\ r.next \in Nat /\ r.next <= Now
  <2>1. writes \in Nat /\ Cardinality(Notes) \in Nat
    BY BoundsAssumption, FS_CardinalityType DEF LInv, WellFormed, TypeOK
  <2> QED
    BY <2>1, NowType DEF Now, Request, PageInv
<1>2. updatedAt \in [Notes -> Nat] /\ ToSet(r.items) \subseteq Notes
  BY DEF LInv, WellFormed, TypeOK, Request, ToSet
<1>3. \A m \in Notes : updatedAt'[m] = IF m = n THEN time ELSE updatedAt[m]
  BY <1>2
<1>4. \A m \in ToSet(r.items) : QueryOf[m] = query' /\ Existed(m)' /\ Goes(m, r.next)'
  BY <1>1, <1>2, <1>3 DEF PageInv, Existed, Goes
<1>5. \A m \in Rows(query)' \ seen'.touched : m \in Rows(query) \ seen.touched /\ updatedAt'[m] = updatedAt[m]
  BY <1>3 DEF Rows
<1>6. \A m \in Rows(query)' \ seen'.touched :
        (c = 0 \/ updatedAt'[m] < c) /\ (r.next = 0 \/ updatedAt'[m] >= r.next) => m \in ToSet(r.items)
  BY <1>5 DEF PageInv
<1> QED
  BY <1>1, <1>4, <1>6 DEF PageInv

LEMMA WriteStep ==
  ASSUME LInv, NEW n \in Notes, NEW time \in {0, Now + 1}, Write(n, time),
         seen' \in [pages : {seen.pages}, touched : {seen.touched \cup {n}}, made : SUBSET Notes],
         seen.made \subseteq seen'.made, n \in seen'.made \/ Existed(n),
         pending' \in [Notes -> {"none", "create", "delete"}],
         \A m \in Notes \ {n} : pending'[m] = pending[m],
         pending'[n] = "create" => n \in seen'.made,
         pending'[n] = "delete" => time = 0
  PROVE  LInv'
<1>1. /\ writes < MaxWrites /\ writes' = writes + 1 /\ updatedAt' = [updatedAt EXCEPT ![n] = time]
      /\ query' = query /\ ids' = ids /\ nextCursor' = nextCursor /\ isLoading' = isLoading
      /\ isLoadingMore' = isLoadingMore /\ error' = error /\ first' = first /\ more' = more
      /\ observed' = observed
  BY DEF Write, list
<1>2. /\ WellFormed /\ TableInv /\ Phases /\ ShownInv /\ OnlyTheCurrentQuery /\ NoGaps /\ TwiceOnlyIfCreated
      /\ PageInv(first, 0) /\ PageInv(more, nextCursor)
  BY DEF LInv
<1>3. /\ seen'.pages = seen.pages /\ seen'.touched = seen.touched \cup {n}
      /\ seen' \in [pages : Nat, touched : SUBSET Notes, made : SUBSET Notes]
  BY SeenType
<1>4. Now' = Now + 1 /\ Now \in Nat /\ time \in Nat
  <2>1. writes \in Nat /\ Cardinality(Notes) \in Nat
    BY BoundsAssumption, FS_CardinalityType DEF LInv, WellFormed, TypeOK
  <2> QED
    BY <1>1, <2>1, NowType DEF Now
<1>5. /\ updatedAt' \in [Notes -> Nat]
      /\ \A m \in Notes : updatedAt'[m] = IF m = n THEN time ELSE updatedAt[m]
      /\ \A m \in Notes : updatedAt[m] \in Nat /\ updatedAt[m] <= Now
  BY <1>1, <1>4, NowType DEF LInv, WellFormed, TypeOK
<1>6. WellFormed'
  <2>1. writes' \in 0 .. MaxWrites
    BY <1>1, <1>2, BoundsAssumption DEF WellFormed, TypeOK
  <2> QED
    BY <1>1, <1>2, <1>3, <1>5, <2>1 DEF WellFormed, TypeOK
<1>7. TableInv'
  <2>1. \A m \in Notes : Existed(m) => Existed(m)'
    BY DEF Existed
  <2>2. Existed(n)'
    BY <2>1 DEF Existed
  <2>3. \A m \in Notes : updatedAt'[m] <= Now' /\ (updatedAt'[m] # 0 => Existed(m)')
    BY <1>2, <1>4, <1>5, <2>1, <2>2 DEF TableInv
  <2>4. \A l, m \in Notes : updatedAt'[l] = updatedAt'[m] /\ updatedAt'[l] # 0 => l = m
    BY <1>2, <1>4, <1>5 DEF TableInv
  <2>5. \A m \in Notes : /\ pending'[m] = "create" => m \in seen'.made
                         /\ pending'[m] = "delete" => updatedAt'[m] = 0 /\ Existed(m)'
    BY <1>2, <1>5, <2>1, <2>2 DEF TableInv
  <2> QED
    BY <2>3, <2>4, <2>5 DEF TableInv
<1>8. Phases'
  BY <1>1, <1>2, <1>3, <1>4, SeenType DEF Phases
<1>9. PageInv(first, 0)' /\ PageInv(more, nextCursor)'
  <2>1. first \in Request /\ more \in Request /\ nextCursor \in Nat
    BY SeenType
  <2>2. PageInv(first, 0)'
    <3>1. PICK r : r = first
      OBVIOUS
    <3>2. r = first' /\ r \in Request /\ 0 \in Nat /\ PageInv(r, 0)
      BY <1>1, <1>2, <2>1, <3>1 DEF PageInv
    <3>3. PageInv(r, 0)'
      BY <1>1, <1>3, <3>2, PageAfterWrite
    <3> QED
      BY <3>2, <3>3 DEF PageInv
  <2>3. PageInv(more, nextCursor)'
    <3>1. PICK r, c : r = more /\ c = nextCursor
      OBVIOUS
    <3>2. r = more' /\ c = nextCursor' /\ r \in Request /\ c \in Nat /\ PageInv(r, c)
      BY <1>1, <1>2, <2>1, <3>1 DEF PageInv
    <3>3. PageInv(r, c)'
      BY <1>1, <1>3, <3>2, PageAfterWrite
    <3> QED
      BY <3>2, <3>3 DEF PageInv
  <2> QED
    BY <2>2, <2>3
<1>10. ShownInv'
  <2>1. Shown' = Shown /\ Shown \subseteq Notes
    BY <1>1, SeenType DEF Shown, ToSet
  <2>2. \A m \in Shown : Existed(m)' /\ (m \in seen'.made \/ Goes(m, nextCursor)')
    BY <1>1, <1>2, <1>4, <1>5, <2>1, SeenType DEF ShownInv, Phases, Existed, Goes
  <2> QED
    BY <1>1, <1>2, <2>1, <2>2 DEF ShownInv
<1>11. OnlyTheCurrentQuery' /\ TwiceOnlyIfCreated'
  BY <1>1, <1>2 DEF OnlyTheCurrentQuery, TwiceOnlyIfCreated, Shown
<1>12. NoGaps'
  BY <1>1, <1>2, <1>3, <1>5 DEF NoGaps, Rows, Shown
<1> QED
  BY <1>6, <1>7, <1>8, <1>9, <1>10, <1>11, <1>12 DEF LInv

LEMMA ElsewhereStep ==
  ASSUME LInv, NEW n \in Notes, Elsewhere(n)
  PROVE  LInv'
<1>1. PICK time \in {0, Now + 1} : Write(n, time)
  BY DEF Elsewhere
<1>2. /\ updatedAt[n] # 0 /\ pending' = pending /\ seen' = [seen EXCEPT !.touched = seen.touched \cup {n}]
      /\ pending \in [Notes -> {"none", "create", "delete"}]
  BY DEF Elsewhere, LInv, WellFormed, TypeOK
<1>3. /\ seen' \in [pages : {seen.pages}, touched : {seen.touched \cup {n}}, made : SUBSET Notes]
      /\ seen'.made = seen.made
  BY <1>2, SeenType
<1>4. Existed(n) /\ (pending[n] = "create" => n \in seen.made) /\ pending[n] # "delete"
  BY <1>2 DEF LInv, TableInv
<1> QED
  BY <1>1, <1>2, <1>3, <1>4, WriteStep

LEMMA CreateStep ==
  ASSUME LInv, NEW n \in Notes, Create(n)
  PROVE  LInv'
<1>1. /\ Write(n, Now + 1) /\ pending' = [pending EXCEPT ![n] = "create"]
      /\ seen' = [seen EXCEPT !.touched = seen.touched \cup {n}, !.made = seen.made \cup {n}]
      /\ pending \in [Notes -> {"none", "create", "delete"}]
  BY DEF Create, LInv, WellFormed, TypeOK
<1>2. /\ seen' \in [pages : {seen.pages}, touched : {seen.touched \cup {n}}, made : SUBSET Notes]
      /\ seen'.made = seen.made \cup {n}
  BY <1>1, SeenType
<1>3. /\ pending' \in [Notes -> {"none", "create", "delete"}] /\ pending'[n] = "create"
      /\ \A m \in Notes \ {n} : pending'[m] = pending[m]
  BY <1>1
<1> QED
  BY <1>1, <1>2, <1>3, WriteStep

LEMMA DeleteStep ==
  ASSUME LInv, NEW n \in Notes, Delete(n)
  PROVE  LInv'
<1>1. /\ updatedAt[n] # 0 /\ Write(n, 0) /\ pending' = [pending EXCEPT ![n] = "delete"]
      /\ seen' = [seen EXCEPT !.touched = seen.touched \cup {n}]
      /\ pending \in [Notes -> {"none", "create", "delete"}]
  BY DEF Delete, LInv, WellFormed, TypeOK
<1>2. /\ seen' \in [pages : {seen.pages}, touched : {seen.touched \cup {n}}, made : SUBSET Notes]
      /\ seen'.made = seen.made
  BY <1>1, SeenType
<1>3. /\ pending' \in [Notes -> {"none", "create", "delete"}] /\ pending'[n] = "delete"
      /\ \A m \in Notes \ {n} : pending'[m] = pending[m]
  BY <1>1
<1>4. Existed(n)
  BY <1>1 DEF LInv, TableInv
<1> QED
  BY <1>1, <1>2, <1>3, <1>4, WriteStep

-----------------------------------------------------------------------------
(* The list changes. *)

LEMMA BindType ==
  ASSUME Bind, isLoading \in BOOLEAN, observed \in BOOLEAN
  PROVE  observed' \in BOOLEAN
  BY DEF Bind

\* What the steps of the list leave to the table.
TableStays ==
  /\ updatedAt' = updatedAt /\ writes' = writes
  /\ seen'.made = seen.made /\ \A n \in Notes : pending'[n] \in {"none", pending[n]}

LEMMA TableStep ==
  ASSUME LInv, TableStays
  PROVE  /\ TableInv' /\ Now' = Now
         /\ \A n : Existed(n)' <=> Existed(n)
         /\ \A n, from : (updatedAt'[n] = 0 \/ updatedAt'[n] >= from) <=> Goes(n, from)
         /\ \A q : {n \in Notes : updatedAt'[n] # 0 /\ QueryOf[n] = q} = Rows(q)
<1>1. Now' = Now
  BY DEF TableStays, Now
<1>2. TableInv'
  BY <1>1 DEF LInv, TableStays, TableInv, Existed
<1> QED
  BY <1>1, <1>2 DEF TableStays, Existed, Goes, Rows

\* A page answered is a page still, for the same query.
LEMMA PageStays ==
  ASSUME LInv, TableStays, query' = query, seen'.touched = seen.touched,
         NEW r, NEW c, PageInv(r, c)
  PROVE  PageInv(r, c)'
<1>1. Now' = Now
  BY TableStep
<1> QED
  BY <1>1 DEF PageInv, TableStays, Existed, Goes, Rows

LEMMA FirstStays ==
  ASSUME LInv, TableStays, query' = query, seen'.touched = seen.touched, first' = first
  PROVE  PageInv(first, 0)'
<1>1. PICK r : r = first
  OBVIOUS
<1>2. r = first' /\ PageInv(r, 0)
  BY <1>1 DEF LInv, PageInv
<1>3. PageInv(r, 0)'
  BY <1>2, PageStays
<1> QED
  BY <1>2, <1>3 DEF PageInv

LEMMA MoreStays ==
  ASSUME LInv, TableStays, query' = query, seen'.touched = seen.touched, more' = more,
         nextCursor' = nextCursor
  PROVE  PageInv(more, nextCursor)'
<1>1. PICK r, c : r = more /\ c = nextCursor
  OBVIOUS
<1>2. r = more' /\ c = nextCursor' /\ PageInv(r, c)
  BY <1>1 DEF LInv, PageInv
<1>3. PageInv(r, c)'
  BY <1>2, PageStays
<1> QED
  BY <1>2, <1>3 DEF PageInv

LEMMA Requests ==
  /\ NoRequest \in Request /\ NoRequest.pc = "idle"
  /\ Sent \in Request /\ Sent.pc = "sent"
<1>1. NoRequest = [pc |-> "idle", items |-> <<>>, next |-> 0] /\ <<>> \in Seq(Notes)
  BY DEF NoRequest
<1>2. Sent = [pc |-> "sent", items |-> <<>>, next |-> 0]
  BY <1>1 DEF Sent
<1> QED
  BY <1>1, <1>2 DEF Request

LEMMA ChangeQueryStep ==
  ASSUME LInv, NEW q \in Queries, ChangeQuery(q)
  PROVE  LInv'
<1>1. /\ query' = q /\ ids' = <<>> /\ nextCursor' = 0
      /\ isLoading' = TRUE /\ isLoadingMore' = FALSE /\ error' = FALSE
      /\ first' = Sent /\ more' = NoRequest /\ seen' = [seen EXCEPT !.pages = 0]
      /\ updatedAt' = updatedAt /\ writes' = writes /\ pending' = pending /\ Bind
  BY DEF ChangeQuery
<1>2. /\ seen' \in [pages : Nat, touched : SUBSET Notes, made : SUBSET Notes]
      /\ seen'.made = seen.made /\ seen'.pages = 0
  BY <1>1, SeenType
<1>3. TypeOK /\ TableStays
  BY <1>1, <1>2 DEF LInv, WellFormed, TableStays
<1>4. observed' \in BOOLEAN
  BY <1>1, <1>3, BindType DEF TypeOK
<1>5. WellFormed'
  <2>1. ids' \in Seq(Notes) /\ nextCursor' \in Nat
    BY <1>1
  <2>2. first' \in Request /\ more' \in Request /\ first'.pc = "sent" /\ more'.pc = "idle"
    BY <1>1, Requests
  <2>3. TypeOK'
    BY <1>1, <1>2, <1>3, <1>4, <2>1, <2>2 DEF TypeOK
  <2> QED
    BY <1>1, <2>2, <2>3 DEF WellFormed
<1>6. TableInv' /\ Now' = Now /\ Now \in Nat
  BY <1>3, TableStep, NowType
<1>7. ToSet(ids') = {} /\ DOMAIN ids' = {}
  BY <1>1 DEF ToSet
<1>8. Phases' /\ PageInv(first, 0)' /\ PageInv(more, nextCursor)'
  BY <1>1, <1>2, <1>6, Requests DEF Phases, PageInv
<1>9. ShownInv' /\ OnlyTheCurrentQuery' /\ NoGaps' /\ TwiceOnlyIfCreated'
  BY <1>1, <1>2, <1>7, Requests DEF ShownInv, Shown, OnlyTheCurrentQuery, NoGaps, TwiceOnlyIfCreated
<1> QED
  BY <1>5, <1>6, <1>8, <1>9 DEF LInv

LEMMA ReadFirstStep ==
  ASSUME LInv, ReadFirst
  PROVE  LInv'
<1>1. /\ first.pc = "sent" /\ first' = PageAfter(0) /\ seen' = [seen EXCEPT !.touched = {}]
      /\ updatedAt' = updatedAt /\ writes' = writes /\ query' = query /\ ids' = ids
      /\ nextCursor' = nextCursor /\ isLoading' = isLoading /\ isLoadingMore' = isLoadingMore
      /\ error' = error /\ more' = more /\ observed' = observed /\ pending' = pending
  BY DEF ReadFirst, list
<1>2. /\ seen' \in [pages : Nat, touched : SUBSET Notes, made : SUBSET Notes]
      /\ seen'.made = seen.made /\ seen'.pages = seen.pages /\ seen'.touched = {}
  BY <1>1, SeenType
<1>3. /\ first' \in Request /\ first'.pc = "read"
      /\ \A i, j \in DOMAIN first'.items : first'.items[i] = first'.items[j] => i = j
      /\ \A n \in ToSet(first'.items) : QueryOf[n] = query /\ Existed(n) /\ Goes(n, first'.next)
      /\ first'.next <= Now
  BY <1>1, Answers DEF PageInv
<1>4. \A n \in Rows(query) : first'.next = 0 \/ updatedAt[n] >= first'.next => n \in ToSet(first'.items)
  BY <1>1, Answers
<1>5. TypeOK /\ TableStays
  BY <1>1, <1>2 DEF LInv, WellFormed, TypeOK, TableStays
<1>6. TableInv' /\ Now' = Now /\ \A n, from : Goes(n, from)' <=> Goes(n, from)
  BY <1>1, <1>5, TableStep DEF Goes
<1>7. WellFormed'
  BY <1>1, <1>2, <1>3, <1>5 DEF LInv, WellFormed, TypeOK
<1>8. more.pc = "idle" /\ nextCursor = 0 /\ seen.pages = 0
  BY <1>1 DEF LInv, Phases
<1>9. Phases' /\ PageInv(more, nextCursor)'
  BY <1>1, <1>2, <1>6, <1>8 DEF LInv, Phases, PageInv
<1>10. PageInv(first, 0)'
  BY <1>1, <1>2, <1>3, <1>4, <1>6 DEF PageInv, Rows, Existed, Goes
<1>11. ShownInv' /\ OnlyTheCurrentQuery' /\ NoGaps' /\ TwiceOnlyIfCreated'
  BY <1>1, <1>2, <1>8
     DEF LInv, ShownInv, Shown, OnlyTheCurrentQuery, NoGaps, TwiceOnlyIfCreated, Existed, Goes
<1> QED
  BY <1>6, <1>7, <1>9, <1>10, <1>11 DEF LInv

LEMMA FirstDoneStep ==
  ASSUME LInv, FirstDone
  PROVE  LInv'
<1>1. /\ first.pc = "read" /\ ids' = first.items /\ nextCursor' = first.next /\ isLoading' = FALSE
      /\ first' = NoRequest /\ seen' = [seen EXCEPT !.pages = 1]
      /\ updatedAt' = updatedAt /\ writes' = writes /\ query' = query
      /\ isLoadingMore' = isLoadingMore /\ error' = error /\ more' = more /\ pending' = pending
      /\ Bind
  BY DEF FirstDone
<1>2. /\ seen' \in [pages : Nat, touched : SUBSET Notes, made : SUBSET Notes]
      /\ seen'.made = seen.made /\ seen'.pages = 1 /\ seen'.touched = seen.touched
  BY <1>1, SeenType
<1>3. TypeOK /\ TableStays
  BY <1>1, <1>2 DEF LInv, WellFormed, TypeOK, TableStays
<1>4. observed' \in BOOLEAN
  BY <1>1, <1>3, BindType DEF TypeOK
<1>5. first.items \in Seq(Notes) /\ first.next \in Nat
  BY <1>3 DEF TypeOK, Request
<1>6. WellFormed'
  BY <1>1, <1>2, <1>3, <1>4, <1>5, Requests DEF LInv, WellFormed, TypeOK
<1>7. TableInv' /\ Now' = Now
  BY <1>3, TableStep
<1>8. more.pc = "idle" /\ PageInv(first, 0)
  BY <1>1 DEF LInv, Phases
<1>9. Phases' /\ PageInv(first, 0)' /\ PageInv(more, nextCursor)'
  BY <1>1, <1>2, <1>5, <1>7, <1>8, Requests DEF LInv, Phases, PageInv
<1>10. ShownInv'
  BY <1>1, <1>2, <1>8 DEF ShownInv, Shown, PageInv, Existed, Goes
<1>11. OnlyTheCurrentQuery' /\ TwiceOnlyIfCreated'
  BY <1>1, <1>8 DEF OnlyTheCurrentQuery, TwiceOnlyIfCreated, Shown, PageInv
<1>12. NoGaps'
  BY <1>1, <1>2, <1>8 DEF NoGaps, Shown, PageInv, Rows
<1> QED
  BY <1>6, <1>7, <1>9, <1>10, <1>11, <1>12 DEF LInv

\* A request that fails only frees its flag.
LEMMA FailStep ==
  ASSUME LInv, FirstFailed \/ MoreFailed
  PROVE  LInv'
<1>1. /\ error' = TRUE /\ updatedAt' = updatedAt /\ writes' = writes /\ query' = query
      /\ ids' = ids /\ nextCursor' = nextCursor /\ pending' = pending /\ seen' = seen /\ Bind
      /\ \/ isLoading' = FALSE /\ first' = NoRequest /\ isLoadingMore' = isLoadingMore /\ more' = more
         \/ isLoadingMore' = FALSE /\ more' = NoRequest /\ isLoading' = isLoading /\ first' = first
  BY DEF FirstFailed, MoreFailed
<1>2. TypeOK /\ TableStays
  BY <1>1 DEF LInv, WellFormed, TypeOK, TableStays
<1>3. observed' \in BOOLEAN
  BY <1>1, <1>2, BindType DEF TypeOK
<1>4. WellFormed'
  <2>1. first' \in Request /\ more' \in Request
    BY <1>1, <1>2, Requests DEF TypeOK
  <2>2. isLoading' \in BOOLEAN /\ isLoadingMore' \in BOOLEAN
    BY <1>1, <1>2 DEF TypeOK
  <2>3. TypeOK'
    BY <1>1, <1>2, <1>3, <2>1, <2>2 DEF TypeOK
  <2>4. (isLoading' <=> first'.pc # "idle") /\ (isLoadingMore' <=> more'.pc # "idle")
    <3>1. (isLoading <=> first.pc # "idle") /\ (isLoadingMore <=> more.pc # "idle")
      BY DEF LInv, WellFormed
    <3>2. CASE isLoading' = FALSE /\ first' = NoRequest /\ isLoadingMore' = isLoadingMore /\ more' = more
      BY <3>1, <3>2, Requests
    <3>3. CASE isLoadingMore' = FALSE /\ more' = NoRequest /\ isLoading' = isLoading /\ first' = first
      BY <3>1, <3>3, Requests
    <3> QED
      BY <1>1, <3>2, <3>3
  <2> QED
    BY <2>3, <2>4 DEF WellFormed
<1>5. TableInv' /\ Now' = Now
  BY <1>2, TableStep
<1>6. Phases'
  BY <1>1, <1>5, Requests DEF LInv, Phases
<1>7. PageInv(first, 0)'
  BY <1>1, <1>2, FirstStays, Requests DEF PageInv
<1>8. PageInv(more, nextCursor)'
  BY <1>1, <1>2, MoreStays, Requests DEF PageInv
<1>9. ShownInv'
  BY <1>1, Requests DEF LInv, ShownInv, Shown, Existed, Goes
<1>10. OnlyTheCurrentQuery' /\ TwiceOnlyIfCreated' /\ NoGaps'
  BY <1>1 DEF LInv, OnlyTheCurrentQuery, TwiceOnlyIfCreated, NoGaps, Shown, Rows
<1> QED
  BY <1>4, <1>5, <1>6, <1>7, <1>8, <1>9, <1>10 DEF LInv

LEMMA LoadMoreStep ==
  ASSUME LInv, LoadMore
  PROVE  LInv'
<1>1. /\ nextCursor # 0 /\ isLoading = FALSE /\ isLoadingMore' = TRUE /\ more' = Sent
      /\ updatedAt' = updatedAt /\ writes' = writes /\ query' = query /\ ids' = ids
      /\ nextCursor' = nextCursor /\ isLoading' = isLoading /\ error' = error
      /\ first' = first /\ pending' = pending /\ seen' = seen /\ Bind
  BY DEF LoadMore, LInv, WellFormed, TypeOK
<1>2. TypeOK /\ TableStays
  BY <1>1 DEF LInv, WellFormed, TypeOK, TableStays
<1>3. observed' \in BOOLEAN
  BY <1>1, <1>2, BindType DEF TypeOK
<1>4. WellFormed'
  BY <1>1, <1>2, <1>3, Requests DEF LInv, WellFormed, TypeOK
<1>5. TableInv' /\ Now' = Now
  BY <1>2, TableStep
<1>6. Phases'
  BY <1>1, <1>5 DEF LInv, WellFormed, Phases
<1>7. PageInv(first, 0)' /\ PageInv(more, nextCursor)'
  BY <1>1, <1>2, FirstStays, Requests DEF PageInv
<1>8. ShownInv'
  BY <1>1, Requests DEF LInv, ShownInv, Shown, Existed, Goes
<1>9. OnlyTheCurrentQuery' /\ TwiceOnlyIfCreated' /\ NoGaps'
  BY <1>1 DEF LInv, OnlyTheCurrentQuery, TwiceOnlyIfCreated, NoGaps, Shown, Rows
<1> QED
  BY <1>4, <1>5, <1>6, <1>7, <1>8, <1>9 DEF LInv

LEMMA ReadMoreStep ==
  ASSUME LInv, ReadMore
  PROVE  LInv'
<1>1. /\ more.pc = "sent" /\ more' = PageAfter(nextCursor) /\ nextCursor \in Nat
      /\ updatedAt' = updatedAt /\ writes' = writes /\ query' = query /\ ids' = ids
      /\ nextCursor' = nextCursor /\ isLoading' = isLoading /\ isLoadingMore' = isLoadingMore
      /\ error' = error /\ first' = first /\ observed' = observed /\ pending' = pending /\ seen' = seen
  BY SeenType DEF ReadMore, list
<1>2. TypeOK /\ TableStays
  BY <1>1 DEF LInv, WellFormed, TypeOK, TableStays
<1>3. PICK r : r = PageAfter(nextCursor)
  OBVIOUS
<1>4. /\ r \in Request /\ r.pc = "read" /\ PageInv(r, nextCursor)
      /\ \A n \in ToSet(r.items) : updatedAt[n] # 0 /\ (nextCursor = 0 \/ updatedAt[n] < nextCursor)
  BY <1>1, <1>3, Answers
<1>5. WellFormed'
  BY <1>1, <1>2, <1>3, <1>4 DEF LInv, WellFormed, TypeOK
<1>6. TableInv' /\ Now' = Now
  BY <1>2, TableStep
<1>7. Phases'
  BY <1>1, <1>6 DEF LInv, Phases
<1>8. PageInv(first, 0)'
  BY <1>1, <1>2, FirstStays
<1>9. PageInv(more, nextCursor)'
  <2>1. PICK c : c = nextCursor
    OBVIOUS
  <2>2. PageInv(r, c)'
    BY <1>1, <1>2, <1>4, <2>1, PageStays
  <2> QED
    BY <1>1, <1>3, <2>1, <2>2 DEF PageInv
<1>10. ShownInv'
  <2>1. nextCursor # 0
    BY <1>1 DEF LInv, Phases
  <2>2. ASSUME NEW n \in ToSet(r.items) \cap Shown
        PROVE  n \in seen.made
    <3>1. n \in Notes /\ updatedAt[n] \in Nat
      BY <1>4, <1>2 DEF Request, ToSet, TypeOK
    <3>2. ~Goes(n, nextCursor)
      BY <1>1, <1>4, <2>1, <2>2, <3>1 DEF Goes
    <3> QED
      BY <2>2, <3>2 DEF LInv, ShownInv
  <2> QED
    BY <1>1, <1>3, <2>2 DEF LInv, ShownInv, Shown, Existed, Goes
<1>11. OnlyTheCurrentQuery' /\ TwiceOnlyIfCreated' /\ NoGaps'
  BY <1>1 DEF LInv, OnlyTheCurrentQuery, TwiceOnlyIfCreated, NoGaps, Shown, Rows
<1> QED
  BY <1>5, <1>6, <1>7, <1>8, <1>9, <1>10, <1>11 DEF LInv

\* A page that arrives is appended: it goes on where the list ended.
LEMMA MoreDoneStep ==
  ASSUME LInv, MoreDone
  PROVE  LInv'
<1>1. /\ more.pc = "read" /\ ids' = ids \o more.items /\ nextCursor' = more.next
      /\ isLoadingMore' = FALSE /\ more' = NoRequest /\ seen' = [seen EXCEPT !.pages = seen.pages + 1]
      /\ updatedAt' = updatedAt /\ writes' = writes /\ query' = query
      /\ isLoading' = isLoading /\ error' = error /\ first' = first /\ pending' = pending
      /\ Bind
  BY DEF MoreDone, AppendNotes
<1>2. /\ seen' \in [pages : Nat, touched : SUBSET Notes, made : SUBSET Notes]
      /\ seen'.made = seen.made /\ seen'.pages = seen.pages + 1 /\ seen'.touched = seen.touched
      /\ seen.pages \in Nat
  <2>1. /\ seen \in [pages : Nat, touched : SUBSET Notes, made : SUBSET Notes]
        /\ seen.pages \in Nat /\ seen.pages + 1 \in Nat
    BY SeenType
  <2>2. /\ seen'.made = seen.made /\ seen'.pages = seen.pages + 1 /\ seen'.touched = seen.touched
        /\ seen' = [pages |-> seen.pages + 1, touched |-> seen.touched, made |-> seen.made]
    BY <1>1, <2>1
  <2> QED
    BY <2>1, <2>2
<1>3. TypeOK /\ TableStays
  BY <1>1, <1>2 DEF LInv, WellFormed, TypeOK, TableStays
<1>4. observed' \in BOOLEAN
  BY <1>1, <1>3, BindType DEF TypeOK
<1>5. /\ ids \in Seq(Notes) /\ nextCursor \in Nat
      /\ more.items \in Seq(Notes) /\ more.next \in Nat
  BY <1>3 DEF TypeOK, Request
<1>6. WellFormed'
  <2>1. ids' \in Seq(Notes) /\ nextCursor' \in Nat
    BY <1>1, <1>5
  <2>2. TypeOK'
    BY <1>1, <1>2, <1>3, <1>4, <2>1, Requests DEF TypeOK
  <2>3. (isLoading' <=> first'.pc # "idle") /\ (isLoadingMore' <=> more'.pc # "idle")
    BY <1>1, Requests DEF LInv, WellFormed
  <2> QED
    BY <2>2, <2>3 DEF WellFormed
<1>7. TableInv' /\ Now' = Now
  BY <1>3, TableStep
<1>8. first.pc = "idle" /\ nextCursor # 0 /\ seen.pages > 0 /\ PageInv(more, nextCursor)
  BY <1>1 DEF LInv, Phases
<1>9. more.next < nextCursor /\ more.next <= Now
  BY <1>1, <1>8 DEF PageInv
<1>10. Phases' /\ PageInv(first, 0)' /\ PageInv(more, nextCursor)'
  BY <1>1, <1>2, <1>7, <1>8, <1>9, Requests DEF Phases, PageInv
<1>11. Shown' = Shown \cup ToSet(more.items) /\ Shown' \subseteq Notes
  <2>1. /\ Len(ids') = Len(ids) + Len(more.items) /\ Len(ids) \in Nat /\ Len(more.items) \in Nat
        /\ \A i \in 1 .. Len(ids) : ids'[i] = ids[i]
        /\ \A i \in 1 .. Len(more.items) : ids'[Len(ids) + i] = more.items[i]
        /\ DOMAIN ids = 1 .. Len(ids) /\ DOMAIN more.items = 1 .. Len(more.items)
        /\ DOMAIN ids' = 1 .. Len(ids')
    BY <1>1, <1>5
  <2>2. \A i \in 1 .. Len(ids) : i \in 1 .. Len(ids')
    BY <2>1
  <2>3. \A i \in 1 .. Len(more.items) : Len(ids) + i \in 1 .. Len(ids')
    BY <2>1
  <2>4. ASSUME NEW n \in ToSet(ids) \cup ToSet(more.items)
        PROVE  n \in ToSet(ids')
    BY <2>1, <2>2, <2>3 DEF ToSet
  <2>5. ASSUME NEW i \in 1 .. Len(ids')
        PROVE  ids'[i] \in ToSet(ids) \cup ToSet(more.items)
    <3>1. CASE i \in 1 .. Len(ids)
      BY <2>1, <3>1 DEF ToSet
    <3>2. CASE i \notin 1 .. Len(ids)
      <4>1. i - Len(ids) \in 1 .. Len(more.items) /\ i = Len(ids) + (i - Len(ids))
        BY <2>1, <3>2
      <4>2. ids'[i] = more.items[i - Len(ids)]
        BY <2>1, <4>1
      <4> QED
        BY <2>1, <4>1, <4>2 DEF ToSet
    <3> QED
      BY <3>1, <3>2
  <2>6. ToSet(ids') = ToSet(ids) \cup ToSet(more.items)
    BY <2>1, <2>4, <2>5 DEF ToSet
  <2>7. ToSet(ids) \subseteq Notes /\ ToSet(more.items) \subseteq Notes
    BY <1>5 DEF ToSet
  <2> QED
    BY <2>6, <2>7 DEF Shown
<1>12. ShownInv'
  <2>1. ASSUME NEW n \in Shown
        PROVE  Existed(n) /\ (n \in seen.made \/ Goes(n, more.next))
    <3>1. Existed(n) /\ (n \in seen.made \/ Goes(n, nextCursor))
      BY DEF LInv, ShownInv
    <3>2. updatedAt[n] \in Nat
      BY <1>3, <1>11 DEF TypeOK
    <3> QED
      BY <1>5, <1>9, <3>1, <3>2 DEF Goes
  <2>2. ASSUME NEW n \in ToSet(more.items)
        PROVE  Existed(n) /\ Goes(n, more.next)
    BY <1>1, <1>8 DEF PageInv
  <2> QED
    BY <1>1, <1>2, <1>11, <2>1, <2>2, Requests DEF ShownInv, Existed, Goes
<1>13. OnlyTheCurrentQuery'
  BY <1>1, <1>2, <1>8, <1>11 DEF LInv, OnlyTheCurrentQuery, PageInv
<1>14. NoGaps'
  <2>1. ASSUME NEW n \in Rows(query) \ seen.touched, more.next = 0 \/ updatedAt[n] >= more.next
        PROVE  n \in Shown'
    <3>1. updatedAt[n] \in Nat
      BY <1>3 DEF Rows, TypeOK
    <3>2. CASE updatedAt[n] >= nextCursor
      BY <1>8, <1>11, <3>2 DEF LInv, NoGaps
    <3>3. CASE updatedAt[n] < nextCursor
      BY <1>1, <1>8, <1>11, <2>1, <3>3 DEF PageInv
    <3> QED
      BY <1>5, <3>1, <3>2, <3>3
  <2> QED
    BY <1>1, <1>2, <2>1 DEF NoGaps, Rows
<1>15. TwiceOnlyIfCreated'
  <2> SUFFICES ASSUME NEW i \in DOMAIN ids', NEW j \in DOMAIN ids', ids'[i] = ids'[j], i < j
               PROVE  ids'[i] \in seen.made
    <3>1. \A i, j \in DOMAIN ids' : i # j => i < j \/ j < i
      BY <1>1, <1>5
    <3> QED
      BY <1>2, <3>1 DEF TwiceOnlyIfCreated
  <2>1. /\ Len(ids) \in Nat /\ Len(more.items) \in Nat /\ i \in 1 .. Len(ids) + Len(more.items)
        /\ j \in 1 .. Len(ids) + Len(more.items)
    BY <1>1, <1>5
  <2>2. CASE j <= Len(ids)
    <3>1. i \in DOMAIN ids /\ j \in DOMAIN ids /\ ids'[i] = ids[i] /\ ids'[j] = ids[j] /\ i # j
      BY <1>1, <1>5, <2>1, <2>2
    <3> QED
      BY <3>1 DEF LInv, TwiceOnlyIfCreated
  <2>3. CASE i > Len(ids)
    <3> DEFINE k == i - Len(ids)
               l == j - Len(ids)
    <3>1. k \in DOMAIN more.items /\ l \in DOMAIN more.items /\ k # l
      BY <1>5, <2>1, <2>3
    <3>2. ids'[i] = more.items[k] /\ ids'[j] = more.items[l]
      BY <1>1, <1>5, <2>1, <2>3
    <3> QED
      BY <1>1, <1>8, <3>1, <3>2 DEF PageInv
  <2>4. CASE i <= Len(ids) /\ j > Len(ids)
    <3> DEFINE l == j - Len(ids)
    <3>1. i \in DOMAIN ids /\ l \in DOMAIN more.items
      BY <1>5, <2>1, <2>4
    <3>2. ids'[i] = ids[i] /\ ids'[j] = more.items[l]
      BY <1>1, <1>5, <2>1, <2>4
    <3>3. ids[i] \in ToSet(more.items) \cap Shown
      BY <3>1, <3>2 DEF Shown, ToSet
    <3> QED
      BY <1>1, <3>2, <3>3 DEF LInv, ShownInv
  <2> QED
    BY <2>1, <2>2, <2>3, <2>4
<1> QED
  BY <1>6, <1>7, <1>10, <1>12, <1>13, <1>14, <1>15 DEF LInv

\* The answer to a create: the note may be in the list already.
LEMMA CreatedStep ==
  ASSUME LInv, NEW n \in Notes, Created(n)
  PROVE  LInv'
<1>1. /\ pending[n] = "create" /\ pending' = [pending EXCEPT ![n] = "none"] /\ ids' = <<n>> \o ids
      /\ updatedAt' = updatedAt /\ writes' = writes /\ query' = query
      /\ nextCursor' = nextCursor /\ isLoading' = isLoading /\ isLoadingMore' = isLoadingMore
      /\ error' = error /\ first' = first /\ more' = more /\ seen' = seen /\ Bind
  BY DEF Created
<1>2. TypeOK /\ ids \in Seq(Notes)
  BY DEF LInv, WellFormed, TypeOK
<1>3. /\ pending' \in [Notes -> {"none", "create", "delete"}]
      /\ \A m \in Notes : pending'[m] \in {"none", pending[m]}
  BY <1>1, <1>2 DEF TypeOK
<1>4. TableStays
  BY <1>1, <1>3 DEF TableStays
<1>5. observed' \in BOOLEAN
  BY <1>1, <1>2, BindType DEF TypeOK
<1>6. /\ ids' \in Seq(Notes) /\ Len(ids') = Len(ids) + 1 /\ Len(ids) \in Nat
      /\ DOMAIN ids = 1 .. Len(ids) /\ DOMAIN ids' = 1 .. Len(ids) + 1
      /\ ids'[1] = n /\ \A i \in DOMAIN ids' \ {1} : i - 1 \in DOMAIN ids /\ ids'[i] = ids[i - 1]
  BY <1>1, <1>2
<1>7. WellFormed'
  <2>1. TypeOK'
    BY <1>1, <1>2, <1>3, <1>5, <1>6 DEF TypeOK
  <2> QED
    BY <1>1, <2>1 DEF LInv, WellFormed
<1>8. TableInv' /\ Now' = Now
  BY <1>4, TableStep
<1>9. Phases' /\ PageInv(first, 0)' /\ PageInv(more, nextCursor)'
  BY <1>1, <1>4, <1>8, FirstStays, MoreStays DEF LInv, Phases
<1>10. n \in seen.made
  BY <1>1 DEF LInv, TableInv
<1>11. Shown' = Shown \cup {n}
  <2>1. \A i \in DOMAIN ids : i + 1 \in DOMAIN ids' \ {1} /\ (i + 1) - 1 = i
    BY <1>6
  <2>2. \A i \in DOMAIN ids : ids'[i + 1] = ids[i] /\ i + 1 \in DOMAIN ids'
    BY <1>6, <2>1
  <2>3. 1 \in DOMAIN ids'
    BY <1>6
  <2>4. ASSUME NEW m \in Shown \cup {n}
        PROVE  m \in Shown'
    BY <1>6, <2>2, <2>3 DEF Shown, ToSet
  <2>5. ASSUME NEW m \in Shown'
        PROVE  m \in Shown \cup {n}
    BY <1>6 DEF Shown, ToSet
  <2> QED
    BY <2>4, <2>5
<1>12. ShownInv' /\ OnlyTheCurrentQuery' /\ NoGaps'
  BY <1>1, <1>10, <1>11
     DEF LInv, ShownInv, OnlyTheCurrentQuery, NoGaps, Rows, Existed, Goes
<1>13. TwiceOnlyIfCreated'
  <2>1. ASSUME NEW i \in DOMAIN ids', NEW j \in DOMAIN ids', i # j, ids'[i] = ids'[j]
        PROVE  ids'[i] \in seen.made
    <3>1. CASE i = 1 \/ j = 1
      BY <1>6, <1>10, <2>1, <3>1
    <3>2. CASE i # 1 /\ j # 1
      <4>1. i - 1 \in DOMAIN ids /\ j - 1 \in DOMAIN ids /\ ids'[i] = ids[i - 1] /\ ids'[j] = ids[j - 1]
        BY <1>6, <3>2
      <4>2. i - 1 # j - 1
        BY <1>6, <2>1
      <4> QED
        BY <2>1, <4>1, <4>2 DEF LInv, TwiceOnlyIfCreated
    <3> QED
      BY <3>1, <3>2
  <2> QED
    BY <1>1, <2>1 DEF TwiceOnlyIfCreated
<1> QED
  BY <1>7, <1>8, <1>9, <1>12, <1>13 DEF LInv

\* The answer to a delete: what is taken out of the list is no row any more.
LEMMA DeletedStep ==
  ASSUME LInv, NEW n \in Notes, Deleted(n)
  PROVE  LInv'
<1>1. /\ pending[n] = "delete" /\ pending' = [pending EXCEPT ![n] = "none"] /\ ids' = Without(ids, n)
      /\ updatedAt' = updatedAt /\ writes' = writes /\ query' = query
      /\ nextCursor' = nextCursor /\ isLoading' = isLoading /\ isLoadingMore' = isLoadingMore
      /\ error' = error /\ first' = first /\ more' = more /\ seen' = seen /\ Bind
  BY DEF Deleted
<1>2. TypeOK /\ ids \in Seq(Notes)
  BY DEF LInv, WellFormed, TypeOK
<1>3. /\ pending' \in [Notes -> {"none", "create", "delete"}]
      /\ \A m \in Notes : pending'[m] \in {"none", pending[m]}
  BY <1>1, <1>2 DEF TypeOK
<1>4. TableStays
  BY <1>1, <1>3 DEF TableStays
<1>5. observed' \in BOOLEAN
  BY <1>1, <1>2, BindType DEF TypeOK
<1>6. /\ ids' \in Seq(Notes) /\ Shown' = Shown \ {n}
      /\ \A i, j \in DOMAIN ids' : i # j /\ ids'[i] = ids'[j] =>
           \E k, l \in DOMAIN ids : k # l /\ ids[k] = ids[l] /\ ids[k] = ids'[i]
  BY <1>1, <1>2, Filtered DEF Shown
<1>7. WellFormed'
  <2>1. TypeOK'
    BY <1>1, <1>2, <1>3, <1>5, <1>6 DEF TypeOK
  <2> QED
    BY <1>1, <2>1 DEF LInv, WellFormed
<1>8. TableInv' /\ Now' = Now
  BY <1>4, TableStep
<1>9. Phases' /\ PageInv(first, 0)' /\ PageInv(more, nextCursor)'
  BY <1>1, <1>4, <1>8, FirstStays, MoreStays DEF LInv, Phases
<1>10. updatedAt[n] = 0
  BY <1>1 DEF LInv, TableInv
<1>11. ShownInv' /\ OnlyTheCurrentQuery'
  BY <1>1, <1>6 DEF LInv, ShownInv, OnlyTheCurrentQuery, Existed, Goes
<1>12. NoGaps'
  BY <1>1, <1>6, <1>10 DEF LInv, NoGaps, Rows
<1>13. TwiceOnlyIfCreated'
  BY <1>1, <1>6 DEF LInv, TwiceOnlyIfCreated
<1> QED
  BY <1>7, <1>8, <1>9, <1>11, <1>12, <1>13 DEF LInv

-----------------------------------------------------------------------------
(* The theorems *)

LEMMA InitLInv == Init => LInv
<1> SUFFICES ASSUME Init
             PROVE  LInv
  OBVIOUS
<1>1. /\ updatedAt = Seed /\ writes = 0 /\ query \in Queries /\ ids = <<>> /\ nextCursor = 0
      /\ isLoading = TRUE /\ isLoadingMore = FALSE /\ error = FALSE
      /\ first = Sent /\ more = NoRequest /\ observed = FALSE
      /\ pending = [n \in Notes |-> "none"] /\ seen = [pages |-> 0, touched |-> {}, made |-> {}]
  BY DEF Init
<1>2. Cardinality(Notes) \in Nat /\ Now \in Nat /\ Now = Cardinality(Notes)
  BY <1>1, BoundsAssumption, FS_CardinalityType DEF Now
<1>3. TypeOK
  <2>1. Seed \in [Notes -> Nat]
    BY <1>2, SeedAssumption
  <2>2. ids \in Seq(Notes) /\ writes \in 0 .. MaxWrites
    BY <1>1, BoundsAssumption
  <2> QED
    BY <1>1, <2>1, <2>2, Requests DEF TypeOK
<1>4. WellFormed
  BY <1>1, <1>3, Requests DEF WellFormed
<1>5. TableInv
  BY <1>1, <1>2, SeedAssumption DEF TableInv, Existed
<1>6. Phases /\ PageInv(first, 0) /\ PageInv(more, nextCursor)
  BY <1>1, <1>2, Requests DEF Phases, PageInv
<1>7. ToSet(ids) = {} /\ DOMAIN ids = {}
  BY <1>1 DEF ToSet
<1>8. ShownInv /\ OnlyTheCurrentQuery /\ NoGaps /\ TwiceOnlyIfCreated
  BY <1>1, <1>7, Requests DEF ShownInv, Shown, OnlyTheCurrentQuery, NoGaps, TwiceOnlyIfCreated
<1> QED
  BY <1>4, <1>5, <1>6, <1>8 DEF LInv

LEMMA NextLInv == LInv /\ [Next]_vars => LInv'
<1> SUFFICES ASSUME LInv, [Next]_vars
             PROVE  LInv'
  OBVIOUS
<1>1. ASSUME NEW q \in Queries, ChangeQuery(q)
      PROVE  LInv'
  BY <1>1, ChangeQueryStep
<1>2. CASE LoadMore
  BY <1>2, LoadMoreStep
<1>3. CASE Answer
  BY <1>3, ReadFirstStep, FirstDoneStep, FailStep, ReadMoreStep, MoreDoneStep DEF Answer
<1>4. ASSUME NEW n \in Notes, Elsewhere(n) \/ Create(n) \/ Created(n) \/ Delete(n) \/ Deleted(n)
      PROVE  LInv'
  BY <1>4, ElsewhereStep, CreateStep, CreatedStep, DeleteStep, DeletedStep
<1>5. CASE UNCHANGED vars
  <2>1. /\ updatedAt' = updatedAt /\ writes' = writes /\ query' = query /\ ids' = ids
        /\ nextCursor' = nextCursor /\ isLoading' = isLoading /\ isLoadingMore' = isLoadingMore
        /\ error' = error /\ first' = first /\ more' = more /\ observed' = observed
        /\ pending' = pending /\ seen' = seen
    BY <1>5 DEF vars, list
  <2>2. TableStays
    BY <2>1 DEF TableStays
  <2>3. WellFormed' /\ TableInv' /\ Phases'
    BY <2>1, <2>2, TableStep DEF LInv, WellFormed, TypeOK, Phases
  <2>4. PageInv(first, 0)' /\ PageInv(more, nextCursor)'
    BY <2>1, <2>2, FirstStays, MoreStays
  <2>5. ShownInv' /\ OnlyTheCurrentQuery' /\ NoGaps' /\ TwiceOnlyIfCreated'
    BY <2>1 DEF LInv, ShownInv, Shown, Existed, Goes, OnlyTheCurrentQuery, NoGaps, Rows,
                TwiceOnlyIfCreated
  <2> QED
    BY <2>3, <2>4, <2>5 DEF LInv
<1> QED
  BY <1>1, <1>2, <1>3, <1>4, <1>5 DEF Next

\* Every list the hooks can produce, with every race of pages, queries and
\* this tab's own writes, is one that LInv describes.
THEOREM ListStaysInStep == Spec => []LInv
  BY InitLInv, NextLInv, PTL DEF Spec

\* The types of useLoadNotes.ts, and isLoading and isLoadingMore never stay on
\* without a request that will turn them off.
THEOREM BusyFlagsHaveRequests == Spec => []WellFormed
<1>1. LInv => WellFormed
  BY DEF LInv
<1> QED
  BY <1>1, ListStaysInStep, PTL

\* The effect on baseParams aborts what is on the wire, so no late page of an
\* earlier scope or search is shown.
THEOREM NoLatePageIsShown == Spec => []OnlyTheCurrentQuery
<1>1. LInv => OnlyTheCurrentQuery
  BY DEF LInv
<1> QED
  BY <1>1, ListStaysInStep, PTL

\* The pages that loadMore appends leave out no note, whatever this tab and
\* others create, update and delete in between.
THEOREM ScrollingLeavesNoGaps == Spec => []NoGaps
<1>1. LInv => NoGaps
  BY DEF LInv
<1> QED
  BY <1>1, ListStaysInStep, PTL

\* prependNotes after a page with the same note is the only way to a note that
\* is listed twice.
THEOREM OnlyCreatedNotesAppearTwice == Spec => []TwiceOnlyIfCreated
<1>1. LInv => TwiceOnlyIfCreated
  BY DEF LInv
<1> QED
  BY <1>1, ListStaysInStep, PTL
=============================================================================
