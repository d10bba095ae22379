-------------------------- MODULE NotesStoreProofs --------------------------
(***************************************************************************)
(* What NotesStore caches and lists, for every set of notes and titles and *)
(* any number of changes and scopes. Four parts, each resting on the ones  *)
(* before: the cache agrees with the API; the store is well formed; the    *)
(* list agrees with the API; so does its order.                            *)
(***************************************************************************)
EXTENDS NotesStore, FiniteSetTheorems, SequenceTheorems, TLAPS

(***************************************************************************)
(* The shape of the state: domains, and the types of what is compared or   *)
(* looked up. What rows, lists and patches hold does not matter here.      *)
(***************************************************************************)
IsRequest(q) ==
  q \in [pc : {"unused", "sent", "applied", "refused", "late", "done"},
         kind : Kinds, note : Notes \cup {None}, patch : {q.patch}, prev : {q.prev},
         index : {q.index}, scope : {q.scope}, answer : {q.answer}, time : Nat, alone : {q.alone}]

IsPast(h) ==
  h \in [changed : [Notes -> Nat], heard : [Notes -> Nat], overtaken : {h.overtaken},
         undone : {h.undone}, missed : {h.missed}, misjudged : {h.misjudged},
         matching : {h.matching}, crossed : {h.crossed}]

Shape ==
  /\ DOMAIN server = Notes /\ DOMAIN byId = Notes
  /\ clock \in Nat /\ Cardinality(Notes) <= clock
  /\ DOMAIN req = Slots
  /\ \A r \in Slots : IsRequest(req[r]) /\ (Waiting(r) => req[r].note \in Notes)
  /\ IsPast(past)
  /\ list.pc = "read" => list.time \in Nat /\ Cardinality(Notes) <= list.time /\ list.time <= clock

\* Requests whose answers may still change what is cached of n.
Pending(r, n) ==
  /\ req[r].note = n
  /\ req[r].pc = "applied" \/ (req[r].kind = "update" /\ req[r].pc \in {"sent", "refused"})

\* The request that carried the latest change of n has it.
Latest(r, n) == req[r].pc = "applied" /\ req[r].note = n /\ req[r].time = past.changed[n]

\* A cached row that is not the API's has an answer to come; the answer to the
\* latest change came, is to come, or was lost; a list is right about what did
\* not change since.
CachedOrPending(n) ==
  n \in Disturbed \/ byId[n] = None \/ byId[n] = server[n] \/ \E r \in Slots : Pending(r, n)
LatestIsKnown(n) ==
  \/ past.changed[n] = Seed[n].at
  \/ n \in past.missed
  \/ past.heard[n] >= past.changed[n]
  \/ \E r \in Slots : Latest(r, n)
ListIsOf(n) ==
  list.pc = "read" => \/ list.rows[n] = None \/ list.rows[n] = server[n]
                      \/ past.changed[n] > list.time
NoteInv(n) == CachedOrPending(n) /\ LatestIsKnown(n) /\ ListIsOf(n) /\ past.changed[n] <= clock

\* What was carried out is no newer than the latest change; what was remembered
\* is the API's row, as long as no other request about the note is under way.
AnswerInv(r) ==
  req[r].pc = "applied" =>
    /\ Seed[req[r].note].at < req[r].time /\ req[r].time <= past.changed[req[r].note]
    /\ req[r].time = past.changed[req[r].note] => req[r].answer = server[req[r].note]
PrevInv(r) ==
  /\ req[r].pc \in {"sent", "refused"} /\ req[r].kind = "update"
  /\ req[r].alone = TRUE /\ req[r].note \notin Disturbed
  => req[r].prev = server[req[r].note]
AloneInv(r) ==
  \A q \in Slots : q # r /\ Waiting(q) /\ Waiting(r) /\ req[q].note = req[r].note => req[r].alone = FALSE

CacheInv ==
  /\ Shape
  /\ \A n \in Notes : NoteInv(n)
  /\ \A r \in Slots : AnswerInv(r) /\ PrevInv(r) /\ AloneInv(r)

-----------------------------------------------------------------------------
(* Shape *)

LEMMA SendShape ==
  ASSUME Shape, NEW r \in Slots, NEW n \in Notes, NEW kind \in Kinds, NEW p, Send(r, n, kind, p)
  PROVE  /\ DOMAIN req' = Slots
         /\ \A q \in Slots : IsRequest(req'[q]) /\ (Waiting(q)' => req'[q].note \in Notes)
         /\ IsPast(past')
<1> DEFINE others == {q \in Slots : Waiting(q) /\ req[q].note = n}
           new == [pc |-> "sent", kind |-> kind, note |-> n, patch |-> p, prev |-> byId[n],
                   index |-> IndexOf(ids, n), scope |-> scope, answer |-> None, time |-> 0,
                   alone |-> others = {}]
<1>1. req' = [q \in Slots |-> IF q = r THEN new
                            ELSE IF q \in others THEN [req[q] EXCEPT !.alone = FALSE]
                            ELSE req[q]]
  BY DEF Send
<1>2. IsRequest(new) /\ new.note \in Notes
  BY DEF IsRequest, Kinds
<1>3. ASSUME NEW q \in Slots
      PROVE  /\ IsRequest([req[q] EXCEPT !.alone = FALSE])
             /\ [req[q] EXCEPT !.alone = FALSE].note = req[q].note
  BY DEF Shape, IsRequest
<1> HIDE DEF new
<1>4. ASSUME NEW q \in Slots
      PROVE  IsRequest(req'[q]) /\ (Waiting(q)' => req'[q].note \in Notes)
  <2>1. CASE q = r
    BY <1>1, <1>2, <2>1
  <2>2. CASE q # r /\ q \in others
    <3>1. req'[q] = [req[q] EXCEPT !.alone = FALSE]
      BY <1>1, <2>2
    <3> QED
      BY <1>3, <2>2, <3>1
  <2>3. CASE q # r /\ q \notin others
    <3>1. req'[q] = req[q]
      BY <1>1, <2>3
    <3> QED
      BY <3>1 DEF Shape, Waiting
  <2> QED
    BY <2>1, <2>2, <2>3
<1>5. IsPast(past')
  BY DEF Send, Shape, IsPast
<1> QED
  BY <1>1, <1>4, <1>5

LEMMA HeardShape ==
  ASSUME Shape, NEW S, NEW t \in Nat
  PROVE  /\ IsPast(Heard(S, t))
         /\ Heard(S, t).changed = past.changed
         /\ Heard(S, t).missed = past.missed
         /\ Heard(S, t).undone = past.undone
         /\ Heard(S, t).overtaken = past.overtaken \cup {n \in S : past.heard[n] > t}
         /\ \A n \in Notes : Heard(S, t).heard[n] = IF n \in S /\ t > past.heard[n] THEN t ELSE past.heard[n]
         /\ Heard(S, t).misjudged = past.misjudged
         /\ Heard(S, t).matching = past.matching
         /\ Heard(S, t).crossed = past.crossed
  BY DEF Heard, Shape, IsPast

LEMMA JudgedShape ==
  ASSUME NEW r, NEW h, NEW gone, IsPast(h)
  PROVE  /\ IsPast(Judged(r, h, gone))
         /\ Judged(r, h, gone).changed = h.changed
         /\ Judged(r, h, gone).heard = h.heard
         /\ Judged(r, h, gone).missed = h.missed
         /\ Judged(r, h, gone).undone = h.undone
         /\ Judged(r, h, gone).overtaken = h.overtaken
         /\ Judged(r, h, gone).matching = h.matching
         /\ Judged(r, h, gone).crossed = h.crossed
  BY DEF Judged, IsPast

LEMMA SlotShape ==
  ASSUME Shape, NEW r \in Slots, NEW q, IsRequest(q), q.pc \in {"unused", "done"} \/ q.note \in Notes,
         req' = [req EXCEPT ![r] = q]
  PROVE  /\ DOMAIN req' = Slots
         /\ \A s \in Slots : IsRequest(req'[s]) /\ (Waiting(s)' => req'[s].note \in Notes)
<1>1. ASSUME NEW s \in Slots
      PROVE  req'[s] = IF s = r THEN q ELSE req[s]
  BY DEF Shape
<1>2. DOMAIN req' = Slots
  BY DEF Shape
<1> QED
  BY <1>1, <1>2 DEF Shape, Waiting

LEMMA AppliedShape ==
  ASSUME NEW q, IsRequest(q), NEW row, NEW t \in Nat, NEW a,
         a = [q EXCEPT !.pc = "applied", !.answer = row, !.time = t]
  PROVE  IsRequest(a)
<1>1. /\ a.patch = q.patch /\ a.prev = q.prev /\ a.index = q.index
      /\ a.scope = q.scope /\ a.answer = row /\ a.alone = q.alone
  BY DEF IsRequest
<1>2. a \in [pc : {"unused", "sent", "applied", "refused", "late", "done"},
             kind : Kinds, note : Notes \cup {None}, patch : {q.patch}, prev : {q.prev},
             index : {q.index}, scope : {q.scope}, answer : {row}, time : Nat, alone : {q.alone}]
  BY DEF IsRequest
<1> QED
  BY <1>1, <1>2 DEF IsRequest

LEMMA BlankShape == IsRequest(Blank("done")) /\ Blank("done").pc = "done"
  BY DEF IsRequest, Blank, Kinds

-----------------------------------------------------------------------------
(* Steps that leave rows, requests and what is known about them alone *)

LEMMA QuietStep ==
  ASSUME CacheInv, UNCHANGED <<server, clock, byId, req>>, IsPast(past'),
         past'.changed = past.changed, past'.heard = past.heard,
         past'.overtaken = past.overtaken, past'.undone = past.undone, past'.missed = past.missed,
         \/ list' = list
         \/ list'.pc = "read" =>
              list'.time = clock /\ \A n \in Notes : list'.rows[n] = None \/ list'.rows[n] = server[n]
  PROVE  CacheInv'
<1>1. Shape'
  BY DEF CacheInv, Shape, Waiting
<1>2. ASSUME NEW n \in Notes
      PROVE  NoteInv(n)'
  BY <1>2 DEF CacheInv, NoteInv, CachedOrPending, LatestIsKnown, ListIsOf, Disturbed, Pending, Latest
<1>3. ASSUME NEW r \in Slots
      PROVE  (AnswerInv(r) /\ PrevInv(r) /\ AloneInv(r))'
  BY <1>3 DEF CacheInv, AnswerInv, PrevInv, AloneInv, Disturbed, Waiting
<1> QED
  BY <1>1, <1>2, <1>3 DEF CacheInv

LEMMA ListStep ==
  ASSUME CacheInv, (\E n \in Notes : Open(n)) \/ (\E s \in Scopes : ChangeScope(s)) \/ ListRead \/ ListFailed
  PROVE  CacheInv'
<1>1. ASSUME NEW n \in Notes, Open(n)
      PROVE  CacheInv'
  BY <1>1, QuietStep DEF Open, store, CacheInv, Shape
<1>2. ASSUME NEW s \in Scopes, ChangeScope(s)
      PROVE  CacheInv'
  <2>1. IsPast(past')
        /\ past'.changed = past.changed /\ past'.heard = past.heard
        /\ past'.overtaken = past.overtaken /\ past'.undone = past.undone /\ past'.missed = past.missed
    BY <1>2 DEF ChangeScope, CacheInv, Shape, IsPast
  <2>2. list'.pc # "read"
    BY <1>2 DEF ChangeScope, ListIs
  <2> QED
    BY <1>2, <2>1, <2>2, QuietStep DEF ChangeScope
<1>3. CASE ListRead
  <2>1. IsPast(past')
        /\ past'.changed = past.changed /\ past'.heard = past.heard
        /\ past'.overtaken = past.overtaken /\ past'.undone = past.undone /\ past'.missed = past.missed
    BY <1>3 DEF ListRead, CacheInv, Shape, IsPast
  <2>2. list'.time = clock /\ \A n \in Notes : list'.rows[n] = None \/ list'.rows[n] = server[n]
    BY <1>3 DEF ListRead
  <2> QED
    BY <1>3, <2>1, <2>2, QuietStep DEF ListRead, store
<1>4. CASE ListFailed
  <2>1. list'.pc # "read"
    BY <1>4 DEF ListFailed, ListIs
  <2> QED
    BY <1>4, <2>1, QuietStep DEF ListFailed, store, CacheInv, Shape
<1> QED
  BY <1>1, <1>2, <1>3, <1>4

\* The answer to the list: a row of it that is not the API's any more is of a
\* note that changed since, and then more is known or still to come.
LEMMA ListDoneStep ==
  ASSUME CacheInv, ListDone
  PROVE  CacheInv'
<1> DEFINE S == {n \in Notes : list.rows[n] # None}
<1>1. list.pc = "read" /\ list.time \in Nat /\ Cardinality(Notes) <= list.time
      /\ past' = Heard(S, list.time) /\ UNCHANGED <<server, clock, req>>
  BY DEF ListDone, CacheInv, Shape
<1>2. /\ IsPast(past')
      /\ past'.changed = past.changed /\ past'.missed = past.missed /\ past'.undone = past.undone
      /\ past'.overtaken = past.overtaken \cup {n \in S : past.heard[n] > list.time}
      /\ \A n \in Notes : past'.heard[n] = IF n \in S /\ list.time > past.heard[n]
                                            THEN list.time ELSE past.heard[n]
  BY <1>1, HeardShape DEF CacheInv
<1>3. byId' = [n \in Notes |-> IF list.rows[n] # None THEN list.rows[n] ELSE byId[n]]
  BY DEF ListDone, SetNotes
<1>4. list'.pc = "done"
  BY DEF ListDone, ListIs
<1>5. Shape'
  BY <1>1, <1>2, <1>3, <1>4 DEF CacheInv, Shape, Waiting
<1>6. Disturbed \subseteq Disturbed'
  BY <1>2 DEF Disturbed
<1>7. ASSUME NEW n \in Notes
      PROVE  NoteInv(n)'
  <2>1. NoteInv(n) /\ past.changed[n] \in Nat /\ past.heard[n] \in Nat
    BY DEF CacheInv, Shape, IsPast
  <2>2. \A r \in Slots : Pending(r, n)' <=> Pending(r, n)
    BY <1>1 DEF Pending
  <2>3. \A r \in Slots : Latest(r, n)' <=> Latest(r, n)
    BY <1>1, <1>2 DEF Latest
  <2>4. past'.heard[n] >= past.heard[n]
    BY <1>1, <1>2, <2>1
  <2>5. LatestIsKnown(n)'
    BY <1>1, <1>2, <2>1, <2>3, <2>4 DEF NoteInv, LatestIsKnown, IsPast
  <2>6. CachedOrPending(n)'
    <3>1. CASE n \notin S
      <4>1. byId'[n] = byId[n]
        BY <1>3, <3>1
      <4> QED
        BY <1>1, <1>6, <2>1, <2>2, <4>1 DEF NoteInv, CachedOrPending
    <3>2. CASE n \in S /\ list.rows[n] = server[n]
      <4>1. byId'[n] = server'[n]
        BY <1>1, <1>3, <3>2
      <4> QED
        BY <4>1 DEF CachedOrPending
    <3>3. CASE n \in S /\ list.rows[n] # server[n]
      <4>1. past.changed[n] > list.time
        BY <1>1, <2>1, <3>3 DEF NoteInv, ListIsOf
      <4>2. past.changed[n] # Seed[n].at
        <5>1. Seed[n].at \in 1 .. Cardinality(Notes) /\ Cardinality(Notes) \in Nat
          BY SeedAssumption, NotesAssumption, FS_CardinalityType
        <5> QED
          BY <1>1, <2>1, <4>1, <5>1
      <4>3. CASE n \in past.missed
        BY <1>2, <4>3 DEF CachedOrPending, Disturbed
      <4>4. CASE past.heard[n] >= past.changed[n]
        <5>1. past.heard[n] > list.time
          BY <1>1, <2>1, <4>1, <4>4
        <5>2. n \in past'.overtaken
          BY <1>2, <3>3, <5>1
        <5> QED
          BY <5>2 DEF CachedOrPending, Disturbed
      <4>5. ASSUME NEW r \in Slots, Latest(r, n)
            PROVE  CachedOrPending(n)'
        <5>1. Pending(r, n)'
          BY <2>2, <4>5 DEF Latest, Pending
        <5> QED
          BY <5>1 DEF CachedOrPending
      <4> QED
        BY <2>1, <4>2, <4>3, <4>4, <4>5 DEF NoteInv, LatestIsKnown
    <3> QED
      BY <3>1, <3>2, <3>3
  <2> QED
    BY <1>1, <1>2, <1>4, <2>1, <2>5, <2>6 DEF NoteInv, ListIsOf
<1>8. ASSUME NEW r \in Slots
      PROVE  (AnswerInv(r) /\ PrevInv(r) /\ AloneInv(r))'
  <2>1. AnswerInv(r) /\ PrevInv(r) /\ AloneInv(r)
    BY DEF CacheInv
  <2> QED
    BY <1>1, <1>2, <1>6, <2>1 DEF AnswerInv, PrevInv, AloneInv, Waiting
<1> QED
  BY <1>5, <1>7, <1>8 DEF CacheInv

-----------------------------------------------------------------------------
(* The user's changes *)

\* What a new request remembers is the API's row, unless another request about
\* the note is under way; and then neither of them is alone.
LEMMA SendStep ==
  ASSUME CacheInv, NEW r \in Slots, NEW n \in Notes, NEW kind \in Kinds, NEW p,
         Send(r, n, kind, p), byId[n] # None,
         \/ byId' = byId
         \/ /\ kind = "update" /\ DOMAIN byId' = Notes
            /\ \A m \in Notes : m # n => byId'[m] = byId[m]
  PROVE  CacheInv'
<1> DEFINE others == {q \in Slots : Waiting(q) /\ req[q].note = n}
<1>1. UNCHANGED <<server, clock, list>> /\ req[r].pc = "unused"
      /\ past'.changed = past.changed /\ past'.heard = past.heard /\ past'.missed = past.missed
      /\ past'.overtaken = past.overtaken /\ past'.undone = past.undone
  BY DEF Send, CacheInv, Shape, IsPast
<1>2. /\ req'[r].pc = "sent" /\ req'[r].kind = kind /\ req'[r].note = n /\ req'[r].prev = byId[n]
      /\ req'[r].alone = (others = {})
  BY DEF Send
<1>3. ASSUME NEW q \in Slots, q # r
      PROVE  /\ req'[q].pc = req[q].pc /\ req'[q].kind = req[q].kind /\ req'[q].note = req[q].note
             /\ req'[q].prev = req[q].prev /\ req'[q].answer = req[q].answer
             /\ req'[q].time = req[q].time
             /\ req'[q].alone = IF q \in others THEN FALSE ELSE req[q].alone
  <2>1. CASE q \in others
    <3>1. req'[q] = [req[q] EXCEPT !.alone = FALSE]
      BY <1>3, <2>1 DEF Send
    <3> QED
      BY <2>1, <3>1 DEF CacheInv, Shape, IsRequest
  <2>2. CASE q \notin others
    <3>1. req'[q] = req[q]
      BY <1>3, <2>2 DEF Send
    <3> QED
      BY <2>2, <3>1
  <2> QED
    BY <2>1, <2>2
<1>4. ~Waiting(r) /\ r \notin others
  BY <1>1 DEF Waiting
<1>5. Shape'
  BY <1>1, SendShape DEF CacheInv, Shape
<1>6. Disturbed' = Disturbed
  BY <1>1 DEF Disturbed
<1>7. ASSUME NEW m \in Notes
      PROVE  NoteInv(m)'
  <2>1. NoteInv(m)
    BY DEF CacheInv
  <2>2. \A q \in Slots : Pending(q, m) => Pending(q, m)'
    BY <1>1, <1>3 DEF Pending
  <2>3. \A q \in Slots : Latest(q, m) => Latest(q, m)'
    BY <1>1, <1>3 DEF Latest
  <2>4. CachedOrPending(m)'
    <3>1. CASE byId'[m] = byId[m]
      BY <1>1, <1>6, <2>1, <2>2, <3>1 DEF NoteInv, CachedOrPending
    <3>2. CASE byId'[m] # byId[m]
      <4>1. Pending(r, m)'
        BY <1>2, <3>2 DEF Pending
      <4> QED
        BY <4>1 DEF CachedOrPending
    <3> QED
      BY <3>1, <3>2
  <2> QED
    BY <1>1, <2>1, <2>3, <2>4 DEF NoteInv, LatestIsKnown, ListIsOf
<1>8. ASSUME NEW q \in Slots
      PROVE  (AnswerInv(q) /\ PrevInv(q) /\ AloneInv(q))'
  <2>1. AnswerInv(q) /\ PrevInv(q) /\ AloneInv(q)
    BY DEF CacheInv
  <2>2. AnswerInv(q)'
    BY <1>1, <1>2, <1>3, <2>1 DEF AnswerInv
  <2>3. PrevInv(q)'
    <3>1. CASE q # r
      BY <1>1, <1>3, <1>6, <2>1, <3>1 DEF PrevInv
    <3>2. CASE q = r
      <4>1. ASSUME others = {}, n \notin Disturbed
            PROVE  byId[n] = server[n]
        <5>1. \A w \in Slots : ~Pending(w, n)
          BY <4>1 DEF Pending, Waiting
        <5> QED
          BY <4>1, <5>1 DEF CacheInv, NoteInv, CachedOrPending
      <4> QED
        BY <1>1, <1>2, <1>6, <3>2, <4>1 DEF PrevInv
    <3> QED
      BY <3>1, <3>2
  <2>4. AloneInv(q)'
    <3>1. ASSUME NEW w \in Slots, w # q, Waiting(w)', Waiting(q)', req'[w].note = req'[q].note
          PROVE  req'[q].alone = FALSE
      <4>1. CASE q # r /\ w # r
        BY <1>3, <2>1, <3>1, <4>1 DEF AloneInv, Waiting
      <4>2. CASE q = r
        <5>1. w \in others
          BY <1>2, <1>3, <3>1, <4>2 DEF Waiting
        <5> QED
          BY <1>2, <4>2, <5>1
      <4>3. CASE w = r
        <5>1. q \in others
          BY <1>2, <1>3, <3>1, <4>3 DEF Waiting
        <5> QED
          BY <1>3, <3>1, <4>3, <5>1
      <4> QED
        BY <3>1, <4>1, <4>2, <4>3
    <3> QED
      BY <3>1 DEF AloneInv
  <2> QED
    BY <2>2, <2>3, <2>4
<1> QED
  BY <1>5, <1>7, <1>8 DEF CacheInv

LEMMA ClickStep ==
  ASSUME CacheInv, NEW r \in Slots, ToggleStar(r) \/ EditTitle(r) \/ RestoreNote(r) \/ DeleteNote(r)
  PROVE  CacheInv'
<1>1. ASSUME NEW n \in Notes, NEW p, UpdateNote(r, n, p)
      PROVE  CacheInv'
  <2>1. Send(r, n, "update", p) /\ byId[n] # None /\ byId' = [byId EXCEPT ![n] = Patched(@, p)]
    BY <1>1 DEF UpdateNote
  <2>2. DOMAIN byId' = Notes /\ \A m \in Notes : m # n => byId'[m] = byId[m]
    BY <2>1 DEF CacheInv, Shape
  <2> QED
    BY <2>1, <2>2, SendStep DEF Kinds
<1>2. ASSUME NEW n \in Notes, NEW kind \in Kinds, NEW p, Send(r, n, kind, p), byId[n] # None, UNCHANGED store
      PROVE  CacheInv'
  BY <1>2, SendStep DEF store
<1> QED
  BY <1>1, <1>2 DEF ToggleStar, EditTitle, RestoreNote, DeleteNote, Kinds

-----------------------------------------------------------------------------
(* The API *)

\* A request about a note that is gone: nothing changes but the request.
LEMMA RefuseStep ==
  ASSUME CacheInv, NEW r \in Slots, Apply(r), server[req[r].note] = None
  PROVE  CacheInv'
<1>1. UNCHANGED <<server, clock, past, byId, list>> /\ req[r].pc \in {"sent", "late"}
  BY DEF Apply, store
<1>2. \A q \in Slots : q # r => req'[q] = req[q]
  BY DEF Apply, CacheInv, Shape
<1>3. \/ req[r].pc = "late" /\ req'[r] = Blank("done")
      \/ req[r].pc = "sent" /\ req'[r] = [req[r] EXCEPT !.pc = "refused"]
  BY <1>1 DEF Apply, CacheInv, Shape
<1>4. IsRequest(req[r]) /\ req[r].note \in Notes
  BY <1>1 DEF CacheInv, Shape, Waiting
<1>5. DOMAIN req' = Slots
  BY DEF Apply, CacheInv, Shape
<1>6. CASE req[r].pc = "late"
  <2>1. req'[r].pc = "done" /\ IsRequest(req'[r])
    BY <1>3, <1>6, BlankShape
  <2>2. Shape'
    BY <1>1, <1>2, <1>5, <2>1 DEF CacheInv, Shape, Waiting
  <2>3. ASSUME NEW n \in Notes
        PROVE  NoteInv(n)'
    <3>1. NoteInv(n)
      BY DEF CacheInv
    <3>2. \A q \in Slots : (Pending(q, n) => Pending(q, n)') /\ (Latest(q, n) => Latest(q, n)')
      BY <1>1, <1>2, <1>6 DEF Pending, Latest
    <3> QED
      BY <1>1, <3>1, <3>2 DEF NoteInv, CachedOrPending, LatestIsKnown, ListIsOf, Disturbed
  <2>4. ASSUME NEW q \in Slots
        PROVE  (AnswerInv(q) /\ PrevInv(q) /\ AloneInv(q))'
    <3>1. CASE q = r
      BY <2>1, <3>1 DEF AnswerInv, PrevInv, AloneInv, Waiting
    <3>2. CASE q # r
      <4>1. AloneInv(q)'
        BY <1>2, <2>1, <3>2 DEF CacheInv, AloneInv, Waiting
      <4> QED
        BY <1>1, <1>2, <3>2, <4>1 DEF CacheInv, AnswerInv, PrevInv, Disturbed
    <3> QED
      BY <3>1, <3>2
  <2> QED
    BY <2>2, <2>3, <2>4 DEF CacheInv
<1>7. CASE req[r].pc = "sent"
  <2>1. /\ req'[r].pc = "refused" /\ req'[r].kind = req[r].kind /\ req'[r].note = req[r].note
        /\ req'[r].prev = req[r].prev /\ req'[r].alone = req[r].alone /\ IsRequest(req'[r])
    BY <1>3, <1>4, <1>7 DEF IsRequest
  <2>2. Shape'
    BY <1>1, <1>2, <1>4, <1>5, <2>1 DEF CacheInv, Shape, Waiting
  <2>3. ASSUME NEW n \in Notes
        PROVE  NoteInv(n)'
    <3>1. NoteInv(n)
      BY DEF CacheInv
    <3>2. \A q \in Slots : (Pending(q, n) => Pending(q, n)') /\ (Latest(q, n) => Latest(q, n)')
      BY <1>1, <1>2, <1>7, <2>1 DEF Pending, Latest
    <3> QED
      BY <1>1, <3>1, <3>2 DEF NoteInv, CachedOrPending, LatestIsKnown, ListIsOf, Disturbed
  <2>4. ASSUME NEW q \in Slots
        PROVE  (AnswerInv(q) /\ PrevInv(q) /\ AloneInv(q))'
    <3>0. AnswerInv(q) /\ PrevInv(q) /\ AloneInv(q)
      BY DEF CacheInv
    <3>1. AloneInv(q)'
      <4>1. \A w \in Slots : /\ Waiting(w)' <=> Waiting(w)
                             /\ req'[w].note = req[w].note /\ req'[w].alone = req[w].alone
        BY <1>2, <1>7, <2>1 DEF Waiting
      <4> QED
        BY <3>0, <4>1 DEF AloneInv
    <3>2. CASE q = r
      BY <1>1, <1>7, <2>1, <3>0, <3>1, <3>2 DEF AnswerInv, PrevInv, Disturbed
    <3>3. CASE q # r
      BY <1>1, <1>2, <3>0, <3>1, <3>3 DEF AnswerInv, PrevInv, Disturbed
    <3> QED
      BY <3>2, <3>3
  <2> QED
    BY <2>2, <2>3, <2>4 DEF CacheInv
<1> QED
  BY <1>1, <1>6, <1>7

\* A request is carried out: its answer is the latest there is about the note,
\* or the tab will never know of it.
LEMMA ApplyStep ==
  ASSUME CacheInv, NEW r \in Slots, Apply(r), server[req[r].note] # None
  PROVE  CacheInv'
<1>1. UNCHANGED <<byId, list>> /\ req[r].pc \in {"sent", "late"} /\ clock' = clock + 1
  BY DEF Apply, store
<1>2. PICK n \in Notes : n = req[r].note
  BY <1>1 DEF CacheInv, Shape, Waiting
<1>3. PICK row : row = RowAfter(server[req[r].note], req[r].kind, req[r].patch)
  OBVIOUS
<1>4. server' = [server EXCEPT ![n] = row]
  BY <1>2, <1>3 DEF Apply
<1>5. /\ IsPast(past') /\ past'.heard = past.heard
      /\ past'.overtaken = past.overtaken /\ past'.undone = past.undone
      /\ past'.changed = [past.changed EXCEPT ![n] = clock + 1]
      /\ past'.missed = IF req[r].pc = "late" THEN past.missed \cup {n} ELSE past.missed
  <2> DEFINE M == IF req[r].pc = "late" THEN past.missed \cup {n} ELSE past.missed
             W == IF Matches(row, scope) THEN past.matching ELSE past.matching \ {n}
  <2>1. past' = [past EXCEPT !.changed[n] = clock + 1, !.missed = M, !.matching = W]
    BY <1>2, <1>3 DEF Apply
  <2>2. IsPast(past) /\ clock + 1 \in Nat
    BY DEF CacheInv, Shape
  <2> HIDE DEF M, W
  <2>3. /\ IsPast(past') /\ past'.heard = past.heard
        /\ past'.overtaken = past.overtaken /\ past'.undone = past.undone
        /\ past'.changed = [past.changed EXCEPT ![n] = clock + 1] /\ past'.missed = M
    <3>1. past'.changed = [past.changed EXCEPT ![n] = clock + 1] /\ past'.changed \in [Notes -> Nat]
      BY <2>1, <2>2 DEF IsPast
    <3>2. past' = [changed |-> past'.changed, heard |-> past.heard, overtaken |-> past.overtaken,
                  undone |-> past.undone, missed |-> M, misjudged |-> past.misjudged,
                  matching |-> W, crossed |-> past.crossed]
      BY <2>1, <2>2 DEF IsPast
    <3>3. past.heard \in [Notes -> Nat]
      BY <2>2 DEF IsPast
    <3> QED
      BY <3>1, <3>2, <3>3 DEF IsPast
  <2> QED
    BY <2>3 DEF M
<1>6. server'[n] = row /\ \A m \in Notes : m # n => server'[m] = server[m]
  BY <1>4 DEF CacheInv, Shape
<1>7. past'.changed[n] = clock + 1 /\ \A m \in Notes : m # n => past'.changed[m] = past.changed[m]
  BY <1>5 DEF CacheInv, Shape, IsPast
<1>8. IsRequest(req[r]) /\ clock \in Nat /\ Cardinality(Notes) <= clock
      /\ Cardinality(Notes) \in Nat
      /\ \A m \in Notes : past.changed[m] \in Nat /\ past.changed[m] <= clock
                         /\ Seed[m].at \in Nat /\ Seed[m].at <= Cardinality(Notes)
  BY SeedAssumption, NotesAssumption, FS_CardinalityType DEF CacheInv, Shape, NoteInv, IsPast
<1>9. \A q \in Slots : q # r => req'[q] = req[q]
  BY DEF Apply, CacheInv, Shape
<1>10. IF req[r].pc = "late" THEN req'[r] = Blank("done")
       ELSE req'[r] = [req[r] EXCEPT !.pc = "applied", !.answer = row, !.time = clock + 1]
  <2>1. DOMAIN req = Slots
    BY DEF CacheInv, Shape
  <2>2. CASE req[r].pc = "late"
    <3>1. req' = [req EXCEPT ![r] = Blank("done")]
      BY <2>2 DEF Apply
    <3> QED
      BY <2>1, <2>2, <3>1
  <2>3. CASE req[r].pc = "sent"
    <3>1. req' = [req EXCEPT ![r] = [@ EXCEPT !.pc = "applied", !.answer = row, !.time = clock + 1]]
      BY <1>3, <2>3 DEF Apply
    <3> QED
      BY <2>1, <2>3, <3>1
  <2> QED
    BY <1>1, <2>2, <2>3
<1>11. req[r].pc = "late" => req'[r].pc = "done" /\ IsRequest(req'[r])
  BY <1>10, BlankShape
<1>12. req[r].pc = "sent" =>
         /\ req'[r].pc = "applied" /\ req'[r].note = n /\ req'[r].kind = req[r].kind
         /\ req'[r].answer = row /\ req'[r].time = clock + 1 /\ req'[r].alone = req[r].alone
         /\ IsRequest(req'[r])
  <2> DEFINE q == [req[r] EXCEPT !.pc = "applied", !.answer = row, !.time = clock + 1]
  <2>1. /\ q.pc = "applied" /\ q.note = req[r].note /\ q.kind = req[r].kind
        /\ q.answer = row /\ q.time = clock + 1 /\ q.alone = req[r].alone
    BY <1>8 DEF IsRequest
  <2>2. IsRequest(q)
    <3>1. clock + 1 \in Nat
      BY <1>8
    <3> QED
      BY <1>8, <3>1, AppliedShape
  <2>3. req[r].pc = "sent" => req'[r] = q
    BY <1>10
  <2> HIDE DEF q
  <2> QED
    BY <1>2, <2>1, <2>2, <2>3
<1>13. Disturbed \subseteq Disturbed' /\ (req[r].pc = "late" => n \in Disturbed')
       /\ \A m \in Notes : m # n => (m \in Disturbed' <=> m \in Disturbed)
  BY <1>5 DEF Disturbed
<1>14. Shape'
  <2>1. DOMAIN req' = Slots /\ DOMAIN server' = Notes
    BY <1>4 DEF Apply, CacheInv, Shape
  <2>2. ASSUME NEW q \in Slots
        PROVE  IsRequest(req'[q]) /\ (Waiting(q)' => req'[q].note \in Notes)
    BY <1>1, <1>9, <1>11, <1>12 DEF CacheInv, Shape, Waiting
  <2>3. list'.pc = "read" => list'.time \in Nat /\ Cardinality(Notes) <= list'.time /\ list'.time <= clock'
    BY <1>1, <1>8 DEF CacheInv, Shape
  <2> QED
    BY <1>1, <1>5, <1>8, <2>1, <2>2, <2>3 DEF CacheInv, Shape
<1>15. ASSUME NEW m \in Notes
       PROVE  NoteInv(m)'
  <2>1. NoteInv(m)
    BY DEF CacheInv
  <2>2. CASE m = n
    <3>1. req[r].pc = "sent" => Pending(r, m)' /\ Latest(r, m)'
      BY <1>7, <1>12, <2>2 DEF Pending, Latest
    <3>2. ListIsOf(m)'
      BY <1>1, <1>7, <1>8, <2>2 DEF ListIsOf, CacheInv, Shape
    <3>3. CachedOrPending(m)'
      BY <1>1, <1>13, <2>2, <3>1 DEF CachedOrPending
    <3>4. LatestIsKnown(m)'
      BY <1>1, <1>5, <2>2, <3>1 DEF LatestIsKnown
    <3> QED
      BY <1>1, <1>7, <1>8, <2>2, <3>2, <3>3, <3>4 DEF NoteInv
  <2>3. CASE m # n
    <3>1. \A q \in Slots : (Pending(q, m) => Pending(q, m)') /\ (Latest(q, m) => Latest(q, m)')
      BY <1>1, <1>2, <1>7, <1>9, <2>3 DEF Pending, Latest
    <3>2. CachedOrPending(m)'
      BY <1>1, <1>6, <1>13, <2>1, <2>3, <3>1 DEF NoteInv, CachedOrPending
    <3>3. LatestIsKnown(m)'
      BY <1>5, <1>7, <2>1, <2>3, <3>1 DEF NoteInv, LatestIsKnown
    <3>4. ListIsOf(m)'
      BY <1>1, <1>6, <1>7, <2>1, <2>3 DEF NoteInv, ListIsOf
    <3> QED
      BY <1>1, <1>7, <1>8, <2>3, <3>2, <3>3, <3>4 DEF NoteInv
  <2> QED
    BY <2>2, <2>3
<1>16. ASSUME NEW q \in Slots
       PROVE  (AnswerInv(q) /\ PrevInv(q) /\ AloneInv(q))'
  <2>1. AnswerInv(q) /\ PrevInv(q) /\ AloneInv(q) /\ AloneInv(r)
        /\ (Waiting(q) => req[q].note \in Notes) /\ req[q].time \in Nat
    BY DEF CacheInv, Shape, IsRequest
  <2>2. AloneInv(q)'
    <3>1. \A w \in Slots : /\ Waiting(w)' => Waiting(w)
                           /\ Waiting(w)' => req'[w].note = req[w].note /\ req'[w].alone = req[w].alone
      BY <1>1, <1>2, <1>9, <1>11, <1>12 DEF Waiting
    <3> QED
      BY <2>1, <3>1 DEF AloneInv
  <2>3. AnswerInv(q)'
    <3>1. CASE q = r
      BY <1>1, <1>6, <1>7, <1>8, <1>11, <1>12, <3>1 DEF AnswerInv
    <3>2. CASE q # r /\ req[q].note = n
      BY <1>2, <1>7, <1>8, <1>9, <2>1, <3>2 DEF AnswerInv
    <3>3. CASE q # r /\ req[q].note # n
      BY <1>6, <1>7, <1>9, <2>1, <3>3 DEF AnswerInv, Waiting
    <3> QED
      BY <3>1, <3>2, <3>3
  <2>4. PrevInv(q)'
    <3>1. CASE q = r
      BY <1>1, <1>11, <1>12, <3>1 DEF PrevInv
    <3>2. CASE q # r /\ req[q].note = n
      <4>1. Waiting(q) => req[q].alone = FALSE
        BY <1>1, <1>2, <2>1, <3>2 DEF AloneInv, Waiting
      <4> QED
        BY <1>9, <3>2, <4>1 DEF PrevInv, Waiting
    <3>3. CASE q # r /\ req[q].note # n
      BY <1>6, <1>9, <1>13, <2>1, <3>3 DEF PrevInv, Waiting
    <3> QED
      BY <3>1, <3>2, <3>3
  <2> QED
    BY <2>2, <2>3, <2>4
<1> QED
  BY <1>14, <1>15, <1>16 DEF CacheInv

-----------------------------------------------------------------------------
(* The answers *)

\* Request r is over: what the others have stays as it is.
LEMMA OverRequests ==
  ASSUME CacheInv, NEW r \in Slots, req' = [req EXCEPT ![r] = Blank("done")], server' = server,
         past'.changed = past.changed, Disturbed \subseteq Disturbed', NEW q \in Slots
  PROVE  (AnswerInv(q) /\ PrevInv(q) /\ AloneInv(q))'
<1>1. AnswerInv(q) /\ PrevInv(q) /\ AloneInv(q)
  BY DEF CacheInv
<1>2. req'[r].pc = "done" /\ \A w \in Slots : w # r => req'[w] = req[w]
  BY BlankShape DEF CacheInv, Shape
<1>3. CASE q = r
  BY <1>2, <1>3 DEF AnswerInv, PrevInv, AloneInv, Waiting
<1>4. CASE q # r
  <2>1. AloneInv(q)'
    BY <1>1, <1>2, <1>4 DEF AloneInv, Waiting
  <2> QED
    BY <1>1, <1>2, <1>4, <2>1 DEF AnswerInv, PrevInv
<1> QED
  BY <1>3, <1>4

\* A request that was carried out is answered: the note is cached as the answer
\* says, or not at all.
LEMMA AnswerStep ==
  ASSUME CacheInv, NEW r \in Slots, NEW n \in Notes, n = req[r].note, req[r].pc = "applied",
         req' = [req EXCEPT ![r] = Blank("done")], UNCHANGED <<server, clock, list>>,
         DOMAIN byId' = Notes, \A m \in Notes : m # n => byId'[m] = byId[m],
         byId'[n] = None \/ byId'[n] = req[r].answer,
         IsPast(past'),
         past'.changed = past.changed, past'.missed = past.missed, past'.undone = past.undone,
         past'.overtaken = past.overtaken \cup {m \in {n} : past.heard[m] > req[r].time},
         \A m \in Notes : past'.heard[m] = IF m \in {n} /\ req[r].time > past.heard[m]
                                            THEN req[r].time ELSE past.heard[m]
  PROVE  CacheInv'
<1>1. \A q \in Slots : q # r => req'[q] = req[q]
  BY DEF CacheInv, Shape
<1>2. Shape'
  BY SlotShape, BlankShape DEF CacheInv, Shape
<1>3. Disturbed \subseteq Disturbed'
  BY DEF Disturbed
<1>4. req[r].time \in Nat /\ Seed[n].at < req[r].time /\ req[r].time <= past.changed[n]
      /\ (req[r].time = past.changed[n] => req[r].answer = server[n])
  BY DEF CacheInv, Shape, IsRequest, AnswerInv
<1>5. ASSUME NEW m \in Notes
      PROVE  NoteInv(m)'
  <2>1. NoteInv(m) /\ past.changed[m] \in Nat /\ past.heard[m] \in Nat /\ Seed[m].at \in Nat
    BY SeedAssumption DEF CacheInv, Shape, IsPast
  <2>2. \A q \in Slots : q # r => (Pending(q, m)' <=> Pending(q, m)) /\ (Latest(q, m)' <=> Latest(q, m))
    BY <1>1 DEF Pending, Latest
  <2>3. ListIsOf(m)'
    BY <2>1 DEF NoteInv, ListIsOf
  <2>4. CASE m # n
    <3>1. ~Pending(r, m) /\ ~Latest(r, m)
      BY <2>4 DEF Pending, Latest
    <3>2. past'.heard[m] = past.heard[m] /\ byId'[m] = byId[m]
      BY <2>4
    <3>3. CachedOrPending(m)'
      BY <1>3, <2>1, <2>2, <3>1, <3>2 DEF NoteInv, CachedOrPending
    <3>4. LatestIsKnown(m)'
      BY <2>1, <2>2, <3>1, <3>2 DEF NoteInv, LatestIsKnown
    <3> QED
      BY <2>1, <2>3, <3>3, <3>4 DEF NoteInv
  <2>5. CASE m = n
    <3>1. past'.heard[n] >= past.heard[n] /\ past'.heard[n] >= req[r].time
      BY <1>4, <2>1, <2>5
    <3>2. LatestIsKnown(n)'
      <4>1. CASE Latest(r, n)
        BY <3>1, <4>1 DEF Latest, LatestIsKnown
      <4>2. CASE ~Latest(r, n)
        <5>1. CASE past.heard[n] >= past.changed[n]
          <6>1. past'.heard[n] >= past'.changed[n]
            BY <1>2, <2>1, <2>5, <3>1, <5>1 DEF Shape, IsPast
          <6> QED
            BY <6>1 DEF LatestIsKnown
        <5>2. CASE ~(past.heard[n] >= past.changed[n])
          BY <2>1, <2>2, <2>5, <4>2, <5>2 DEF NoteInv, LatestIsKnown
        <5> QED
          BY <5>1, <5>2
      <4> QED
        BY <4>1, <4>2
    <3>3. CachedOrPending(n)'
      <4>1. CASE byId'[n] = None \/ req[r].time = past.changed[n]
        BY <1>4, <4>1 DEF CachedOrPending
      <4>2. CASE req[r].time # past.changed[n]
        <5>1. past.changed[n] # Seed[n].at
          BY <1>4, <2>1, <2>5
        <5>2. CASE n \in past.missed
          BY <5>2 DEF CachedOrPending, Disturbed
        <5>3. CASE past.heard[n] >= past.changed[n]
          <6>1. n \in past'.overtaken
            BY <1>4, <2>1, <2>5, <4>2, <5>3
          <6> QED
            BY <6>1 DEF CachedOrPending, Disturbed
        <5>4. ASSUME NEW q \in Slots, Latest(q, n)
              PROVE  CachedOrPending(n)'
          <6>1. q # r
            BY <4>2, <5>4 DEF Latest
          <6>2. Pending(q, n)'
            BY <2>2, <2>5, <5>4, <6>1 DEF Latest, Pending
          <6> QED
            BY <6>2 DEF CachedOrPending
        <5> QED
          BY <2>1, <2>5, <5>1, <5>2, <5>3, <5>4 DEF NoteInv, LatestIsKnown
      <4> QED
        BY <4>1, <4>2
    <3> QED
      BY <2>1, <2>3, <2>5, <3>2, <3>3 DEF NoteInv
  <2> QED
    BY <2>4, <2>5
<1> QED
  BY <1>2, <1>3, <1>5, OverRequests DEF CacheInv

LEMMA DoneStep ==
  ASSUME CacheInv, NEW r \in Slots, UpdateDone(r) \/ Removed(r)
  PROVE  CacheInv'
<1>1. PICK n \in Notes : n = req[r].note
  BY DEF UpdateDone, Removed, CacheInv, Shape, Waiting
<1>2. req[r].pc = "applied" /\ req' = [req EXCEPT ![r] = Blank("done")] /\ UNCHANGED <<server, clock, list>>
  BY DEF UpdateDone, Removed
<1>3. req[r].time \in Nat
  BY DEF CacheInv, Shape, IsRequest
<1>4. PICK gone : past' = Judged(r, Heard({n}, req[r].time), gone)
  BY <1>1 DEF UpdateDone, Removed
<1>5. /\ IsPast(past')
      /\ past'.changed = past.changed /\ past'.missed = past.missed /\ past'.undone = past.undone
      /\ past'.overtaken = past.overtaken \cup {m \in {n} : past.heard[m] > req[r].time}
      /\ \A m \in Notes : past'.heard[m] = IF m \in {n} /\ req[r].time > past.heard[m]
                                            THEN req[r].time ELSE past.heard[m]
  BY <1>3, <1>4, HeardShape, JudgedShape DEF CacheInv
<1>6. DOMAIN byId' = Notes /\ (byId'[n] = None \/ byId'[n] = req[r].answer)
      /\ \A m \in Notes : m # n => byId'[m] = byId[m]
  <2>1. DOMAIN byId = Notes
    BY DEF CacheInv, Shape
  <2>2. CASE Removed(r)
    <3>1. byId' = RemoveNote(byId, ids, n)[1]
      BY <1>1, <2>2 DEF Removed
    <3> QED
      BY <1>1, <2>1, <3>1 DEF RemoveNote
  <2>3. CASE UpdateDone(r)
    <3>1. PICK set : set = [byId EXCEPT ![n] = req[r].answer]
      OBVIOUS
    <3>2. byId' = RemoveNote(set, ids, n)[1] \/ byId' = set
      BY <1>1, <2>3, <3>1 DEF UpdateDone
    <3>3. DOMAIN set = Notes /\ set[n] = req[r].answer /\ \A m \in Notes : m # n => set[m] = byId[m]
      BY <1>1, <2>1, <3>1
    <3> QED
      BY <1>1, <3>2, <3>3 DEF RemoveNote
  <2> QED
    BY <2>2, <2>3
<1> QED
  BY <1>1, <1>2, <1>5, <1>6, AnswerStep

\* A request that failed, or is taken to have failed: an update puts the row back
\* that it remembered. That is the API's, or the note is counted as disturbed.
LEMMA FailStep ==
  ASSUME CacheInv, NEW r \in Slots, Failed(r)
  PROVE  CacheInv'
<1>1. PICK n \in Notes : n = req[r].note
  BY DEF Failed, CacheInv, Shape, Waiting
<1>2. UNCHANGED <<server, clock, list>> /\ req[r].pc \in {"sent", "applied", "refused"}
  BY DEF Failed
<1>3. /\ IsPast(past') /\ past'.changed = past.changed /\ past'.heard = past.heard
      /\ past'.overtaken = past.overtaken
      /\ past'.undone = IF req[r].kind = "update" /\ ~req[r].alone THEN past.undone \cup {n} ELSE past.undone
      /\ past'.missed = IF req[r].pc = "applied" THEN past.missed \cup {n} ELSE past.missed
  BY <1>1 DEF Failed, CacheInv, Shape, IsPast
<1>4. DOMAIN byId' = Notes /\ (\A m \in Notes : m # n => byId'[m] = byId[m])
      /\ byId'[n] = IF req[r].kind = "update" THEN req[r].prev ELSE byId[n]
  BY <1>1 DEF Failed, Rollback, store, CacheInv, Shape
<1>5. IsRequest(req[r]) /\ DOMAIN req = Slots
  BY DEF CacheInv, Shape
<1>6. req' = [req EXCEPT ![r] = Blank("done")] \/ (req[r].pc = "sent" /\ req' = [req EXCEPT ![r].pc = "late"])
  BY DEF Failed
<1>7. DOMAIN req' = Slots /\ \A q \in Slots : q # r => req'[q] = req[q]
  BY <1>5, <1>6
<1>8. \/ req'[r].pc = "done" /\ IsRequest(req'[r])
      \/ /\ req[r].pc = "sent" /\ req'[r].pc = "late" /\ IsRequest(req'[r])
         /\ req'[r].note = req[r].note /\ req'[r].alone = req[r].alone
  <2>1. CASE req' = [req EXCEPT ![r] = Blank("done")]
    BY <1>5, <2>1, BlankShape
  <2>2. CASE req[r].pc = "sent" /\ req' = [req EXCEPT ![r].pc = "late"]
    <3>1. req'[r] = [req[r] EXCEPT !.pc = "late"]
      BY <1>5, <2>2
    <3> QED
      BY <1>5, <2>2, <3>1 DEF IsRequest
  <2> QED
    BY <1>6, <2>1, <2>2
<1>9. Shape'
  BY <1>1, <1>2, <1>3, <1>4, <1>7, <1>8 DEF CacheInv, Shape, Waiting
<1>10. Disturbed \subseteq Disturbed' /\ (req[r].pc = "applied" => n \in past'.missed)
       /\ (req[r].kind = "update" /\ ~req[r].alone => n \in Disturbed')
  BY <1>3 DEF Disturbed
<1>11. ASSUME NEW m \in Notes
       PROVE  NoteInv(m)'
  <2>1. NoteInv(m)
    BY DEF CacheInv
  <2>2. \A q \in Slots : q # r => (Pending(q, m)' <=> Pending(q, m)) /\ (Latest(q, m)' <=> Latest(q, m))
    BY <1>3, <1>7 DEF Pending, Latest
  <2>3. ListIsOf(m)' /\ past'.changed[m] <= clock'
    BY <1>2, <1>3, <2>1 DEF NoteInv, ListIsOf
  <2>4. LatestIsKnown(m)'
    <3>1. CASE Latest(r, m)
      BY <1>1, <1>10, <3>1 DEF Latest, LatestIsKnown
    <3>2. CASE ~Latest(r, m)
      BY <1>3, <2>1, <2>2, <3>2 DEF NoteInv, LatestIsKnown
    <3> QED
      BY <3>1, <3>2
  <2>5. CachedOrPending(m)'
    <3>1. CASE m # n
      <4>1. ~Pending(r, m)
        BY <1>1, <3>1 DEF Pending
      <4> QED
        BY <1>2, <1>4, <1>10, <2>1, <2>2, <3>1, <4>1 DEF NoteInv, CachedOrPending
    <3>2. CASE m = n /\ req[r].kind # "update"
      <4>1. CASE req[r].pc = "applied"
        BY <1>10, <3>2, <4>1 DEF CachedOrPending, Disturbed
      <4>2. CASE req[r].pc # "applied"
        <5>1. ~Pending(r, m)
          BY <3>2, <4>2 DEF Pending
        <5> QED
          BY <1>2, <1>4, <1>10, <2>1, <2>2, <3>2, <5>1 DEF NoteInv, CachedOrPending
      <4> QED
        BY <4>1, <4>2
    <3>3. CASE m = n /\ req[r].kind = "update"
      <4>1. CASE n \in Disturbed \/ req[r].pc = "applied" \/ req[r].alone # TRUE
        BY <1>10, <3>3, <4>1 DEF CachedOrPending, Disturbed
      <4>2. CASE n \notin Disturbed /\ req[r].pc # "applied" /\ req[r].alone = TRUE
        <5>1. req[r].prev = server[n]
          BY <1>1, <1>2, <3>3, <4>2 DEF CacheInv, PrevInv
        <5> QED
          BY <1>2, <1>4, <3>3, <5>1 DEF CachedOrPending
      <4> QED
        BY <4>1, <4>2
    <3> QED
      BY <3>1, <3>2, <3>3
  <2> QED
    BY <2>3, <2>4, <2>5 DEF NoteInv
<1>12. ASSUME NEW q \in Slots
       PROVE  (AnswerInv(q) /\ PrevInv(q) /\ AloneInv(q))'
  <2>1. AnswerInv(q) /\ PrevInv(q) /\ AloneInv(q)
    BY DEF CacheInv
  <2>2. AloneInv(q)'
    <3>1. \A w \in Slots : /\ Waiting(w)' => Waiting(w)
                           /\ Waiting(w)' => req'[w].note = req[w].note /\ req'[w].alone = req[w].alone
      BY <1>2, <1>7, <1>8 DEF Waiting
    <3> QED
      BY <2>1, <3>1 DEF AloneInv
  <2>3. CASE q = r
    BY <1>8, <2>2, <2>3 DEF AnswerInv, PrevInv
  <2>4. CASE q # r
    BY <1>2, <1>3, <1>7, <1>10, <2>1, <2>2, <2>4 DEF AnswerInv, PrevInv
  <2> QED
    BY <2>3, <2>4
<1> QED
  BY <1>9, <1>11, <1>12 DEF CacheInv

-----------------------------------------------------------------------------

LEMMA InitCache == Init => CacheInv
<1> SUFFICES ASSUME Init PROVE CacheInv
  OBVIOUS
<1>1. Cardinality(Notes) \in Nat /\ clock = Cardinality(Notes)
  BY NotesAssumption, FS_CardinalityType DEF Init
<1>2. \A n \in Notes : Seed[n].at \in Nat /\ Seed[n].at <= Cardinality(Notes)
  BY <1>1, SeedAssumption
<1>3. IsRequest(Blank("unused")) /\ Blank("unused").pc = "unused"
  BY DEF IsRequest, Blank, Kinds
<1>4. \A r \in Slots : req[r] = Blank("unused")
  BY DEF Init
<1>5. IsPast(past) /\ \A n \in Notes : past.changed[n] = Seed[n].at
  BY <1>2 DEF Init, IsPast
<1>6. Shape
  BY <1>1, <1>3, <1>4, <1>5, SeedAssumption DEF Init, Shape, Waiting, NoRows, ListIs
<1>7. ASSUME NEW n \in Notes
      PROVE  NoteInv(n)
  BY <1>1, <1>2, <1>5 DEF Init, NoteInv, CachedOrPending, LatestIsKnown, ListIsOf, ListIs, NoRows
<1>8. ASSUME NEW r \in Slots
      PROVE  AnswerInv(r) /\ PrevInv(r) /\ AloneInv(r)
  BY <1>3, <1>4 DEF AnswerInv, PrevInv, AloneInv, Waiting
<1> QED
  BY <1>6, <1>7, <1>8 DEF CacheInv

LEMMA NextCache ==
  ASSUME CacheInv, [Next]_vars
  PROVE  CacheInv'
<1>1. CASE (\E n \in Notes : Open(n)) \/ (\E s \in Scopes : ChangeScope(s)) \/ ListRead \/ ListFailed
  BY <1>1, ListStep
<1>2. CASE ListDone
  BY <1>2, ListDoneStep
<1>3. ASSUME NEW r \in Slots, ToggleStar(r) \/ EditTitle(r) \/ RestoreNote(r) \/ DeleteNote(r)
      PROVE  CacheInv'
  BY <1>3, ClickStep
<1>4. ASSUME NEW r \in Slots, Apply(r)
      PROVE  CacheInv'
  BY <1>4, RefuseStep, ApplyStep
<1>5. ASSUME NEW r \in Slots, UpdateDone(r) \/ Removed(r)
      PROVE  CacheInv'
  BY <1>5, DoneStep
<1>6. ASSUME NEW r \in Slots, Failed(r)
      PROVE  CacheInv'
  BY <1>6, FailStep
<1>7. CASE UNCHANGED vars
  BY <1>7, QuietStep DEF vars, store, CacheInv, Shape
<1> QED
  BY <1>1, <1>2, <1>3, <1>4, <1>5, <1>6, <1>7 DEF Next

\* Whatever requests overlap, fail, or are answered late and out of order: a
\* cached row that differs from the API's has an answer to come, or its note was
\* overtaken, undone or missed.
THEOREM CacheExplained == Spec => []CacheInv
  BY InitCache, NextCache, PTL DEF Spec

\* Once everything is answered, the cache has the API's rows, for every set of
\* notes and any number of requests at once.
THEOREM CacheMatches == Spec => []CacheMatchesApi
<1>1. CacheInv => CacheMatchesApi
  <2>1. ASSUME CacheInv, Quiet, NEW n \in Notes \ Disturbed
        PROVE  byId[n] \in {None, server[n]}
    <3>1. \A r \in Slots : ~Pending(r, n)
      BY <2>1 DEF Quiet, Pending, Waiting
    <3> QED
      BY <2>1, <3>1 DEF CacheInv, NoteInv, CachedOrPending
  <2> QED
    BY <2>1 DEF CacheMatchesApi
<1> QED
  BY <1>1, CacheExplained, PTL

-----------------------------------------------------------------------------
(* Lists of ids: what the functions of stores/notes.ts do to them. *)

Distinct(s) == \A i, j \in DOMAIN s : s[i] = s[j] => i = j

\* s without the element at p.
Cut(s, p) == [k \in 1 .. Len(s) - 1 |-> IF k < p THEN s[k] ELSE s[k + 1]]

LEMMA FirstIndex ==
  ASSUME NEW S, NEW s \in Seq(S), NEW p \in DOMAIN s,
         Distinct(s)
  PROVE  IndexOf(s, s[p]) = p
<1>1. {i \in 1 .. Len(s) : s[i] = s[p]} = {p}
  BY DEF Distinct
<1>2. Min({p}) = p
  <2>1. p \in Int
    OBVIOUS
  <2> QED
    BY <2>1 DEF Min
<1>3. s[p] \in ToSet(s)
  BY DEF ToSet
<1> QED
  BY <1>1, <1>2, <1>3 DEF IndexOf, SelectInSeq

LEMMA RemoveFirstCuts ==
  ASSUME NEW S, NEW s \in Seq(S), NEW p \in DOMAIN s,
         Distinct(s)
  PROVE  RemoveFirst(s, s[p]) = Cut(s, p)
<1>1. {i \in 1 .. Len(s) : s[i] = s[p]} = {p}
  BY DEF Distinct
<1>2. Min({p}) = p
  <2>1. p \in Int
    OBVIOUS
  <2> QED
    BY <2>1 DEF Min
<1>3. RemoveFirst(s, s[p]) = RemoveAt(s, p)
  BY <1>1, <1>2 DEF RemoveFirst, SelectInSeq
<1>4. RemoveAt(s, p) = Cut(s, p)
  <2> DEFINE a == SubSeq(s, 1, p - 1)
             b == SubSeq(s, p + 1, Len(s))
  <2>1. Len(s) \in Nat /\ p \in 1 .. Len(s)
    OBVIOUS
  <2>2. /\ a \in Seq(S) /\ Len(a) = p - 1 /\ \A k \in 1 .. p - 1 : a[k] = s[k]
    BY <2>1
  <2>3. /\ b \in Seq(S) /\ Len(b) = Len(s) - p /\ \A k \in 1 .. Len(s) - p : b[k] = s[p + k]
    BY <2>1
  <2> HIDE DEF a, b
  <2>4. /\ a \o b \in Seq(S) /\ Len(a \o b) = Len(a) + Len(b)
        /\ \A k \in 1 .. Len(a) + Len(b) : (a \o b)[k] = IF k <= Len(a) THEN a[k] ELSE b[k - Len(a)]
    BY <2>2, <2>3, ConcatProperties
  <2>5. Cut(s, p) \in Seq(S) /\ Len(Cut(s, p)) = Len(s) - 1 /\ Len(a) + Len(b) = Len(s) - 1
    BY <2>1, <2>2, <2>3 DEF Cut
  <2>6. ASSUME NEW k \in 1 .. Len(s) - 1
        PROVE  (a \o b)[k] = Cut(s, p)[k]
    <3>1. CASE k < p
      BY <2>1, <2>2, <2>4, <2>5, <3>1 DEF Cut
    <3>2. CASE ~(k < p)
      <4>1. k - Len(a) \in 1 .. Len(s) - p /\ p + (k - Len(a)) = k + 1 /\ ~(k <= Len(a))
        BY <2>1, <2>2, <3>2
      <4>2. (a \o b)[k] = b[k - Len(a)]
        BY <2>4, <2>5, <4>1
      <4> QED
        BY <2>3, <3>2, <4>1, <4>2 DEF Cut
    <3> QED
      BY <3>1, <3>2
  <2>7. a \o b = Cut(s, p)
    BY <2>4, <2>5, <2>6, SeqEqual
  <2> QED
    BY <2>7 DEF RemoveAt, a, b
<1> QED
  BY <1>3, <1>4

LEMMA CutType ==
  ASSUME NEW S, NEW s \in Seq(S), NEW p \in DOMAIN s,
         Distinct(s)
  PROVE  /\ Cut(s, p) \in Seq(S) /\ Len(Cut(s, p)) = Len(s) - 1 /\ Len(s) - 1 \in Nat
         /\ ToSet(Cut(s, p)) = ToSet(s) \ {s[p]}
         /\ Distinct(Cut(s, p))
         /\ \A i, j \in DOMAIN Cut(s, p) : i < j =>
              \E k, l \in DOMAIN s : k < l /\ k # p /\ l # p /\ Cut(s, p)[i] = s[k] /\ Cut(s, p)[j] = s[l]
<1> DEFINE t == Cut(s, p)
           from(i) == IF i < p THEN i ELSE i + 1
<1>1. Len(s) \in Nat /\ p \in 1 .. Len(s) /\ DOMAIN s = 1 .. Len(s) /\ Len(s) - 1 \in Nat
  OBVIOUS
<1>2. \A i \in 1 .. Len(s) - 1 : from(i) \in DOMAIN s /\ from(i) # p
  BY <1>1
<1>3. \A i, j \in 1 .. Len(s) - 1 : i < j => from(i) < from(j)
  BY <1>1
<1>4. t = [i \in 1 .. Len(s) - 1 |-> s[from(i)]]
  BY DEF Cut
<1>5. \A i, j \in 1 .. Len(s) - 1 : from(i) = from(j) => i = j
  BY <1>1
<1>6. ASSUME NEW k \in DOMAIN s, k # p
      PROVE  \E i \in 1 .. Len(s) - 1 : from(i) = k
  <2>1. CASE k < p
    <3>1. k \in 1 .. Len(s) - 1 /\ from(k) = k
      BY <1>1, <2>1
    <3> QED
      BY <3>1
  <2>2. CASE k > p
    <3>1. k - 1 \in 1 .. Len(s) - 1 /\ from(k - 1) = k
      BY <1>1, <2>2
    <3> QED
      BY <3>1
  <2> QED
    BY <1>1, <1>6, <2>1, <2>2
<1> HIDE DEF from
<1>7. t \in Seq(S) /\ Len(t) = Len(s) - 1 /\ DOMAIN t = 1 .. Len(s) - 1
  <2>1. \A i \in 1 .. Len(s) - 1 : s[from(i)] \in S
    BY <1>2
  <2> QED
    BY <1>1, <1>4, <2>1
<1>8. \A i \in 1 .. Len(s) - 1 : t[i] = s[from(i)]
  BY <1>4
<1>9. ToSet(t) = ToSet(s) \ {s[p]}
  <2>1. ASSUME NEW x \in ToSet(t)
        PROVE  x \in ToSet(s) \ {s[p]}
    BY <1>2, <1>7, <1>8 DEF ToSet, Distinct
  <2>2. ASSUME NEW x \in ToSet(s) \ {s[p]}
        PROVE  x \in ToSet(t)
    <3>1. PICK k \in DOMAIN s : s[k] = x
      BY DEF ToSet
    <3>2. k # p
      BY <3>1
    <3>3. PICK i \in 1 .. Len(s) - 1 : from(i) = k
      BY <1>6, <3>2
    <3> QED
      BY <1>7, <1>8, <3>1, <3>3 DEF ToSet
  <2> QED
    BY <2>1, <2>2
<1> HIDE DEF t
<1>10. ASSUME NEW i \in DOMAIN t, NEW j \in DOMAIN t, t[i] = t[j]
       PROVE  i = j
  BY <1>2, <1>5, <1>7, <1>8, <1>10 DEF Distinct
<1>11. ASSUME NEW i \in DOMAIN t, NEW j \in DOMAIN t, i < j
       PROVE  \E k, l \in DOMAIN s : k < l /\ k # p /\ l # p /\ t[i] = s[k] /\ t[j] = s[l]
  BY <1>2, <1>3, <1>7, <1>8, <1>11
<1> QED
  BY <1>1, <1>7, <1>9, <1>10, <1>11 DEF t, Distinct

\* s with e put in at i.
Paste(s, i, e) == [k \in 1 .. Len(s) + 1 |-> IF k < i THEN s[k] ELSE IF k = i THEN e ELSE s[k - 1]]

LEMMA InsertAtPastes ==
  ASSUME NEW S, NEW s \in Seq(S), NEW i \in 1 .. Len(s) + 1, NEW e \in S
  PROVE  InsertAt(s, i, e) = Paste(s, i, e)
<1> DEFINE a == SubSeq(s, 1, i - 1)
           b == SubSeq(s, i, Len(s))
           c == <<e>>
           d == a \o c
           u == d \o b
           t == Paste(s, i, e)
<1>1. Len(s) \in Nat /\ i \in Nat /\ i >= 1 /\ i <= Len(s) + 1
  OBVIOUS
<1>2. a \in Seq(S) /\ Len(a) = i - 1 /\ \A k \in 1 .. i - 1 : a[k] = s[k]
  BY <1>1
<1>3. b \in Seq(S) /\ Len(b) = Len(s) + 1 - i /\ \A k \in 1 .. Len(s) + 1 - i : b[k] = s[i + k - 1]
  BY <1>1
<1>4. c \in Seq(S) /\ Len(c) = 1 /\ c[1] = e
  OBVIOUS
<1> HIDE DEF a, b, c
<1>5. /\ d \in Seq(S) /\ Len(d) = i
      /\ \A k \in 1 .. i : d[k] = IF k <= i - 1 THEN a[k] ELSE c[k - (i - 1)]
  <2>1. Len(a) + Len(c) = i
    BY <1>1, <1>2, <1>4
  <2>2. /\ d \in Seq(S) /\ Len(d) = Len(a) + Len(c)
        /\ \A k \in 1 .. Len(a) + Len(c) : d[k] = IF k <= Len(a) THEN a[k] ELSE c[k - Len(a)]
    BY <1>2, <1>4, ConcatProperties
  <2> HIDE DEF d
  <2> QED
    BY <1>2, <2>1, <2>2
<1> HIDE DEF d
<1>6. /\ u \in Seq(S) /\ Len(u) = Len(s) + 1
      /\ \A k \in 1 .. Len(s) + 1 : u[k] = IF k <= i THEN d[k] ELSE b[k - i]
  <2>1. Len(d) + Len(b) = Len(s) + 1
    BY <1>1, <1>3, <1>5
  <2>2. /\ u \in Seq(S) /\ Len(u) = Len(d) + Len(b)
        /\ \A k \in 1 .. Len(d) + Len(b) : u[k] = IF k <= Len(d) THEN d[k] ELSE b[k - Len(d)]
    BY <1>3, <1>5, ConcatProperties
  <2> HIDE DEF u
  <2> QED
    BY <1>5, <2>1, <2>2
<1> HIDE DEF u
<1>7. t \in Seq(S) /\ Len(t) = Len(s) + 1
  BY <1>1 DEF Paste
<1>8. \A k \in 1 .. Len(s) + 1 : t[k] = IF k < i THEN s[k] ELSE IF k = i THEN e ELSE s[k - 1]
  BY DEF Paste
<1> HIDE DEF t
<1>9. ASSUME NEW k \in 1 .. Len(s) + 1
      PROVE  u[k] = t[k]
  <2>1. CASE k < i
    BY <1>1, <1>2, <1>5, <1>6, <1>8, <2>1
  <2>2. CASE k = i
    <3>1. k - (i - 1) = 1 /\ ~(k <= i - 1) /\ k \in 1 .. i
      BY <1>1, <2>2
    <3> QED
      BY <1>1, <1>4, <1>5, <1>6, <1>8, <2>2, <3>1
  <2>3. CASE k > i
    <3>1. k - i \in 1 .. Len(s) + 1 - i /\ i + (k - i) - 1 = k - 1 /\ ~(k <= i)
      BY <1>1, <2>3
    <3> QED
      BY <1>1, <1>3, <1>6, <1>8, <2>3, <3>1
  <2> QED
    BY <1>1, <2>1, <2>2, <2>3
<1>10. u = t
  BY <1>6, <1>7, <1>9, SeqEqual
<1> QED
  BY <1>10 DEF InsertAt, a, b, c, d, t, u

LEMMA PasteType ==
  ASSUME NEW S, NEW s \in Seq(S), NEW i \in 1 .. Len(s) + 1, NEW e \in S \ ToSet(s),
         Distinct(s)
  PROVE  /\ Paste(s, i, e) \in Seq(S) /\ ToSet(Paste(s, i, e)) = ToSet(s) \cup {e}
         /\ Distinct(Paste(s, i, e))
<1> DEFINE t == Paste(s, i, e)
           from(k) == IF k < i THEN k ELSE k - 1
<1>1. Len(s) \in Nat /\ i \in Nat /\ DOMAIN s = 1 .. Len(s) /\ DOMAIN t = 1 .. Len(s) + 1
      /\ i \in DOMAIN t
  BY DEF Paste
<1>2. t[i] = e /\ \A k \in DOMAIN t \ {i} : from(k) \in DOMAIN s /\ t[k] = s[from(k)]
  BY <1>1 DEF Paste
<1>3. \A j, k \in DOMAIN t \ {i} : from(j) = from(k) => j = k
  BY <1>1
<1>4. \A k \in DOMAIN s : \E j \in DOMAIN t \ {i} : from(j) = k
  <2> SUFFICES ASSUME NEW k \in DOMAIN s
               PROVE  \E j \in DOMAIN t \ {i} : from(j) = k
    OBVIOUS
  <2>1. CASE k < i
    BY <1>1, <2>1
  <2>2. CASE ~(k < i)
    <3>1. k + 1 \in DOMAIN t \ {i} /\ from(k + 1) = k
      BY <1>1, <2>2
    <3> QED
      BY <3>1
  <2> QED
    BY <2>1, <2>2
<1> HIDE DEF from
<1>5. \A k \in DOMAIN t : t[k] \in S
  BY <1>2
<1>6. t \in Seq(S)
  BY <1>1, <1>5 DEF Paste
<1> HIDE DEF t
<1>7. ToSet(t) = ToSet(s) \cup {e}
  <2>1. \A k \in DOMAIN t : t[k] \in ToSet(s) \cup {e}
    BY <1>2 DEF ToSet
  <2>2. \A k \in DOMAIN s : s[k] \in ToSet(t)
    BY <1>2, <1>4 DEF ToSet
  <2>3. e \in ToSet(t)
    BY <1>1, <1>2 DEF ToSet
  <2> QED
    BY <2>1, <2>2, <2>3 DEF ToSet
<1>8. ASSUME NEW j \in DOMAIN t, NEW k \in DOMAIN t, t[j] = t[k]
      PROVE  j = k
  <2>1. \A l \in DOMAIN t \ {i} : t[l] \in ToSet(s) /\ t[l] # e
    BY <1>2 DEF ToSet
  <2>2. CASE j = i \/ k = i
    BY <1>2, <1>8, <2>1, <2>2
  <2>3. CASE j # i /\ k # i
    BY <1>2, <1>3, <1>8, <2>3 DEF Distinct
  <2> QED
    BY <2>2, <2>3
<1> QED
  BY <1>6, <1>7, <1>8 DEF t, Distinct

LEMMA PasteOfCut ==
  ASSUME NEW S, NEW s \in Seq(S), NEW p \in DOMAIN s
  PROVE  Paste(Cut(s, p), p, s[p]) = s
<1>1. Len(s) \in Nat /\ p \in 1 .. Len(s) /\ Len(s) - 1 \in Nat
  OBVIOUS
<1>2. Len(Cut(s, p)) = Len(s) - 1 /\ (Len(s) - 1) + 1 = Len(s)
  <2>1. Cut(s, p) \in Seq(S)
    BY <1>1 DEF Cut
  <2> QED
    BY <1>1, <2>1 DEF Cut
<1>3. \A k \in 1 .. Len(s) - 1 : Cut(s, p)[k] = IF k < p THEN s[k] ELSE s[k + 1]
  BY DEF Cut
<1> DEFINE t == Paste(Cut(s, p), p, s[p])
<1>4. DOMAIN t = 1 .. Len(s)
      /\ \A k \in 1 .. Len(s) : t[k] = IF k < p THEN Cut(s, p)[k] ELSE IF k = p THEN s[p] ELSE Cut(s, p)[k - 1]
  BY <1>2 DEF Paste
<1>5. t = [k \in 1 .. Len(s) |-> t[k]]
  BY <1>2 DEF Paste
<1> HIDE DEF t
<1>6. ASSUME NEW k \in 1 .. Len(s)
      PROVE  t[k] = s[k]
  <2>1. CASE k < p
    <3>1. k \in 1 .. Len(s) - 1
      BY <1>1, <2>1
    <3> QED
      BY <1>3, <1>4, <2>1, <3>1
  <2>2. CASE k = p
    BY <1>1, <1>4, <2>2
  <2>3. CASE k > p
    <3>1. k - 1 \in 1 .. Len(s) - 1 /\ ~(k - 1 < p) /\ (k - 1) + 1 = k /\ ~(k < p) /\ k # p
      BY <1>1, <2>3
    <3> QED
      BY <1>3, <1>4, <3>1
  <2> QED
    BY <1>1, <2>1, <2>2, <2>3
<1>7. t \in Seq(S) /\ Len(t) = Len(s)
  <2>1. \A k \in 1 .. Len(s) : t[k] \in S
    BY <1>6
  <2> QED
    BY <1>1, <1>5, <2>1
<1>8. t = s
  BY <1>6, <1>7, SeqEqual
<1> QED
  BY <1>8 DEF t

\* s has its elements in the order of r, but for n.
Follows(s, r, n) ==
  \A i, j \in DOMAIN s : i < j /\ s[i] # n /\ s[j] # n =>
    \E k, l \in DOMAIN r : k < l /\ s[i] = r[k] /\ s[j] = r[l]

\* removeNote
LEMMA WithoutFacts ==
  ASSUME NEW S, NEW s \in Seq(S), Distinct(s), NEW n
  PROVE  /\ Without(s, n) \in Seq(S) /\ ToSet(Without(s, n)) = ToSet(s) \ {n}
         /\ Distinct(Without(s, n)) /\ Follows(Without(s, n), s, n)
<1> DEFINE K == {i \in DOMAIN s : s[i] # n}
           before(i) == {j \in K : j < i}
           at(k) == CHOOSE i \in K : Cardinality(before(i)) = k - 1
<1>1. Len(s) \in Nat /\ DOMAIN s = 1 .. Len(s) /\ s = [k \in 1 .. Len(s) |-> s[k]]
  OBVIOUS
<1>2. Without(s, n) = [k \in 1 .. Cardinality(K) |-> s[at(k)]]
  BY DEF Without
<1>3. CASE n \notin ToSet(s)
  <2>1. K = 1 .. Len(s)
    BY <1>1, <1>3 DEF ToSet
  <2>2. \A i \in K : Cardinality(before(i)) = i - 1
    <3> SUFFICES ASSUME NEW i \in K
                 PROVE  Cardinality(before(i)) = i - 1
      OBVIOUS
    <3>1. before(i) = 1 .. i - 1 /\ i - 1 \in Nat /\ i - 1 >= 0
      BY <1>1, <2>1
    <3> HIDE DEF before
    <3> QED
      BY <3>1, FS_Interval
  <2> HIDE DEF before
  <2>3. Cardinality(K) = Len(s)
    <3>1. Cardinality(1 .. Len(s)) = Len(s)
      BY <1>1, FS_Interval
    <3> HIDE DEF K
    <3> QED
      BY <2>1, <3>1
  <2>4. \A k \in 1 .. Len(s) : at(k) = k
    BY <1>1, <2>1, <2>2
  <2> HIDE DEF at, K
  <2>5. Without(s, n) = s
    BY <1>1, <1>2, <2>3, <2>4
  <2> QED
    BY <1>3, <2>5 DEF Follows, ToSet
<1>4. CASE n \in ToSet(s)
  <2>1. PICK p \in DOMAIN s : s[p] = n
    BY <1>4 DEF ToSet
  <2>2. K = (1 .. Len(s)) \ {p} /\ p \in 1 .. Len(s)
    BY <1>1, <2>1 DEF Distinct
  <2>3. \A i \in K : Cardinality(before(i)) = IF i < p THEN i - 1 ELSE i - 2
    <3> SUFFICES ASSUME NEW i \in K
                 PROVE  Cardinality(before(i)) = IF i < p THEN i - 1 ELSE i - 2
      OBVIOUS
    <3>1. i \in 1 .. Len(s) /\ i # p /\ i - 1 \in Nat
      BY <1>1, <2>2
    <3>2. IsFiniteSet(1 .. i - 1) /\ Cardinality(1 .. i - 1) = i - 1
      <4>1. PICK m \in Nat : m = i - 1
        BY <3>1
      <4>2. IsFiniteSet(1 .. m) /\ Cardinality(1 .. m) = m
        BY FS_Interval
      <4> QED
        BY <4>1, <4>2
    <3>3. CASE i < p
      <4>1. before(i) = 1 .. i - 1
        BY <1>1, <2>2, <3>1, <3>3
      <4> HIDE DEF before
      <4> QED
        BY <3>2, <3>3, <4>1
    <3>4. CASE ~(i < p)
      <4>1. before(i) = (1 .. i - 1) \ {p} /\ p \in 1 .. i - 1
        BY <1>1, <2>2, <3>1, <3>4
      <4> HIDE DEF before
      <4>2. Cardinality((1 .. i - 1) \ {p}) = Cardinality(1 .. i - 1) - 1
        BY <3>2, <4>1, FS_RemoveElement
      <4> QED
        BY <3>1, <3>2, <3>4, <4>1, <4>2
    <3> QED
      BY <3>3, <3>4
  <2> HIDE DEF before
  <2>4. Cardinality(K) = Len(s) - 1
    <3>1. IsFiniteSet(1 .. Len(s)) /\ Cardinality(1 .. Len(s)) = Len(s)
      BY <1>1, FS_Interval
    <3>2. Cardinality((1 .. Len(s)) \ {p}) = Cardinality(1 .. Len(s)) - 1
      BY <2>2, <3>1, FS_RemoveElement
    <3> QED
      BY <2>2, <3>1, <3>2
  <2>5. \A k \in 1 .. Len(s) - 1 : at(k) = IF k < p THEN k ELSE k + 1
    <3> SUFFICES ASSUME NEW k \in 1 .. Len(s) - 1
                 PROVE  at(k) = IF k < p THEN k ELSE k + 1
      OBVIOUS
    <3> DEFINE i == IF k < p THEN k ELSE k + 1
    <3>1. i \in K /\ (IF i < p THEN i - 1 ELSE i - 2) = k - 1
      BY <1>1, <2>2
    <3>2. \A j \in K : (IF j < p THEN j - 1 ELSE j - 2) = k - 1 => j = i
      BY <1>1, <2>2
    <3> HIDE DEF K, i
    <3> QED
      BY <2>3, <3>1, <3>2 DEF i
  <2> HIDE DEF at, K
  <2>6. Without(s, n) = Cut(s, p)
    <3>1. \A k \in 1 .. Len(s) - 1 : s[at(k)] = IF k < p THEN s[k] ELSE s[k + 1]
      BY <2>5
    <3> QED
      BY <1>2, <2>4, <3>1 DEF Cut
  <2> QED
    BY <2>1, <2>6, CutType DEF Follows
<1> QED
  BY <1>3, <1>4

\* bumpNoteToTop
LEMMA BumpFacts ==
  ASSUME NEW S, NEW s \in Seq(S), Distinct(s), NEW n
  PROVE  /\ BumpNoteToTop(s, n) \in Seq(S) /\ ToSet(BumpNoteToTop(s, n)) = ToSet(s)
         /\ Distinct(BumpNoteToTop(s, n)) /\ Follows(BumpNoteToTop(s, n), s, n)
         /\ n \in ToSet(s) => /\ BumpNoteToTop(s, n)[1] = n
                              /\ IndexOf(s, n) \in Nat \ {0}
                              /\ MoveNoteToIndex(BumpNoteToTop(s, n), n, IndexOf(s, n)) = s
         /\ n \notin ToSet(s) => IndexOf(s, n) = 0 /\ BumpNoteToTop(s, n) = s
<1>1. CASE n \notin ToSet(s)
  <2>1. BumpNoteToTop(s, n) = s /\ IndexOf(s, n) = 0
    BY <1>1 DEF BumpNoteToTop, IndexOf
  <2> QED
    BY <1>1, <2>1 DEF Follows
<1>2. CASE n \in ToSet(s)
  <2>1. PICK p \in DOMAIN s : s[p] = n
    BY <1>2 DEF ToSet
  <2> DEFINE c == Cut(s, p)
             t == <<n>> \o c
  <2>2. BumpNoteToTop(s, n) = t
    BY <1>2, <2>1, RemoveFirstCuts DEF BumpNoteToTop
  <2>3. n \in S /\ Len(s) \in Nat /\ p \in 1 .. Len(s)
    BY <2>1
  <2>4. /\ c \in Seq(S) /\ Len(c) = Len(s) - 1 /\ Len(s) - 1 \in Nat
        /\ ToSet(c) = ToSet(s) \ {n} /\ Distinct(c)
        /\ \A i, j \in DOMAIN c : i < j => \E k, l \in DOMAIN s : k < l /\ c[i] = s[k] /\ c[j] = s[l]
    BY <2>1, CutType
  <2> HIDE DEF c
  <2>5. /\ t \in Seq(S) /\ Len(t) = Len(c) + 1 /\ DOMAIN t = 1 .. Len(c) + 1 /\ DOMAIN c = 1 .. Len(c)
        /\ t[1] = n /\ \A k \in 2 .. Len(c) + 1 : t[k] = c[k - 1]
    BY <2>3, <2>4
  <2> HIDE DEF t
  <2>6. ToSet(t) = ToSet(s)
    <3>1. ASSUME NEW k \in DOMAIN t
          PROVE  t[k] \in ToSet(s)
      <4>1. CASE k = 1
        BY <1>2, <2>5, <4>1
      <4>2. CASE k # 1
        <5>1. k - 1 \in DOMAIN c /\ k \in 2 .. Len(c) + 1
          BY <2>4, <2>5, <4>2
        <5>2. c[k - 1] \in ToSet(c)
          BY <5>1 DEF ToSet
        <5> QED
          BY <2>4, <2>5, <5>1, <5>2
      <4> QED
        BY <4>1, <4>2
    <3>2. ASSUME NEW x \in ToSet(s)
          PROVE  x \in ToSet(t)
      <4>1. CASE x = n
        <5>1. 1 \in DOMAIN t
          BY <2>4, <2>5
        <5> QED
          BY <2>5, <4>1, <5>1 DEF ToSet
      <4>2. CASE x # n
        <5>0. x \in ToSet(c)
          BY <2>4, <4>2
        <5>1. PICK k \in DOMAIN c : c[k] = x
          BY <5>0 DEF ToSet
        <5>2. k + 1 \in 2 .. Len(c) + 1 /\ k + 1 \in DOMAIN t /\ (k + 1) - 1 = k
          BY <2>4, <2>5, <5>1
        <5> QED
          BY <2>5, <5>1, <5>2 DEF ToSet
      <4> QED
        BY <4>1, <4>2
    <3> QED
      BY <3>1, <3>2 DEF ToSet
  <2>7. \A k \in DOMAIN t : k = 1 \/ (k - 1 \in DOMAIN c /\ t[k] = c[k - 1] /\ t[k] # n /\ k # 1)
    <3> SUFFICES ASSUME NEW k \in DOMAIN t, k # 1
                 PROVE  k - 1 \in DOMAIN c /\ t[k] = c[k - 1] /\ t[k] # n
      OBVIOUS
    <3>1. k - 1 \in DOMAIN c /\ k \in 2 .. Len(c) + 1
      BY <2>4, <2>5
    <3>2. c[k - 1] \in ToSet(c)
      BY <3>1 DEF ToSet
    <3> QED
      BY <2>4, <2>5, <3>1, <3>2
  <2>8. \A k \in DOMAIN t : k \in Int
    BY <2>4, <2>5
  <2>9. Distinct(t)
    <3> SUFFICES ASSUME NEW j \in DOMAIN t, NEW k \in DOMAIN t, t[j] = t[k]
                 PROVE  j = k
      BY DEF Distinct
    <3>1. CASE j = 1 \/ k = 1
      BY <2>5, <2>7, <3>1
    <3>2. CASE j # 1 /\ k # 1
      <4>1. j - 1 = k - 1
        BY <2>4, <2>7, <3>2 DEF Distinct
      <4> QED
        BY <2>8, <4>1
    <3> QED
      BY <3>1, <3>2
  <2>10. Follows(t, s, n)
    <3> SUFFICES ASSUME NEW i \in DOMAIN t, NEW j \in DOMAIN t, i < j, t[i] # n, t[j] # n
                 PROVE  \E k, l \in DOMAIN s : k < l /\ t[i] = s[k] /\ t[j] = s[l]
      BY DEF Follows
    <3>1. i - 1 \in DOMAIN c /\ j - 1 \in DOMAIN c /\ t[i] = c[i - 1] /\ t[j] = c[j - 1]
      BY <2>5, <2>7
    <3>2. i - 1 < j - 1
      BY <2>8
    <3> QED
      BY <2>4, <3>1, <3>2
  <2>11. IndexOf(s, n) = p
    BY <2>1, FirstIndex
  <2>12. MoveNoteToIndex(t, n, p) = s
    <3>1. RemoveFirst(t, n) = Cut(t, 1)
      <4>1. 1 \in DOMAIN t
        BY <2>4, <2>5
      <4> QED
        BY <2>5, <2>9, <4>1, RemoveFirstCuts
    <3>2. Cut(t, 1) = c
      <4>1. Len(t) - 1 = Len(c)
        BY <2>4, <2>5
      <4>2. \A k \in 1 .. Len(c) : ~(k < 1) /\ k + 1 \in 2 .. Len(c) + 1 /\ (k + 1) - 1 = k
        BY <2>4
      <4>3. \A k \in 1 .. Len(c) : t[k + 1] = c[k]
        BY <2>5, <4>2
      <4>4. Cut(t, 1) = [k \in 1 .. Len(c) |-> c[k]]
        BY <4>1, <4>2, <4>3 DEF Cut
      <4> QED
        BY <2>4, <4>4
    <3>3. (IF p <= Len(c) THEN p ELSE Len(c) + 1) = p /\ p \in 1 .. Len(c) + 1
      BY <2>3, <2>4
    <3>4. InsertAt(c, p, n) = s
      <4>1. InsertAt(c, p, n) = Paste(c, p, n)
        BY <2>3, <2>4, <3>3, InsertAtPastes
      <4>2. Paste(c, p, n) = s
        BY <2>1, PasteOfCut DEF c
      <4> QED
        BY <4>1, <4>2
    <3> QED
      BY <1>2, <2>6, <3>1, <3>2, <3>3, <3>4 DEF MoveNoteToIndex
  <2>13. p \in Nat \ {0}
    BY <2>3
  <2> QED
    BY <1>2, <2>2, <2>5, <2>6, <2>9, <2>10, <2>11, <2>12, <2>13
<1> QED
  BY <1>1, <1>2

\* moveNoteToIndex
LEMMA MoveFacts ==
  ASSUME NEW S, NEW s \in Seq(S), Distinct(s), NEW n, NEW i \in Nat \ {0}
  PROVE  /\ MoveNoteToIndex(s, n, i) \in Seq(S) /\ ToSet(MoveNoteToIndex(s, n, i)) = ToSet(s)
         /\ Distinct(MoveNoteToIndex(s, n, i))
<1>1. CASE n \notin ToSet(s)
  BY <1>1 DEF MoveNoteToIndex
<1>2. CASE n \in ToSet(s)
  <2>1. PICK p \in DOMAIN s : s[p] = n
    BY <1>2 DEF ToSet
  <2> DEFINE c == Cut(s, p)
             k == IF i <= Len(c) THEN i ELSE Len(c) + 1
  <2>2. MoveNoteToIndex(s, n, i) = InsertAt(c, k, n)
    BY <1>2, <2>1, RemoveFirstCuts DEF MoveNoteToIndex
  <2>3. c \in Seq(S) /\ Len(c) \in Nat /\ ToSet(c) = ToSet(s) \ {n} /\ Distinct(c)
    BY <2>1, CutType
  <2>4. n \in S \ ToSet(c)
    BY <2>1, <2>3
  <2> HIDE DEF c
  <2>5. k \in 1 .. Len(c) + 1
    BY <2>3
  <2> HIDE DEF k
  <2>6. InsertAt(c, k, n) = Paste(c, k, n)
    BY <2>3, <2>4, <2>5, InsertAtPastes
  <2>7. /\ Paste(c, k, n) \in Seq(S) /\ ToSet(Paste(c, k, n)) = ToSet(c) \cup {n}
        /\ Distinct(Paste(c, k, n))
    BY <2>3, <2>4, <2>5, PasteType
  <2>8. ToSet(c) \cup {n} = ToSet(s)
    BY <1>2, <2>3
  <2> QED
    BY <2>2, <2>6, <2>7, <2>8
<1> QED
  BY <1>1, <1>2

-----------------------------------------------------------------------------
(***************************************************************************)
(* The store is well formed.                                               *)
(***************************************************************************)

\* What a request holds has the type its kind calls for: a rollback has a row
\* to put back, and only deleting leaves no row.
HoldsInv(r) ==
  Waiting(r) =>
    /\ req[r].kind = "update" => req[r].prev # None
    /\ req[r].kind # "delete" => req[r].patch \in Patch
    /\ req[r].pc = "applied" /\ req[r].kind # "delete" => req[r].answer # None

\* The answer to the list has each of its notes once, all of them in the scope.
PageInv ==
  list.pc = "read" =>
    /\ Distinct(list.items)
    /\ \A n \in Notes : n \in ToSet(list.items) <=> list.rows[n] # None
    /\ \A n \in ToSet(list.items) : Matches(list.rows[n], scope)

TimesInv == \A n \in Notes : server[n] # None => server[n].at <= clock

StoreInv == WellFormed /\ TimesInv /\ PageInv /\ \A r \in Slots : HoldsInv(r)

(***************************************************************************)
(* The list agrees with the API.                                           *)
(***************************************************************************)
Excused == Disturbed \cup past.misjudged

\* A listed note out of the scope waits for the answer that takes it out.
ListedInv(n) ==
  list.pc = "done" /\ n \in ToSet(ids) =>
    n \in Excused \/ Matches(server[n], scope) \/ \E r \in Slots : Latest(r, n)

MatchingInv(n) ==
  n \in past.matching =>
    /\ list.pc = "read" => list.rows[n] # None
    /\ list.pc = "done" => n \in ToSet(ids) \/ n \in Excused

\* An answer that would take out a note that has matched since the list was read
\* is older than the list, and comes too late to be right.
OldAnswerInv(r) ==
  req[r].pc = "applied" /\ req[r].note \in past.matching /\ ~Matches(req[r].answer, scope) =>
    /\ list.pc = "read" => req[r].time < list.time
    /\ list.pc = "done" => req[r].time < past.heard[req[r].note]

ListInv ==
  /\ \A n \in Notes : ListedInv(n) /\ MatchingInv(n)
  /\ \A r \in Slots : OldAnswerInv(r)

(***************************************************************************)
(* The order of the list.                                                  *)
(***************************************************************************)
InOrder(m, n) == server[m].at > server[n].at
Sorted(s) == \A i, j \in DOMAIN s : i < j => InOrder(s[i], s[j])
SortedBut(s, n) == \A i, j \in DOMAIN s : i < j /\ s[i] # n /\ s[j] # n => InOrder(s[i], s[j])

\* The list as a rollback would leave it.
Back(r) == IF req[r].index = 0 THEN ids ELSE MoveNoteToIndex(ids, req[r].note, req[r].index)

OrderInv(r) ==
  LET n == req[r].note
  IN /\ req[r].pc \in {"sent", "refused"} /\ req[r].kind = "update" =>
          (n \in ToSet(ids) => ids[1] = n) /\ SortedBut(ids, n) /\ Sorted(Back(r))
     /\ req[r].pc \in {"sent", "refused"} /\ req[r].kind # "update" => Sorted(ids)
     /\ req[r].pc = "late" => Sorted(ids)
     /\ req[r].pc = "applied" => IF req[r].kind = "update" THEN Sorted(ids) ELSE SortedBut(ids, n)

\* One request at a time, and nothing lost.
Tidy ==
  /\ \A q, r \in Slots : Waiting(q) /\ Waiting(r) => q = r
  /\ list.pc \in {"sent", "read"} => \A r \in Slots : ~Waiting(r)
  /\ list.pc = "read" => Sorted(list.items) /\ \A n \in Notes : list.rows[n] \in {None, server[n]}
  /\ list.pc = "done" =>
       /\ \A n \in ToSet(ids) :
            server[n] # None \/ \E r \in Slots : req[r].pc = "applied" /\ req[r].note = n /\ req[r].kind = "delete"
       /\ (\A r \in Slots : ~Waiting(r)) => Sorted(ids)
       /\ \A r \in Slots : OrderInv(r)

TidyInv == ~past.crossed /\ past.missed = {} => Tidy

-----------------------------------------------------------------------------
(* Types *)

LEMMA PatchedType ==
  ASSUME NEW row \in Row, NEW p \in Patch
  PROVE  Patched(row, p) \in Row /\ Patched(row, p).at = row.at
<1>1. CASE p.field = "title" /\ p.value \in Titles
  BY <1>1 DEF Patched, Row
<1>2. CASE p.field = "starred" /\ p.value \in BOOLEAN
  BY <1>2 DEF Patched, Row
<1>3. CASE p.field = "trashed" /\ p.value = FALSE
  BY <1>3 DEF Patched, Row
<1>4. \/ p.field = "title" /\ p.value \in Titles
      \/ p.field = "starred" /\ p.value \in BOOLEAN
      \/ p.field = "trashed" /\ p.value = FALSE
  BY DEF Patch
<1> QED
  BY <1>1, <1>2, <1>3, <1>4

\* IsPast and IsRequest leave out the types that the cache does not need.
LEMMA PastType ==
  \A h : h \in Past <=> /\ IsPast(h) /\ h.overtaken \subseteq Notes /\ h.undone \subseteq Notes
                        /\ h.missed \subseteq Notes /\ h.misjudged \subseteq Notes
                        /\ h.matching \subseteq Notes /\ h.crossed \in BOOLEAN
  BY DEF Past, IsPast

LEMMA RequestType ==
  \A q : q \in Request <=> /\ IsRequest(q) /\ q.patch \in Patch \cup {None} /\ q.prev \in Row \cup {None}
                           /\ q.index \in Nat /\ q.scope \in Scopes /\ q.answer \in Row \cup {None}
                           /\ q.alone \in BOOLEAN
  BY DEF Request, IsRequest

LEMMA BlankType ==
  /\ Blank("done") \in Request /\ Blank("unused") \in Request
  /\ Blank("done").pc = "done" /\ Blank("unused").pc = "unused"
  BY DEF Blank, Request, Kinds, Scopes

LEMMA ListTypes ==
  ASSUME NEW pc \in {"sent", "done", "failed"}
  PROVE  ListIs(pc) \in List /\ ListIs(pc).pc = pc
<1>1. <<>> \in Seq(Notes) /\ NoRows \in [Notes -> Row \cup {None}]
  BY DEF NoRows
<1> QED
  BY <1>1 DEF ListIs, List

\* All that StoreInv says of the variables that a step may read.
LEMMA StoreTypes ==
  ASSUME StoreInv
  PROVE  /\ TypeOK /\ past \in Past /\ IsPast(past)
         /\ server \in [Notes -> Row \cup {None}] /\ byId \in [Notes -> Row \cup {None}]
         /\ ids \in Seq(Notes) /\ Distinct(ids) /\ \A n \in ToSet(ids) : byId[n] # None
         /\ \A r \in Slots : req[r] \in Request
         /\ ToSet(ids) \subseteq Notes
<1>1. TypeOK /\ ListIsCached
  BY DEF StoreInv, WellFormed
<1>2. ids \in Seq(Notes) /\ ToSet(ids) \subseteq Notes
  BY <1>1 DEF TypeOK, ToSet
<1> QED
  BY <1>1, <1>2, PastType DEF TypeOK, ListIsCached, Distinct

\* A step that leaves the API and the requests alone.
LEMMA StoreStep ==
  ASSUME StoreInv, UNCHANGED <<server, clock, req>>,
         byId' \in [Notes -> Row \cup {None}], ids' \in Seq(Notes), Distinct(ids'),
         \A n \in ToSet(ids') : byId'[n] # None,
         scope' \in Scopes, scopes' \in 0 .. MaxScopes, open' \in Notes \cup {None},
         list' \in List, past' \in Past, PageInv'
  PROVE  StoreInv'
<1>1. TypeOK'
  BY DEF StoreInv, WellFormed, TypeOK
<1>2. ListIsCached'
  BY DEF ListIsCached, Distinct
<1>3. TimesInv' /\ \A r \in Slots : HoldsInv(r)'
  BY DEF StoreInv, TimesInv, HoldsInv, Waiting
<1> QED
  BY <1>1, <1>2, <1>3 DEF StoreInv, WellFormed

\* What the API answers to the list request.
LEMMA PageRead ==
  ASSUME StoreInv, CacheInv, ListRead
  PROVE  /\ list' \in List /\ list'.pc = "read" /\ list'.time = clock
         /\ \A n \in Notes : list'.rows[n] = IF Matches(server[n], scope) THEN server[n] ELSE None
         /\ ToSet(list'.items) = {n \in Notes : Matches(server[n], scope)}
         /\ Distinct(list'.items) /\ Sorted(list'.items)
         /\ past' \in Past /\ past'.matching = {n \in Notes : Matches(server[n], scope)}
         /\ past'.heard = past.heard /\ past'.overtaken = past.overtaken /\ past'.undone = past.undone
         /\ past'.missed = past.missed /\ past'.misjudged = past.misjudged /\ past'.crossed = past.crossed
         /\ past'.changed = past.changed
<1> DEFINE found == {n \in Notes : Matches(server[n], scope)}
           size == Cardinality(found)
<1>1. PICK items \in [1 .. size -> found] :
        /\ \A i, j \in DOMAIN items : i < j => server[items[i]].at > server[items[j]].at
        /\ list' = [pc |-> "read", time |-> clock, items |-> items,
                    rows |-> [n \in Notes |-> IF n \in found THEN server[n] ELSE None]]
        /\ past' = [past EXCEPT !.matching = found]
  BY DEF ListRead
<1>2. /\ past \in Past /\ clock \in Nat /\ server \in [Notes -> Row \cup {None}]
      /\ UNCHANGED <<server, clock, scope>>
  BY StoreTypes DEF TypeOK, ListRead, url
<1>3. \A n \in found : n \in Notes /\ server[n] \in Row /\ server[n].at \in Nat
  BY <1>2 DEF Matches, Row
<1>4. IsFiniteSet(found) /\ size \in Nat
  BY NotesAssumption, FS_Subset, FS_CardinalityType
<1> HIDE DEF found, size
<1>5. DOMAIN items = 1 .. size /\ \A i \in 1 .. size : items[i] \in found
  BY <1>1
<1>6. Distinct(items)
  <2> SUFFICES ASSUME NEW i \in 1 .. size, NEW j \in 1 .. size, items[i] = items[j], i # j
               PROVE  FALSE
    BY <1>5 DEF Distinct
  <2>1. i < j \/ j < i
    BY <1>4
  <2>2. server[items[i]].at > server[items[j]].at \/ server[items[j]].at > server[items[i]].at
    BY <1>1, <1>5, <2>1
  <2>3. server[items[i]].at \in Nat
    BY <1>3, <1>5
  <2> QED
    BY <2>2, <2>3
<1>7. ToSet(items) = found
  <2>1. items \in Injection(1 .. size, found)
    BY <1>1, <1>5, <1>6 DEF Distinct, Injection, IsInjective
  <2>2. Cardinality(1 .. size) = Cardinality(found)
    BY <1>4, FS_Interval DEF size
  <2>3. items \in Surjection(1 .. size, found)
    BY <1>4, <2>1, <2>2, FS_Injection
  <2> QED
    BY <1>5, <2>3 DEF Surjection, ToSet
<1>8. items \in Seq(Notes)
  BY <1>3, <1>4, <1>5, <1>1
<1>9. [n \in Notes |-> IF n \in found THEN server[n] ELSE None] \in [Notes -> Row \cup {None}]
  BY <1>2
<1>10. list' \in List /\ list'.pc = "read" /\ list'.time = clock /\ list'.items = items
       /\ \A n \in Notes : list'.rows[n] = IF n \in found THEN server[n] ELSE None
  BY <1>1, <1>2, <1>8, <1>9 DEF List
<1>11. Sorted(list'.items)
  BY <1>1, <1>10 DEF Sorted, InOrder
<1>12. /\ past'.matching = found
       /\ past'.heard = past.heard /\ past'.overtaken = past.overtaken /\ past'.undone = past.undone
       /\ past'.missed = past.missed /\ past'.misjudged = past.misjudged /\ past'.crossed = past.crossed
       /\ past'.changed = past.changed /\ past' \in Past
  BY <1>1, <1>2, <1>3 DEF Past
<1> QED
  BY <1>6, <1>7, <1>10, <1>11, <1>12 DEF found

LEMMA StoreListStep ==
  ASSUME StoreInv, CacheInv,
         (\E n \in Notes : Open(n)) \/ (\E s \in Scopes : ChangeScope(s)) \/ ListRead \/ ListDone \/ ListFailed
  PROVE  StoreInv'
<1>1. ASSUME NEW n \in Notes, Open(n)
      PROVE  StoreInv'
  <2>1. /\ open' = n /\ UNCHANGED <<server, clock, byId, ids, scope, scopes, list, req, past>>
    BY <1>1 DEF Open, store
  <2>2. PageInv'
    BY <2>1 DEF StoreInv, PageInv
  <2> QED
    BY <2>1, <2>2, StoreTypes, StoreStep DEF TypeOK
<1>2. ASSUME NEW s \in Scopes, ChangeScope(s)
      PROVE  StoreInv'
  <2>1. /\ scopes < MaxScopes /\ scope' = s /\ scopes' = scopes + 1 /\ open' = None /\ ids' = <<>>
        /\ list' = ListIs("sent") /\ UNCHANGED <<server, clock, byId, req>>
    BY <1>2 DEF ChangeScope
  <2>2. past' \in Past
    <3>1. past \in Past
      BY StoreTypes
    <3>2. past' = [past EXCEPT !.matching = {}, !.crossed = past.crossed \/ \E r \in Slots : Waiting(r)]
      BY <1>2 DEF ChangeScope
    <3> QED
      BY <3>1, <3>2 DEF Past
  <2>3. ids' \in Seq(Notes) /\ Distinct(ids') /\ ToSet(ids') = {}
    BY <2>1 DEF Distinct, ToSet
  <2>4. list' \in List /\ list'.pc = "sent"
    BY <2>1, ListTypes
  <2>5. scopes' \in 0 .. MaxScopes
    BY <2>1, StoreTypes, BoundsAssumption DEF TypeOK
  <2> QED
    BY <2>1, <2>2, <2>3, <2>4, <2>5, StoreTypes, StoreStep DEF TypeOK, PageInv
<1>3. CASE ListRead
  <2>1. UNCHANGED <<server, clock, byId, ids, scope, scopes, open, req>>
    BY <1>3 DEF ListRead, store, url
  <2>2. PageInv'
    BY <1>3, <2>1, PageRead DEF PageInv, Matches
  <2> QED
    BY <1>3, <2>1, <2>2, PageRead, StoreTypes, StoreStep DEF TypeOK
<1>4. CASE ListDone
  <2>1. /\ list.pc = "read" /\ list' = ListIs("done") /\ ids' = list.items
        /\ byId' = [n \in Notes |-> IF list.rows[n] # None THEN list.rows[n] ELSE byId[n]]
        /\ past' = Heard({n \in Notes : list.rows[n] # None}, list.time)
        /\ UNCHANGED <<server, clock, scope, scopes, open, req>>
    BY <1>4 DEF ListDone, SetNotes, url
  <2>2. list \in List /\ PageInv
    BY DEF StoreInv, WellFormed, TypeOK
  <2>3. byId' \in [Notes -> Row \cup {None}] /\ ids' \in Seq(Notes)
    BY <2>1, <2>2, StoreTypes DEF List
  <2>4. Distinct(ids') /\ \A n \in ToSet(ids') : byId'[n] # None
    <3>1. ToSet(ids') \subseteq Notes
      BY <2>3 DEF ToSet
    <3> QED
      BY <2>1, <2>2, <3>1 DEF PageInv
  <2>5. past' \in Past
    <3>1. Shape /\ list.time \in Nat
      BY <2>1 DEF CacheInv, Shape
    <3> QED
      BY <2>1, <3>1, HeardShape, StoreTypes, PastType
  <2>6. list' \in List /\ list'.pc = "done"
    BY <2>1, ListTypes
  <2> QED
    BY <2>1, <2>3, <2>4, <2>5, <2>6, StoreTypes, StoreStep DEF TypeOK, PageInv
<1>5. CASE ListFailed
  <2>1. list' = ListIs("failed") /\ UNCHANGED <<server, clock, byId, ids, scope, scopes, open, req, past>>
    BY <1>5 DEF ListFailed, store, url
  <2>2. list' \in List /\ list'.pc = "failed"
    BY <2>1, ListTypes
  <2> QED
    BY <2>1, <2>2, StoreTypes, StoreStep DEF TypeOK, PageInv
<1> QED
  BY <1>1, <1>2, <1>3, <1>4, <1>5

\* The new request, and the others as they were, if no longer alone.
LEMMA Sends ==
  ASSUME StoreInv, CacheInv, NEW r \in Slots, NEW n \in Notes, NEW kind \in Kinds,
         NEW p \in Patch \cup {None}, Send(r, n, kind, p)
  PROVE  /\ req[r].pc = "unused" /\ DOMAIN req' = Slots /\ \A q \in Slots : req'[q] \in Request
         /\ req'[r].pc = "sent" /\ req'[r].kind = kind /\ req'[r].note = n /\ req'[r].patch = p
         /\ req'[r].prev = byId[n] /\ req'[r].index = IndexOf(ids, n)
         /\ \A q \in Slots : q # r =>
              /\ req'[q].pc = req[q].pc /\ req'[q].kind = req[q].kind /\ req'[q].note = req[q].note
              /\ req'[q].patch = req[q].patch /\ req'[q].prev = req[q].prev
              /\ req'[q].index = req[q].index /\ req'[q].scope = req[q].scope
              /\ req'[q].answer = req[q].answer /\ req'[q].time = req[q].time
         /\ past' \in Past /\ past'.heard = past.heard /\ past'.overtaken = past.overtaken
         /\ past'.undone = past.undone /\ past'.missed = past.missed
         /\ past'.misjudged = past.misjudged /\ past'.matching = past.matching
         /\ past'.changed = past.changed
         /\ ~past'.crossed => /\ ~past.crossed /\ list.pc \notin {"sent", "read"}
                              /\ \A q \in Slots : ~Waiting(q)
         /\ UNCHANGED <<server, clock, scope, scopes, open, list>>
<1> DEFINE others == {q \in Slots : Waiting(q) /\ req[q].note = n}
           new == [pc |-> "sent", kind |-> kind, note |-> n, patch |-> p, prev |-> byId[n],
                   index |-> IndexOf(ids, n), scope |-> scope, answer |-> None, time |-> 0,
                   alone |-> others = {}]
           apart(q) == [req[q] EXCEPT !.alone = FALSE]
<1>1. /\ req' = [q \in Slots |-> IF q = r THEN new ELSE IF q \in others THEN apart(q) ELSE req[q]]
      /\ past' = [past EXCEPT !.crossed =
                    past.crossed \/ list.pc \in {"sent", "read"} \/ \E q \in Slots : Waiting(q)]
      /\ req[r].pc = "unused" /\ UNCHANGED <<server, clock, scope, scopes, open, list>>
  BY DEF Send, url
<1>2. /\ past \in Past /\ byId \in [Notes -> Row \cup {None}] /\ scope \in Scopes
      /\ ids \in Seq(Notes) /\ Distinct(ids) /\ \A q \in Slots : req[q] \in Request
  BY StoreTypes DEF TypeOK
<1>3. IndexOf(ids, n) \in Nat
  BY <1>2, BumpFacts
<1>4. new \in Request
  BY <1>2, <1>3 DEF Request
<1>5. /\ new.pc = "sent" /\ new.kind = kind /\ new.note = n /\ new.patch = p
      /\ new.prev = byId[n] /\ new.index = IndexOf(ids, n)
  OBVIOUS
<1>6. ASSUME NEW q \in Slots
      PROVE  /\ apart(q) \in Request
             /\ apart(q).pc = req[q].pc /\ apart(q).kind = req[q].kind /\ apart(q).note = req[q].note
             /\ apart(q).patch = req[q].patch /\ apart(q).prev = req[q].prev
             /\ apart(q).index = req[q].index /\ apart(q).scope = req[q].scope
             /\ apart(q).answer = req[q].answer /\ apart(q).time = req[q].time
  BY <1>2 DEF Request
<1> HIDE DEF new, apart
<1>7. req'[r] = new /\ DOMAIN req' = Slots
      /\ \A q \in Slots : q # r => req'[q] \in {apart(q), req[q]}
  BY <1>1
<1>8. /\ \A q \in Slots : req'[q] \in Request
      /\ \A q \in Slots : q # r =>
           /\ req'[q].pc = req[q].pc /\ req'[q].kind = req[q].kind /\ req'[q].note = req[q].note
           /\ req'[q].patch = req[q].patch /\ req'[q].prev = req[q].prev
           /\ req'[q].index = req[q].index /\ req'[q].scope = req[q].scope
           /\ req'[q].answer = req[q].answer /\ req'[q].time = req[q].time
  BY <1>2, <1>4, <1>6, <1>7
<1>9. /\ past' \in Past /\ past'.heard = past.heard /\ past'.overtaken = past.overtaken
      /\ past'.undone = past.undone /\ past'.missed = past.missed
      /\ past'.misjudged = past.misjudged /\ past'.matching = past.matching
      /\ past'.changed = past.changed
      /\ past'.crossed = (past.crossed \/ list.pc \in {"sent", "read"} \/ \E q \in Slots : Waiting(q))
  BY <1>1, <1>2 DEF Past
<1> QED
  BY <1>1, <1>5, <1>7, <1>8, <1>9

LEMMA StoreSendStep ==
  ASSUME StoreInv, CacheInv, NEW r \in Slots, NEW n \in Notes, NEW kind \in Kinds,
         NEW p \in Patch \cup {None}, Send(r, n, kind, p), kind # "delete" => p \in Patch,
         byId[n] # None,
         \/ UNCHANGED store
         \/ byId' = [byId EXCEPT ![n] = Patched(@, p)] /\ ids' = BumpNoteToTop(ids, n) /\ p \in Patch
  PROVE  StoreInv'
<1>1. /\ byId \in [Notes -> Row \cup {None}] /\ ids \in Seq(Notes) /\ Distinct(ids)
      /\ \A m \in ToSet(ids) : byId[m] # None
  BY StoreTypes
<1>2. /\ byId' \in [Notes -> Row \cup {None}] /\ ids' \in Seq(Notes) /\ Distinct(ids')
      /\ \A m \in ToSet(ids') : byId'[m] # None
  <2>1. CASE UNCHANGED store
    BY <1>1, <2>1 DEF store
  <2>2. CASE byId' = [byId EXCEPT ![n] = Patched(@, p)] /\ ids' = BumpNoteToTop(ids, n) /\ p \in Patch
    <3>1. Patched(byId[n], p) \in Row /\ Patched(byId[n], p) # None
      BY <1>1, <2>2, PatchedType, NoneAssumption
    <3>2. byId' \in [Notes -> Row \cup {None}] /\ \A m \in Notes : byId[m] # None => byId'[m] # None
      BY <1>1, <2>2, <3>1
    <3>3. ids' \in Seq(Notes) /\ ToSet(ids') = ToSet(ids) /\ Distinct(ids')
      BY <1>1, <2>2, BumpFacts
    <3> QED
      BY <1>1, <3>2, <3>3, StoreTypes
  <2> QED
    BY <2>1, <2>2
<1>3. req' \in [Slots -> Request]
  <2>1. req' = [q \in Slots |-> req'[q]]
    BY DEF Send
  <2> QED
    BY <2>1, Sends
<1>4. past' \in Past /\ UNCHANGED <<server, clock, scope, scopes, open, list>>
  BY Sends
<1>5. WellFormed'
  <2>1. TypeOK'
    BY <1>2, <1>3, <1>4, StoreTypes DEF TypeOK
  <2> QED
    BY <1>2, <2>1 DEF WellFormed, ListIsCached, Distinct
<1>6. TimesInv' /\ PageInv'
  BY <1>4 DEF StoreInv, TimesInv, PageInv
<1>7. ASSUME NEW q \in Slots
      PROVE  HoldsInv(q)'
  <2>1. CASE q = r
    BY <2>1, Sends DEF HoldsInv, Kinds
  <2>2. CASE q # r
    BY <2>2, Sends DEF StoreInv, HoldsInv, Waiting
  <2> QED
    BY <2>1, <2>2
<1> QED
  BY <1>5, <1>6, <1>7 DEF StoreInv

\* What a click sends, and what it does to the store.
Clicked(r, n, kind, p) ==
  /\ Send(r, n, kind, p) /\ byId[n] # None /\ (kind # "delete" => p \in Patch)
  /\ IF kind = "update" THEN byId' = [byId EXCEPT ![n] = Patched(@, p)] /\ ids' = BumpNoteToTop(ids, n)
                        ELSE UNCHANGED <<byId, ids>>

LEMMA Clicks ==
  ASSUME StoreInv, NEW r \in Slots, ToggleStar(r) \/ EditTitle(r) \/ RestoreNote(r) \/ DeleteNote(r)
  PROVE  \E n \in Notes, kind \in Kinds, p \in Patch \cup {None} : Clicked(r, n, kind, p)
<1>1. ASSUME NEW n \in Notes, NEW p \in Patch, UpdateNote(r, n, p)
      PROVE  Clicked(r, n, "update", p)
  BY <1>1 DEF UpdateNote, Clicked
<1>2. CASE ToggleStar(r)
  <2>1. PICK n \in Notes : /\ byId[n] # None
                           /\ UpdateNote(r, n, [field |-> "starred", value |-> ~byId[n].starred])
    BY <1>2 DEF ToggleStar
  <2>2. byId[n].starred \in BOOLEAN
    BY <2>1, StoreTypes DEF Row
  <2>3. [field |-> "starred", value |-> ~byId[n].starred] \in Patch
    BY <2>2 DEF Patch
  <2> QED
    BY <1>1, <2>1, <2>3 DEF Kinds
<1>3. CASE EditTitle(r)
  <2>1. PICK n \in Notes, t \in Titles : UpdateNote(r, n, [field |-> "title", value |-> t])
    BY <1>3 DEF EditTitle
  <2>2. [field |-> "title", value |-> t] \in Patch
    BY DEF Patch
  <2> QED
    BY <1>1, <2>1, <2>2 DEF Kinds
<1>4. CASE RestoreNote(r)
  <2>1. PICK n \in Notes : /\ byId[n] # None /\ UNCHANGED store
                           /\ Send(r, n, "restore", [field |-> "trashed", value |-> FALSE])
    BY <1>4 DEF RestoreNote
  <2>2. [field |-> "trashed", value |-> FALSE] \in Patch
    BY DEF Patch
  <2> QED
    BY <2>1, <2>2 DEF Kinds, store, Clicked
<1>5. CASE DeleteNote(r)
  <2>1. PICK n \in Notes : byId[n] # None /\ UNCHANGED store /\ Send(r, n, "delete", None)
    BY <1>5 DEF DeleteNote
  <2> QED
    BY <2>1 DEF Kinds, store, Clicked
<1> QED
  BY <1>2, <1>3, <1>4, <1>5

LEMMA StoreClickStep ==
  ASSUME StoreInv, CacheInv, NEW r \in Slots, ToggleStar(r) \/ EditTitle(r) \/ RestoreNote(r) \/ DeleteNote(r)
  PROVE  StoreInv'
<1>1. PICK n \in Notes, kind \in Kinds, p \in Patch \cup {None} : Clicked(r, n, kind, p)
  BY Clicks
<1>2. CASE kind = "update"
  BY <1>1, <1>2, StoreSendStep DEF Clicked
<1>3. CASE kind # "update"
  BY <1>1, <1>3, StoreSendStep DEF Clicked, store
<1> QED
  BY <1>2, <1>3

\* The API carried request r out, on a row that is there.
Applied(r, n, row) ==
  /\ n = req[r].note /\ req[r].pc \in {"sent", "late"} /\ clock' = clock + 1
  /\ row # None => row.at = clock + 1
  /\ req[r].kind # "delete" => row # None
  /\ server' = [server EXCEPT ![n] = row]
  /\ req[r].pc = "late" => req'[r] = Blank("done")
  /\ req[r].pc = "sent" => req'[r] = [req[r] EXCEPT !.pc = "applied", !.answer = row, !.time = clock + 1]
  /\ DOMAIN req' = Slots /\ \A q \in Slots : q # r => req'[q] = req[q]
  /\ past' \in Past /\ past'.heard = past.heard
  /\ past'.overtaken = past.overtaken /\ past'.undone = past.undone
  /\ past'.missed = (IF req[r].pc = "late" THEN past.missed \cup {n} ELSE past.missed)
  /\ past'.misjudged = past.misjudged /\ past'.crossed = past.crossed
  /\ past'.matching = IF Matches(row, scope) THEN past.matching ELSE past.matching \ {n}
  /\ past'.changed = [past.changed EXCEPT ![n] = clock + 1]
  /\ UNCHANGED <<byId, ids, scope, scopes, open, list>>

LEMMA Applies ==
  ASSUME StoreInv, CacheInv, NEW r \in Slots, Apply(r), server[req[r].note] # None
  PROVE  \E n \in Notes, row \in Row \cup {None} : Applied(r, n, row)
<1>1. req[r].pc \in {"sent", "late"} /\ UNCHANGED <<byId, ids, scope, scopes, open, list>> /\ clock' = clock + 1
  BY DEF Apply, store, url
<1>2. PICK n \in Notes : n = req[r].note
  BY <1>1 DEF CacheInv, Shape, Waiting
<1>3. PICK row : row = RowAfter(server[req[r].note], req[r].kind, req[r].patch)
  OBVIOUS
<1>4. /\ server[n] \in Row /\ clock \in Nat /\ req[r].kind \in Kinds /\ past \in Past /\ DOMAIN req = Slots
      /\ req[r].kind # "delete" => req[r].patch \in Patch
  BY <1>1, <1>2, StoreTypes DEF StoreInv, HoldsInv, Waiting, CacheInv, Shape, IsRequest
<1>5. /\ row \in Row \cup {None} /\ (row # None => row.at = clock + 1)
      /\ (req[r].kind # "delete" => row # None)
  <2>1. CASE req[r].kind # "delete"
    <3>1. row = [Patched(server[n], req[r].patch) EXCEPT !.at = clock + 1]
      BY <1>2, <1>3, <2>1 DEF RowAfter
    <3>2. Patched(server[n], req[r].patch) \in Row
      BY <1>4, <2>1, PatchedType
    <3>3. row \in Row /\ row.at = clock + 1
      BY <1>4, <3>1, <3>2 DEF Row
    <3> QED
      BY <2>1, <3>3, NoneAssumption
  <2>2. CASE req[r].kind = "delete"
    <3>1. server[n].trashed \in BOOLEAN
      BY <1>4 DEF Row
    <3>2. row = IF server[n].trashed THEN None ELSE [server[n] EXCEPT !.trashed = TRUE, !.at = clock + 1]
      BY <1>2, <1>3, <2>2, <3>1 DEF RowAfter
    <3>3. CASE server[n].trashed
      BY <2>2, <3>2, <3>3
    <3>4. CASE ~server[n].trashed
      <4>0. PICK half : half = [server[n] EXCEPT !.trashed = TRUE]
        OBVIOUS
      <4>1. half \in Row /\ row = [half EXCEPT !.at = clock + 1]
        BY <1>4, <3>2, <3>4, <4>0 DEF Row
      <4>2. row \in Row /\ row.at = clock + 1
        BY <1>4, <4>1 DEF Row
      <4> QED
        BY <2>2, <4>2
    <3> QED
      BY <3>1, <3>3, <3>4
  <2> QED
    BY <2>1, <2>2
<1>6. server' = [server EXCEPT ![n] = row]
  BY <1>2, <1>3 DEF Apply
<1>7. /\ req[r].pc = "late" => req'[r] = Blank("done")
      /\ req[r].pc = "sent" => req'[r] = [req[r] EXCEPT !.pc = "applied", !.answer = row, !.time = clock + 1]
      /\ DOMAIN req' = Slots /\ \A q \in Slots : q # r => req'[q] = req[q]
  <2>1. CASE req[r].pc = "late"
    <3>1. req' = [req EXCEPT ![r] = Blank("done")]
      BY <2>1 DEF Apply
    <3> QED
      BY <1>4, <2>1, <3>1
  <2>2. CASE req[r].pc = "sent"
    <3>1. req' = [req EXCEPT ![r] = [@ EXCEPT !.pc = "applied", !.answer = row, !.time = clock + 1]]
      BY <1>3, <2>2 DEF Apply
    <3> QED
      BY <1>4, <2>2, <3>1
  <2> QED
    BY <1>1, <2>1, <2>2
<1>8. /\ past' \in Past /\ past'.heard = past.heard
      /\ past'.overtaken = past.overtaken /\ past'.undone = past.undone
      /\ past'.missed = (IF req[r].pc = "late" THEN past.missed \cup {n} ELSE past.missed)
      /\ past'.misjudged = past.misjudged /\ past'.crossed = past.crossed
      /\ past'.matching = (IF Matches(row, scope) THEN past.matching ELSE past.matching \ {n})
      /\ past'.changed = [past.changed EXCEPT ![n] = clock + 1]
  <2> DEFINE M == IF req[r].pc = "late" THEN past.missed \cup {n} ELSE past.missed
             W == IF Matches(row, scope) THEN past.matching ELSE past.matching \ {n}
  <2>1. past' = [past EXCEPT !.changed[n] = clock + 1, !.missed = M, !.matching = W]
    BY <1>2, <1>3 DEF Apply
  <2>2. M \subseteq Notes /\ W \subseteq Notes /\ clock + 1 \in Nat
    BY <1>4 DEF Past
  <2> HIDE DEF M, W
  <2>3. past'.changed = [past.changed EXCEPT ![n] = clock + 1] /\ past'.changed \in [Notes -> Nat]
    BY <1>4, <2>1, <2>2 DEF Past
  <2>4. past' = [changed |-> past'.changed, heard |-> past.heard, overtaken |-> past.overtaken,
                undone |-> past.undone, missed |-> M, misjudged |-> past.misjudged,
                matching |-> W, crossed |-> past.crossed]
    BY <1>4, <2>1 DEF Past
  <2>5. past' \in Past
    BY <1>4, <2>2, <2>3, <2>4 DEF Past
  <2>6. past'.missed = M /\ past'.matching = W /\ past'.heard = past.heard
        /\ past'.overtaken = past.overtaken /\ past'.undone = past.undone
        /\ past'.misjudged = past.misjudged /\ past'.crossed = past.crossed
    BY <2>4
  <2> QED
    BY <2>3, <2>5, <2>6 DEF M, W
<1> QED
  BY <1>1, <1>2, <1>5, <1>6, <1>7, <1>8 DEF Applied

\* A step that changes request r.
LEMMA StoreSlotStep ==
  ASSUME StoreInv, NEW r \in Slots, NEW new \in Request, req' = [req EXCEPT ![r] = new],
         UNCHANGED <<scope, scopes, list>>, open' \in Notes \cup {None},
         server' \in [Notes -> Row \cup {None}], clock' \in Nat, TimesInv',
         byId' \in [Notes -> Row \cup {None}], ids' \in Seq(Notes), Distinct(ids'),
         \A n \in ToSet(ids') : byId'[n] # None,
         past' \in Past, HoldsInv(r)'
  PROVE  StoreInv'
<1>1. TypeOK /\ PageInv /\ \A q \in Slots : HoldsInv(q)
  BY DEF StoreInv, WellFormed
<1>2. req' \in [Slots -> Request] /\ \A q \in Slots : q # r => req'[q] = req[q]
  BY <1>1 DEF TypeOK
<1>3. TypeOK'
  BY <1>1, <1>2 DEF TypeOK
<1>4. ListIsCached' /\ PageInv'
  BY <1>1 DEF ListIsCached, Distinct, PageInv
<1>5. \A q \in Slots : HoldsInv(q)'
  BY <1>1, <1>2 DEF HoldsInv, Waiting
<1> QED
  BY <1>3, <1>4, <1>5 DEF StoreInv, WellFormed

LEMMA StoreApplyStep ==
  ASSUME StoreInv, CacheInv, NEW r \in Slots, Apply(r)
  PROVE  StoreInv'
<1>1. /\ clock \in Nat /\ server \in [Notes -> Row \cup {None}] /\ req \in [Slots -> Request] /\ past \in Past
      /\ open \in Notes \cup {None} /\ byId \in [Notes -> Row \cup {None}] /\ ids \in Seq(Notes) /\ Distinct(ids)
      /\ \A n \in ToSet(ids) : byId[n] # None
  BY StoreTypes DEF TypeOK
<1>2. CASE server[req[r].note] = None
  <2>1. /\ req[r].pc \in {"sent", "late"} /\ UNCHANGED <<server, clock, past, byId, ids, scope, scopes, open, list>>
        /\ req' = [req EXCEPT ![r] = IF @.pc = "late" THEN Blank("done") ELSE [@ EXCEPT !.pc = "refused"]]
    BY <1>2 DEF Apply, store, url
  <2>2. PICK new : new = IF req[r].pc = "late" THEN Blank("done") ELSE [req[r] EXCEPT !.pc = "refused"]
    OBVIOUS
  <2>3. req[r] \in Request /\ HoldsInv(r)
    BY <1>1 DEF StoreInv
  <2>4. new \in Request
    BY <2>2, <2>3, BlankType DEF Request
  <2>5. \/ new.pc = "done"
        \/ /\ new.pc = "refused" /\ new.kind = req[r].kind /\ new.prev = req[r].prev
           /\ new.patch = req[r].patch
    BY <2>2, <2>3, BlankType DEF Request
  <2>6. req' = [req EXCEPT ![r] = new] /\ req'[r] = new
    BY <1>1, <2>1, <2>2
  <2>7. HoldsInv(r)' /\ TimesInv'
    BY <2>1, <2>3, <2>5, <2>6 DEF StoreInv, HoldsInv, TimesInv, Waiting
  <2> QED
    BY <1>1, <2>1, <2>4, <2>6, <2>7, StoreSlotStep
<1>3. CASE server[req[r].note] # None
  <2>1. PICK n \in Notes, row \in Row \cup {None} : Applied(r, n, row)
    BY <1>3, Applies
  <2>2. req[r] \in Request /\ HoldsInv(r) /\ clock + 1 \in Nat
    BY <1>1 DEF StoreInv
  <2>3. \/ req'[r] = Blank("done")
        \/ /\ req'[r].pc = "applied" /\ req'[r].kind = req[r].kind /\ req'[r].prev = req[r].prev
           /\ req'[r].patch = req[r].patch /\ req'[r].answer = row /\ req'[r] \in Request
           /\ req[r].pc = "sent"
    <3>1. CASE req[r].pc = "late"
      BY <2>1, <3>1 DEF Applied
    <3>2. CASE req[r].pc = "sent"
      <4>1. req'[r] = [req[r] EXCEPT !.pc = "applied", !.answer = row, !.time = clock + 1]
        BY <2>1, <3>2 DEF Applied
      <4> QED
        BY <2>2, <3>2, <4>1 DEF Request
    <3> QED
      BY <2>1, <3>1, <3>2 DEF Applied
  <2>4. req'[r] \in Request /\ HoldsInv(r)'
    BY <2>1, <2>2, <2>3, BlankType DEF Applied, HoldsInv, Waiting
  <2>5. req' = [req EXCEPT ![r] = req'[r]]
    BY <1>1 DEF Apply
  <2>6. server' \in [Notes -> Row \cup {None}] /\ clock' \in Nat /\ TimesInv'
    <3>1. \A m \in Notes : server[m] # None => server[m].at \in Nat /\ server[m].at <= clock
      BY <1>1 DEF StoreInv, TimesInv, Row
    <3> QED
      BY <1>1, <2>1, <2>2, <3>1 DEF TimesInv, Applied
  <2> QED
    BY <1>1, <2>1, <2>4, <2>5, <2>6, StoreSlotStep DEF Applied
<1> QED
  BY <1>2, <1>3

\* Request r is answered: the note is cached as the answer says, or leaves the
\* store, and the list keeps its order.
Answered(r, n, gone) ==
  /\ n = req[r].note /\ req[r].pc = "applied"
  /\ req[r].kind = "update" => (gone <=> ~Matches(req[r].answer, req[r].scope))
  /\ req[r].kind # "update" => gone
  /\ gone => n \notin ToSet(ids') /\ (byId[n] # None => byId'[n] = None)
  /\ ~gone => ids' = ids /\ byId'[n] = req[r].answer /\ byId'[n] # None
  /\ byId' \in [Notes -> Row \cup {None}] /\ \A m \in Notes : m # n => byId'[m] = byId[m]
  /\ ids' \in Seq(Notes) /\ ToSet(ids') = (IF gone THEN ToSet(ids) \ {n} ELSE ToSet(ids))
  /\ Distinct(ids') /\ Follows(ids', ids, n)
  /\ req' = [req EXCEPT ![r] = Blank("done")]
  /\ past' \in Past /\ past' = Judged(r, Heard({n}, req[r].time), gone)
  /\ open' \in Notes \cup {None} /\ UNCHANGED <<server, clock, scope, scopes, list>>

LEMMA Answers ==
  ASSUME StoreInv, CacheInv, NEW r \in Slots, UpdateDone(r) \/ Removed(r)
  PROVE  \E n \in Notes, gone \in BOOLEAN : Answered(r, n, gone)
<1>1. /\ byId \in [Notes -> Row \cup {None}] /\ ids \in Seq(Notes) /\ Distinct(ids) /\ req[r] \in Request
      /\ \A m \in ToSet(ids) : byId[m] # None
  BY StoreTypes
<1>2. PICK n \in Notes : n = req[r].note
  BY DEF UpdateDone, Removed, CacheInv, Shape, Waiting
<1>3. /\ req[r].pc = "applied" /\ req' = [req EXCEPT ![r] = Blank("done")]
      /\ UNCHANGED <<server, clock, scope, scopes, list>> /\ open' \in Notes \cup {None}
  BY StoreTypes DEF UpdateDone, Removed, url, TypeOK
<1>4. PICK gone \in BOOLEAN :
        /\ req[r].kind = "update" => (gone <=> ~Matches(req[r].answer, req[r].scope))
        /\ req[r].kind # "update" => gone
        /\ past' = Judged(r, Heard({n}, req[r].time), gone)
  <2>1. CASE UpdateDone(r)
    <3>1. Leaves(req[r].answer, req[r].scope) \in BOOLEAN
      BY DEF Leaves
    <3> QED
      BY <1>2, <2>1, <3>1 DEF UpdateDone, Leaves
  <2>2. CASE Removed(r)
    BY <1>2, <2>2 DEF Removed
  <2> QED
    BY <2>1, <2>2
<1>5. past' \in Past
  <2>1. Shape /\ req[r].time \in Nat /\ past \in Past
    BY <1>1, StoreTypes DEF CacheInv, Request
  <2>2. Heard({n}, req[r].time) \in Past /\ IsPast(Heard({n}, req[r].time))
    BY <2>1, HeardShape, PastType
  <2>3. Judged(r, Heard({n}, req[r].time), gone) \in Past
    BY <1>2, <2>2 DEF Judged, Past
  <2> QED
    BY <1>4, <2>3
<1>6. Follows(ids, ids, n) /\ ToSet(ids) \subseteq Notes
  BY <1>1 DEF Follows, ToSet
<1>7. /\ Without(ids, n) \in Seq(Notes) /\ ToSet(Without(ids, n)) = ToSet(ids) \ {n}
      /\ Distinct(Without(ids, n)) /\ Follows(Without(ids, n), ids, n)
  BY <1>1, WithoutFacts
<1> DEFINE set == [byId EXCEPT ![n] = req[r].answer]
           cut == [byId EXCEPT ![n] = None]
<1>8. /\ cut \in [Notes -> Row \cup {None}] /\ cut[n] = None /\ \A m \in Notes : m # n => cut[m] = byId[m]
      /\ set \in [Notes -> Row \cup {None}] /\ set[n] = req[r].answer /\ \A m \in Notes : m # n => set[m] = byId[m]
      /\ [set EXCEPT ![n] = None] = cut
  BY <1>1 DEF Request
<1> HIDE DEF set, cut
<1>9. /\ gone => n \notin ToSet(ids') /\ (byId[n] # None => byId'[n] = None)
      /\ ~gone => ids' = ids /\ byId'[n] = req[r].answer /\ byId'[n] # None
      /\ byId' \in [Notes -> Row \cup {None}] /\ \A m \in Notes : m # n => byId'[m] = byId[m]
      /\ ids' \in Seq(Notes) /\ ToSet(ids') = (IF gone THEN ToSet(ids) \ {n} ELSE ToSet(ids))
      /\ Distinct(ids') /\ Follows(ids', ids, n)
  <2>1. CASE Removed(r)
    <3>1. gone /\ req[r].kind # "update"
      BY <1>4, <2>1 DEF Removed
    <3>2. CASE byId[n] = None
      <4>1. byId' = byId /\ ids' = ids /\ n \notin ToSet(ids)
        BY <1>1, <1>2, <2>1, <3>2 DEF Removed, RemoveNote
      <4> QED
        BY <1>1, <1>6, <3>1, <3>2, <4>1
    <3>3. CASE byId[n] # None
      <4>1. byId' = cut /\ ids' = Without(ids, n)
        BY <1>2, <2>1, <3>3 DEF Removed, RemoveNote, cut
      <4> QED
        BY <1>7, <1>8, <3>1, <4>1
    <3> QED
      BY <3>2, <3>3
  <2>2. CASE UpdateDone(r)
    <3>1. req[r].kind = "update" /\ req[r].answer # None
      BY <1>3, <2>2 DEF UpdateDone, StoreInv, HoldsInv, Waiting
    <3>2. CASE gone
      <4>1. byId' = cut /\ ids' = Without(ids, n)
        <5>1. <<byId', ids'>> = <<RemoveNote(set, ids, n)[1], RemoveNote(set, ids, n)[2]>>
          BY <1>2, <1>4, <2>2, <3>1, <3>2 DEF UpdateDone, Leaves, set
        <5>2. RemoveNote(set, ids, n) = <<cut, Without(ids, n)>>
          BY <1>8, <3>1 DEF RemoveNote
        <5> QED
          BY <5>1, <5>2
      <4> QED
        BY <1>7, <1>8, <3>2, <4>1
    <3>3. CASE ~gone
      <4>1. byId' = set /\ ids' = ids
        BY <1>2, <1>4, <2>2, <3>1, <3>3 DEF UpdateDone, Leaves, set
      <4> QED
        BY <1>1, <1>6, <1>8, <3>1, <3>3, <4>1
    <3> QED
      BY <3>2, <3>3
  <2> QED
    BY <2>1, <2>2
<1> QED
  BY <1>2, <1>3, <1>4, <1>5, <1>9 DEF Answered

LEMMA StoreAnswerStep ==
  ASSUME StoreInv, CacheInv, NEW r \in Slots, UpdateDone(r) \/ Removed(r)
  PROVE  StoreInv'
<1>1. PICK n \in Notes, gone \in BOOLEAN : Answered(r, n, gone)
  BY Answers
<1>2. req' = [req EXCEPT ![r] = Blank("done")] /\ req'[r] = Blank("done")
  BY <1>1, StoreTypes DEF Answered, TypeOK
<1>3. HoldsInv(r)' /\ TimesInv'
  BY <1>1, <1>2, BlankType DEF Answered, StoreInv, HoldsInv, TimesInv, Waiting
<1>4. \A m \in ToSet(ids') : byId'[m] # None
  BY <1>1, StoreTypes DEF Answered
<1> QED
  BY <1>1, <1>2, <1>3, <1>4, BlankType, StoreTypes, StoreSlotStep DEF Answered, TypeOK

\* Request r has failed, or is taken to have failed. If the API refused it or has
\* not seen it yet, it never will, or the client has given it up.
Gave(r, n) ==
  /\ n = req[r].note /\ req[r].pc \in {"sent", "applied", "refused"}
  /\ req[r].kind = "update" => byId' = [byId EXCEPT ![n] = req[r].prev] /\ ids' = Back(r)
  /\ req[r].kind # "update" => byId' = byId /\ ids' = ids
  /\ byId' \in [Notes -> Row \cup {None}] /\ \A m \in Notes : byId[m] # None => byId'[m] # None
  /\ ids' \in Seq(Notes) /\ ToSet(ids') = ToSet(ids) /\ Distinct(ids')
  /\ req'[r].pc = "done" \/ (req'[r].pc = "late" /\ req'[r].note = n /\ req[r].pc = "sent")
  /\ req' = [req EXCEPT ![r] = req'[r]] /\ req'[r] \in Request
  /\ \A q \in Slots : q # r => req'[q] = req[q]
  /\ past' \in Past /\ past'.changed = past.changed /\ past'.heard = past.heard
  /\ past'.overtaken = past.overtaken /\ past.undone \subseteq past'.undone
  /\ past'.missed = (IF req[r].pc = "applied" THEN past.missed \cup {n} ELSE past.missed)
  /\ past'.misjudged = past.misjudged /\ past'.matching = past.matching
  /\ past'.crossed = past.crossed
  /\ UNCHANGED <<server, clock, scope, scopes, open, list>>

LEMMA Gives ==
  ASSUME StoreInv, CacheInv, NEW r \in Slots, Failed(r)
  PROVE  \E n \in Notes : Gave(r, n) /\ HoldsInv(r)'
<1>1. /\ byId \in [Notes -> Row \cup {None}] /\ ids \in Seq(Notes) /\ Distinct(ids) /\ req[r] \in Request
      /\ req \in [Slots -> Request] /\ past \in Past /\ HoldsInv(r)
  BY StoreTypes DEF TypeOK, StoreInv
<1>2. req[r].pc \in {"sent", "applied", "refused"} /\ UNCHANGED <<server, clock, scope, scopes, open, list>>
  BY DEF Failed, url
<1>3. PICK n \in Notes : n = req[r].note
  BY <1>2 DEF CacheInv, Shape, Waiting
<1>4. /\ req[r].kind = "update" => byId' = [byId EXCEPT ![n] = req[r].prev] /\ ids' = Back(r)
      /\ req[r].kind # "update" => byId' = byId /\ ids' = ids
  BY <1>3 DEF Failed, Rollback, store, Back
<1>5. byId' \in [Notes -> Row \cup {None}] /\ \A m \in Notes : byId[m] # None => byId'[m] # None
  <2>1. req[r].kind = "update" => req[r].prev \in Row /\ req[r].prev # None
    BY <1>1, <1>2 DEF HoldsInv, Waiting, Request
  <2> QED
    BY <1>1, <1>4, <2>1
<1>6. ids' \in Seq(Notes) /\ ToSet(ids') = ToSet(ids) /\ Distinct(ids')
  <2>1. Back(r) \in Seq(Notes) /\ ToSet(Back(r)) = ToSet(ids) /\ Distinct(Back(r))
    <3>1. CASE req[r].index = 0
      BY <1>1, <3>1 DEF Back
    <3>2. CASE req[r].index # 0
      <4>1. req[r].index \in Nat \ {0}
        BY <1>1, <3>2 DEF Request
      <4> QED
        BY <1>1, <3>2, <4>1, MoveFacts DEF Back
    <3> QED
      BY <3>1, <3>2
  <2> QED
    BY <1>1, <1>4, <2>1
<1>7. /\ req'[r].pc = "done" \/ (req'[r].pc = "late" /\ req'[r].note = n /\ req[r].pc = "sent")
      /\ req' = [req EXCEPT ![r] = req'[r]] /\ req'[r] \in Request
      /\ \A q \in Slots : q # r => req'[q] = req[q]
      /\ HoldsInv(r)'
  <2>1. CASE req' = [req EXCEPT ![r] = Blank("done")]
    <3>1. req'[r] = Blank("done")
      BY <1>1, <2>1
    <3> QED
      BY <1>1, <2>1, <3>1, BlankType DEF HoldsInv, Waiting
  <2>2. CASE req[r].pc = "sent" /\ req' = [req EXCEPT ![r].pc = "late"]
    <3>1. req'[r] = [req[r] EXCEPT !.pc = "late"]
      BY <1>1, <2>2
    <3>2. /\ req'[r] \in Request /\ req'[r].pc = "late" /\ req'[r].note = req[r].note
          /\ req'[r].kind = req[r].kind /\ req'[r].prev = req[r].prev /\ req'[r].patch = req[r].patch
      BY <1>1, <3>1 DEF Request
    <3>3. req' = [req EXCEPT ![r] = req'[r]] /\ \A q \in Slots : q # r => req'[q] = req[q]
      BY <1>1, <2>2
    <3> QED
      BY <1>1, <1>2, <1>3, <2>2, <3>2, <3>3 DEF HoldsInv, Waiting
  <2>3. \/ req' = [req EXCEPT ![r] = Blank("done")]
        \/ req[r].pc = "sent" /\ req' = [req EXCEPT ![r].pc = "late"]
    BY DEF Failed
  <2> QED
    BY <2>1, <2>2, <2>3
<1>8. /\ past' \in Past /\ past'.changed = past.changed /\ past'.heard = past.heard
      /\ past'.overtaken = past.overtaken /\ past.undone \subseteq past'.undone
      /\ past'.missed = (IF req[r].pc = "applied" THEN past.missed \cup {n} ELSE past.missed)
      /\ past'.misjudged = past.misjudged /\ past'.matching = past.matching
      /\ past'.crossed = past.crossed
  <2> DEFINE U == IF req[r].kind = "update" /\ ~req[r].alone THEN past.undone \cup {n} ELSE past.undone
             M == IF req[r].pc = "applied" THEN past.missed \cup {n} ELSE past.missed
  <2>1. past' = [past EXCEPT !.undone = U, !.missed = M]
    BY <1>3 DEF Failed
  <2>2. U \subseteq Notes /\ M \subseteq Notes /\ past.undone \subseteq U
    BY <1>1 DEF Past
  <2> HIDE DEF U, M
  <2>3. past' = [changed |-> past.changed, heard |-> past.heard, overtaken |-> past.overtaken,
                undone |-> U, missed |-> M, misjudged |-> past.misjudged,
                matching |-> past.matching, crossed |-> past.crossed]
    BY <1>1, <2>1 DEF Past
  <2>4. past' \in Past
    BY <1>1, <2>2, <2>3 DEF Past
  <2>5. /\ past'.changed = past.changed /\ past'.heard = past.heard /\ past'.overtaken = past.overtaken
        /\ past'.undone = U /\ past'.missed = M /\ past'.misjudged = past.misjudged
        /\ past'.matching = past.matching /\ past'.crossed = past.crossed
    BY <2>3
  <2> QED
    BY <2>2, <2>4, <2>5 DEF M
<1>9. Gave(r, n)
  BY <1>2, <1>3, <1>4, <1>5, <1>6, <1>7, <1>8 DEF Gave
<1> QED
  BY <1>7, <1>9

LEMMA StoreFailStep ==
  ASSUME StoreInv, CacheInv, NEW r \in Slots, Failed(r)
  PROVE  StoreInv'
<1>1. PICK n \in Notes : Gave(r, n) /\ HoldsInv(r)'
  BY Gives
<1>2. TimesInv' /\ \A m \in ToSet(ids') : byId'[m] # None
  BY <1>1, StoreTypes DEF Gave, StoreInv, TimesInv
<1> QED
  BY <1>1, <1>2, StoreTypes, StoreSlotStep DEF Gave, TypeOK

LEMMA InitStore == Init => StoreInv
<1> SUFFICES ASSUME Init PROVE StoreInv
  OBVIOUS
<1>1. /\ Cardinality(Notes) \in Nat /\ clock = Cardinality(Notes) /\ server = Seed
      /\ byId = NoRows /\ ids = <<>> /\ scope \in Scopes /\ scopes = 0 /\ open = None
      /\ list = ListIs("sent") /\ req = [r \in Slots |-> Blank("unused")]
  BY NotesAssumption, FS_CardinalityType DEF Init
<1>2. past \in Past
  <2>1. /\ [n \in Notes |-> Seed[n].at] \in [Notes -> Nat] /\ [n \in Notes |-> 0] \in [Notes -> Nat]
    BY <1>1, SeedAssumption
  <2> QED
    BY <2>1 DEF Init, Past
<1>3. ids \in Seq(Notes) /\ ToSet(ids) = {} /\ byId \in [Notes -> Row \cup {None}]
  BY <1>1 DEF ToSet, NoRows
<1>4. scopes \in 0 .. MaxScopes
  BY <1>1, BoundsAssumption
<1>5. list \in List /\ list.pc = "sent"
  BY <1>1, ListTypes
<1>6. TypeOK
  BY <1>1, <1>2, <1>3, <1>4, <1>5, BlankType, SeedAssumption DEF TypeOK
<1>7. ListIsCached
  BY <1>1, <1>3 DEF ListIsCached
<1>8. TimesInv /\ PageInv
  BY <1>1, <1>5, SeedAssumption DEF TimesInv, PageInv
<1>9. \A r \in Slots : HoldsInv(r)
  BY <1>1, BlankType DEF HoldsInv, Waiting
<1> QED
  BY <1>6, <1>7, <1>8, <1>9 DEF StoreInv, WellFormed

LEMMA NextStore ==
  ASSUME StoreInv, CacheInv, [Next]_vars
  PROVE  StoreInv'
<1>1. CASE (\E n \in Notes : Open(n)) \/ (\E s \in Scopes : ChangeScope(s)) \/ ListRead \/ ListDone \/ ListFailed
  BY <1>1, StoreListStep
<1>2. ASSUME NEW r \in Slots, ToggleStar(r) \/ EditTitle(r) \/ RestoreNote(r) \/ DeleteNote(r)
      PROVE  StoreInv'
  BY <1>2, StoreClickStep
<1>3. ASSUME NEW r \in Slots, Apply(r)
      PROVE  StoreInv'
  BY <1>3, StoreApplyStep
<1>4. ASSUME NEW r \in Slots, UpdateDone(r) \/ Removed(r)
      PROVE  StoreInv'
  BY <1>4, StoreAnswerStep
<1>5. ASSUME NEW r \in Slots, Failed(r)
      PROVE  StoreInv'
  BY <1>5, StoreFailStep
<1>6. CASE UNCHANGED vars
  <2>1. UNCHANGED <<server, clock, byId, ids, scope, scopes, open, list, req, past>>
    BY <1>6 DEF vars, store, url
  <2>2. PageInv'
    BY <2>1 DEF StoreInv, PageInv
  <2> QED
    BY <2>1, <2>2, StoreTypes, StoreStep DEF TypeOK
<1> QED
  BY <1>1, <1>2, <1>3, <1>4, <1>5, <1>6 DEF Next

\* The store's types, the requests' and the answers', at every moment.
THEOREM StoreHolds == Spec => []StoreInv
  BY InitStore, NextStore, CacheExplained, PTL DEF Spec

\* useNotes.ts never meets an id of the list that is not cached, nor one twice,
\* however the answers, the rollbacks and the lists overtake one another.
THEOREM StoreWellFormed == Spec => []WellFormed
<1>1. StoreInv => WellFormed
  BY DEF StoreInv
<1> QED
  BY <1>1, StoreHolds, PTL

-----------------------------------------------------------------------------
(* What the steps do to the list and to what is known about its notes *)

\* The numbers that are compared, and what was carried out.
LEMMA Times ==
  ASSUME StoreInv, CacheInv
  PROVE  /\ clock \in Nat
         /\ \A n \in Notes : /\ past.changed[n] \in Nat /\ past.heard[n] \in Nat
                             /\ past.changed[n] <= clock
         /\ \A r \in Slots : req[r].time \in Nat
         /\ \A r \in Slots : req[r].pc = "applied" =>
              /\ req[r].note \in Notes /\ req[r].time <= past.changed[req[r].note]
              /\ req[r].time = past.changed[req[r].note] => req[r].answer = server[req[r].note]
         /\ list.pc = "read" => list.time \in Nat
<1>1. Shape /\ \A n \in Notes : past.changed[n] <= clock
  BY DEF CacheInv, NoteInv
<1>2. \A n \in Notes : past.changed[n] \in Nat /\ past.heard[n] \in Nat
  BY <1>1 DEF Shape, IsPast
<1>3. \A r \in Slots : req[r].time \in Nat
  BY <1>1 DEF Shape, IsRequest
<1>4. \A r \in Slots : req[r].pc = "applied" =>
        /\ req[r].note \in Notes /\ req[r].time <= past.changed[req[r].note]
        /\ req[r].time = past.changed[req[r].note] => req[r].answer = server[req[r].note]
  BY <1>1 DEF CacheInv, AnswerInv, Shape, Waiting
<1> QED
  BY <1>1, <1>2, <1>3, <1>4 DEF Shape

\* A step that leaves the API, the list request, and what is listed alone.
LEMMA SameList ==
  ASSUME ListInv, UNCHANGED <<server, scope, list>>, ToSet(ids') = ToSet(ids),
         past'.matching = past.matching, past'.heard = past.heard, past'.changed = past.changed,
         Excused \subseteq Excused',
         \A q \in Slots : req'[q].pc = "applied" =>
           /\ req[q].pc = "applied" /\ req'[q].note = req[q].note
           /\ req'[q].time = req[q].time /\ req'[q].answer = req[q].answer,
         \A n \in Notes, q \in Slots : Latest(q, n) => Latest(q, n)' \/ n \in Excused'
  PROVE  ListInv'
<1>1. ASSUME NEW n \in Notes
      PROVE  ListedInv(n)' /\ MatchingInv(n)'
  <2>1. ListedInv(n) /\ MatchingInv(n)
    BY DEF ListInv
  <2> QED
    BY <2>1 DEF ListedInv, MatchingInv
<1>2. ASSUME NEW r \in Slots
      PROVE  OldAnswerInv(r)'
  <2>1. OldAnswerInv(r)
    BY DEF ListInv
  <2> QED
    BY <2>1 DEF OldAnswerInv
<1> QED
  BY <1>1, <1>2 DEF ListInv

LEMMA ListReadMatches ==
  ASSUME StoreInv, CacheInv, ListRead
  PROVE  ListInv'
<1>1. /\ list'.pc = "read" /\ list'.time = clock
      /\ \A n \in Notes : list'.rows[n] = IF Matches(server[n], scope) THEN server[n] ELSE None
      /\ past'.matching = {n \in Notes : Matches(server[n], scope)}
      /\ UNCHANGED <<server, clock, scope, req>>
  BY PageRead DEF ListRead, url
<1>2. ASSUME NEW n \in Notes
      PROVE  ListedInv(n)' /\ MatchingInv(n)'
  BY <1>1 DEF ListedInv, MatchingInv, Matches
<1>3. ASSUME NEW r \in Slots, req[r].pc = "applied", req[r].note \in past'.matching,
             ~Matches(req[r].answer, scope)
      PROVE  req[r].time < clock
  <2>1. PICK n \in Notes : n = req[r].note /\ Matches(server[n], scope)
    BY <1>1, <1>3
  <2>2. req[r].time # past.changed[n]
    BY <1>3, <2>1, Times
  <2> QED
    BY <1>3, <2>1, <2>2, Times
<1>4. ASSUME NEW r \in Slots
      PROVE  OldAnswerInv(r)'
  BY <1>1, <1>3 DEF OldAnswerInv
<1> QED
  BY <1>2, <1>4 DEF ListInv

LEMMA ListDoneMatches ==
  ASSUME StoreInv, CacheInv, ListInv, ListDone
  PROVE  ListInv'
<1> DEFINE S == {n \in Notes : list.rows[n] # None}
<1>1. /\ list.pc = "read" /\ list'.pc = "done" /\ ids' = list.items
      /\ past' = Heard(S, list.time) /\ UNCHANGED <<server, clock, scope, req>>
  BY ListTypes DEF ListDone, SetNotes, url
<1>2. /\ list.time \in Nat /\ Cardinality(Notes) <= list.time /\ Cardinality(Notes) \in Nat
  BY <1>1, NotesAssumption, FS_CardinalityType DEF CacheInv, Shape
<1>3. /\ past'.changed = past.changed /\ past'.missed = past.missed /\ past'.undone = past.undone
      /\ past'.overtaken = past.overtaken \cup {n \in S : past.heard[n] > list.time}
      /\ \A n \in Notes : past'.heard[n] = IF n \in S /\ list.time > past.heard[n]
                                            THEN list.time ELSE past.heard[n]
      /\ past'.misjudged = past.misjudged /\ past'.matching = past.matching
  BY <1>1, <1>2, HeardShape DEF CacheInv
<1>4. /\ \A n \in Notes : n \in ToSet(ids') <=> n \in S
      /\ \A n \in ToSet(ids') : Matches(list.rows[n], scope)
  BY <1>1 DEF StoreInv, PageInv
<1>5. Excused \subseteq Excused'
  BY <1>3 DEF Excused, Disturbed
<1>6. ASSUME NEW n \in Notes, n \in ToSet(ids')
      PROVE  n \in Excused' \/ Matches(server[n], scope) \/ \E r \in Slots : Latest(r, n)
  <2>1. n \in S /\ Matches(list.rows[n], scope)
    BY <1>4, <1>6
  <2>2. CASE list.rows[n] = server[n]
    BY <2>1, <2>2
  <2>3. CASE past.changed[n] > list.time
    <3>1. past.changed[n] # Seed[n].at
      <4>1. Seed[n].at \in Nat /\ Seed[n].at <= Cardinality(Notes) /\ past.changed[n] \in Nat
        BY <1>2, SeedAssumption, Times
      <4> QED
        BY <1>2, <2>3, <4>1
    <3>2. CASE n \in past.missed
      BY <1>5, <3>2 DEF Excused, Disturbed
    <3>3. CASE past.heard[n] >= past.changed[n]
      <4>1. past.heard[n] > list.time
        BY <1>2, <2>3, <3>3, Times
      <4> QED
        BY <1>3, <2>1, <4>1 DEF Excused, Disturbed
    <3> QED
      BY <3>1, <3>2, <3>3 DEF CacheInv, NoteInv, LatestIsKnown
  <2> QED
    BY <1>1, <2>1, <2>2, <2>3 DEF CacheInv, NoteInv, ListIsOf
<1>7. ASSUME NEW n \in Notes
      PROVE  ListedInv(n)'
  <2>1. \A r \in Slots : Latest(r, n) => Latest(r, n)'
    BY <1>1, <1>3 DEF Latest
  <2> QED
    BY <1>1, <1>6, <2>1 DEF ListedInv
<1>8. ASSUME NEW n \in Notes
      PROVE  MatchingInv(n)'
  BY <1>1, <1>3, <1>4 DEF ListInv, MatchingInv
<1>9. ASSUME NEW r \in Slots
      PROVE  OldAnswerInv(r)'
  <2> SUFFICES ASSUME req[r].pc = "applied", req[r].note \in past.matching,
                      ~Matches(req[r].answer, scope)
               PROVE  req[r].time < past'.heard[req[r].note]
    BY <1>1, <1>3 DEF OldAnswerInv
  <2>1. PICK n \in Notes : n = req[r].note
    BY Times
  <2>2. req[r].time < list.time /\ n \in S
    BY <1>1, <2>1 DEF ListInv, OldAnswerInv, MatchingInv
  <2>3. past'.heard[n] >= list.time /\ past'.heard[n] \in Nat
    BY <1>2, <1>3, <2>2, Times
  <2> QED
    BY <1>2, <2>1, <2>2, <2>3, Times
<1> QED
  BY <1>7, <1>8, <1>9 DEF ListInv

LEMMA ListApplyMatches ==
  ASSUME StoreInv, CacheInv, ListInv, NEW r \in Slots, Apply(r)
  PROVE  ListInv'
<1>1. CASE server[req[r].note] = None
  <2>1. /\ req[r].pc \in {"sent", "late"} /\ UNCHANGED <<server, clock, past, byId, ids, scope, list>>
        /\ req' = [req EXCEPT ![r] = IF @.pc = "late" THEN Blank("done") ELSE [@ EXCEPT !.pc = "refused"]]
    BY <1>1 DEF Apply, store, url
  <2>2. req \in [Slots -> Request]
    BY StoreTypes DEF TypeOK
  <2>3. req'[r].pc \in {"done", "refused"} /\ \A q \in Slots : q # r => req'[q] = req[q]
    <3>1. CASE req[r].pc = "late"
      BY <2>1, <2>2, <3>1, BlankType
    <3>2. CASE req[r].pc = "sent"
      <4>1. req'[r] = [req[r] EXCEPT !.pc = "refused"] /\ req[r] \in Request
        BY <2>1, <2>2, <3>2
      <4> QED
        BY <2>1, <2>2, <3>2, <4>1 DEF Request
    <3> QED
      BY <2>1, <3>1, <3>2
  <2>4. Excused \subseteq Excused'
    BY <2>1 DEF Excused, Disturbed
  <2>5. \A n \in Notes, q \in Slots : Latest(q, n) => Latest(q, n)'
    BY <2>1, <2>3 DEF Latest
  <2>6. \A q \in Slots : req'[q].pc = "applied" => req'[q] = req[q]
    BY <2>3
  <2> QED
    BY <2>1, <2>4, <2>5, <2>6, SameList
<1>2. CASE server[req[r].note] # None
  <2>1. PICK n \in Notes, row \in Row \cup {None} : Applied(r, n, row)
    BY <1>2, Applies
  <2>2. /\ UNCHANGED <<ids, scope, list>> /\ \A q \in Slots : q # r => req'[q] = req[q]
        /\ past'.heard = past.heard /\ past'.matching \subseteq past.matching
        /\ n = req[r].note /\ clock \in Nat
    BY <2>1, Times DEF Applied
  <2>3. Excused \subseteq Excused'
    BY <2>1 DEF Applied, Excused, Disturbed
  <2>4. /\ past'.changed[n] = clock + 1 /\ \A m \in Notes : m # n => past'.changed[m] = past.changed[m]
        /\ \A m \in Notes : m # n => server'[m] = server[m]
    <3>1. past.changed \in [Notes -> Nat] /\ server \in [Notes -> Row \cup {None}]
      BY StoreTypes DEF Past
    <3> QED
      BY <2>1, <3>1 DEF Applied
  <2>5. \/ req'[r].pc = "done" /\ n \in past'.missed
        \/ /\ req'[r].pc = "applied" /\ req'[r].note = n
           /\ req'[r].answer = row /\ req'[r].time = clock + 1
    <3>1. CASE req[r].pc = "late"
      BY <2>1, <3>1, BlankType DEF Applied
    <3>2. CASE req[r].pc = "sent"
      <4>1. req'[r] = [req[r] EXCEPT !.pc = "applied", !.answer = row, !.time = clock + 1]
            /\ req[r] \in Request
        BY <2>1, <3>2, StoreTypes DEF Applied
      <4> QED
        BY <2>2, <4>1 DEF Request
    <3> QED
      BY <2>1, <3>1, <3>2 DEF Applied
  <2>6. ASSUME NEW m \in Notes
        PROVE  ListedInv(m)'
    <3>1. CASE m = n
      <4>1. n \in Excused' \/ Latest(r, n)'
        BY <2>4, <2>5 DEF Excused, Disturbed, Latest
      <4> QED
        BY <3>1, <4>1 DEF ListedInv
    <3>2. CASE m # n
      <4>1. \A q \in Slots : Latest(q, m) => Latest(q, m)'
        BY <2>2, <2>4, <3>2 DEF Latest
      <4> QED
        BY <2>2, <2>3, <2>4, <3>2, <4>1 DEF ListInv, ListedInv
    <3> QED
      BY <3>1, <3>2
  <2>7. ASSUME NEW m \in Notes
        PROVE  MatchingInv(m)'
    BY <2>2, <2>3 DEF ListInv, MatchingInv
  <2>8. ASSUME NEW q \in Slots
        PROVE  OldAnswerInv(q)'
    <3>1. CASE q = r
      <4>1. ~Matches(row, scope) => n \notin past'.matching
        BY <2>1 DEF Applied
      <4> QED
        BY <2>2, <2>5, <3>1, <4>1 DEF OldAnswerInv
    <3>2. CASE q # r
      BY <2>2, <3>2 DEF ListInv, OldAnswerInv
    <3> QED
      BY <3>1, <3>2
  <2> QED
    BY <2>6, <2>7, <2>8 DEF ListInv
<1> QED
  BY <1>1, <1>2

\* What the history notes when request r is answered.
LEMMA AnswerNotes ==
  ASSUME StoreInv, CacheInv, NEW r \in Slots, NEW n \in Notes, NEW gone \in BOOLEAN, Answered(r, n, gone)
  PROVE  /\ past'.changed = past.changed /\ past'.missed = past.missed /\ past'.undone = past.undone
         /\ past'.matching = past.matching /\ past'.crossed = past.crossed
         /\ past'.overtaken = past.overtaken \cup {m \in {n} : past.heard[m] > req[r].time}
         /\ \A m \in Notes : past'.heard[m] \in Nat /\ past'.heard[m] >= past.heard[m]
         /\ past.misjudged \subseteq past'.misjudged
         /\ (req[r].kind = "update" => req[r].scope # scope) /\ n \in ToSet(ids)
            /\ (gone <=> Matches(req[r].answer, scope)) => n \in past'.misjudged
<1> DEFINE h == Heard({n}, req[r].time)
<1>1. req[r].time \in Nat /\ n = req[r].note /\ past' = Judged(r, h, gone)
  BY Times DEF Answered
<1>2. /\ IsPast(h) /\ h.changed = past.changed /\ h.missed = past.missed /\ h.undone = past.undone
      /\ h.overtaken = past.overtaken \cup {m \in {n} : past.heard[m] > req[r].time}
      /\ \A m \in Notes : h.heard[m] = IF m \in {n} /\ req[r].time > past.heard[m]
                                        THEN req[r].time ELSE past.heard[m]
      /\ h.misjudged = past.misjudged /\ h.matching = past.matching /\ h.crossed = past.crossed
  BY <1>1, HeardShape DEF CacheInv
<1> HIDE DEF h
<1>3. /\ past'.changed = h.changed /\ past'.heard = h.heard /\ past'.missed = h.missed
      /\ past'.undone = h.undone /\ past'.overtaken = h.overtaken /\ past'.matching = h.matching
      /\ past'.crossed = h.crossed
  BY <1>1, <1>2, JudgedShape
<1>4. \A m \in Notes : past'.heard[m] \in Nat /\ past'.heard[m] >= past.heard[m]
  BY <1>1, <1>2, <1>3, Times
<1>5. past'.misjudged = IF /\ req[r].kind = "update" => req[r].scope # scope
                           /\ n \in ToSet(ids)
                           /\ gone = Matches(req[r].answer, scope)
                        THEN past.misjudged \cup {n} ELSE past.misjudged
  BY <1>1, <1>2 DEF Judged, IsPast
<1>6. Matches(req[r].answer, scope) \in BOOLEAN
  BY DEF Matches
<1>7. (gone <=> Matches(req[r].answer, scope)) => gone = Matches(req[r].answer, scope)
  BY <1>6
<1> QED
  BY <1>2, <1>3, <1>4, <1>5, <1>7

LEMMA ListAnswerMatches ==
  ASSUME StoreInv, CacheInv, ListInv, NEW r \in Slots, UpdateDone(r) \/ Removed(r)
  PROVE  ListInv'
<1>1. PICK n \in Notes, gone \in BOOLEAN : Answered(r, n, gone)
  BY Answers
<1>2. /\ n = req[r].note /\ req[r].pc = "applied" /\ UNCHANGED <<server, scope, list>>
      /\ ToSet(ids') = IF gone THEN ToSet(ids) \ {n} ELSE ToSet(ids)
      /\ req[r].kind = "update" => (gone <=> ~Matches(req[r].answer, req[r].scope))
      /\ req[r].kind # "update" => gone
  BY <1>1 DEF Answered
<1>3. req'[r].pc = "done" /\ \A q \in Slots : q # r => req'[q] = req[q]
  BY <1>1, StoreTypes, BlankType DEF Answered, TypeOK
<1>4. /\ past'.changed = past.changed /\ past'.matching = past.matching
      /\ past'.overtaken = past.overtaken \cup {m \in {n} : past.heard[m] > req[r].time}
      /\ \A m \in Notes : past'.heard[m] \in Nat /\ past'.heard[m] >= past.heard[m]
      /\ Excused \subseteq Excused'
      /\ (req[r].kind = "update" => req[r].scope # scope) /\ n \in ToSet(ids)
         /\ (gone <=> Matches(req[r].answer, scope)) => n \in Excused'
  BY <1>1, AnswerNotes DEF Excused, Disturbed
<1>5. ASSUME NEW m \in Notes
      PROVE  ListedInv(m)'
  <2> SUFFICES ASSUME list.pc = "done", m \in ToSet(ids'), m \notin Excused', ~Matches(server[m], scope)
               PROVE  \E q \in Slots : Latest(q, m)'
    BY <1>2 DEF ListedInv
  <2>1. PICK q \in Slots : Latest(q, m)
    <3>1. m \in ToSet(ids)
      BY <1>2
    <3> QED
      BY <1>4, <3>1 DEF ListInv, ListedInv
  <2>2. q # r
    <3>1. ASSUME q = r
          PROVE  FALSE
      <4>1. m = n /\ req[r].answer = server[n] /\ ~gone /\ n \in ToSet(ids)
        BY <1>2, <2>1, <3>1, Times DEF Latest
      <4>2. req[r].kind = "update" /\ Matches(req[r].answer, req[r].scope)
        BY <1>2, <4>1
      <4> QED
        BY <1>4, <4>1, <4>2
    <3> QED
      BY <3>1
  <2> QED
    BY <1>3, <1>4, <2>1, <2>2 DEF Latest
<1>6. ASSUME NEW m \in Notes
      PROVE  MatchingInv(m)'
  <2> SUFFICES ASSUME list.pc = "done", m \in past.matching, m \in ToSet(ids), m \notin ToSet(ids')
               PROVE  m \in Excused'
    BY <1>2, <1>4 DEF ListInv, MatchingInv
  <2>1. m = n /\ gone
    BY <1>2
  <2>2. CASE Matches(req[r].answer, scope)
    BY <1>2, <1>4, <2>1, <2>2
  <2>3. CASE ~Matches(req[r].answer, scope)
    <3>1. past.heard[n] > req[r].time
      <4>1. req[r].time < past.heard[n]
        BY <1>2, <2>1, <2>3 DEF ListInv, OldAnswerInv
      <4> QED
        BY <4>1, Times
    <3> QED
      BY <1>4, <2>1, <3>1 DEF Excused, Disturbed
  <2> QED
    BY <2>2, <2>3
<1>7. ASSUME NEW q \in Slots
      PROVE  OldAnswerInv(q)'
  <2> SUFFICES ASSUME q # r, req[q].pc = "applied", req[q].note \in past.matching,
                      ~Matches(req[q].answer, scope)
               PROVE  /\ list.pc = "read" => req[q].time < list.time
                      /\ list.pc = "done" => req[q].time < past'.heard[req[q].note]
    BY <1>2, <1>3, <1>4 DEF OldAnswerInv
  <2>1. /\ list.pc = "read" => req[q].time < list.time
        /\ list.pc = "done" => req[q].time < past.heard[req[q].note]
    BY DEF ListInv, OldAnswerInv
  <2>2. PICK m \in Notes : m = req[q].note
    BY Times
  <2> QED
    BY <1>4, <2>1, <2>2, Times
<1> QED
  BY <1>5, <1>6, <1>7 DEF ListInv

LEMMA ListFailMatches ==
  ASSUME StoreInv, CacheInv, ListInv, NEW r \in Slots, Failed(r)
  PROVE  ListInv'
<1>1. PICK n \in Notes : Gave(r, n)
  BY Gives
<1>2. /\ n = req[r].note /\ UNCHANGED <<server, scope, list>> /\ ToSet(ids') = ToSet(ids)
      /\ past'.changed = past.changed /\ past'.heard = past.heard /\ past'.matching = past.matching
      /\ req'[r].pc \in {"done", "late"} /\ \A q \in Slots : q # r => req'[q] = req[q]
      /\ req[r].pc = "applied" => n \in past'.missed
      /\ Excused \subseteq Excused'
  BY <1>1 DEF Gave, Excused, Disturbed
<1>3. \A q \in Slots : req'[q].pc = "applied" => req'[q] = req[q]
  BY <1>2
<1>4. \A m \in Notes, q \in Slots : Latest(q, m) => Latest(q, m)' \/ m \in Excused'
  BY <1>2 DEF Latest, Excused, Disturbed
<1> QED
  BY <1>2, <1>3, <1>4, SameList

LEMMA ListSendMatches ==
  ASSUME StoreInv, CacheInv, ListInv, NEW r \in Slots, NEW n \in Notes, NEW kind \in Kinds,
         NEW p \in Patch \cup {None}, Send(r, n, kind, p), ToSet(ids') = ToSet(ids)
  PROVE  ListInv'
<1>1. /\ req[r].pc = "unused" /\ req'[r].pc = "sent"
      /\ \A q \in Slots : q # r => /\ req'[q].pc = req[q].pc /\ req'[q].note = req[q].note
                                   /\ req'[q].answer = req[q].answer /\ req'[q].time = req[q].time
      /\ past'.changed = past.changed /\ past'.heard = past.heard /\ past'.matching = past.matching
      /\ past'.overtaken = past.overtaken /\ past'.undone = past.undone /\ past'.missed = past.missed
      /\ past'.misjudged = past.misjudged /\ UNCHANGED <<server, scope, list>>
  BY Sends
<1>2. Excused \subseteq Excused'
  BY <1>1 DEF Excused, Disturbed
<1>3. \A m \in Notes, q \in Slots : Latest(q, m) => Latest(q, m)'
  BY <1>1 DEF Latest
<1> QED
  BY <1>1, <1>2, <1>3, SameList

LEMMA ListClickMatches ==
  ASSUME StoreInv, CacheInv, ListInv, NEW r \in Slots,
         ToggleStar(r) \/ EditTitle(r) \/ RestoreNote(r) \/ DeleteNote(r)
  PROVE  ListInv'
<1>1. PICK n \in Notes, kind \in Kinds, p \in Patch \cup {None} : Clicked(r, n, kind, p)
  BY Clicks
<1>2. ToSet(ids') = ToSet(ids)
  BY <1>1, StoreTypes, BumpFacts DEF Clicked
<1> QED
  BY <1>1, <1>2, ListSendMatches DEF Clicked

LEMMA InitList == Init => ListInv
  BY ListTypes, BlankType DEF Init, ListInv, ListedInv, MatchingInv, OldAnswerInv

LEMMA NextList ==
  ASSUME StoreInv, CacheInv, ListInv, [Next]_vars
  PROVE  ListInv'
<1>1. ASSUME NEW s \in Scopes, ChangeScope(s)
      PROVE  ListInv'
  <2>1. list'.pc = "sent"
    BY <1>1, ListTypes DEF ChangeScope
  <2> QED
    BY <2>1 DEF ListInv, ListedInv, MatchingInv, OldAnswerInv
<1>2. CASE ListFailed
  <2>1. list'.pc = "failed"
    BY <1>2, ListTypes DEF ListFailed
  <2> QED
    BY <2>1 DEF ListInv, ListedInv, MatchingInv, OldAnswerInv
<1>3. CASE ListRead
  BY <1>3, ListReadMatches
<1>4. CASE ListDone
  BY <1>4, ListDoneMatches
<1>5. ASSUME NEW r \in Slots, ToggleStar(r) \/ EditTitle(r) \/ RestoreNote(r) \/ DeleteNote(r)
      PROVE  ListInv'
  BY <1>5, ListClickMatches
<1>6. ASSUME NEW r \in Slots, Apply(r)
      PROVE  ListInv'
  BY <1>6, ListApplyMatches
<1>7. ASSUME NEW r \in Slots, UpdateDone(r) \/ Removed(r)
      PROVE  ListInv'
  BY <1>7, ListAnswerMatches
<1>8. ASSUME NEW r \in Slots, Failed(r)
      PROVE  ListInv'
  BY <1>8, ListFailMatches
<1>9. CASE (\E n \in Notes : Open(n)) \/ UNCHANGED vars
  <2>1. UNCHANGED <<server, ids, scope, list, req, past>>
    BY <1>9 DEF Open, vars, store, url
  <2> QED
    BY <2>1 DEF ListInv, ListedInv, MatchingInv, OldAnswerInv, Excused, Disturbed, Latest
<1> QED
  BY <1>1, <1>2, <1>3, <1>4, <1>5, <1>6, <1>7, <1>8, <1>9 DEF Next

\* The list is explained at every moment: a note of it that is out of the scope
\* has the answer to come that takes it out, and one that has been in the scope
\* since the list was read is in it.
THEOREM ListExplained == Spec => []ListInv
  BY InitList, NextList, StoreHolds, CacheExplained, PTL DEF Spec

\* Once everything is answered the list shows the notes of the scope.
THEOREM ListMatches == Spec => []ListMatchesApi
<1>1. ListInv => ListMatchesApi
  <2>1. ASSUME ListInv, Quiet, list.pc = "done", NEW n \in Notes \ Disturbed, n \notin past.misjudged
        PROVE  /\ n \in ToSet(ids) => Matches(server[n], scope)
               /\ n \in past.matching => n \in ToSet(ids)
    <3>1. \A r \in Slots : ~Latest(r, n)
      BY <2>1 DEF Quiet, Latest, Waiting
    <3>2. n \notin Excused
      BY <2>1 DEF Excused
    <3> QED
      BY <2>1, <3>1, <3>2 DEF ListInv, ListedInv, MatchingInv
  <2> QED
    BY <2>1 DEF ListMatchesApi
<1> QED
  BY <1>1, ListExplained, PTL

-----------------------------------------------------------------------------
(* The order of the list, when nothing overlaps *)

LEMMA SortedFacts ==
  ASSUME NEW s, NEW t, NEW n, SortedBut(s, n), Follows(t, s, n)
  PROVE  SortedBut(t, n) /\ (n \notin ToSet(t) => Sorted(t))
<1>1. ASSUME NEW i \in DOMAIN t, NEW j \in DOMAIN t, i < j, t[i] # n, t[j] # n
      PROVE  InOrder(t[i], t[j])
  <2>1. PICK k \in DOMAIN s, l \in DOMAIN s : k < l /\ t[i] = s[k] /\ t[j] = s[l]
    BY <1>1 DEF Follows
  <2> QED
    BY <1>1, <2>1 DEF SortedBut
<1>2. n \notin ToSet(t) => \A i \in DOMAIN t : t[i] # n
  BY DEF ToSet
<1> QED
  BY <1>1, <1>2 DEF SortedBut, Sorted

LEMMA SortedSortedBut ==
  ASSUME NEW s, NEW n, Sorted(s)
  PROVE  SortedBut(s, n)
  BY DEF Sorted, SortedBut

\* A step of request r, the only one under way.
LEMMA TidySlot ==
  ASSUME Tidy, NEW r \in Slots, list' = list,
         Waiting(r) \/ (list.pc \notin {"sent", "read"} /\ \A q \in Slots : ~Waiting(q)),
         \A q \in Slots : q # r => req'[q].pc = req[q].pc,
         list.pc = "done" =>
           /\ \A n \in ToSet(ids') :
                \/ server'[n] # None
                \/ req'[r].pc = "applied" /\ req'[r].note = n /\ req'[r].kind = "delete"
           /\ ~Waiting(r)' => Sorted(ids)'
           /\ OrderInv(r)'
  PROVE  Tidy'
<1>1. list.pc \notin {"sent", "read"} /\ \A q \in Slots : q # r => ~Waiting(q)
  BY DEF Tidy
<1>2. \A q \in Slots : q # r => ~Waiting(q)'
  BY <1>1 DEF Waiting
<1>3. \A q \in Slots : q # r => OrderInv(q)'
  BY <1>2 DEF OrderInv, Waiting
<1> QED
  BY <1>1, <1>2, <1>3 DEF Tidy

\* Every listed note is in the API's table, or is the one being deleted.
LEMMA TidyAlone ==
  ASSUME Tidy, NEW r \in Slots, Waiting(r)
  PROVE  /\ list.pc \notin {"sent", "read"}
         /\ list.pc = "done" =>
              /\ OrderInv(r)
              /\ \A n \in ToSet(ids) :
                   \/ server[n] # None
                   \/ req[r].pc = "applied" /\ req[r].note = n /\ req[r].kind = "delete"
  BY DEF Tidy, Waiting

LEMMA ListDoneTidy ==
  ASSUME StoreInv, CacheInv, Tidy, ListDone
  PROVE  Tidy'
<1>1. /\ list.pc = "read" /\ list'.pc = "done" /\ ids' = list.items /\ UNCHANGED <<server, req>>
  BY ListTypes DEF ListDone, SetNotes
<1>2. \A r \in Slots : ~Waiting(r) /\ ~Waiting(r)'
  BY <1>1 DEF Tidy, Waiting
<1>3. Sorted(ids)' /\ \A n \in ToSet(ids') : server'[n] # None
  <2>1. ToSet(list.items) \subseteq Notes
    BY StoreTypes DEF TypeOK, List, ToSet
  <2>2. \A n \in ToSet(list.items) : list.rows[n] # None /\ list.rows[n] \in {None, server[n]}
    BY <1>1, <2>1 DEF StoreInv, PageInv, Tidy
  <2> QED
    BY <1>1, <2>2 DEF Tidy, Sorted, InOrder
<1>4. \A r \in Slots : OrderInv(r)'
  BY <1>2 DEF OrderInv, Waiting
<1> QED
  BY <1>1, <1>2, <1>3, <1>4 DEF Tidy

LEMMA ClickTidy ==
  ASSUME StoreInv, CacheInv, Tidy, NEW r \in Slots, ~past'.crossed,
         ToggleStar(r) \/ EditTitle(r) \/ RestoreNote(r) \/ DeleteNote(r)
  PROVE  Tidy'
<1>1. PICK n \in Notes, kind \in Kinds, p \in Patch \cup {None} : Clicked(r, n, kind, p)
  BY Clicks
<1>2. /\ req'[r].pc = "sent" /\ req'[r].kind = kind /\ req'[r].note = n /\ req'[r].index = IndexOf(ids, n)
      /\ \A q \in Slots : q # r => req'[q].pc = req[q].pc
      /\ list.pc \notin {"sent", "read"} /\ \A q \in Slots : ~Waiting(q)
      /\ UNCHANGED <<server, list>>
  BY <1>1, Sends DEF Clicked
<1>3. /\ kind = "update" => ids' = BumpNoteToTop(ids, n)
      /\ kind # "update" => ids' = ids
  BY <1>1 DEF Clicked
<1>4. ids \in Seq(Notes) /\ Distinct(ids)
  BY StoreTypes
<1>5. ASSUME list.pc = "done"
      PROVE  /\ \A m \in ToSet(ids') : server'[m] # None
             /\ OrderInv(r)'
  <2>1. Sorted(ids) /\ \A m \in ToSet(ids) : server[m] # None
    BY <1>2, <1>5 DEF Tidy, Waiting
  <2>2. CASE kind # "update"
    <3>1. Sorted(ids)'
      BY <1>2, <1>3, <2>1, <2>2 DEF Sorted, InOrder
    <3> QED
      BY <1>2, <1>3, <2>1, <2>2, <3>1 DEF OrderInv
  <2>3. CASE kind = "update"
    <3>1. /\ ToSet(ids') = ToSet(ids) /\ Follows(ids', ids, n)
          /\ n \in ToSet(ids) => /\ ids'[1] = n /\ IndexOf(ids, n) \in Nat \ {0}
                                 /\ MoveNoteToIndex(ids', n, IndexOf(ids, n)) = ids
          /\ n \notin ToSet(ids) => IndexOf(ids, n) = 0 /\ ids' = ids
      BY <1>3, <1>4, <2>3, BumpFacts
    <3>2. SortedBut(ids', n)
      BY <2>1, <3>1, SortedSortedBut, SortedFacts
    <3>3. SortedBut(ids, n)'
      BY <1>2, <3>2 DEF SortedBut, InOrder
    <3>4. Back(r)' = ids
      BY <1>2, <3>1 DEF Back
    <3>5. Sorted(Back(r))'
      BY <1>2, <2>1, <3>4 DEF Sorted, InOrder
    <3> QED
      BY <1>2, <2>1, <2>3, <3>1, <3>3, <3>5 DEF OrderInv
  <2> QED
    BY <2>2, <2>3
<1> QED
  BY <1>2, <1>5, TidySlot DEF Waiting

LEMMA RefuseTidy ==
  ASSUME StoreInv, CacheInv, Tidy, NEW r \in Slots, Apply(r), server[req[r].note] = None
  PROVE  Tidy'
<1>1. /\ req[r].pc \in {"sent", "late"} /\ UNCHANGED <<server, ids, list>>
      /\ req' = [req EXCEPT ![r] = IF @.pc = "late" THEN Blank("done") ELSE [@ EXCEPT !.pc = "refused"]]
  BY DEF Apply, store
<1>2. req \in [Slots -> Request]
  BY StoreTypes DEF TypeOK
<1>3. /\ \A q \in Slots : q # r => req'[q] = req[q]
      /\ \/ req[r].pc = "late" /\ req'[r].pc = "done"
         \/ /\ req[r].pc = "sent" /\ req'[r].pc = "refused" /\ req'[r].kind = req[r].kind
            /\ req'[r].note = req[r].note /\ req'[r].index = req[r].index
  <2>1. CASE req[r].pc = "late"
    BY <1>1, <1>2, <2>1, BlankType
  <2>2. CASE req[r].pc = "sent"
    <3>1. req'[r] = [req[r] EXCEPT !.pc = "refused"] /\ req[r] \in Request
      BY <1>1, <1>2, <2>2
    <3> QED
      BY <1>1, <1>2, <2>2, <3>1 DEF Request
  <2> QED
    BY <1>1, <2>1, <2>2
<1>4. Waiting(r)
  BY <1>1 DEF Waiting
<1>5. ASSUME list.pc = "done"
      PROVE  /\ \A n \in ToSet(ids') : server'[n] # None
             /\ ~Waiting(r)' => Sorted(ids)'
             /\ OrderInv(r)'
  <2>1. OrderInv(r) /\ \A n \in ToSet(ids) : server[n] # None
    BY <1>1, <1>4, <1>5, TidyAlone
  <2>2. \A s : Sorted(s) <=> Sorted(s)'
    BY <1>1 DEF Sorted, InOrder
  <2>3. CASE req[r].pc = "late" /\ req'[r].pc = "done"
    <3>1. Sorted(ids)'
      BY <1>1, <2>1, <2>3 DEF OrderInv, Sorted, InOrder
    <3> QED
      BY <1>1, <2>1, <2>3, <3>1 DEF OrderInv
  <2>4. CASE /\ req[r].pc = "sent" /\ req'[r].pc = "refused" /\ req'[r].kind = req[r].kind
             /\ req'[r].note = req[r].note /\ req'[r].index = req[r].index
    <3>1. Back(r)' = Back(r)
      BY <1>1, <2>4 DEF Back
    <3>2. OrderInv(r)'
      BY <1>1, <2>1, <2>4, <3>1 DEF OrderInv, Sorted, SortedBut, InOrder
    <3> QED
      BY <1>1, <2>1, <2>4, <3>2 DEF Waiting
  <2> QED
    BY <1>3, <2>3, <2>4
<1> QED
  BY <1>1, <1>3, <1>4, <1>5, TidySlot

LEMMA ApplyTidy ==
  ASSUME StoreInv, CacheInv, Tidy, NEW r \in Slots, NEW n \in Notes, NEW row \in Row \cup {None},
         Applied(r, n, row), past'.missed = {}
  PROVE  Tidy'
<1>1. /\ n = req[r].note /\ req[r].pc = "sent" /\ UNCHANGED <<ids, list>>
      /\ \A q \in Slots : q # r => req'[q] = req[q]
      /\ row # None => row.at = clock + 1
      /\ req[r].kind # "delete" => row # None
      /\ req'[r] = [req[r] EXCEPT !.pc = "applied", !.answer = row, !.time = clock + 1]
  BY DEF Applied
<1>2. req'[r].pc = "applied" /\ req'[r].note = n /\ req'[r].kind = req[r].kind
  BY <1>1, StoreTypes DEF Request
<1>3. /\ server \in [Notes -> Row \cup {None}] /\ clock \in Nat
      /\ ids \in Seq(Notes) /\ Distinct(ids) /\ ToSet(ids) \subseteq Notes
  BY StoreTypes DEF TypeOK
<1>4. server'[n] = row /\ \A m \in Notes : m # n => server'[m] = server[m]
  BY <1>3 DEF Applied
<1>5. Waiting(r) /\ Waiting(r)'
  BY <1>1, <1>2 DEF Waiting
<1>6. ASSUME list.pc = "done"
      PROVE  /\ \A m \in ToSet(ids') :
                  \/ server'[m] # None
                  \/ req'[r].pc = "applied" /\ req'[r].note = m /\ req'[r].kind = "delete"
             /\ OrderInv(r)'
  <2>1. OrderInv(r) /\ \A m \in ToSet(ids) : server[m] # None
    BY <1>1, <1>5, <1>6, TidyAlone
  <2>2. \A m \in ToSet(ids') :
          \/ server'[m] # None
          \/ req'[r].pc = "applied" /\ req'[r].note = m /\ req'[r].kind = "delete"
    BY <1>1, <1>2, <1>3, <1>4, <2>1
  <2>3. \A i \in DOMAIN ids : ids[i] \in ToSet(ids) /\ ids[i] \in Notes
    BY <1>3 DEF ToSet
  <2>4. SortedBut(ids, n)
    BY <1>1, <2>1, SortedSortedBut DEF OrderInv
  <2>5. SortedBut(ids, n)'
    BY <1>1, <1>4, <2>3, <2>4 DEF SortedBut, InOrder
  <2>6. CASE req[r].kind # "update"
    BY <1>2, <2>2, <2>5, <2>6 DEF OrderInv
  <2>7. CASE req[r].kind = "update"
    <3>1. row # None /\ row.at = clock + 1 /\ (n \in ToSet(ids) => ids[1] = n)
      BY <1>1, <2>1, <2>7 DEF OrderInv
    <3>2. ASSUME NEW i \in DOMAIN ids, NEW j \in DOMAIN ids, i < j
          PROVE  InOrder(ids[i], ids[j])'
      <4>1. DOMAIN ids = 1 .. Len(ids) /\ Len(ids) \in Nat
        BY <1>3
      <4>2. ids[j] # n
        <5>1. ASSUME ids[j] = n
              PROVE  FALSE
          <6>1. ids[1] = ids[j] /\ 1 \in DOMAIN ids
            BY <2>3, <3>1, <4>1, <5>1
          <6>2. j = 1
            BY <1>3, <6>1 DEF Distinct
          <6> QED
            BY <3>2, <4>1, <6>2
        <5> QED
          BY <5>1
      <4>3. CASE ids[i] # n
        BY <1>1, <2>5, <3>2, <4>2, <4>3 DEF SortedBut
      <4>4. CASE ids[i] = n
        <5>1. server[ids[j]] \in Row /\ server[ids[j]].at \in Nat /\ server[ids[j]].at <= clock
          BY <1>3, <2>1, <2>3 DEF StoreInv, TimesInv, Row
        <5>2. server'[ids[j]] = server[ids[j]]
          BY <1>4, <2>3, <4>2
        <5>3. server'[ids[i]].at > server'[ids[j]].at
          BY <1>3, <1>4, <3>1, <4>4, <5>1, <5>2
        <5> QED
          BY <1>1, <5>3 DEF InOrder
      <4> QED
        BY <4>3, <4>4
    <3>3. Sorted(ids)'
      BY <1>1, <3>2 DEF Sorted
    <3> QED
      BY <1>2, <2>2, <2>7, <3>3 DEF OrderInv
  <2> QED
    BY <2>6, <2>7
<1> QED
  BY <1>1, <1>5, <1>6, TidySlot

LEMMA AnswerTidy ==
  ASSUME StoreInv, CacheInv, Tidy, NEW r \in Slots, UpdateDone(r) \/ Removed(r)
  PROVE  Tidy'
<1>1. PICK n \in Notes, gone \in BOOLEAN : Answered(r, n, gone)
  BY Answers
<1>2. /\ n = req[r].note /\ req[r].pc = "applied" /\ UNCHANGED <<server, list>>
      /\ ToSet(ids') = IF gone THEN ToSet(ids) \ {n} ELSE ToSet(ids)
      /\ ~gone => ids' = ids
      /\ Follows(ids', ids, n)
      /\ req[r].kind # "update" => gone
  BY <1>1 DEF Answered
<1>3. req'[r].pc = "done" /\ \A q \in Slots : q # r => req'[q] = req[q]
  BY <1>1, StoreTypes, BlankType DEF Answered, TypeOK
<1>4. Waiting(r)
  BY <1>2 DEF Waiting
<1>5. ASSUME list.pc = "done"
      PROVE  /\ \A m \in ToSet(ids') : server'[m] # None
             /\ Sorted(ids)' /\ OrderInv(r)'
  <2>1. /\ OrderInv(r)
        /\ \A m \in ToSet(ids) : server[m] # None \/ (m = n /\ req[r].kind = "delete")
    BY <1>2, <1>4, <1>5, TidyAlone
  <2>2. \A m \in ToSet(ids') : server'[m] # None
    BY <1>2, <2>1
  <2>3. Sorted(ids')
    <3>1. CASE gone
      <4>1. SortedBut(ids, n) /\ n \notin ToSet(ids')
        BY <1>2, <2>1, <3>1, SortedSortedBut DEF OrderInv
      <4> QED
        BY <1>2, <4>1, SortedFacts
    <3>2. CASE ~gone
      BY <1>2, <2>1, <3>2 DEF OrderInv
    <3> QED
      BY <3>1, <3>2
  <2>4. Sorted(ids)'
    BY <1>2, <2>3 DEF Sorted, InOrder
  <2> QED
    BY <1>3, <2>2, <2>4 DEF OrderInv
<1> QED
  BY <1>2, <1>3, <1>4, <1>5, TidySlot

LEMMA FailTidy ==
  ASSUME StoreInv, CacheInv, Tidy, NEW r \in Slots, Failed(r), past'.missed = {}
  PROVE  Tidy'
<1>1. PICK n \in Notes : Gave(r, n)
  BY Gives
<1>2. /\ n = req[r].note /\ req[r].pc \in {"sent", "refused"} /\ UNCHANGED <<server, list>>
      /\ req[r].kind = "update" => ids' = Back(r)
      /\ req[r].kind # "update" => ids' = ids
      /\ ToSet(ids') = ToSet(ids) /\ req'[r].pc \in {"done", "late"}
      /\ \A q \in Slots : q # r => req'[q] = req[q]
  BY <1>1 DEF Gave
<1>3. Waiting(r)
  BY <1>2 DEF Waiting
<1>4. ASSUME list.pc = "done"
      PROVE  /\ \A m \in ToSet(ids') : server'[m] # None
             /\ Sorted(ids)' /\ OrderInv(r)'
  <2>1. OrderInv(r) /\ \A m \in ToSet(ids) : server[m] # None
    BY <1>2, <1>3, <1>4, TidyAlone
  <2>2. Sorted(ids')
    BY <1>2, <2>1 DEF OrderInv
  <2>3. Sorted(ids)'
    BY <1>2, <2>2 DEF Sorted, InOrder
  <2> QED
    BY <1>2, <2>1, <2>3 DEF OrderInv
<1> QED
  BY <1>2, <1>3, <1>4, TidySlot

LEMMA InitTidy == Init => TidyInv
  BY ListTypes, BlankType DEF Init, TidyInv, Tidy, Waiting

LEMMA NextTidy ==
  ASSUME StoreInv, CacheInv, TidyInv, [Next]_vars
  PROVE  TidyInv'
<1> SUFFICES ASSUME ~past'.crossed, past'.missed = {}
             PROVE  Tidy'
  BY DEF TidyInv
<1>1. CASE (\E n \in Notes : Open(n)) \/ UNCHANGED vars
  <2>1. UNCHANGED <<server, ids, list, req, past>>
    BY <1>1 DEF Open, vars, store, url
  <2>2. Tidy
    BY <2>1 DEF TidyInv
  <2> QED
    BY <2>1, <2>2 DEF Tidy, Sorted, SortedBut, InOrder, OrderInv, Back, Waiting
<1>2. ASSUME NEW s \in Scopes, ChangeScope(s)
      PROVE  Tidy'
  <2>1. list'.pc = "sent" /\ req' = req
    BY <1>2, ListTypes DEF ChangeScope
  <2>2. \A r \in Slots : ~Waiting(r)
    <3>1. past' = [past EXCEPT !.matching = {}, !.crossed = past.crossed \/ \E r \in Slots : Waiting(r)]
      BY <1>2 DEF ChangeScope
    <3> QED
      BY <3>1, StoreTypes DEF Past
  <2> QED
    BY <2>1, <2>2 DEF Tidy, Waiting
<1>3. CASE ListRead
  <2>1. /\ list.pc = "sent" /\ list'.pc = "read" /\ UNCHANGED <<server, req>>
        /\ \A n \in Notes : list'.rows[n] = IF Matches(server[n], scope) THEN server[n] ELSE None
        /\ Sorted(list'.items) /\ Tidy
    BY <1>3, PageRead DEF ListRead, TidyInv
  <2>2. \A r \in Slots : ~Waiting(r)'
    BY <2>1 DEF Tidy, Waiting
  <2>3. Sorted(list.items)'
    BY <2>1 DEF Sorted, InOrder
  <2> QED
    BY <2>1, <2>2, <2>3 DEF Tidy
<1>4. CASE ListDone
  <2>1. past'.missed = past.missed /\ past'.crossed = past.crossed
    <3>1. Shape /\ list.time \in Nat /\ past' = Heard({n \in Notes : list.rows[n] # None}, list.time)
      BY <1>4, Times DEF ListDone, CacheInv
    <3> QED
      BY <3>1, HeardShape
  <2> QED
    BY <1>4, <2>1, ListDoneTidy DEF TidyInv
<1>5. CASE ListFailed
  <2>1. list'.pc = "failed" /\ UNCHANGED <<req, past>>
    BY <1>5, ListTypes DEF ListFailed
  <2> QED
    BY <2>1 DEF TidyInv, Tidy, Waiting
<1>6. ASSUME NEW r \in Slots, ToggleStar(r) \/ EditTitle(r) \/ RestoreNote(r) \/ DeleteNote(r)
      PROVE  Tidy'
  <2>1. PICK n \in Notes, kind \in Kinds, p \in Patch \cup {None} : Clicked(r, n, kind, p)
    BY <1>6, Clicks
  <2>2. past'.missed = past.missed /\ ~past.crossed
    BY <2>1, Sends DEF Clicked
  <2> QED
    BY <1>6, <2>2, ClickTidy DEF TidyInv
<1>7. ASSUME NEW r \in Slots, Apply(r)
      PROVE  Tidy'
  <2>1. CASE server[req[r].note] = None
    <3>1. past' = past
      BY <1>7, <2>1 DEF Apply
    <3> QED
      BY <1>7, <2>1, <3>1, RefuseTidy DEF TidyInv
  <2>2. CASE server[req[r].note] # None
    <3>1. PICK n \in Notes, row \in Row \cup {None} : Applied(r, n, row)
      BY <1>7, <2>2, Applies
    <3>2. past.missed \subseteq past'.missed /\ past'.crossed = past.crossed
      BY <3>1 DEF Applied
    <3>3. past.missed = {}
      BY <3>2
    <3> QED
      BY <3>1, <3>2, <3>3, ApplyTidy DEF TidyInv
  <2> QED
    BY <2>1, <2>2
<1>8. ASSUME NEW r \in Slots, UpdateDone(r) \/ Removed(r)
      PROVE  Tidy'
  <2>1. past'.missed = past.missed /\ past'.crossed = past.crossed
    <3>1. PICK n \in Notes, gone \in BOOLEAN : Answered(r, n, gone)
      BY <1>8, Answers
    <3> QED
      BY <3>1, AnswerNotes
  <2> QED
    BY <1>8, <2>1, AnswerTidy DEF TidyInv
<1>9. ASSUME NEW r \in Slots, Failed(r)
      PROVE  Tidy'
  <2>1. PICK n \in Notes : Gave(r, n)
    BY <1>9, Gives
  <2>2. past.missed \subseteq past'.missed /\ past'.crossed = past.crossed
    BY <2>1 DEF Gave
  <2>3. past.missed = {}
    BY <2>2
  <2> QED
    BY <1>9, <2>2, <2>3, FailTidy DEF TidyInv
<1> QED
  BY <1>1, <1>2, <1>3, <1>4, <1>5, <1>6, <1>7, <1>8, <1>9 DEF Next

\* While no two requests overlap and none is lost, the list is where the answer
\* under way, or its failure, will leave it in the API's order.
THEOREM OrderExplained == Spec => []TidyInv
  BY InitTidy, NextTidy, StoreHolds, CacheExplained, PTL DEF Spec

\* Bumping an edited note to the top keeps the API's order, and a rollback
\* restores it, for every set of notes and any number of changes one by one.
THEOREM OrderMatches == Spec => []OrderMatchesApi
<1>1. TidyInv => OrderMatchesApi
  BY DEF TidyInv, OrderMatchesApi, Quiet, Tidy, Sorted, InOrder
<1> QED
  BY <1>1, OrderExplained, PTL
=============================================================================
