---------------------------- MODULE AutosaveProofs ----------------------------
(***************************************************************************)
(* Safety of Autosave for every set of notes and editors and any number of *)
(* edits: whatever overlaps, fails or comes late, text is only misfiled,   *)
(* overwritten by older text or lost in the ways that the module names.    *)
(***************************************************************************)
EXTENDS Autosave, TLAPS, WellFoundedInduction

\* The editor is in the pane only while the open note is there to be edited.
Pane == mounted # None => Visible(open, loading, store)

\* What a saver holds: a save under way has a note and an edit, and what waits
\* behind it in contentRef is newer.
Held(r) ==
  /\ r.pc # "idle" => r.note \in Notes /\ r.saving \in Edit /\ r.saving.k > 0
  /\ r.content # None => r.pc # "idle" /\ r.content.k > r.saving.k

\* Edit e may become the body of note n: if it belongs to another note it was
\* typed behind a save of n, and it is the last edit of its note or an older
\* one.
Fits(e, n, p) ==
  /\ e.note # n => e.behind = n
  /\ e.k <= p.typed[e.note].k
  /\ e.k = p.typed[e.note].k => e = p.typed[e.note]

\* Edit e may become the body of n without undoing a later one.
Newer(e, n, sv, p) == n \in p.overlapped \/ sv[n].k <= e.k

OnItsWay(r, sv, p) ==
  /\ r.pc # "idle" => Fits(r.saving, r.note, p) /\ Newer(r.saving, r.note, sv, p)
  /\ r.content # None => Fits(r.content, r.note, p) /\ Newer(r.content, r.note, sv, p)

\* Two savers of one note, or two saves of it one of which was given up, have
\* been noticed.
Noticed(sr, lt, p) ==
  /\ \A i, j \in Editors :
       i # j /\ sr[i].pc # "idle" /\ sr[j].pc # "idle" /\ sr[i].note = sr[j].note
         => sr[i].note \in p.overlapped
  /\ \A i \in Editors, q \in lt :
       sr[i].pc # "idle" /\ sr[i].note = q.note => q.note \in p.overlapped
  /\ \A q, r \in lt : q # r /\ q.note = r.note => q.note \in p.overlapped

\* The last edit e of note n is in the saver r, to be sent or sent.
Waits(r, e, n) == r.note = n /\ (r.content = e \/ (r.pc = "sent" /\ r.saving = e))

\* The last edit e of note n has reached the API, is on its way, or is lost in
\* one of the known ways.
Accounted(e, n, sr, sv, p) ==
  \/ e.k \in p.failed \cup p.clobbered
  \/ e.behind # n
  \/ n \in p.overlapped
  \/ sv[n].k >= e.k
  \/ \E i \in Editors : Waits(sr[i], e, n)

Types(sr, lt, sv, p) ==
  /\ sr \in [Editors -> Saver] /\ lt \subseteq [note : Notes, saving : Edit]
  /\ sv \in [Notes -> Edit] /\ p \in Past
  /\ \A n \in Notes : p.typed[n].note = n

Saves(sr, lt, sv, p) ==
  /\ Types(sr, lt, sv, p)
  /\ \A i \in Editors : Held(sr[i])
  /\ \A i \in Editors : OnItsWay(sr[i], sv, p)
  /\ \A n \in Notes : Fits(sv[n], n, p)
  /\ \A q \in lt : Fits(q.saving, q.note, p) /\ Newer(q.saving, q.note, sv, p)
  /\ Noticed(sr, lt, p)
  /\ \A n \in Notes : Accounted(p.typed[n], n, sr, sv, p)

PaneOK ==
  /\ open \in Notes \cup {None} /\ loading \in BOOLEAN /\ fetching \in Notes \cup {None}
  /\ mounted \in Editors \cup {None} /\ screen \in Edit \cup {None}
  /\ store \in [Notes -> Edit \cup {None}]
  /\ Pane

IInv == PaneOK /\ Saves(saver, late, server, past)

-----------------------------------------------------------------------------
(* The number of edits. *)

\* The highest number of an edit typed so far exists.
LEMMA EditsAreCounted ==
  ASSUME past \in Past, Notes # {}
  PROVE  /\ EditCount \in 0 .. MaxEdits
         /\ \A n \in Notes : past.typed[n].k <= EditCount
<1> DEFINE Bounds == {k \in 0 .. MaxEdits : \A n \in Notes : past.typed[n].k <= k}
<1>1. MaxEdits \in Nat /\ past.typed \in [Notes -> Edit]
  BY BoundsAssumption DEF Past
<1>2. \A n \in Notes : past.typed[n].k \in 0 .. MaxEdits
  BY <1>1 DEF Edit
<1>3. MaxEdits \in Bounds
  BY <1>1, <1>2
<1> DEFINE Less == {ss \in Nat \X Nat : ss[1] < ss[2]}
<1>4. PICK m \in Bounds : \A k \in Bounds : <<k, m>> \notin Less
  <2>1. IsWellFoundedOn(Less, Nat)
    BY NatLessThanWellFounded DEF OpToRel
  <2>2. Bounds \subseteq Nat /\ Bounds # {}
    BY <1>1, <1>3
  <2> HIDE DEF Bounds, Less
  <2> QED
    BY <2>1, <2>2, WFMin
<1>5. \A k \in Bounds : ~ (k < m)
  <2> SUFFICES ASSUME NEW k \in Bounds, k < m
               PROVE  FALSE
    OBVIOUS
  <2>1. k \in Nat /\ m \in Nat
    BY <1>1
  <2>2. <<k, m>> \in Less
    BY <2>1
  <2> QED
    BY <1>4, <2>2
<1>6. \E n \in Notes : past.typed[n].k = m
  <2> SUFFICES ASSUME \A n \in Notes : past.typed[n].k # m
               PROVE  FALSE
    OBVIOUS
  <2>1. \A n \in Notes : past.typed[n].k <= m - 1
    BY <1>1, <1>2
  <2>2. m - 1 \in 0 .. MaxEdits
    BY <1>1, <1>2, <2>1
  <2> QED
    BY <1>5, <2>1, <2>2
<1>7. \E k \in 0 .. MaxEdits : /\ \A n \in Notes : past.typed[n].k <= k
                               /\ \E n \in Notes : past.typed[n].k = k
  BY <1>6
<1> QED
  BY <1>7 DEF EditCount

-----------------------------------------------------------------------------
(* What each step does to the saves. *)

\* A PATCH of n that the API carries out leaves the others newer, or noticed.
LEMMA Overwriting ==
  ASSUME NEW sv \in [Notes -> Edit], NEW n \in Notes, NEW e \in Edit, NEW p,
         NEW f \in Edit, NEW m \in Notes,
         Newer(f, m, sv, p), m = n => n \in p.overlapped \/ e.k <= f.k
  PROVE  Newer(f, m, [sv EXCEPT ![n] = e], p)
  BY DEF Newer

LEMMA StillAccounted ==
  ASSUME NEW sr, NEW sv \in [Notes -> Edit], NEW p \in Past, NEW n \in Notes, NEW e \in Edit,
         NEW m \in Notes, NEW f \in Edit, Newer(e, n, sv, p), Accounted(f, m, sr, sv, p)
  PROVE  Accounted(f, m, sr, [sv EXCEPT ![n] = e], p)
<1>1. CASE m # n
  BY <1>1 DEF Accounted
<1>2. CASE m = n /\ sv[m].k >= f.k
  BY <1>2 DEF Accounted, Newer, Edit
<1> QED
  BY <1>1, <1>2 DEF Accounted

LEMMA Applying ==
  ASSUME NEW sr, NEW lt, NEW sv, NEW p, Saves(sr, lt, sv, p),
         NEW i \in Editors, sr[i].pc = "sent"
  PROVE  Saves([sr EXCEPT ![i].pc = "applied"], lt, [sv EXCEPT ![sr[i].note] = sr[i].saving], p)
<1> DEFINE n == sr[i].note
           e == sr[i].saving
           sr2 == [sr EXCEPT ![i].pc = "applied"]
           sv2 == [sv EXCEPT ![n] = e]
<1>1. /\ Types(sr, lt, sv, p) /\ sr \in [Editors -> Saver] /\ sv \in [Notes -> Edit] /\ p \in Past
      /\ n \in Notes /\ e \in Edit /\ Fits(e, n, p) /\ Newer(e, n, sv, p)
  BY DEF Saves, Types, Held, OnItsWay
<1>2. /\ sr2 \in [Editors -> Saver]
      /\ \A j \in Editors : /\ sr2[j].note = sr[j].note /\ sr2[j].saving = sr[j].saving
                            /\ sr2[j].content = sr[j].content
                            /\ j # i => sr2[j] = sr[j]
                            /\ sr2[j].pc # "idle" <=> sr[j].pc # "idle"
      /\ sr2[i].pc = "applied"
  BY <1>1 DEF Saver
<1>3. \A j \in Editors : /\ sr[j].pc # "idle" => sr[j].note \in Notes /\ sr[j].saving \in Edit
                         /\ sr[j].content # None => /\ sr[j].pc # "idle" /\ sr[j].content \in Edit
                                                    /\ sr[j].content.k > sr[j].saving.k
  BY <1>1 DEF Saves, Held, Saver
<1>4. \A f \in Edit, m \in Notes :
        Newer(f, m, sv, p) /\ (m = n => n \in p.overlapped \/ e.k <= f.k) => Newer(f, m, sv2, p)
  BY <1>1, Overwriting
<1>5. e.k \in Nat /\ \A f \in Edit : f.k \in Nat
  BY <1>1, BoundsAssumption DEF Edit
<1> HIDE DEF n, e, sr2, sv2
<1>6. Types(sr2, lt, sv2, p)
  BY <1>1, <1>2 DEF Types, sv2
<1>7. \A j \in Editors : Held(sr2[j])
  BY <1>2 DEF Saves, Held
<1>8. ASSUME NEW j \in Editors
      PROVE  OnItsWay(sr2[j], sv2, p)
  <2>1. sr[j].pc # "idle" /\ sr[j].note = n => n \in p.overlapped \/ j = i
    BY DEF Saves, Noticed, n
  <2>2. sr[j].pc # "idle" => Fits(sr[j].saving, sr[j].note, p) /\ Newer(sr[j].saving, sr[j].note, sv2, p)
    <3> SUFFICES ASSUME sr[j].pc # "idle"
                 PROVE  Fits(sr[j].saving, sr[j].note, p) /\ Newer(sr[j].saving, sr[j].note, sv2, p)
      OBVIOUS
    <3>1. Fits(sr[j].saving, sr[j].note, p) /\ Newer(sr[j].saving, sr[j].note, sv, p)
      BY DEF Saves, OnItsWay
    <3>2. sr[j].note = n => n \in p.overlapped \/ e.k <= sr[j].saving.k
      BY <2>1, <1>5 DEF e
    <3> QED
      BY <1>3, <1>4, <3>1, <3>2
  <2>3. sr[j].content # None => Fits(sr[j].content, sr[j].note, p) /\ Newer(sr[j].content, sr[j].note, sv2, p)
    <3> SUFFICES ASSUME sr[j].content # None
                 PROVE  Fits(sr[j].content, sr[j].note, p) /\ Newer(sr[j].content, sr[j].note, sv2, p)
      OBVIOUS
    <3>1. Fits(sr[j].content, sr[j].note, p) /\ Newer(sr[j].content, sr[j].note, sv, p)
      BY DEF Saves, OnItsWay
    <3>2. sr[j].note = n => n \in p.overlapped \/ e.k <= sr[j].content.k
      BY <1>3, <1>5, <2>1 DEF e
    <3> QED
      BY <1>3, <1>4, <3>1, <3>2
  <2> QED
    BY <1>2, <2>2, <2>3 DEF OnItsWay
<1>9. \A m \in Notes : Fits(sv2[m], m, p)
  BY <1>1 DEF Saves, sv2
<1>10. ASSUME NEW q \in lt
       PROVE  Fits(q.saving, q.note, p) /\ Newer(q.saving, q.note, sv2, p)
  <2>1. Fits(q.saving, q.note, p) /\ Newer(q.saving, q.note, sv, p)
    BY DEF Saves
  <2>2. q.note \in Notes /\ q.saving \in Edit
    BY <1>1 DEF Types
  <2>3. q.note = n => n \in p.overlapped
    BY DEF Saves, Noticed, n
  <2> QED
    BY <1>4, <2>1, <2>2, <2>3
<1>11. Noticed(sr2, lt, p)
  BY <1>2 DEF Saves, Noticed
<1>12. ASSUME NEW m \in Notes
       PROVE  Accounted(p.typed[m], m, sr2, sv2, p)
  <2>1. p.typed[m] \in Edit
    BY <1>1 DEF Past
  <2>2. Accounted(p.typed[m], m, sr, sv2, p)
    BY <1>1, <2>1, StillAccounted DEF Saves, sv2
  <2>3. \A j \in Editors : Waits(sr[j], p.typed[m], m) => \/ Waits(sr2[j], p.typed[m], m)
                                                          \/ sv2[m] = p.typed[m]
    BY <1>1, <1>2 DEF Waits, sv2, n, e
  <2>4. sv2[m] = p.typed[m] => sv2[m].k >= p.typed[m].k
    BY <1>5, <2>1
  <2> QED
    BY <2>2, <2>3, <2>4 DEF Accounted
<1> QED
  BY <1>6, <1>7, <1>8, <1>9, <1>10, <1>11, <1>12 DEF Saves, sr2, sv2, n, e

LEMMA ApplyingLate ==
  ASSUME NEW sr, NEW lt, NEW sv, NEW p, Saves(sr, lt, sv, p), NEW q \in lt
  PROVE  Saves(sr, lt \ {q}, [sv EXCEPT ![q.note] = q.saving], p)
<1> DEFINE sv2 == [sv EXCEPT ![q.note] = q.saving]
<1>1. /\ Types(sr, lt, sv, p) /\ sr \in [Editors -> Saver] /\ sv \in [Notes -> Edit] /\ p \in Past
      /\ q.note \in Notes /\ q.saving \in Edit
      /\ Fits(q.saving, q.note, p) /\ Newer(q.saving, q.note, sv, p)
  BY DEF Saves, Types
<1>2. \A f \in Edit, m \in Notes :
        Newer(f, m, sv, p) /\ (m = q.note => m \in p.overlapped) => Newer(f, m, sv2, p)
  BY <1>1, Overwriting
<1> HIDE DEF sv2
<1>3. Types(sr, lt \ {q}, sv2, p)
  BY <1>1 DEF Types, sv2
<1>4. ASSUME NEW j \in Editors
      PROVE  OnItsWay(sr[j], sv2, p)
  <2>1. /\ sr[j].pc # "idle" => sr[j].note \in Notes /\ sr[j].saving \in Edit
        /\ sr[j].content # None => sr[j].pc # "idle" /\ sr[j].content \in Edit
    BY <1>1 DEF Saves, Held, Saver
  <2>2. sr[j].pc # "idle" /\ sr[j].note = q.note => q.note \in p.overlapped
    BY DEF Saves, Noticed
  <2>3. OnItsWay(sr[j], sv, p)
    BY DEF Saves
  <2> QED
    BY <1>2, <2>1, <2>2, <2>3 DEF OnItsWay
<1>5. \A m \in Notes : Fits(sv2[m], m, p)
  BY <1>1 DEF Saves, sv2
<1>6. ASSUME NEW r \in lt \ {q}
      PROVE  Fits(r.saving, r.note, p) /\ Newer(r.saving, r.note, sv2, p)
  <2>1. Fits(r.saving, r.note, p) /\ Newer(r.saving, r.note, sv, p)
    BY DEF Saves
  <2>2. r.note \in Notes /\ r.saving \in Edit /\ (r.note = q.note => r.note \in p.overlapped)
    BY <1>1 DEF Saves, Types, Noticed
  <2> QED
    BY <1>2, <2>1, <2>2
<1>7. Noticed(sr, lt \ {q}, p)
  BY DEF Saves, Noticed
<1>8. ASSUME NEW m \in Notes
      PROVE  Accounted(p.typed[m], m, sr, sv2, p)
  <2>1. p.typed[m] \in Edit
    BY <1>1 DEF Past
  <2> QED
    BY <1>1, <2>1, StillAccounted DEF Saves, sv2
<1> QED
  BY <1>3, <1>4, <1>5, <1>6, <1>7, <1>8 DEF Saves, sv2

\* Saver i is done with a save: it goes on with what waited, as r, or rests.
WentOn(sr, lt, p, i, r, lt2, p2) ==
  /\ sr[i].pc # "idle"
  /\ r \in Saver /\ r.content = None
  /\ r.pc # "idle" =>
       sr[i].content # None /\ r.pc = "sent" /\ r.note = sr[i].note /\ r.saving = sr[i].content
  /\ p2 \in Past /\ p2.typed = p.typed /\ p.failed \subseteq p2.failed
  /\ p2.clobbered = p.clobbered /\ p.overlapped \subseteq p2.overlapped
  /\ sr[i].pc = "sent" => sr[i].saving.k \in p2.failed
  /\ sr[i].content # None /\ r.pc = "idle" => sr[i].content.k \in p2.failed
  /\ lt2 \in {lt, lt \cup {[note |-> sr[i].note, saving |-> sr[i].saving]}}
  /\ /\ r.pc # "idle"
     /\ \/ \E j \in Editors \ {i} : sr[j].pc # "idle" /\ sr[j].note = sr[i].note
        \/ \E q \in lt2 : q.note = sr[i].note
     => sr[i].note \in p2.overlapped

LEMMA GoingOn ==
  ASSUME NEW sr, NEW lt, NEW sv, NEW p, NEW i \in Editors, NEW r, NEW lt2, NEW p2,
         Saves(sr, lt, sv, p), WentOn(sr, lt, p, i, r, lt2, p2)
  PROVE  Saves([sr EXCEPT ![i] = r], lt2, sv, p2)
<1> DEFINE n == sr[i].note
           late1 == [note |-> n, saving |-> sr[i].saving]
           sr2 == [sr EXCEPT ![i] = r]
<1> USE DEF WentOn
<1>1. /\ Types(sr, lt, sv, p) /\ sr \in [Editors -> Saver] /\ sv \in [Notes -> Edit] /\ p \in Past
      /\ Held(sr[i]) /\ OnItsWay(sr[i], sv, p) /\ Noticed(sr, lt, p)
      /\ n \in Notes /\ sr[i].saving \in Edit
      /\ \A q \in lt : q.note \in Notes /\ q.saving \in Edit
  BY DEF Saves, Types, Held
<1>2. /\ sr2 \in [Editors -> Saver] /\ sr2[i] = r
      /\ \A j \in Editors \ {i} : sr2[j] = sr[j]
  BY <1>1
<1>3. late1 \in [note : Notes, saving : Edit] /\ late1.note = n /\ late1.saving = sr[i].saving
  BY <1>1
<1>4. lt2 \subseteq lt \cup {late1}
  OBVIOUS
<1> HIDE DEF late1, sr2
<1>5. \A f, m : /\ Fits(f, m, p) => Fits(f, m, p2)
                /\ Newer(f, m, sv, p) => Newer(f, m, sv, p2)
  BY DEF Fits, Newer
<1>6. Types(sr2, lt2, sv, p2)
  BY <1>1, <1>2, <1>3, <1>4 DEF Types
<1>7. Held(r) /\ OnItsWay(r, sv, p2)
  <2>1. CASE r.pc = "idle"
    BY <2>1 DEF Held, OnItsWay
  <2>2. CASE r.pc # "idle"
    <3>1. sr[i].content \in Edit /\ sr[i].content.k > 0
      BY <1>1, <2>2, BoundsAssumption DEF Saver, Held, Edit
    <3>2. Fits(sr[i].content, n, p) /\ Newer(sr[i].content, n, sv, p)
      BY <1>1, <2>2 DEF OnItsWay
    <3> QED
      BY <1>1, <1>5, <2>2, <3>1, <3>2 DEF Held, OnItsWay
  <2> QED
    BY <2>1, <2>2
<1>8. \A j \in Editors : Held(sr2[j]) /\ OnItsWay(sr2[j], sv, p2)
  <2>1. \A j \in Editors : Held(sr[j]) /\ OnItsWay(sr[j], sv, p)
    BY DEF Saves
  <2>2. \A j \in Editors : OnItsWay(sr[j], sv, p2)
    BY <1>5, <2>1 DEF OnItsWay
  <2> QED
    BY <1>2, <1>7, <2>1, <2>2
<1>9. \A m \in Notes : Fits(sv[m], m, p2)
  BY <1>5 DEF Saves
<1>10. \A q \in lt2 : Fits(q.saving, q.note, p2) /\ Newer(q.saving, q.note, sv, p2)
  <2>1. \A q \in lt : Fits(q.saving, q.note, p2) /\ Newer(q.saving, q.note, sv, p2)
    BY <1>5 DEF Saves
  <2>2. Fits(late1.saving, late1.note, p2) /\ Newer(late1.saving, late1.note, sv, p2)
    BY <1>1, <1>3, <1>5 DEF OnItsWay
  <2> QED
    BY <1>4, <2>1, <2>2
<1>11. Noticed(sr2, lt2, p2)
  <2>1. ASSUME NEW j \in Editors, NEW k \in Editors, j # k, sr2[j].pc # "idle",
               sr2[k].pc # "idle", sr2[j].note = sr2[k].note
        PROVE  sr2[j].note \in p2.overlapped
    <3>1. CASE j = i
      BY <1>2, <2>1, <3>1
    <3>2. CASE k = i
      BY <1>2, <2>1, <3>2
    <3>3. CASE j # i /\ k # i
      BY <1>1, <1>2, <2>1, <3>3 DEF Noticed
    <3> QED
      BY <3>1, <3>2, <3>3
  <2>2. ASSUME NEW j \in Editors, NEW q \in lt2, sr2[j].pc # "idle", sr2[j].note = q.note
        PROVE  q.note \in p2.overlapped
    <3>1. CASE j = i
      BY <1>2, <2>2, <3>1
    <3>2. CASE j # i /\ q \in lt
      BY <1>1, <1>2, <2>2, <3>2 DEF Noticed
    <3>3. CASE j # i /\ q = late1
      BY <1>1, <1>2, <1>3, <2>2, <3>3 DEF Noticed
    <3> QED
      BY <1>4, <3>1, <3>2, <3>3
  <2>3. ASSUME NEW q \in lt2, NEW q2 \in lt2, q # q2, q.note = q2.note
        PROVE  q.note \in p2.overlapped
    <3>1. CASE q \in lt /\ q2 \in lt
      BY <1>1, <2>3, <3>1 DEF Noticed
    <3>2. CASE q = late1 /\ q2 \in lt
      BY <1>1, <1>3, <2>3, <3>2 DEF Noticed, n
    <3>3. CASE q \in lt /\ q2 = late1
      BY <1>1, <1>3, <2>3, <3>3 DEF Noticed, n
    <3> QED
      BY <1>4, <2>3, <3>1, <3>2, <3>3
  <2> QED
    BY <2>1, <2>2, <2>3 DEF Noticed
<1>12. ASSUME NEW m \in Notes
       PROVE  Accounted(p2.typed[m], m, sr2, sv, p2)
  <2> DEFINE f == p.typed[m]
  <2>1. Accounted(f, m, sr, sv, p)
    BY DEF Saves
  <2>2. Waits(sr[i], f, m) => Waits(sr2[i], f, m) \/ f.k \in p2.failed
    <3>1. CASE sr[i].content = f
      <4>1. f # None
        BY <1>1, EditAssumption DEF Past
      <4> QED
        BY <1>2, <3>1, <4>1 DEF Waits
    <3>2. CASE sr[i].content # f
      BY <3>2 DEF Waits
    <3> QED
      BY <3>1, <3>2
  <2>3. \A j \in Editors : Waits(sr[j], f, m) => Waits(sr2[j], f, m) \/ f.k \in p2.failed
    BY <1>2, <2>2
  <2> QED
    BY <2>1, <2>3 DEF Accounted
<1> QED
  BY <1>6, <1>8, <1>9, <1>10, <1>11, <1>12 DEF Saves, sr2

\* An edit of note o, newer than all others.
LEMMA Typing ==
  ASSUME NEW sr, NEW lt, NEW sv, NEW p, Saves(sr, lt, sv, p),
         NEW o \in Notes, NEW e \in Edit, e.note = o, \A m \in Notes : p.typed[m].k < e.k,
         NEW p2 \in Past, p2.typed = [p.typed EXCEPT ![o] = e], p2.failed = p.failed,
         p.clobbered \subseteq p2.clobbered, p.overlapped \subseteq p2.overlapped
  PROVE  /\ \A n \in Notes : p2.typed[n].note = n
         /\ \A f \in Edit, m \in Notes : Fits(f, m, p) => Fits(f, m, p2) /\ f.k < e.k
         /\ \A f \in Edit, m \in Notes : Newer(f, m, sv, p) => Newer(f, m, sv, p2)
         /\ \A m \in Notes : Newer(e, m, sv, p2) /\ Fits(sv[m], m, p2)
         /\ \A m \in Notes : e.behind = m => Fits(e, m, p2)
<1>1. /\ Types(sr, lt, sv, p) /\ sv \in [Notes -> Edit] /\ p.typed \in [Notes -> Edit]
      /\ \A n \in Notes : p.typed[n].note = n /\ Fits(sv[n], n, p)
  BY DEF Saves, Types, Past
<1>2. \A f \in Edit : f.k \in Nat /\ f.note \in Notes
  BY BoundsAssumption DEF Edit
<1>3. /\ p2.typed[o] = e
      /\ \A m \in Notes \ {o} : p2.typed[m] = p.typed[m]
  BY <1>1
<1>4. \A n \in Notes : p2.typed[n].note = n
  BY <1>1, <1>3
<1>5. ASSUME NEW f \in Edit, NEW m \in Notes, Fits(f, m, p)
      PROVE  Fits(f, m, p2) /\ f.k < e.k
  <2>1. f.k < e.k
    BY <1>1, <1>2, <1>5 DEF Fits
  <2>2. f.k <= p2.typed[f.note].k /\ (f.k = p2.typed[f.note].k => f = p2.typed[f.note])
    <3>1. CASE f.note = o
      BY <1>2, <1>3, <2>1, <3>1
    <3>2. CASE f.note # o
      BY <1>2, <1>3, <1>5, <3>2 DEF Fits
    <3> QED
      BY <3>1, <3>2
  <2> QED
    BY <1>5, <2>1, <2>2 DEF Fits
<1>6. \A f \in Edit, m \in Notes : Newer(f, m, sv, p) => Newer(f, m, sv, p2)
  BY DEF Newer
<1>7. \A m \in Notes : Newer(e, m, sv, p2) /\ Fits(sv[m], m, p2)
  <2>1. \A m \in Notes : Fits(sv[m], m, p2) /\ sv[m].k < e.k
    BY <1>1, <1>5
  <2> QED
    BY <1>1, <1>2, <2>1 DEF Newer
<1>8. \A m \in Notes : e.behind = m => Fits(e, m, p2)
  BY <1>2, <1>3 DEF Fits
<1> QED
  BY <1>4, <1>5, <1>6, <1>7, <1>8

\* The edit e of note o is typed in instance i: an idle saver starts with it,
\* a busy one lets it wait.
TypedIn(sr, lt, p, i, o, e, r, p2) ==
  /\ o \in Notes /\ e \in Edit /\ e.note = o /\ \A m \in Notes : p.typed[m].k < e.k
  /\ p2 \in Past /\ p2.typed = [p.typed EXCEPT ![o] = e] /\ p2.failed = p.failed
  /\ p.clobbered \subseteq p2.clobbered /\ p.overlapped \subseteq p2.overlapped
  /\ r \in Saver
  /\ \/ /\ sr[i].pc = "idle" /\ e.behind = o
        /\ r.pc = "sent" /\ r.note = o /\ r.saving = e /\ r.content = None
        /\ \/ \E j \in Editors \ {i} : sr[j].pc # "idle" /\ sr[j].note = o
           \/ \E q \in lt : q.note = o
           => o \in p2.overlapped
     \/ /\ sr[i].pc # "idle" /\ e.behind = sr[i].note
        /\ r = [sr[i] EXCEPT !.content = e]
        /\ sr[i].content # None /\ sr[i].content.note # o => sr[i].content.k \in p2.clobbered

LEMMA TypingIn ==
  ASSUME NEW sr, NEW lt, NEW sv, NEW p, NEW i \in Editors, NEW o, NEW e, NEW r, NEW p2,
         Saves(sr, lt, sv, p), TypedIn(sr, lt, p, i, o, e, r, p2)
  PROVE  Saves([sr EXCEPT ![i] = r], lt, sv, p2)
<1> DEFINE sr2 == [sr EXCEPT ![i] = r]
<1> USE DEF TypedIn
<1>1. /\ Types(sr, lt, sv, p) /\ sr \in [Editors -> Saver] /\ sv \in [Notes -> Edit] /\ p \in Past
      /\ Held(sr[i]) /\ OnItsWay(sr[i], sv, p) /\ Noticed(sr, lt, p)
      /\ \A q \in lt : q.note \in Notes /\ q.saving \in Edit
      /\ p.typed \in [Notes -> Edit]
  BY DEF Saves, Types, Past
<1>2. /\ sr2 \in [Editors -> Saver] /\ sr2[i] = r
      /\ \A j \in Editors \ {i} : sr2[j] = sr[j]
  BY <1>1
<1>3. e # None /\ e.k > 0 /\ \A f \in Edit : f.k \in Nat
  BY <1>1, EditAssumption, BoundsAssumption DEF Edit
<1>4. /\ \A n \in Notes : p2.typed[n].note = n
      /\ \A f \in Edit, m \in Notes : Fits(f, m, p) => Fits(f, m, p2) /\ f.k < e.k
      /\ \A f \in Edit, m \in Notes : Newer(f, m, sv, p) => Newer(f, m, sv, p2)
      /\ \A m \in Notes : Newer(e, m, sv, p2) /\ Fits(sv[m], m, p2)
      /\ \A m \in Notes : e.behind = m => Fits(e, m, p2)
  <2>1. \A n \in Notes : p2.typed[n].note = n
    BY <1>1 DEF Types
  <2>2. \A f \in Edit, m \in Notes : Fits(f, m, p) => Fits(f, m, p2) /\ f.k < e.k
    BY Typing
  <2>3. \A f \in Edit, m \in Notes : Newer(f, m, sv, p) => Newer(f, m, sv, p2)
    BY Typing
  <2>4. \A m \in Notes : Newer(e, m, sv, p2) /\ Fits(sv[m], m, p2)
    BY Typing
  <2>5. \A m \in Notes : e.behind = m => Fits(e, m, p2)
    BY Typing
  <2> QED
    BY <2>1, <2>2, <2>3, <2>4, <2>5
<1>5. \/ /\ sr[i].pc = "idle" /\ e.behind = o
         /\ r.pc = "sent" /\ r.note = o /\ r.saving = e /\ r.content = None
      \/ /\ sr[i].pc # "idle" /\ e.behind = sr[i].note
         /\ r.pc = sr[i].pc /\ r.note = sr[i].note /\ r.saving = sr[i].saving /\ r.content = e
         /\ sr[i].note \in Notes /\ sr[i].saving \in Edit /\ sr[i].saving.k < e.k
  BY <1>1, <1>4 DEF Saver, Held, OnItsWay
<1> HIDE DEF sr2
<1>6. Types(sr2, lt, sv, p2)
  BY <1>1, <1>2, <1>4 DEF Types
<1>7. Held(r) /\ OnItsWay(r, sv, p2)
  <2>1. Held(r)
    BY <1>1, <1>3, <1>5 DEF Held
  <2>2. OnItsWay(r, sv, p2)
    BY <1>1, <1>3, <1>4, <1>5 DEF OnItsWay
  <2> QED
    BY <2>1, <2>2
<1>8. \A j \in Editors : Held(sr2[j]) /\ OnItsWay(sr2[j], sv, p2)
  <2>1. \A j \in Editors : Held(sr[j]) /\ OnItsWay(sr[j], sv, p)
    BY DEF Saves
  <2>2. \A j \in Editors : /\ sr[j].pc # "idle" => sr[j].note \in Notes /\ sr[j].saving \in Edit
                           /\ sr[j].content # None => sr[j].pc # "idle" /\ sr[j].content \in Edit
    BY <1>1, <2>1 DEF Held, Saver
  <2>3. \A j \in Editors : OnItsWay(sr[j], sv, p2)
    BY <1>4, <2>1, <2>2 DEF OnItsWay
  <2> QED
    BY <1>2, <1>7, <2>1, <2>3
<1>9. \A q \in lt : Fits(q.saving, q.note, p2) /\ Newer(q.saving, q.note, sv, p2)
  BY <1>1, <1>4 DEF Saves
<1>10. Noticed(sr2, lt, p2)
  <2>1. CASE sr[i].pc # "idle"
    <3>1. \A j \in Editors : sr2[j].pc = sr[j].pc /\ sr2[j].note = sr[j].note
      BY <1>2, <1>5, <2>1
    <3> QED
      BY <1>1, <3>1 DEF Noticed
  <2>2. CASE sr[i].pc = "idle"
    <3>1. r.note = o /\ (\/ \E j \in Editors \ {i} : sr[j].pc # "idle" /\ sr[j].note = o
                         \/ \E q \in lt : q.note = o
                         => o \in p2.overlapped)
      BY <2>2
    <3>2. ASSUME NEW j \in Editors, NEW k \in Editors, j # k, sr2[j].pc # "idle",
                 sr2[k].pc # "idle", sr2[j].note = sr2[k].note
          PROVE  sr2[j].note \in p2.overlapped
      <4>1. CASE j = i \/ k = i
        BY <1>2, <3>1, <3>2, <4>1
      <4>2. CASE j # i /\ k # i
        BY <1>1, <1>2, <3>2, <4>2 DEF Noticed
      <4> QED
        BY <4>1, <4>2
    <3>3. ASSUME NEW j \in Editors, NEW q \in lt, sr2[j].pc # "idle", sr2[j].note = q.note
          PROVE  q.note \in p2.overlapped
      BY <1>1, <1>2, <3>1, <3>3 DEF Noticed
    <3> QED
      BY <1>1, <3>2, <3>3 DEF Noticed
  <2> QED
    BY <2>1, <2>2
<1>11. Accounted(p2.typed[o], o, sr2, sv, p2)
  <2>1. p2.typed[o] = e
    BY <1>1
  <2>2. e.behind = o => Waits(sr2[i], e, o)
    BY <1>2, <1>5 DEF Waits
  <2> QED
    BY <2>1, <2>2 DEF Accounted
<1>12. ASSUME NEW m \in Notes \ {o}
       PROVE  Accounted(p2.typed[m], m, sr2, sv, p2)
  <2> DEFINE f == p.typed[m]
  <2>1. p2.typed[m] = f /\ f \in Edit /\ f # None /\ f.note = m /\ Accounted(f, m, sr, sv, p)
    BY <1>1, EditAssumption DEF Saves, Types
  <2> HIDE DEF f
  <2>2. Waits(sr[i], f, m) => Waits(sr2[i], f, m) \/ f.k \in p2.clobbered
    <3>1. CASE sr[i].pc # "idle"
      BY <1>2, <1>5, <2>1, <3>1 DEF Waits
    <3>2. CASE sr[i].pc = "idle"
      BY <1>1, <2>1, <3>2 DEF Waits, Held
    <3> QED
      BY <3>1, <3>2
  <2>3. \A j \in Editors : Waits(sr[j], f, m) => Waits(sr2[j], f, m) \/ f.k \in p2.clobbered
    BY <1>2, <2>2
  <2> QED
    BY <2>1, <2>3 DEF Accounted
<1>13. \A m \in Notes : Accounted(p2.typed[m], m, sr2, sv, p2)
  BY <1>11, <1>12
<1> QED
  BY <1>4, <1>6, <1>8, <1>9, <1>10, <1>13 DEF Saves, sr2

-----------------------------------------------------------------------------
(* The pane. *)

LEMMA Rendered ==
  ASSUME PaneOK, Render, open' \in Notes \cup {None}, loading' \in BOOLEAN,
         fetching' \in Notes \cup {None}, store' \in [Notes -> Edit \cup {None}]
  PROVE  PaneOK'
<1>1. CASE ~Visible(open', loading', store')
  BY <1>1 DEF Render, PaneOK, Pane
<1>2. CASE Visible(open', loading', store')
  <2>1. store'[open'] \in Edit
    BY <1>2 DEF Visible
  <2> QED
    BY <1>2, <2>1 DEF Render, PaneOK, Pane
<1> QED
  BY <1>1, <1>2

LEMMA NavigateInv ==
  ASSUME IInv, Navigate
  PROVE  IInv'
<1>1. UNCHANGED <<saver, late, server, past>> /\ Render
  BY DEF Navigate, Open, Close, LoadDone, Drop
<1>2. /\ open' \in Notes \cup {None} /\ loading' \in BOOLEAN
      /\ fetching' \in Notes \cup {None} /\ store' \in [Notes -> Edit \cup {None}]
  <2>1. /\ open \in Notes \cup {None} /\ loading \in BOOLEAN
        /\ fetching \in Notes \cup {None} /\ store \in [Notes -> Edit \cup {None}]
        /\ server \in [Notes -> Edit]
    BY DEF IInv, PaneOK, Saves, Types
  <2>2. ASSUME NEW n \in Notes, Open(n)
        PROVE  <1>2!:
    BY <2>1, <2>2 DEF Open
  <2>3. ASSUME NEW n \in Notes, Drop(n)
        PROVE  <1>2!:
    BY <2>1, <2>3 DEF Drop, pane
  <2>4. CASE Close
    BY <2>1, <2>4 DEF Close
  <2>5. CASE LoadDone
    BY <2>1, <2>5 DEF LoadDone
  <2> QED
    BY <2>2, <2>3, <2>4, <2>5 DEF Navigate
<1> QED
  BY <1>1, <1>2, Rendered DEF IInv

-----------------------------------------------------------------------------
(* The saver. *)

\* What flush leaves in the saver and in the store.
Started(r, n, e, s) ==
  /\ r \in Saver /\ r.content = None
  /\ r.pc = "idle" <=> e = None \/ s[n] = None
  /\ r.pc # "idle" => r.pc = "sent" /\ r.note = n /\ r.saving = e

LEMMA Flushing ==
  ASSUME NEW i \in Editors, NEW n \in Notes, NEW e \in Edit \cup {None},
         NEW s \in [Notes -> Edit \cup {None}], Flush(i, n, e, s), saver \in [Editors -> Saver]
  PROVE  /\ store' \in [Notes -> Edit \cup {None}]
         /\ \A m \in Notes : store'[m] = None <=> s[m] = None
         /\ \E r : saver' = [saver EXCEPT ![i] = r] /\ Started(r, n, e, s)
<1>1. store' \in [Notes -> Edit \cup {None}] /\ \A m \in Notes : store'[m] = None <=> s[m] = None
  BY EditAssumption DEF Flush
<1>2. CASE e = None \/ s[n] = None
  <2>1. saver' = [saver EXCEPT ![i] = IdleSaver] /\ Started(IdleSaver, n, e, s)
    BY <1>2 DEF Flush, Started, IdleSaver, Saver
  <2> QED
    BY <1>1, <2>1
<1>3. CASE ~ (e = None \/ s[n] = None)
  <2> DEFINE r == [content |-> None, pc |-> "sent", note |-> n, saving |-> e, prev |-> s[n]]
  <2>1. saver' = [saver EXCEPT ![i] = r] /\ Started(r, n, e, s)
    BY <1>3 DEF Flush, Started, Saver
  <2> QED
    BY <1>1, <2>1
<1> QED
  BY <1>2, <1>3

LEMMA TypeInv ==
  ASSUME IInv, Type
  PROVE  IInv'
<1> DEFINE i == mounted
           o == open
           e == [note |-> o, k |-> EditCount + 1, behind |-> IF InFlight(i) THEN saver[i].note ELSE o]
<1>1. /\ i \in Editors /\ o \in Notes /\ store[o] # None /\ EditCount < MaxEdits
      /\ saver \in [Editors -> Saver] /\ past \in Past /\ store \in [Notes -> Edit \cup {None}]
      /\ Saves(saver, late, server, past)
      /\ \A n \in Notes : past.typed[n].note = n
  BY DEF IInv, PaneOK, Pane, Visible, Type, Saves, Types
<1>2. EditCount \in 0 .. MaxEdits /\ \A n \in Notes : past.typed[n].k <= EditCount
  BY <1>1, EditsAreCounted
<1>3. InFlight(i) => saver[i].note \in Notes
  BY <1>1 DEF Saves, Held, InFlight
<1>4. /\ e \in Edit /\ e # None /\ e.note = o
      /\ e.behind = IF InFlight(i) THEN saver[i].note ELSE o
      /\ \A n \in Notes : past.typed[n].k < e.k
  <2>1. EditCount + 1 \in 0 .. MaxEdits
    BY <1>1, <1>2, BoundsAssumption
  <2>2. e \in Edit
    BY <1>1, <1>3, <2>1 DEF Edit
  <2>3. \A n \in Notes : past.typed[n].k \in Nat
    BY <1>1, BoundsAssumption DEF Past, Edit
  <2> QED
    BY <1>2, <2>2, <2>3, BoundsAssumption, EditAssumption
<1>5. /\ screen' = e /\ UNCHANGED <<open, loading, fetching, mounted, late, server>>
      /\ \/ InFlight(i) /\ saver' = [saver EXCEPT ![i].content = e] /\ UNCHANGED store
         \/ ~InFlight(i) /\ Flush(i, o, e, store)
      /\ past' = [past EXCEPT
           !.typed[o] = e,
           !.clobbered = IF saver[i].content # None /\ saver[i].content.note # o
                         THEN @ \cup {saver[i].content.k} ELSE @,
           !.overlapped = @ \cup Crossing(i, e.behind, e)]
  BY DEF Type, pane
<1> HIDE DEF e
<1>6. /\ past' \in Past /\ past'.typed = [past.typed EXCEPT ![o] = e]
      /\ past'.failed = past.failed
      /\ past'.clobbered = IF saver[i].content # None /\ saver[i].content.note # o
                           THEN past.clobbered \cup {saver[i].content.k} ELSE past.clobbered
      /\ past'.overlapped = past.overlapped \cup Crossing(i, e.behind, e)
  <2>1. saver[i].content # None => saver[i].content.k \in 1 .. MaxEdits
    BY <1>1, BoundsAssumption DEF Saves, Held, Saver, Edit
  <2>2. Crossing(i, e.behind, e) \subseteq Notes
    BY <1>1, <1>3, <1>4 DEF Crossing
  <2> QED
    BY <1>1, <1>4, <1>5, <2>1, <2>2 DEF Past
<1>7. past.clobbered \subseteq past'.clobbered /\ past.overlapped \subseteq past'.overlapped
  BY <1>6
<1>8. /\ store' \in [Notes -> Edit \cup {None}] /\ \A m \in Notes : store'[m] = None <=> store[m] = None
      /\ \E r \in Saver :
           /\ saver' = [saver EXCEPT ![i] = r]
           /\ \/ /\ saver[i].pc = "idle" /\ e.behind = o
                 /\ r.pc = "sent" /\ r.note = o /\ r.saving = e /\ r.content = None
                 /\ \/ \E j \in Editors \ {i} : saver[j].pc # "idle" /\ saver[j].note = o
                    \/ \E q \in late : q.note = o
                    => o \in past'.overlapped
              \/ /\ saver[i].pc # "idle" /\ e.behind = saver[i].note
                 /\ r = [saver[i] EXCEPT !.content = e]
                 /\ saver[i].content # None /\ saver[i].content.note # o =>
                      saver[i].content.k \in past'.clobbered
  <2>1. CASE InFlight(i)
    <3>1. [saver[i] EXCEPT !.content = e] \in Saver
      BY <1>1, <1>4 DEF Saver
    <3> QED
      BY <1>1, <1>4, <1>5, <1>6, <2>1, <3>1 DEF InFlight
  <2>2. CASE ~InFlight(i)
    <3>1. PICK r : saver' = [saver EXCEPT ![i] = r] /\ Started(r, o, e, store)
      BY <1>1, <1>4, <1>5, <2>2, Flushing
    <3>2. /\ store' \in [Notes -> Edit \cup {None}]
          /\ \A m \in Notes : store'[m] = None <=> store[m] = None
      BY <1>1, <1>4, <1>5, <2>2, Flushing
    <3>3. \/ \E j \in Editors \ {i} : saver[j].pc # "idle" /\ saver[j].note = o
          \/ \E q \in late : q.note = o
          => o \in past'.overlapped
      <4> SUFFICES ASSUME \/ \E j \in Editors \ {i} : saver[j].pc # "idle" /\ saver[j].note = o
                          \/ \E q \in late : q.note = o
                   PROVE  o \in past'.overlapped
        OBVIOUS
      <4>1. o \in Crossing(i, o, e)
        BY <1>4, <1>5 DEF Crossing, NotAlone, InFlight
      <4> QED
        BY <1>4, <1>6, <2>2, <4>1
    <3> QED
      BY <1>1, <1>4, <2>2, <3>1, <3>2, <3>3 DEF Started, InFlight
  <2> QED
    BY <2>1, <2>2
<1>9. PaneOK'
  BY <1>1, <1>4, <1>5, <1>8 DEF IInv, PaneOK, Pane, Visible
<1>10. Saves(saver', late, server, past')
  <2> DEFINE p2 == past'
             idle(r) ==
               /\ saver[i].pc = "idle" /\ e.behind = o
               /\ r.pc = "sent" /\ r.note = o /\ r.saving = e /\ r.content = None
               /\ \/ \E j \in Editors \ {i} : saver[j].pc # "idle" /\ saver[j].note = o
                  \/ \E q \in late : q.note = o
                  => o \in p2.overlapped
             busy(r) ==
               /\ saver[i].pc # "idle" /\ e.behind = saver[i].note
               /\ r = [saver[i] EXCEPT !.content = e]
               /\ saver[i].content # None /\ saver[i].content.note # o =>
                    saver[i].content.k \in p2.clobbered
  <2>1. PICK r \in Saver : saver' = [saver EXCEPT ![i] = r] /\ (idle(r) \/ busy(r))
    BY <1>8
  <2>2. /\ p2 \in Past /\ p2.typed = [past.typed EXCEPT ![o] = e] /\ p2.failed = past.failed
        /\ past.clobbered \subseteq p2.clobbered /\ past.overlapped \subseteq p2.overlapped
    BY <1>6, <1>7
  <2> HIDE DEF p2
  <2>3. /\ i \in Editors /\ o \in Notes /\ e \in Edit /\ e.note = o
        /\ \A m \in Notes : past.typed[m].k < e.k
        /\ Saves(saver, late, server, past)
    BY <1>1, <1>4
  <2> HIDE DEF i, o
  <2>4. Saves([saver EXCEPT ![i] = r], late, server, p2)
    <3>1. TypedIn(saver, late, past, i, o, e, r, p2)
      BY <2>1, <2>2, <2>3 DEF TypedIn
    <3> QED
      BY <2>3, <3>1, TypingIn
  <2> QED
    BY <2>1, <2>4 DEF p2, i
<1> QED
  BY <1>5, <1>9, <1>10 DEF IInv

LEMMA ApplyInv ==
  ASSUME IInv, NEW i \in Editors, Apply(i)
  PROVE  IInv'
<1>1. Saves([saver EXCEPT ![i].pc = "applied"], late,
            [server EXCEPT ![saver[i].note] = saver[i].saving], past)
  BY Applying DEF IInv, Apply
<1> QED
  BY <1>1 DEF IInv, Apply, PaneOK, Pane, pane, view

LEMMA ApplyLateInv ==
  ASSUME IInv, NEW q \in late, ApplyLate(q)
  PROVE  IInv'
<1>1. Saves(saver, late \ {q}, [server EXCEPT ![q.note] = q.saving], past)
  BY ApplyingLate DEF IInv
<1> QED
  BY <1>1 DEF IInv, ApplyLate, PaneOK, Pane, pane, view

LEMMA GoOnInv ==
  ASSUME IInv, NEW i \in Editors, InFlight(i),
         NEW s \in [Notes -> Edit \cup {None}], NEW lost \in SUBSET {saver[i].saving.k},
         saver[i].pc = "sent" => lost # {},
         late' \in {late, late \cup {[note |-> saver[i].note, saving |-> saver[i].saving]}},
         GoOn(i, s, lost)
  PROVE  IInv'
<1> DEFINE n == saver[i].note
           c == saver[i].content
<1>1. /\ n \in Notes /\ c \in Edit \cup {None} /\ saver[i].saving \in Edit
      /\ saver[i].saving.k > 0 /\ (c # None => c.k > 0)
      /\ saver \in [Editors -> Saver] /\ past \in Past /\ Saves(saver, late, server, past)
      /\ open \in Notes \cup {None} /\ loading \in BOOLEAN /\ fetching \in Notes \cup {None}
  BY BoundsAssumption DEF IInv, PaneOK, Saves, Types, Held, Saver, InFlight, Edit
<1>2. /\ Flush(i, n, c, s) /\ UNCHANGED <<open, loading, fetching, server>> /\ Render
      /\ past' = [past EXCEPT !.failed = @ \cup lost \cup Unsaved(n, c, s),
                              !.overlapped = @ \cup Crossing(i, n, c)]
  BY DEF GoOn, NoteId, Content, pane
<1> HIDE DEF n, c
<1>3. store' \in [Notes -> Edit \cup {None}]
  BY <1>1, <1>2, Flushing
<1>4. PICK r : saver' = [saver EXCEPT ![i] = r] /\ Started(r, n, c, s)
  BY <1>1, <1>2, Flushing
<1>5. /\ Unsaved(n, c, s) \subseteq 1 .. MaxEdits /\ lost \subseteq 1 .. MaxEdits
      /\ Crossing(i, n, c) \subseteq Notes
  BY <1>1, BoundsAssumption DEF Unsaved, Crossing, Edit
<1> DEFINE p2 == past'
           lt2 == late'
<1>6. /\ p2 \in Past /\ p2.typed = past.typed /\ p2.clobbered = past.clobbered
      /\ p2.failed = past.failed \cup lost \cup Unsaved(n, c, s)
      /\ p2.overlapped = past.overlapped \cup Crossing(i, n, c)
  BY <1>1, <1>2, <1>5 DEF Past
<1>7. c # None /\ s[n] = None => c.k \in p2.failed
  BY <1>6 DEF Unsaved
<1>8. saver[i].pc = "sent" => saver[i].saving.k \in p2.failed
  BY <1>6
<1>9. /\ c # None
      /\ \/ \E j \in Editors \ {i} : saver[j].pc # "idle" /\ saver[j].note = n
         \/ \E q \in lt2 : q.note = n
      => n \in p2.overlapped
  BY <1>6 DEF Crossing, NotAlone, InFlight
<1>10. lt2 \in {late, late \cup {[note |-> saver[i].note, saving |-> saver[i].saving]}}
  OBVIOUS
<1> HIDE DEF p2, lt2
<1>11. Saves([saver EXCEPT ![i] = r], lt2, server, p2)
  <2>1. /\ r \in Saver /\ r.content = None
        /\ r.pc # "idle" => saver[i].content # None /\ r.pc = "sent"
                            /\ r.note = saver[i].note /\ r.saving = saver[i].content
        /\ saver[i].content # None /\ r.pc = "idle" => saver[i].content.k \in p2.failed
    BY <1>4, <1>7 DEF Started, n, c
  <2>2. /\ r.pc # "idle"
        /\ \/ \E j \in Editors \ {i} : saver[j].pc # "idle" /\ saver[j].note = saver[i].note
           \/ \E q \in lt2 : q.note = saver[i].note
        => saver[i].note \in p2.overlapped
    BY <1>4, <1>9 DEF Started, n
  <2>3. /\ past.failed \subseteq p2.failed /\ past.overlapped \subseteq p2.overlapped
        /\ saver[i].pc # "idle"
    BY <1>6 DEF InFlight
  <2>4. WentOn(saver, late, past, i, r, lt2, p2)
    BY <1>1, <1>6, <1>8, <1>10, <2>1, <2>2, <2>3 DEF WentOn
  <2> QED
    BY <1>1, <2>4, GoingOn
<1>12. PaneOK'
  <2>1. PaneOK
    BY DEF IInv
  <2> QED
    BY <1>1, <1>2, <1>3, <2>1, Rendered
<1> QED
  BY <1>2, <1>4, <1>11, <1>12 DEF IInv, p2, lt2

LEMMA AnswerInv ==
  ASSUME IInv, NEW i \in Editors, Answer(i)
  PROVE  IInv'
<1>1. /\ saver \in [Editors -> Saver] /\ store \in [Notes -> Edit \cup {None}]
      /\ InFlight(i) => saver[i].note \in Notes /\ saver[i].saving \in Edit
  BY DEF IInv, PaneOK, Saves, Types, Held, InFlight
<1>2. CASE Apply(i)
  BY <1>2, ApplyInv
<1>3. ASSUME NEW b \in BOOLEAN, SaveDone(i, b)
      PROVE  IInv'
  <2> DEFINE s == [store EXCEPT ![saver[i].note] = IF b THEN saver[i].saving ELSE None]
  <2>1. saver[i].pc = "applied" /\ InFlight(i) /\ late' = late /\ GoOn(i, s, {})
    BY <1>3 DEF SaveDone, InFlight
  <2>2. s \in [Notes -> Edit \cup {None}]
    BY <1>1, <2>1
  <2> HIDE DEF s
  <2> QED
    BY <2>1, <2>2, GoOnInv
<1>4. CASE SaveFailed(i)
  <2> DEFINE s == [store EXCEPT ![saver[i].note] = saver[i].prev]
             lost == IF saver[i].pc = "sent" THEN {saver[i].saving.k} ELSE {}
  <2>1. /\ InFlight(i) /\ GoOn(i, s, lost)
        /\ late' \in {late, late \cup {[note |-> saver[i].note, saving |-> saver[i].saving]}}
    BY <1>4 DEF SaveFailed
  <2>2. s \in [Notes -> Edit \cup {None}]
    BY <1>1, <2>1 DEF Saver
  <2>3. lost \in SUBSET {saver[i].saving.k} /\ (saver[i].pc = "sent" => lost # {})
    OBVIOUS
  <2> HIDE DEF s, lost
  <2> QED
    BY <2>1, <2>2, <2>3, GoOnInv
<1> QED
  BY <1>2, <1>3, <1>4 DEF Answer

LEMMA InitInv ==
  ASSUME Init
  PROVE  IInv
<1>1. \A n \in Notes : FirstBody(n) \in Edit /\ FirstBody(n).note = n /\ FirstBody(n).k = 0
                       /\ FirstBody(n).behind = n
  BY BoundsAssumption DEF FirstBody, Edit
<1>2. IdleSaver \in Saver /\ IdleSaver.pc = "idle" /\ IdleSaver.content = None
  BY DEF IdleSaver, Saver
<1>3. PaneOK
  BY <1>1 DEF Init, PaneOK, Pane
<1>4. Types(saver, late, server, past)
  BY <1>1, <1>2 DEF Init, Types, Past
<1>5. \A i \in Editors : Held(saver[i]) /\ OnItsWay(saver[i], server, past)
  BY <1>2 DEF Init, Held, OnItsWay
<1>6. \A n \in Notes : past.typed[n] = FirstBody(n) /\ server[n] = FirstBody(n)
  BY DEF Init
<1>7. \A n \in Notes : /\ Fits(server[n], n, past)
                       /\ Accounted(past.typed[n], n, saver, server, past)
  BY <1>1, <1>6 DEF Fits, Accounted
<1>8. late = {} /\ Noticed(saver, late, past)
  BY <1>2 DEF Init, Noticed
<1> QED
  BY <1>3, <1>4, <1>5, <1>7, <1>8 DEF IInv, Saves

-----------------------------------------------------------------------------
(* The theorems. *)

\* The inductive invariant holds.
THEOREM InvariantHolds == Spec => []IInv
<1>1. Init => IInv
  BY InitInv
<1>2. IInv /\ [Next]_vars => IInv'
  <2> SUFFICES ASSUME IInv, [Next]_vars
               PROVE  IInv'
    OBVIOUS
  <2>1. CASE Navigate
    BY <2>1, NavigateInv
  <2>2. CASE Type
    BY <2>2, TypeInv
  <2>3. ASSUME NEW i \in Editors, Answer(i)
        PROVE  IInv'
    BY <2>3, AnswerInv
  <2>4. ASSUME NEW q \in late, ApplyLate(q)
        PROVE  IInv'
    BY <2>4, ApplyLateInv
  <2>5. CASE UNCHANGED vars
    BY <2>5 DEF vars, pane, view, IInv, PaneOK, Pane
  <2> QED
    BY <2>1, <2>2, <2>3, <2>4, <2>5 DEF Next
<1> QED
  BY <1>1, <1>2, PTL DEF Spec

\* The types are right, and what was typed waits only behind a save under way.
THEOREM NothingWaitsAlone == Spec => []WellFormed
<1>1. IInv => WellFormed
  BY DEF IInv, PaneOK, Saves, Types, Held, WellFormed, TypeOK, InFlight
<1> QED
  BY <1>1, InvariantHolds, PTL

\* For any number of notes, editors and edits: the text of one note becomes the
\* body of another only if it was typed while that other was being saved.
THEOREM TextIsMisfiledBehindASave == Spec => []MisfiledOnlyBehindASave
<1>1. IInv => MisfiledOnlyBehindASave
  BY DEF IInv, Saves, Fits, MisfiledOnlyBehindASave
<1> QED
  BY <1>1, InvariantHolds, PTL

\* When nothing is being saved, an edit that the API lacks is lost in one of
\* the known ways.
THEOREM LostEditsAreExplained == Spec => []LostEditExplained
<1>1. ASSUME IInv, AtRest, NEW n \in Notes, server[n] # past.typed[n]
      PROVE  LET e == past.typed[n]
             IN \/ e.k \in past.failed \cup past.clobbered
                \/ e.behind # n
                \/ server[n].note # n
                \/ n \in past.overlapped
  <2> DEFINE e == past.typed[n]
  <2>1. e \in Edit /\ e.note = n /\ server[n] \in Edit
    BY <1>1 DEF IInv, Saves, Types, Past
  <2>2. Accounted(e, n, saver, server, past) /\ Fits(server[n], n, past)
    BY <1>1 DEF IInv, Saves
  <2>3. ASSUME NEW i \in Editors
        PROVE  ~Waits(saver[i], e, n)
    <3>1. saver[i].pc = "idle" /\ saver[i].content = None
      BY <1>1 DEF AtRest, InFlight, IInv, Saves, Held
    <3> QED
      BY <2>1, <3>1, EditAssumption DEF Waits
  <2>4. server[n].note = n /\ server[n].k >= e.k => server[n] = e
    BY <2>1, <2>2, BoundsAssumption DEF Fits, Edit
  <2> QED
    BY <1>1, <2>2, <2>3, <2>4 DEF Accounted
<1>2. IInv => LostEditExplained
  BY <1>1 DEF LostEditExplained
<1> QED
  BY <1>2, InvariantHolds, PTL

\* The API's copy of a note goes back to an earlier edit only if two saves of
\* it crossed.
THEOREM SavesStayInOrder == Spec => SavesInOrder
<1> DEFINE A == \A n \in Notes : server'[n].k < server[n].k => n \in past.overlapped
<1>1. ASSUME IInv, [Next]_vars, NEW n \in Notes, server'[n].k < server[n].k
      PROVE  n \in past.overlapped
  <2>1. server \in [Notes -> Edit] /\ \A f \in Edit : f.k \in Nat
    BY <1>1, BoundsAssumption DEF IInv, Saves, Types, Edit
  <2>2. ASSUME server' = server
        PROVE  FALSE
    BY <1>1, <2>1, <2>2
  <2>3. ASSUME NEW i \in Editors, Apply(i)
        PROVE  n \in past.overlapped
    <3>1. /\ saver[i].note \in Notes /\ saver[i].saving \in Edit
          /\ Newer(saver[i].saving, saver[i].note, server, past)
      BY <1>1, <2>3 DEF IInv, Saves, Held, OnItsWay, Apply
    <3>2. server' = [server EXCEPT ![saver[i].note] = saver[i].saving]
      BY <2>3 DEF Apply
    <3>3. n = saver[i].note /\ server'[n] = saver[i].saving
      BY <1>1, <2>1, <3>1, <3>2
    <3> QED
      BY <1>1, <2>1, <3>1, <3>3 DEF Newer
  <2>4. ASSUME NEW q \in late, ApplyLate(q)
        PROVE  n \in past.overlapped
    <3>1. q.note \in Notes /\ q.saving \in Edit /\ Newer(q.saving, q.note, server, past)
      BY <1>1 DEF IInv, Saves, Types
    <3>2. server' = [server EXCEPT ![q.note] = q.saving]
      BY <2>4 DEF ApplyLate
    <3>3. n = q.note /\ server'[n] = q.saving
      BY <1>1, <2>1, <3>1, <3>2
    <3> QED
      BY <1>1, <2>1, <3>1, <3>3 DEF Newer
  <2> QED
    BY <1>1, <2>2, <2>3, <2>4
    DEF Next, Navigate, Open, Drop, Close, LoadDone, Type, Answer, SaveDone, SaveFailed, GoOn,
        vars, pane
<1>2. IInv /\ [Next]_vars => [A]_vars
  BY <1>1
<1> QED
  BY <1>2, InvariantHolds, PTL DEF Spec, SavesInOrder
=============================================================================
