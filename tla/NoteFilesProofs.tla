--------------------------- MODULE NoteFilesProofs ---------------------------
(***************************************************************************)
(* Safety of NoteFiles for every set of users, notes, keys and requests.   *)
(***************************************************************************)
EXTENDS NoteFiles, TLAPS

(* The locals of a request keep their types. *)

LEMMA StartType ==
  ASSUME NEW op \in AllOps, NEW u \in Users \cup {None}, NEW n \in NoteIds \cup {None}
  PROVE  Start(op, u, n) \in Request
  BY DEF Start, Idle, Request, Pcs, Outcomes

LEMMA RespondType ==
  ASSUME NEW r \in Requests, NEW locals \in Request, NEW outcome \in Outcomes,
         req \in [Requests -> Request], Respond(r, locals, outcome)
  PROVE  req' \in [Requests -> Request]
<1>1. [locals EXCEPT !.pc = "done", !.outcome = outcome] \in Request
  BY DEF Request, Pcs
<1> QED
  BY <1>1 DEF Respond

LEMMA ContinueType ==
  ASSUME NEW r \in Requests, NEW locals \in Request, NEW pc \in Pcs,
         req \in [Requests -> Request], Continue(r, locals, pc)
  PROVE  req' \in [Requests -> Request]
<1>1. [locals EXCEPT !.pc = pc] \in Request
  BY DEF Request, Pcs
<1> QED
  BY <1>1 DEF Continue

LEMMA InitType == Init => TypeOK
  BY SeedAssumption DEF Init, TypeOK, Idle, Request, Pcs, Outcomes, AllOps

LEMMA SentType ==
  ASSUME TypeOK, NEW r \in Requests
  PROVE  req[r] \in Request
  BY DEF TypeOK

LEMMA CascadeType ==
  ASSUME TypeOK, NEW N, NEW K
  PROVE  /\ WithoutNotes(notes, N) \in [NoteIds -> NoteRow]
         /\ WithoutFiles(files, K) \in [Keys -> FileRow]
<1>1. ASSUME NEW n \in NoteIds
      PROVE  [notes[n] EXCEPT !.state = "gone"] \in NoteRow
  BY DEF TypeOK, NoteRow
<1>2. ASSUME NEW k \in Keys
      PROVE  [files[k] EXCEPT !.state = "gone"] \in FileRow
  BY DEF TypeOK, FileRow
<1> QED
  BY <1>1, <1>2 DEF TypeOK, WithoutNotes, WithoutFiles

LEMMA BeginType ==
  ASSUME TypeOK, NEW r \in Requests, Begin(r)
  PROVE  TypeOK'
<1> USE DEF AllOps, Pcs, Outcomes
<1>1. ASSUME NEW u \in Users, NEW n \in NoteIds, CreateNote(r, u, n)
      PROVE  TypeOK'
  <2>1. req' \in [Requests -> Request]
    BY <1>1, StartType, RespondType DEF CreateNote, TypeOK
  <2>2. notes' \in [NoteIds -> NoteRow]
    BY <1>1 DEF CreateNote, TypeOK, NoteRow
  <2> QED
    BY <1>1, <2>1, <2>2 DEF CreateNote, TypeOK
<1>2. ASSUME NEW u \in Users, NEW n \in NoteIds, NEW s \in {"active", "trashed"},
             PatchNote(r, u, n, s)
      PROVE  TypeOK'
  <2>1. Start("patch", u, n) \in Request
    BY StartType
  <2>2. ASSUME NEW b \in BOOLEAN PROVE [Start("patch", u, n) EXCEPT !.raced = b] \in Request
    BY <2>1 DEF Request
  <2>3. HardDeleting(n, {"rows", "blobs"}) \in BOOLEAN
    BY DEF HardDeleting
  <2>4. req' \in [Requests -> Request]
    BY <1>2, <2>1, <2>2, <2>3, RespondType DEF PatchNote, TypeOK
  <2>5. notes' \in [NoteIds -> NoteRow]
    BY <1>2 DEF PatchNote, TypeOK, NoteRow
  <2> QED
    BY <1>2, <2>4, <2>5 DEF PatchNote, TypeOK
<1>3. ASSUME NEW u \in Users, NEW n \in NoteIds, DeleteDialog(r, u, n)
      PROVE  TypeOK'
  <2>1. [Start("delete", u, n) EXCEPT !.shown = notes[n].state] \in Request
    BY <1>3, StartType DEF DeleteDialog, FindNote, NoteExists, Request
  <2> QED
    BY <1>3, <2>1, ContinueType DEF DeleteDialog, TypeOK
<1>4. ASSUME NEW u \in Users, NEW n \in NoteIds, NEW k \in Keys, UploadFind(r, u, n, k)
      PROVE  TypeOK'
  <2>1. Start("upload", u, n) \in Request
    BY StartType
  <2>2. [Start("upload", u, n) EXCEPT !.key = k] \in Request
    BY <2>1 DEF Request
  <2> QED
    BY <1>4, <2>1, <2>2, ContinueType, RespondType DEF UploadFind, TypeOK
<1>5. ASSUME NEW u \in Users, NEW n \in NoteIds, NEW f \in Keys, CloneSource(r, u, f, n)
      PROVE  TypeOK'
  <2>1. [Start("clone", u, n) EXCEPT !.src = f] \in Request
    BY StartType DEF Request
  <2> QED
    BY <1>5, <2>1, ContinueType, RespondType DEF CloneSource, TypeOK
<1>6. ASSUME NEW u \in Users, NEW f \in Keys, FetchFind(r, u, f)
      PROVE  TypeOK'
  <2>1. [Start("fetch", u, None) EXCEPT !.src = f] \in Request
    BY StartType DEF Request
  <2> QED
    BY <1>6, <2>1, ContinueType, RespondType DEF FetchFind, TypeOK
<1>7. ASSUME NEW u \in Users, DeleteAccount(r, u)
      PROVE  TypeOK'
  <2>1. req' \in [Requests -> Request]
    BY <1>7, StartType, RespondType DEF DeleteAccount, TypeOK
  <2> QED
    BY <1>7, <2>1, CascadeType DEF DeleteAccount, TypeOK
<1> QED
  BY <1>1, <1>2, <1>3, <1>4, <1>5, <1>6, <1>7 DEF Begin

LEMMA ServeType ==
  ASSUME TypeOK, NEW r \in Requests, LocalOK(r), Serve(r)
  PROVE  TypeOK'
<1> USE DEF AllOps, Pcs, Outcomes
<1>0. req[r] \in Request
  BY SentType
<1>1. CASE DeleteFind(r)
  BY <1>0, <1>1, ContinueType, RespondType DEF DeleteFind, TypeOK
<1>2. CASE DeleteSoft(r)
  <2>1. req' \in [Requests -> Request]
    BY <1>0, <1>2, RespondType DEF DeleteSoft, DeleteAnswer, TypeOK
  <2>2. notes' \in [NoteIds -> NoteRow]
    BY <1>2 DEF DeleteSoft, FindNote, TypeOK, NoteRow
  <2> QED
    BY <1>2, <2>1, <2>2 DEF DeleteSoft, TypeOK
<1>3. CASE DeleteRows(r)
  <2> DEFINE K == FilesOfNote(req[r].user, req[r].note)
  <2>1. [req[r] EXCEPT !.todo = K, !.purged = @ \cup K] \in Request
    BY <1>0 DEF Request, FilesOfNote
  <2> QED
    BY <1>3, <2>1, ContinueType, CascadeType DEF DeleteRows, TypeOK
<1>4. ASSUME NEW k \in Keys, DeleteBlob(r, k)
      PROVE  TypeOK'
  <2>1. [req[r] EXCEPT !.todo = @ \ {k}] \in Request
    BY <1>0 DEF Request
  <2> QED
    BY <1>4, <2>1, ContinueType DEF DeleteBlob, TypeOK
<1>5. CASE DeleteDrop(r)
  <2>1. req' \in [Requests -> Request]
    BY <1>0, <1>5, RespondType DEF DeleteDrop, DeleteAnswer, TypeOK
  <2> QED
    BY <1>5, <2>1, CascadeType DEF DeleteDrop, TypeOK
<1>6. CASE UploadPut(r)
  <2>1. req' \in [Requests -> Request]
    BY <1>0, <1>6, ContinueType, RespondType DEF UploadPut, TypeOK
  <2>2. req[r].key \in Keys
    BY <1>6 DEF UploadPut, At, LocalOK, Writing
  <2> QED
    BY <1>6, <2>1, <2>2 DEF UploadPut, TypeOK
<1>7. ASSUME NEW k \in Keys, CloneTarget(r, k)
      PROVE  TypeOK'
  <2>1. [req[r] EXCEPT !.key = k] \in Request
    BY <1>0 DEF Request
  <2> QED
    BY <1>0, <1>7, <2>1, ContinueType, RespondType DEF CloneTarget, TypeOK
<1>8. CASE CloneCopy(r)
  <2>1. req' \in [Requests -> Request]
    BY <1>0, <1>8, ContinueType, RespondType DEF CloneCopy, TypeOK
  <2>2. req[r].key \in Keys
    BY <1>8 DEF CloneCopy, At, LocalOK, Writing
  <2> QED
    BY <1>8, <2>1, <2>2 DEF CloneCopy, TypeOK
<1>9. CASE InsertFile(r)
  <2>1. req[r].user \in Users /\ req[r].note \in NoteIds /\ req[r].key \in Keys
    BY <1>9 DEF InsertFile, LocalOK, Writing
  <2>2. [state |-> "row", owner |-> req[r].user, note |-> req[r].note] \in FileRow
    BY <2>1 DEF FileRow
  <2>3. ASSUME NEW b \in BOOLEAN PROVE [req[r] EXCEPT !.raced = b] \in Request
    BY <1>0 DEF Request
  <2>4. HardDeleting(req[r].note, {"blobs"}) \in BOOLEAN
    BY DEF HardDeleting
  <2>5. req' \in [Requests -> Request]
    BY <1>0, <1>9, <2>3, <2>4, RespondType DEF InsertFile, TypeOK
  <2>6. files' \in [Keys -> FileRow]
    BY <1>9, <2>1, <2>2 DEF InsertFile, TypeOK
  <2> QED
    BY <1>9, <2>5, <2>6 DEF InsertFile, TypeOK
<1>10. CASE FetchBlob(r)
  BY <1>0, <1>10, RespondType DEF FetchBlob, TypeOK
<1> QED
  BY <1>1, <1>2, <1>3, <1>4, <1>5, <1>6, <1>7, <1>8, <1>9, <1>10 DEF Serve

LEMMA RepeatType ==
  ASSUME NEW locals \in Request, NEW t \in Nat
  PROVE  [locals EXCEPT !.tries = t, !.outcome = "none"] \in Request
  BY DEF Request, Outcomes

LEMMA RestType ==
  ASSUME TypeOK, NEW r \in Requests, RetryDelete(r) \/ Crash(r)
  PROVE  TypeOK'
<1> USE DEF AllOps, Pcs, Outcomes
<1>0. req[r] \in Request
  BY SentType
<1>1. CASE RetryDelete(r)
  <2>0. req[r].tries + 1 \in Nat
    BY <1>0 DEF Request
  <2>1. [req[r] EXCEPT !.tries = req[r].tries + 1, !.outcome = "none"] \in Request
    BY <1>0, <2>0, RepeatType
  <2> QED
    BY <1>1, <2>1, ContinueType DEF RetryDelete, TypeOK
<1>2. CASE Crash(r)
  BY <1>0, <1>2, RespondType DEF Crash, TypeOK
<1> QED
  BY <1>1, <1>2

-----------------------------------------------------------------------------
(***************************************************************************)
(* What a step of request r does to everybody else's part of the state.    *)
(***************************************************************************)
Alone(r) ==
  /\ \A s \in Requests \ {r} : req'[s] = req[s]
  /\ req'[r].key \in {None, req[r].key} \/ (req'[r].key \in Keys /\ FreshKey(req'[r].key))
NotesFrame ==
  \A n \in NoteIds :
    notes[n].state # "fresh" => notes'[n].state # "fresh" /\ notes'[n].owner = notes[n].owner
FilesFrame(r) ==
  \A k \in Keys :
    /\ files[k].state = "fresh" =>
         files'[k].state = "fresh" \/ (req[r].pc = "row" /\ k = req[r].key)
    /\ files[k].state = "gone" => files'[k].state = "gone"
    /\ files'[k].state = "row" =>
         /\ NoteExists(notes', files'[k].note)
         /\ \/ files'[k] = files[k]
            \/ /\ req[r].pc = "row" /\ k = req[r].key
               /\ files'[k].note = req[r].note /\ files'[k].owner = req[r].user
    /\ k \in blobs /\ k \notin blobs' => files[k].state = "gone"
Frame(r) == Alone(r) /\ NotesFrame /\ FilesFrame(r)

(***************************************************************************)
(* With its own locals in order, such a step preserves the invariant.      *)
(***************************************************************************)
LEMMA FramePreserves ==
  ASSUME IInv, TypeOK', NEW r \in Requests, Frame(r), LocalOK(r)'
  PROVE  IInv'
<1>1. RowHasBlob'
  BY DEF IInv, Frame, Alone, NotesFrame, FilesFrame, RowHasBlob, LocalOK, TypeOK, FileRow, Writing
<1>2. FileBelongsToNote'
  <2> SUFFICES ASSUME NEW k \in Keys, files'[k].state = "row"
               PROVE  /\ files'[k].note \in NoteIds
                      /\ NoteExists(notes', files'[k].note)
                      /\ notes'[files'[k].note].owner = files'[k].owner
    BY DEF FileBelongsToNote, NoteExists
  <2>1. NoteExists(notes', files'[k].note)
    BY DEF Frame, Alone, NotesFrame, FilesFrame
  <2>2. CASE files'[k] = files[k]
    <3>1. NoteExists(notes, files[k].note) /\ notes[files[k].note].owner = files[k].owner
      BY <2>2 DEF IInv, FileBelongsToNote
    <3>2. files[k].note \in NoteIds
      BY <2>2 DEF IInv, FileBelongsToNote
    <3>3. notes'[files[k].note].owner = notes[files[k].note].owner
      BY <3>1, <3>2 DEF Frame, Alone, NotesFrame, FilesFrame, NoteExists
    <3> QED
      BY <2>1, <2>2, <3>1, <3>2, <3>3
  <2>3. CASE /\ req[r].pc = "row" /\ k = req[r].key
             /\ files'[k].note = req[r].note /\ files'[k].owner = req[r].user
    BY <2>1, <2>3 DEF Frame, Alone, NotesFrame, FilesFrame, IInv, LocalOK, Writing
  <2> QED
    BY <2>2, <2>3 DEF Frame, Alone, NotesFrame, FilesFrame
<1>3. KeysDrawnOnce'
  BY NoneAssumption DEF IInv, Frame, Alone, NotesFrame, FilesFrame, KeysDrawnOnce, FreshKey
<1>4. ASSUME NEW s \in Requests \ {r} PROVE LocalOK(s)'
  <2>1. LocalOK(s) /\ LocalOK(r) /\ req'[s] = req[s]
    BY DEF IInv, Frame, Alone
  <2>2. req[s] \in Request
    BY SentType DEF IInv
  <2>3. req[r].pc = "row" /\ Writing(s) => req[s].key # req[r].key
    BY <2>1, NoneAssumption DEF IInv, KeysDrawnOnce, LocalOK, Writing
  <2>4. Writing(s)' <=> Writing(s)
    BY <2>1 DEF Writing
  <2>5. Writing(s) =>
          /\ req[s].key \in Keys
          /\ files'[req[s].key].state = "fresh"
          /\ notes'[req[s].note].state # "fresh"
          /\ notes'[req[s].note].owner = req[s].user
    BY <2>1, <2>3 DEF Frame, Alone, NotesFrame, FilesFrame, LocalOK, Writing
  <2>6. req[s].pc = "row" => req[s].key \in blobs'
    BY <2>1 DEF Frame, Alone, NotesFrame, FilesFrame, LocalOK, Writing
  <2>7. \A k \in req[s].todo : files'[k].state = "gone"
    BY <2>1, <2>2 DEF Frame, Alone, NotesFrame, FilesFrame, LocalOK, Request
  <2> QED
    BY <2>1, <2>4, <2>5, <2>6, <2>7 DEF LocalOK
<1> QED
  BY <1>1, <1>2, <1>3, <1>4 DEF IInv

(* What Respond and Continue leave of the locals. *)

LEMMA RespondLocals ==
  ASSUME req \in [Requests -> Request], NEW r \in Requests, NEW locals \in Request,
         NEW outcome \in Outcomes, Respond(r, locals, outcome)
  PROVE  /\ \A s \in Requests \ {r} : req'[s] = req[s]
         /\ req'[r].pc = "done" /\ req'[r].op = locals.op /\ req'[r].user = locals.user
         /\ req'[r].note = locals.note /\ req'[r].key = locals.key
         /\ req'[r].todo = locals.todo
  BY DEF Respond, Request

LEMMA ContinueLocals ==
  ASSUME req \in [Requests -> Request], NEW r \in Requests, NEW locals \in Request,
         NEW pc \in Pcs, Continue(r, locals, pc)
  PROVE  /\ \A s \in Requests \ {r} : req'[s] = req[s]
         /\ req'[r].pc = pc /\ req'[r].op = locals.op /\ req'[r].user = locals.user
         /\ req'[r].note = locals.note /\ req'[r].key = locals.key
         /\ req'[r].todo = locals.todo
  BY DEF Continue, Request

LEMMA StartLocals ==
  ASSUME NEW op, NEW u, NEW n
  PROVE  /\ Start(op, u, n).op = op /\ Start(op, u, n).user = u /\ Start(op, u, n).note = n
         /\ Start(op, u, n).key = None /\ Start(op, u, n).todo = {}
  BY DEF Start, Idle

(* Steps that leave some of the tables alone. *)

LEMMA SameTables ==
  ASSUME IInv, NEW r \in Requests, UNCHANGED <<notes, files, blobs>>
  PROVE  NotesFrame /\ FilesFrame(r)
<1>1. NotesFrame
  BY DEF NotesFrame
<1>2. FilesFrame(r)
  BY DEF FilesFrame, IInv, FileBelongsToNote
<1> QED
  BY <1>1, <1>2

LEMMA SameFiles ==
  ASSUME IInv, NEW r \in Requests, UNCHANGED <<files, blobs>>,
         \A n \in NoteIds : NoteExists(notes, n) => NoteExists(notes', n)
  PROVE  FilesFrame(r)
  BY DEF FilesFrame, IInv, FileBelongsToNote

LEMMA Cascade ==
  ASSUME IInv, NEW r \in Requests, NEW N \in SUBSET NoteIds, NEW K \in SUBSET Keys,
         notes' = WithoutNotes(notes, N), files' = WithoutFiles(files, K),
         blobs' = blobs, \A n \in N : NoteExists(notes, n),
         \A k \in K : files[k].state = "row", RowsOf(N) \subseteq K
  PROVE  NotesFrame /\ FilesFrame(r)
<1>0. TypeOK /\ FileBelongsToNote
  BY DEF IInv
<1>1. \A n \in NoteIds : notes'[n] = IF n \in N THEN [notes[n] EXCEPT !.state = "gone"] ELSE notes[n]
  BY DEF WithoutNotes
<1>2. \A k \in Keys : files'[k] = IF k \in K THEN [files[k] EXCEPT !.state = "gone"] ELSE files[k]
  BY DEF WithoutFiles
<1>3. NotesFrame
  BY <1>0, <1>1 DEF NotesFrame, TypeOK, NoteRow, NoteExists
<1>4. ASSUME NEW k \in Keys PROVE files'[k].state = "row" => files'[k] = files[k] /\ k \notin K
  BY <1>0, <1>2 DEF TypeOK, FileRow
<1>5. ASSUME NEW k \in Keys, files'[k].state = "row" PROVE NoteExists(notes', files'[k].note)
  <2>1. files'[k] = files[k] /\ k \notin K
    BY <1>4, <1>5
  <2>2. files[k].note \in NoteIds /\ NoteExists(notes, files[k].note)
    BY <1>0, <1>5, <2>1 DEF FileBelongsToNote
  <2>3. files[k].note \notin N
    BY <1>5, <2>1 DEF RowsOf
  <2> QED
    BY <1>1, <2>1, <2>2, <2>3 DEF NoteExists
<1>6. \A k \in Keys : files[k].state = "fresh" => files'[k].state = "fresh"
  BY <1>2
<1>7. \A k \in Keys : files[k].state = "gone" => files'[k].state = "gone"
  BY <1>2
<1>8. FilesFrame(r)
  BY <1>4, <1>5, <1>6, <1>7 DEF FilesFrame
<1> QED
  BY <1>3, <1>8

LEMMA BeginStep ==
  ASSUME IInv, NEW r \in Requests, Begin(r)
  PROVE  Frame(r) /\ LocalOK(r)'
<1> USE DEF AllOps, Pcs, Outcomes
<1>0. TypeOK /\ req \in [Requests -> Request]
  BY DEF IInv, TypeOK
<1>1. ASSUME NEW u \in Users, NEW n \in NoteIds, CreateNote(r, u, n)
      PROVE  Frame(r) /\ LocalOK(r)'
  <2>1. Start("create", u, n) \in Request
    BY StartType
  <2>2. /\ \A s \in Requests \ {r} : req'[s] = req[s]
        /\ req'[r].pc = "done" /\ req'[r].op = "create" /\ req'[r].user = u
        /\ req'[r].key = None /\ req'[r].todo = {}
    BY <1>0, <1>1, <2>1, StartLocals, RespondLocals DEF CreateNote
  <2>3. LocalOK(r)' /\ Alone(r)
    BY <2>2 DEF LocalOK, Writing, Alone
  <2>4. NotesFrame
    BY <1>0, <1>1 DEF CreateNote, NotesFrame, TypeOK
  <2>5. \A m \in NoteIds : NoteExists(notes, m) => NoteExists(notes', m)
    BY <1>0, <1>1 DEF CreateNote, NoteExists, TypeOK
  <2>6. FilesFrame(r)
    BY <1>1, <2>5, SameFiles DEF CreateNote
  <2> QED
    BY <2>3, <2>4, <2>6 DEF Frame
<1>2. ASSUME NEW u \in Users, NEW n \in NoteIds, NEW s \in {"active", "trashed"},
             PatchNote(r, u, n, s)
      PROVE  Frame(r) /\ LocalOK(r)'
  <2>1. /\ \A q \in Requests \ {r} : req'[q] = req[q]
        /\ req'[r].pc = "done" /\ req'[r].op = "patch" /\ req'[r].user = u
        /\ req'[r].note = n /\ req'[r].key = None /\ req'[r].todo = {}
    <3>1. Start("patch", u, n) \in Request
      BY StartType
    <3>2. ASSUME NEW b PROVE
            /\ [Start("patch", u, n) EXCEPT !.raced = b].op = "patch"
            /\ [Start("patch", u, n) EXCEPT !.raced = b].user = u
            /\ [Start("patch", u, n) EXCEPT !.raced = b].note = n
            /\ [Start("patch", u, n) EXCEPT !.raced = b].key = None
            /\ [Start("patch", u, n) EXCEPT !.raced = b].todo = {}
      BY DEF Start, Idle
    <3>3. ASSUME NEW b \in BOOLEAN PROVE [Start("patch", u, n) EXCEPT !.raced = b] \in Request
      BY <3>1 DEF Request
    <3>4. HardDeleting(n, {"rows", "blobs"}) \in BOOLEAN
      BY DEF HardDeleting
    <3>5. CASE FindNote(u, n)
      BY <1>0, <1>2, <3>2, <3>3, <3>4, <3>5, RespondLocals DEF PatchNote
    <3>6. CASE ~FindNote(u, n)
      BY <1>0, <1>2, <3>1, <3>6, RespondLocals, StartLocals DEF PatchNote
    <3> QED
      BY <3>5, <3>6
  <2>2. LocalOK(r)' /\ Alone(r)
    BY <2>1 DEF LocalOK, Writing, Alone
  <2>3. NotesFrame
    BY <1>0, <1>2 DEF PatchNote, NotesFrame, TypeOK, NoteRow
  <2>4. \A m \in NoteIds : NoteExists(notes, m) => NoteExists(notes', m)
    BY <1>0, <1>2 DEF PatchNote, NoteExists, TypeOK, NoteRow
  <2>5. FilesFrame(r)
    BY <1>2, <2>4, SameFiles DEF PatchNote
  <2> QED
    BY <2>2, <2>3, <2>5 DEF Frame
<1>3. ASSUME NEW u \in Users, NEW n \in NoteIds, DeleteDialog(r, u, n)
      PROVE  Frame(r) /\ LocalOK(r)'
  <2>1. /\ \A q \in Requests \ {r} : req'[q] = req[q]
        /\ req'[r].pc = "sent" /\ req'[r].op = "delete" /\ req'[r].user = u
        /\ req'[r].note = n /\ req'[r].key = None /\ req'[r].todo = {}
    BY <1>0, <1>3 DEF DeleteDialog, Continue, Start, Idle
  <2>2. LocalOK(r)' /\ Alone(r)
    BY <2>1 DEF LocalOK, Writing, Alone
  <2> QED
    BY <1>3, <2>2, SameTables DEF Frame, DeleteDialog
<1>4. ASSUME NEW u \in Users, NEW n \in NoteIds, NEW k \in Keys, UploadFind(r, u, n, k)
      PROVE  Frame(r) /\ LocalOK(r)'
  <2>1. /\ \A q \in Requests \ {r} : req'[q] = req[q]
        /\ req'[r].op = "upload" /\ req'[r].user = u /\ req'[r].note = n /\ req'[r].todo = {}
        /\ \/ req'[r].pc = "done" /\ req'[r].key = None
           \/ req'[r].pc = "put" /\ req'[r].key = k /\ FindNote(u, n)
    <3>1. CASE FindNote(u, n)
      BY <1>0, <1>4, <3>1 DEF UploadFind, Continue, Start, Idle
    <3>2. CASE ~FindNote(u, n)
      BY <1>0, <1>4, <3>2 DEF UploadFind, Respond, Start, Idle
    <3> QED
      BY <3>1, <3>2
  <2>2. files[k].state = "fresh" /\ UNCHANGED <<notes, files, blobs>>
    BY <1>4 DEF UploadFind, FreshKey
  <2>3. LocalOK(r)'
    BY <2>1, <2>2 DEF LocalOK, Writing, FindNote, NoteExists
  <2>4. Alone(r)
    BY <1>4, <2>1 DEF UploadFind, Alone
  <2> QED
    BY <2>2, <2>3, <2>4, SameTables DEF Frame
<1>5. ASSUME NEW u \in Users, NEW n \in NoteIds, NEW f \in Keys, CloneSource(r, u, f, n)
      PROVE  Frame(r) /\ LocalOK(r)'
  <2>1. /\ \A q \in Requests \ {r} : req'[q] = req[q]
        /\ req'[r].op = "clone" /\ req'[r].user = u /\ req'[r].note = n /\ req'[r].todo = {}
        /\ req'[r].pc \in {"done", "target"} /\ req'[r].key = None
    <3> DEFINE locals == [Start("clone", u, n) EXCEPT !.src = f]
    <3>1. locals \in Request
      BY StartType DEF Request
    <3>2. locals.op = "clone" /\ locals.user = u /\ locals.note = n /\ locals.todo = {}
          /\ locals.key = None
      BY DEF Start, Idle
    <3>3. \/ \E o \in Outcomes : Respond(r, locals, o)
          \/ Continue(r, locals, "target")
      BY <1>5 DEF CloneSource
    <3> HIDE DEF locals
    <3> QED
      BY <1>0, <3>1, <3>2, <3>3, RespondLocals, ContinueLocals
  <2>2. LocalOK(r)' /\ Alone(r)
    BY <2>1 DEF LocalOK, Writing, Alone
  <2> QED
    BY <1>5, <2>2, SameTables DEF Frame, CloneSource
<1>6. ASSUME NEW u \in Users, NEW f \in Keys, FetchFind(r, u, f)
      PROVE  Frame(r) /\ LocalOK(r)'
  <2>1. /\ \A q \in Requests \ {r} : req'[q] = req[q]
        /\ req'[r].op = "fetch" /\ req'[r].user = u /\ req'[r].todo = {}
        /\ req'[r].pc \in {"done", "fetch"} /\ req'[r].key = None
    BY <1>0, <1>6 DEF FetchFind, Continue, Respond, Start, Idle
  <2>2. LocalOK(r)' /\ Alone(r)
    BY <2>1 DEF LocalOK, Writing, Alone
  <2> QED
    BY <1>6, <2>2, SameTables DEF Frame, FetchFind
<1>7. ASSUME NEW u \in Users, DeleteAccount(r, u)
      PROVE  Frame(r) /\ LocalOK(r)'
  <2> DEFINE N == {n \in NoteIds : FindNote(u, n)}
             K == {k \in Keys : FindFile(u, k)} \cup RowsOf(N)
  <2>1. /\ \A q \in Requests \ {r} : req'[q] = req[q]
        /\ req'[r].pc = "done" /\ req'[r].op = "account" /\ req'[r].user = u
        /\ req'[r].key = None /\ req'[r].todo = {}
    BY <1>0, <1>7 DEF DeleteAccount, Respond, Start, Idle
  <2>2. LocalOK(r)' /\ Alone(r)
    BY <2>1 DEF LocalOK, Writing, Alone
  <2>3. /\ N \in SUBSET NoteIds /\ K \in SUBSET Keys /\ RowsOf(N) \subseteq K
        /\ \A n \in N : NoteExists(notes, n)
        /\ \A k \in K : files[k].state = "row"
    BY DEF FindNote, FindFile, RowsOf
  <2>4. notes' = WithoutNotes(notes, N) /\ files' = WithoutFiles(files, K) /\ blobs' = blobs
    BY <1>7 DEF DeleteAccount
  <2>5. NotesFrame /\ FilesFrame(r)
    BY <2>3, <2>4, Cascade
  <2> QED
    BY <2>2, <2>5 DEF Frame
<1> QED
  BY <1>1, <1>2, <1>3, <1>4, <1>5, <1>6, <1>7 DEF Begin

LEMMA ServeStep ==
  ASSUME IInv, NEW r \in Requests, Serve(r)
  PROVE  Frame(r) /\ LocalOK(r)'
<1> USE DEF AllOps, Pcs, Outcomes
<1>0. TypeOK /\ LocalOK(r) /\ req \in [Requests -> Request] /\ req[r] \in Request
  BY DEF IInv, TypeOK
<1>1. CASE DeleteFind(r)
  <2>1. \/ \E o \in Outcomes : Respond(r, req[r], o)
        \/ \E pc \in {"soft", "rows"} : Continue(r, req[r], pc)
    BY <1>1 DEF DeleteFind
  <2>2. /\ \A q \in Requests \ {r} : req'[q] = req[q]
        /\ req'[r].op = "delete" /\ req'[r].user = req[r].user /\ req'[r].note = req[r].note
        /\ req'[r].todo = req[r].todo /\ req'[r].key = req[r].key
        /\ req'[r].pc \in {"soft", "rows", "done"}
    BY <1>0, <1>1, <2>1, RespondLocals, ContinueLocals DEF DeleteFind, At
  <2>3. UNCHANGED <<notes, files, blobs>>
    BY <1>1 DEF DeleteFind
  <2>4. LocalOK(r)' /\ Alone(r)
    BY <1>0, <1>1, <2>2, <2>3 DEF DeleteFind, At, LocalOK, Writing, Alone
  <2> QED
    BY <2>3, <2>4, SameTables DEF Frame
<1>2. CASE DeleteSoft(r)
  <2>1. /\ \A q \in Requests \ {r} : req'[q] = req[q]
        /\ req'[r].op = "delete" /\ req'[r].user = req[r].user /\ req'[r].note = req[r].note
        /\ req'[r].todo = req[r].todo /\ req'[r].key = req[r].key
        /\ req'[r].pc = "done"
    BY <1>0, <1>2, RespondLocals DEF DeleteSoft, DeleteAnswer, At
  <2>2. LocalOK(r)' /\ Alone(r)
    BY <1>0, <1>2, <2>1 DEF DeleteSoft, At, LocalOK, Writing, Alone
  <2>3. NotesFrame
    BY <1>0, <1>2 DEF DeleteSoft, NotesFrame, TypeOK, NoteRow
  <2>4. \A m \in NoteIds : NoteExists(notes, m) => NoteExists(notes', m)
    BY <1>0, <1>2 DEF DeleteSoft, NoteExists, TypeOK, NoteRow
  <2>5. FilesFrame(r)
    BY <1>2, <2>4, SameFiles DEF DeleteSoft
  <2> QED
    BY <2>2, <2>3, <2>5 DEF Frame
<1>3. CASE DeleteRows(r)
  <2> DEFINE K == FilesOfNote(req[r].user, req[r].note)
             locals == [req[r] EXCEPT !.todo = K, !.purged = @ \cup K]
  <2>1. locals \in Request /\ locals.todo = K /\ locals.op = "delete" /\ locals.user = req[r].user
        /\ locals.note = req[r].note /\ locals.key = req[r].key
    BY <1>0, <1>3 DEF Request, FilesOfNote, DeleteRows, At
  <2>2. Continue(r, locals, "blobs") /\ files' = WithoutFiles(files, K) /\ UNCHANGED <<notes, blobs>>
    BY <1>3 DEF DeleteRows
  <2>3. /\ \A q \in Requests \ {r} : req'[q] = req[q]
        /\ req'[r].op = "delete" /\ req'[r].user = req[r].user /\ req'[r].note = req[r].note
        /\ req'[r].todo = K /\ req'[r].key = req[r].key /\ req'[r].pc = "blobs"
    <3> HIDE DEF locals, K
    <3> QED
      BY <1>0, <2>1, <2>2, ContinueLocals
  <2>4. K \in SUBSET Keys /\ \A k \in K : files[k].state = "row"
    BY DEF FilesOfNote, FindFile
  <2>5. \A k \in K : files'[k].state = "gone"
    BY <1>0, <2>2, <2>4 DEF WithoutFiles, TypeOK, FileRow
  <2>6. LocalOK(r)' /\ Alone(r)
    BY <1>0, <1>3, <2>3, <2>5 DEF DeleteRows, At, LocalOK, Writing, Alone
  <2>7. notes = WithoutNotes(notes, {})
    BY <1>0 DEF WithoutNotes, TypeOK
  <2>8. NotesFrame /\ FilesFrame(r)
    BY <2>2, <2>4, <2>7, Cascade DEF RowsOf
  <2> QED
    BY <2>6, <2>8 DEF Frame
<1>4. ASSUME NEW k \in Keys, DeleteBlob(r, k)
      PROVE  Frame(r) /\ LocalOK(r)'
  <2> DEFINE locals == [req[r] EXCEPT !.todo = @ \ {k}]
  <2>1. locals \in Request /\ locals.todo = req[r].todo \ {k} /\ locals.op = "delete"
        /\ locals.user = req[r].user /\ locals.note = req[r].note /\ locals.key = req[r].key
    BY <1>0, <1>4 DEF Request, DeleteBlob, At
  <2>2. Continue(r, locals, "blobs") /\ UNCHANGED <<notes, files>> /\ blobs' \in {blobs, blobs \ {k}}
    BY <1>4 DEF DeleteBlob
  <2>3. /\ \A q \in Requests \ {r} : req'[q] = req[q]
        /\ req'[r].op = "delete" /\ req'[r].user = req[r].user /\ req'[r].note = req[r].note
        /\ req'[r].todo = req[r].todo \ {k} /\ req'[r].key = req[r].key /\ req'[r].pc = "blobs"
    <3> HIDE DEF locals
    <3> QED
      BY <1>0, <2>1, <2>2, ContinueLocals
  <2>4. LocalOK(r)' /\ Alone(r)
    BY <1>0, <1>4, <2>2, <2>3 DEF DeleteBlob, At, LocalOK, Writing, Alone
  <2>5. files[k].state = "gone"
    BY <1>0, <1>4 DEF DeleteBlob, LocalOK
  <2>6. NotesFrame /\ FilesFrame(r)
    BY <2>2, <2>5 DEF NotesFrame, FilesFrame, IInv, FileBelongsToNote
  <2> QED
    BY <2>4, <2>6 DEF Frame
<1>5. CASE DeleteDrop(r)
  <2> DEFINE n == req[r].note
             N == IF FindNote(req[r].user, n) THEN {n} ELSE {}
  <2>1. /\ \A q \in Requests \ {r} : req'[q] = req[q]
        /\ req'[r].op = "delete" /\ req'[r].user = req[r].user /\ req'[r].note = req[r].note
        /\ req'[r].todo = req[r].todo /\ req'[r].key = req[r].key
        /\ req'[r].pc = "done" /\ req[r].todo = {}
    BY <1>0, <1>5, RespondLocals DEF DeleteDrop, DeleteAnswer, At
  <2>2. LocalOK(r)' /\ Alone(r)
    BY <1>0, <1>5, <2>1 DEF DeleteDrop, At, LocalOK, Writing, Alone
  <2>3. N \in SUBSET NoteIds /\ \A m \in N : NoteExists(notes, m)
    BY <1>0, <1>5 DEF DeleteDrop, At, LocalOK, FindNote
  <2>4. RowsOf(N) \in SUBSET Keys /\ \A k \in RowsOf(N) : files[k].state = "row"
    BY DEF RowsOf
  <2>5. notes' = WithoutNotes(notes, N) /\ files' = WithoutFiles(files, RowsOf(N)) /\ blobs' = blobs
    BY <1>5 DEF DeleteDrop
  <2>6. NotesFrame /\ FilesFrame(r)
    BY <2>3, <2>4, <2>5, Cascade
  <2> QED
    BY <2>2, <2>6 DEF Frame
<1>6. CASE UploadPut(r)
  <2>1. req[r].key \in Keys /\ req[r].note \in NoteIds /\ req[r].user \in Users
        /\ files[req[r].key].state = "fresh"
    BY <1>0, <1>6 DEF UploadPut, At, LocalOK, Writing
  <2>2. /\ \A q \in Requests \ {r} : req'[q] = req[q]
        /\ req'[r].op = "upload" /\ req'[r].user = req[r].user /\ req'[r].note = req[r].note
        /\ req'[r].todo = req[r].todo /\ req'[r].key = req[r].key
        /\ req'[r].pc = "done" \/ (req'[r].pc = "row" /\ req[r].key \in blobs')
        /\ blobs \subseteq blobs' /\ UNCHANGED <<notes, files>>
    BY <1>0, <1>6, RespondLocals, ContinueLocals DEF UploadPut, At
  <2>3. LocalOK(r)' /\ Alone(r)
    BY <1>0, <1>6, <2>1, <2>2 DEF UploadPut, At, LocalOK, Writing, Alone
  <2>4. NotesFrame /\ FilesFrame(r)
    BY <2>2 DEF NotesFrame, FilesFrame, IInv, FileBelongsToNote
  <2> QED
    BY <2>3, <2>4 DEF Frame
<1>7. ASSUME NEW k \in Keys, CloneTarget(r, k)
      PROVE  Frame(r) /\ LocalOK(r)'
  <2> DEFINE locals == [req[r] EXCEPT !.key = k]
  <2>1. locals \in Request /\ locals.key = k /\ locals.op = "clone" /\ locals.todo = req[r].todo
        /\ locals.user = req[r].user /\ locals.note = req[r].note
    BY <1>0, <1>7 DEF Request, CloneTarget, At
  <2>2. \/ FindNote(req[r].user, req[r].note) /\ Continue(r, locals, "copy")
        \/ Respond(r, req[r], "notfound")
    BY <1>7 DEF CloneTarget
  <2>3. /\ \A q \in Requests \ {r} : req'[q] = req[q]
        /\ req'[r].op = "clone" /\ req'[r].user = req[r].user /\ req'[r].note = req[r].note
        /\ req'[r].todo = req[r].todo
        /\ \/ req'[r].pc = "done" /\ req'[r].key = req[r].key
           \/ req'[r].pc = "copy" /\ req'[r].key = k /\ FindNote(req[r].user, req[r].note)
    <3>1. req[r].op = "clone"
      BY <1>7 DEF CloneTarget, At
    <3> HIDE DEF locals
    <3> QED
      BY <1>0, <2>1, <2>2, <3>1, ContinueLocals, RespondLocals
  <2>4. files[k].state = "fresh" /\ FreshKey(k) /\ UNCHANGED <<notes, files, blobs>>
    BY <1>7 DEF CloneTarget, FreshKey
  <2>5. LocalOK(r)' /\ Alone(r)
    BY <1>0, <1>7, <2>3, <2>4 DEF CloneTarget, At, LocalOK, Writing, Alone, FindNote, NoteExists
  <2> QED
    BY <2>4, <2>5, SameTables DEF Frame
<1>8. CASE CloneCopy(r)
  <2>1. req[r].key \in Keys /\ req[r].note \in NoteIds /\ req[r].user \in Users
        /\ files[req[r].key].state = "fresh"
    BY <1>0, <1>8 DEF CloneCopy, At, LocalOK, Writing
  <2>2. /\ \A q \in Requests \ {r} : req'[q] = req[q]
        /\ req'[r].op = "clone" /\ req'[r].user = req[r].user /\ req'[r].note = req[r].note
        /\ req'[r].todo = req[r].todo /\ req'[r].key = req[r].key
        /\ req'[r].pc = "done" \/ (req'[r].pc = "row" /\ req[r].key \in blobs')
        /\ blobs \subseteq blobs' /\ UNCHANGED <<notes, files>>
    BY <1>0, <1>8, RespondLocals, ContinueLocals DEF CloneCopy, At
  <2>3. LocalOK(r)' /\ Alone(r)
    BY <1>0, <1>8, <2>1, <2>2 DEF CloneCopy, At, LocalOK, Writing, Alone
  <2>4. NotesFrame /\ FilesFrame(r)
    BY <2>2 DEF NotesFrame, FilesFrame, IInv, FileBelongsToNote
  <2> QED
    BY <2>3, <2>4 DEF Frame
<1>9. CASE InsertFile(r)
  <2>1. req[r].key \in Keys /\ req[r].note \in NoteIds /\ req[r].user \in Users
        /\ files[req[r].key].state = "fresh" /\ req[r].op \in {"upload", "clone"} /\ req[r].pc = "row"
    BY <1>0, <1>9 DEF InsertFile, LocalOK, Writing
  <2>2. UNCHANGED <<notes, blobs>>
    BY <1>9 DEF InsertFile
  <2> DEFINE locals == [req[r] EXCEPT !.raced = HardDeleting(req[r].note, {"blobs"})]
  <2>3. locals \in Request /\ locals.op = req[r].op /\ locals.key = req[r].key
        /\ locals.todo = req[r].todo /\ locals.user = req[r].user /\ locals.note = req[r].note
    <3>1. HardDeleting(req[r].note, {"blobs"}) \in BOOLEAN
      BY DEF HardDeleting
    <3> QED
      BY <1>0, <3>1 DEF Request
  <2>4. Respond(r, locals, "ok") \/ Respond(r, req[r], "error")
    BY <1>9 DEF InsertFile
  <2>5. /\ \A q \in Requests \ {r} : req'[q] = req[q]
        /\ req'[r].op = req[r].op /\ req'[r].user = req[r].user /\ req'[r].note = req[r].note
        /\ req'[r].todo = req[r].todo /\ req'[r].key = req[r].key /\ req'[r].pc = "done"
    <3> HIDE DEF locals
    <3> QED
      BY <1>0, <2>3, <2>4, RespondLocals
  <2>6. \A k \in Keys : \/ files'[k] = files[k]
                        \/ /\ k = req[r].key /\ files'[k].state = "row"
                           /\ files'[k].note = req[r].note /\ files'[k].owner = req[r].user
                           /\ NoteExists(notes, req[r].note)
    BY <1>0, <1>9, <2>1 DEF InsertFile, TypeOK
  <2>7. LocalOK(r)' /\ Alone(r)
    BY <1>0, <2>1, <2>5, <2>6 DEF LocalOK, Writing, Alone, Request
  <2>8. NotesFrame
    BY <2>2 DEF NotesFrame
  <2>9. FilesFrame(r)
    BY <2>1, <2>2, <2>6 DEF FilesFrame, IInv, FileBelongsToNote
  <2> QED
    BY <2>7, <2>8, <2>9 DEF Frame
<1>10. CASE FetchBlob(r)
  <2>1. /\ \A q \in Requests \ {r} : req'[q] = req[q]
        /\ req'[r].op = "fetch" /\ req'[r].user = req[r].user
        /\ req'[r].todo = req[r].todo /\ req'[r].key = req[r].key /\ req'[r].pc = "done"
    BY <1>0, <1>10, RespondLocals DEF FetchBlob, At
  <2>2. UNCHANGED <<notes, files, blobs>>
    BY <1>10 DEF FetchBlob
  <2>3. LocalOK(r)' /\ Alone(r)
    BY <1>0, <1>10, <2>1, <2>2 DEF FetchBlob, At, LocalOK, Writing, Alone
  <2> QED
    BY <2>2, <2>3, SameTables DEF Frame
<1> QED
  BY <1>1, <1>2, <1>3, <1>4, <1>5, <1>6, <1>7, <1>8, <1>9, <1>10 DEF Serve

LEMMA RestStep ==
  ASSUME IInv, NEW r \in Requests, RetryDelete(r) \/ Crash(r)
  PROVE  Frame(r) /\ LocalOK(r)'
<1> USE DEF AllOps, Pcs, Outcomes
<1>0. TypeOK /\ LocalOK(r) /\ req \in [Requests -> Request] /\ req[r] \in Request
  BY DEF IInv, TypeOK
<1>1. /\ \A q \in Requests \ {r} : req'[q] = req[q]
      /\ req'[r].op = req[r].op /\ req'[r].user = req[r].user /\ req'[r].note = req[r].note
      /\ req'[r].todo = req[r].todo /\ req'[r].key = req[r].key
      /\ req'[r].pc \in {"done", "sent"}
  <2>1. CASE RetryDelete(r)
    <3> DEFINE locals == [req[r] EXCEPT !.tries = req[r].tries + 1, !.outcome = "none"]
    <3>1. req[r].tries + 1 \in Nat
      BY <1>0 DEF Request
    <3>2. locals \in Request
      BY <1>0, <3>1, RepeatType
    <3>3. locals.op = req[r].op /\ locals.user = req[r].user /\ locals.note = req[r].note
          /\ locals.todo = req[r].todo /\ locals.key = req[r].key
      BY <1>0 DEF Request
    <3>4. Continue(r, locals, "sent")
      BY <2>1 DEF RetryDelete
    <3> HIDE DEF locals
    <3> QED
      BY <1>0, <3>2, <3>3, <3>4, ContinueLocals
  <2>2. CASE Crash(r)
    BY <1>0, <2>2, RespondLocals DEF Crash
  <2> QED
    BY <2>1, <2>2
<1>2. UNCHANGED <<notes, files, blobs>>
  BY DEF RetryDelete, Crash
<1>3. LocalOK(r)' /\ Alone(r)
  BY <1>0, <1>1, <1>2 DEF LocalOK, Writing, Alone
<1> QED
  BY <1>2, <1>3, SameTables DEF Frame

-----------------------------------------------------------------------------
LEMMA InitInv == Init => IInv
<1> SUFFICES ASSUME Init PROVE IInv
  OBVIOUS
<1>1. TypeOK
  BY InitType
<1>2. RowHasBlob /\ FileBelongsToNote
  BY SeedAssumption DEF Init, RowHasBlob, FileBelongsToNote
<1>3. KeysDrawnOnce /\ \A r \in Requests : LocalOK(r)
  BY DEF Init, Idle, KeysDrawnOnce, LocalOK, Writing
<1> QED
  BY <1>1, <1>2, <1>3 DEF IInv

LEMMA NextInv == IInv /\ [Next]_vars => IInv'
<1> SUFFICES ASSUME IInv, [Next]_vars PROVE IInv'
  OBVIOUS
<1>0. TypeOK /\ \A r \in Requests : LocalOK(r)
  BY DEF IInv
<1>1. ASSUME NEW r \in Requests, Begin(r) PROVE IInv'
  BY <1>0, <1>1, BeginType, BeginStep, FramePreserves
<1>2. ASSUME NEW r \in Requests, Serve(r) PROVE IInv'
  BY <1>0, <1>2, ServeType, ServeStep, FramePreserves
<1>3. ASSUME NEW r \in Requests, RetryDelete(r) \/ Crash(r) PROVE IInv'
  BY <1>0, <1>3, RestType, RestStep, FramePreserves
<1>4. CASE UNCHANGED vars
  BY <1>4 DEF vars, IInv, TypeOK, RowHasBlob, FileBelongsToNote, NoteExists, KeysDrawnOnce, LocalOK, Writing
<1> QED
  BY <1>1, <1>2, <1>3, <1>4 DEF Next

\* Every reachable state satisfies the inductive invariant: what a handler
\* holds between its statements stays valid under all interleavings.
THEOREM Inductive == Spec => []IInv
  BY InitInv, NextInv, PTL DEF Spec

\* The tables and the locals are always well typed.
THEOREM TypeCorrect == Spec => []TypeOK
<1>1. IInv => TypeOK
  BY DEF IInv
<1> QED
  BY <1>1, Inductive, PTL

\* A file row never points at a missing object, for any number of concurrent
\* uploads, clones, deletes, retries, failures and crashes.
THEOREM RowsHaveBlobs == Spec => []RowHasBlob
<1>1. IInv => RowHasBlob
  BY DEF IInv
<1> QED
  BY <1>1, Inductive, PTL

\* A file always hangs off an existing note of the same user.
THEOREM FilesBelongToNotes == Spec => []FileBelongsToNote
<1>1. IInv => FileBelongsToNote
  BY DEF IInv
<1> QED
  BY <1>1, Inductive, PTL

-----------------------------------------------------------------------------
(* Isolation of the users, an action property, from the same invariant. *)

OwnRowsOnly(r) ==
  /\ \A n \in NoteIds :
       NoteExists(notes, n) /\ notes'[n] # notes[n] => notes[n].owner = req'[r].user
  /\ \A k \in Keys :
       files[k].state = "row" /\ files'[k] # files[k] => files[k].owner = req'[r].user

LEMMA BeginIsolated ==
  ASSUME IInv, NEW r \in Requests, Begin(r)
  PROVE  OwnRowsOnly(r)
<1>0. TypeOK
  BY DEF IInv
<1>1. CASE UNCHANGED <<notes, files>>
  BY <1>1 DEF OwnRowsOnly
<1>2. ASSUME NEW u \in Users, NEW n \in NoteIds, CreateNote(r, u, n)
      PROVE  OwnRowsOnly(r)
  BY <1>0, <1>2 DEF CreateNote, OwnRowsOnly, NoteExists, TypeOK
<1>3. ASSUME NEW u \in Users, NEW n \in NoteIds, NEW s \in {"active", "trashed"},
             PatchNote(r, u, n, s)
      PROVE  OwnRowsOnly(r)
  <2>1. CASE FindNote(u, n)
    <3>1. req'[r].user = u
      BY <1>0, <1>3, <2>1 DEF PatchNote, Respond, Start, Idle, TypeOK
    <3> QED
      BY <1>0, <1>3, <2>1, <3>1 DEF PatchNote, OwnRowsOnly, FindNote, TypeOK
  <2>2. CASE ~FindNote(u, n)
    BY <1>1, <1>3, <2>2 DEF PatchNote
  <2> QED
    BY <2>1, <2>2
<1>4. ASSUME NEW u \in Users, DeleteAccount(r, u)
      PROVE  OwnRowsOnly(r)
  <2> DEFINE N == {n \in NoteIds : FindNote(u, n)}
             K == {k \in Keys : FindFile(u, k)} \cup RowsOf(N)
  <2>1. req'[r].user = u
    BY <1>0, <1>4 DEF DeleteAccount, Respond, Start, Idle, TypeOK
  <2>2. notes' = WithoutNotes(notes, N) /\ files' = WithoutFiles(files, K)
    BY <1>4 DEF DeleteAccount
  <2>3. \A n \in NoteIds : notes'[n] # notes[n] => notes[n].owner = u
    BY <2>2 DEF WithoutNotes, FindNote
  <2>4. \A k \in K : files[k].owner = u
    BY DEF FindFile, FindNote, RowsOf, IInv, FileBelongsToNote
  <2>5. \A k \in Keys : files'[k] # files[k] => files[k].owner = u
    BY <2>2, <2>4 DEF WithoutFiles
  <2> QED
    BY <2>1, <2>3, <2>5 DEF OwnRowsOnly
<1> QED
  BY <1>1, <1>2, <1>3, <1>4 DEF Begin, DeleteDialog, UploadFind, CloneSource, FetchFind

LEMMA ServeIsolated ==
  ASSUME IInv, NEW r \in Requests, Serve(r)
  PROVE  OwnRowsOnly(r)
<1> USE DEF Outcomes, Pcs
<1>0. TypeOK /\ LocalOK(r) /\ req \in [Requests -> Request] /\ req[r] \in Request
  BY DEF IInv, TypeOK
<1>1. CASE UNCHANGED <<notes, files>>
  BY <1>1 DEF OwnRowsOnly
<1>2. CASE DeleteSoft(r)
  <2>1. req'[r].user = req[r].user
    BY <1>0, <1>2, RespondLocals DEF DeleteSoft, DeleteAnswer
  <2> QED
    BY <1>0, <1>2, <2>1 DEF DeleteSoft, OwnRowsOnly, FindNote, TypeOK
<1>3. CASE DeleteRows(r)
  <2>1. req'[r].user = req[r].user
    BY <1>0, <1>3 DEF DeleteRows, Continue, Request
  <2> QED
    BY <1>3, <2>1 DEF DeleteRows, OwnRowsOnly, WithoutFiles, FilesOfNote, FindFile
<1>4. CASE DeleteDrop(r)
  <2> DEFINE n == req[r].note
             N == IF FindNote(req[r].user, n) THEN {n} ELSE {}
  <2>1. req'[r].user = req[r].user
    BY <1>0, <1>4, RespondLocals DEF DeleteDrop, DeleteAnswer
  <2>2. \A m \in NoteIds : notes'[m] # notes[m] => notes[m].owner = req[r].user
    BY <1>4 DEF DeleteDrop, WithoutNotes, FindNote
  <2>3. \A k \in RowsOf(N) : files[k].owner = req[r].user
    BY DEF RowsOf, FindNote, IInv, FileBelongsToNote
  <2>4. \A k \in Keys : files'[k] # files[k] => files[k].owner = req[r].user
    BY <1>4, <2>3 DEF DeleteDrop, WithoutFiles
  <2> QED
    BY <2>1, <2>2, <2>4 DEF OwnRowsOnly
<1>5. CASE InsertFile(r)
  BY <1>0, <1>5 DEF InsertFile, LocalOK, Writing, OwnRowsOnly, TypeOK
<1> QED
  BY <1>1, <1>2, <1>3, <1>4, <1>5
  DEF Serve, DeleteFind, DeleteBlob, UploadPut, CloneTarget, CloneCopy, FetchBlob

LEMMA NextIsolated ==
  ASSUME IInv, [Next]_vars, NEW r \in Requests, req'[r] # req[r]
  PROVE  OwnRowsOnly(r)
<1>0. TypeOK
  BY DEF IInv
<1>1. PICK q \in Requests : Begin(q) \/ Serve(q) \/ RetryDelete(q) \/ Crash(q)
  BY DEF Next, vars
<1>2. q = r
  BY <1>1, BeginStep, ServeStep, RestStep DEF Frame, Alone
<1>3. CASE Begin(r)
  BY <1>3, BeginIsolated
<1>4. CASE Serve(r)
  BY <1>4, ServeIsolated
<1>5. CASE RetryDelete(r) \/ Crash(r)
  BY <1>5 DEF RetryDelete, Crash, OwnRowsOnly
<1> QED
  BY <1>1, <1>2, <1>3, <1>4, <1>5

\* No request changes a row of anybody but the user whose session it carries.
THEOREM Isolation == Spec => UsersAreIsolated
<1>1. IInv /\ [Next]_vars =>
        [\A r \in Requests : req'[r] # req[r] => OwnRowsOnly(r)]_vars
  BY NextIsolated
<1>2. IInv /\ [Next]_vars =>
        [\A r \in Requests :
           req'[r] # req[r] =>
             /\ \A n \in NoteIds :
                  NoteExists(notes, n) /\ notes'[n] # notes[n] => notes[n].owner = req'[r].user
             /\ \A k \in Keys :
                  files[k].state = "row" /\ files'[k] # files[k] => files[k].owner = req'[r].user]_vars
  BY <1>1 DEF OwnRowsOnly
<1> QED
  BY <1>2, Inductive, PTL DEF Spec, UsersAreIsolated

-----------------------------------------------------------------------------
(***************************************************************************)
(* Why an object has no row, and how an active note can be destroyed. What *)
(* a request was, did and was answered outlives the request, so the causes *)
(* that the properties name are never forgotten; Held says which of them   *)
(* a delete that is under way relies on.                                   *)
(***************************************************************************)
RacedInsert(k) == \E s \in Requests : req[s].key = k /\ req[s].raced
RacedRestore(n) == \E p \in Requests : req[p].op = "patch" /\ req[p].note = n /\ req[p].raced

HeldByItself(r) ==
  /\ req[r].pc = "idle" => req[r] = Idle
  /\ req[r].pc # "done" => req[r].outcome = "none"
  /\ req[r].key # None => req[r].op \in {"upload", "clone"}
  /\ req[r].pc = "target" => req[r].key = None
  /\ req[r].pc \in {"put", "target", "copy", "row"} => ~req[r].raced
  /\ req[r].op = "patch" => req[r].pc = "done"
  /\ req[r].todo \subseteq req[r].purged
  /\ req[r].todo # {} /\ req[r].pc \in {"sent", "soft", "rows"} => req[r].tries > 0
OwnNote(r) ==
  req[r].op = "delete" => notes[req[r].note].state # "fresh" /\ notes[req[r].note].owner = req[r].user
RowsPurged(r) ==
  At(r, "delete", "blobs") =>
    \A k \in Keys : files[k].state = "row" /\ files[k].note = req[r].note => RacedInsert(k)
ReadAsTrashed(r) ==
  req[r].op = "delete" /\ req[r].pc \in {"rows", "blobs"} /\ notes[req[r].note].state = "active" =>
    RacedRestore(req[r].note)
Held(r) == HeldByItself(r) /\ OwnNote(r) /\ RowsPurged(r) /\ ReadAsTrashed(r)

OwnCause(s, k) ==
  \/ req[s].key = k /\ (NotAnswered(s) \/ req[s].raced)
  \/ k \in req[s].todo
  \/ k \in req[s].purged /\ req[s].tries > 0
Caused(k) ==
  k \in logged \/ WentWithAccount(k) \/ \E s \in Requests : OwnCause(s, k)
PurgedRowsGone == \A r \in Requests : \A k \in req[r].purged : files[k].state = "gone"

HInv == IInv /\ OrphansExplained /\ PurgedRowsGone /\ \A r \in Requests : Held(r)

(***************************************************************************)
(* What a step of r does to the causes: it forgets none of them, and is    *)
(* one itself when it comes too late or leaves an object alone.            *)
(***************************************************************************)
Remembers(r) ==
  /\ accounts' \subseteq accounts /\ logged \subseteq logged'
  /\ req[r].key # None /\ req[r].raced => req'[r].key = req[r].key /\ req'[r].raced
  /\ req[r].op = "patch" /\ req[r].raced =>
       req'[r].op = "patch" /\ req'[r].note = req[r].note /\ req'[r].raced
NewRowsRaced(r) ==
  \A k \in Keys : files'[k].state = "row" =>
    \/ files'[k] = files[k]
    \/ req'[r].key = k /\ (HardDeleting(files'[k].note, {"blobs"}) => req'[r].raced)
RestoresRaced(r) ==
  \A n \in NoteIds : notes'[n].state = "active" =>
    \/ notes[n].state \in {"active", "fresh"}
    \/ /\ req'[r].op = "patch" /\ req'[r].note = n
       /\ HardDeleting(n, {"rows", "blobs"}) => req'[r].raced
LeavesCauses(r) ==
  \A k \in Keys : files'[k].state # "row" =>
    /\ files'[k].owner = files[k].owner
    /\ k \in blobs' /\ (OwnCause(r, k) \/ k \notin blobs \/ files[k].state = "row") => Caused(k)'
Purges(r) ==
  \A k \in Keys : k \in req'[r].purged =>
    k \in req[r].purged \/ (files[k].state = "row" /\ files'[k].state = "gone")
Causes(r) == Remembers(r) /\ NewRowsRaced(r) /\ RestoresRaced(r) /\ LeavesCauses(r)

LEMMA OrphansAreCaused == OrphansExplained <=> \A k \in blobs : files[k].state # "row" => Caused(k)
  BY DEF OrphansExplained, Caused, OwnCause

LEMMA CausesPreserve ==
  ASSUME HInv, IInv', NEW r \in Requests, Frame(r), Causes(r), Purges(r), Held(r)'
  PROVE  HInv'
<1>0. TypeOK /\ IInv /\ Alone(r) /\ NotesFrame /\ FilesFrame(r)
  BY DEF HInv, IInv, Frame
<1>1. ASSUME NEW k \in Keys, RacedInsert(k) PROVE RacedInsert(k)'
  <2>1. PICK s \in Requests : req[s].key = k /\ req[s].raced
    BY <1>1 DEF RacedInsert
  <2>2. req'[s].key = k /\ req'[s].raced
    BY <1>0, <2>1, NoneAssumption DEF Causes, Remembers, Alone
  <2> QED
    BY <2>2 DEF RacedInsert
<1>2. ASSUME NEW n \in NoteIds, RacedRestore(n) PROVE RacedRestore(n)'
  <2>1. PICK p \in Requests : req[p].op = "patch" /\ req[p].note = n /\ req[p].raced
    BY <1>2 DEF RacedRestore
  <2>2. req'[p].op = "patch" /\ req'[p].note = n /\ req'[p].raced
    BY <1>0, <2>1 DEF Causes, Remembers, Alone
  <2> QED
    BY <2>2 DEF RacedRestore
<1>3. ASSUME NEW s \in Requests \ {r} PROVE Held(s)'
  <2>1. Held(s) /\ req'[s] = req[s] /\ LocalOK(s)
    BY <1>0 DEF HInv, IInv, Alone
  <2>2. req[s].op = "delete" => req[s].note \in NoteIds
    BY <2>1 DEF LocalOK
  <2>3. HeldByItself(s)'
    BY <2>1 DEF Held, HeldByItself
  <2>4. OwnNote(s)'
    BY <1>0, <2>1, <2>2 DEF Held, OwnNote, NotesFrame
  <2>5. RowsPurged(s)'
    <3> SUFFICES ASSUME At(s, "delete", "blobs"), NEW k \in Keys, files'[k].state = "row",
                        files'[k].note = req[s].note
                 PROVE  RacedInsert(k)'
      BY <2>1 DEF RowsPurged, At
    <3>1. CASE files'[k] = files[k]
      BY <1>1, <2>1, <3>1 DEF Held, RowsPurged
    <3>2. CASE req'[r].key = k /\ (HardDeleting(files'[k].note, {"blobs"}) => req'[r].raced)
      <4>1. HardDeleting(files'[k].note, {"blobs"})
        BY DEF HardDeleting, At
      <4> QED
        BY <3>2, <4>1 DEF RacedInsert
    <3> QED
      BY <3>1, <3>2 DEF Causes, NewRowsRaced
  <2>6. ReadAsTrashed(s)'
    <3> SUFFICES ASSUME req[s].op = "delete", req[s].pc \in {"rows", "blobs"},
                        NEW n \in NoteIds, n = req[s].note, notes'[n].state = "active"
                 PROVE  RacedRestore(n)'
      BY <2>1, <2>2 DEF ReadAsTrashed, RacedRestore
    <3>1. notes[n].state # "fresh"
      BY <2>1 DEF Held, OwnNote
    <3>2. CASE notes[n].state = "active"
      <4>1. RacedRestore(n)
        BY <2>1, <3>2 DEF Held, ReadAsTrashed
      <4> QED
        BY <1>2, <4>1
    <3>3. CASE /\ req'[r].op = "patch" /\ req'[r].note = n
               /\ HardDeleting(n, {"rows", "blobs"}) => req'[r].raced
      <4>1. HardDeleting(n, {"rows", "blobs"})
        BY DEF HardDeleting
      <4> QED
        BY <3>3, <4>1 DEF RacedRestore
    <3> QED
      BY <3>1, <3>2, <3>3 DEF Causes, RestoresRaced
  <2> QED
    BY <2>3, <2>4, <2>5, <2>6 DEF Held
<1>4. \A k \in blobs' : files'[k].state # "row" => Caused(k)'
  <2> SUFFICES ASSUME NEW k \in blobs', files'[k].state # "row" PROVE Caused(k)'
    OBVIOUS
  <2>0. k \in Keys
    BY DEF IInv, TypeOK
  <2>1. CASE OwnCause(r, k) \/ k \notin blobs \/ files[k].state = "row"
    BY <2>0, <2>1 DEF Causes, LeavesCauses
  <2>2. CASE ~OwnCause(r, k) /\ k \in blobs /\ files[k].state # "row"
    <3>1. Caused(k)
      BY <2>2, OrphansAreCaused DEF HInv
    <3>2. files'[k].owner = files[k].owner /\ accounts' \subseteq accounts /\ logged \subseteq logged'
      BY <2>0 DEF Causes, LeavesCauses, Remembers
    <3>4. WentWithAccount(k) => WentWithAccount(k)'
      BY <1>0, <2>0, <2>2, <3>2 DEF WentWithAccount, Purges, Alone, FilesFrame
    <3>3. ASSUME NEW s \in Requests, OwnCause(s, k) PROVE OwnCause(s, k)'
      BY <1>0, <2>2, <3>3 DEF Alone, OwnCause, NotAnswered
    <3> QED
      BY <3>1, <3>2, <3>3, <3>4 DEF Caused
  <2> QED
    BY <2>1, <2>2
<1>5. OrphansExplained'
  BY <1>4 DEF OrphansExplained, Caused, OwnCause
<1>6. PurgedRowsGone'
  <2> SUFFICES ASSUME NEW s \in Requests, NEW k \in req'[s].purged PROVE files'[k].state = "gone"
    BY DEF PurgedRowsGone
  <2>1. k \in Keys
    BY DEF IInv, TypeOK, Request
  <2>2. k \in req[s].purged \/ files'[k].state = "gone"
    BY <1>0, <2>1 DEF Purges, Alone
  <2> QED
    BY <1>0, <2>1, <2>2 DEF HInv, PurgedRowsGone, FilesFrame
<1> QED
  BY <1>3, <1>5, <1>6 DEF HInv

(* The rest of what Respond and Continue leave of the locals. *)

LEMMA RespondHistory ==
  ASSUME req \in [Requests -> Request], NEW r \in Requests, NEW locals \in Request,
         NEW outcome \in Outcomes, Respond(r, locals, outcome)
  PROVE  /\ req'[r].pc = "done" /\ req'[r].op = locals.op /\ req'[r].user = locals.user
         /\ req'[r].note = locals.note /\ req'[r].key = locals.key /\ req'[r].todo = locals.todo
         /\ req'[r].purged = locals.purged /\ req'[r].tries = locals.tries
         /\ req'[r].raced = locals.raced /\ req'[r].outcome = outcome
  BY DEF Respond, Request

LEMMA ContinueHistory ==
  ASSUME req \in [Requests -> Request], NEW r \in Requests, NEW locals \in Request,
         NEW pc \in Pcs, Continue(r, locals, pc)
  PROVE  /\ req'[r].pc = pc /\ req'[r].op = locals.op /\ req'[r].user = locals.user
         /\ req'[r].note = locals.note /\ req'[r].key = locals.key /\ req'[r].todo = locals.todo
         /\ req'[r].purged = locals.purged /\ req'[r].tries = locals.tries
         /\ req'[r].raced = locals.raced /\ req'[r].outcome = locals.outcome
  BY DEF Continue, Request

\* A request counts as purged only rows that it deletes.
LEMMA PurgesRows ==
  ASSUME TypeOK, NEW r \in Requests, Begin(r) \/ Serve(r) \/ RetryDelete(r) \/ Crash(r)
  PROVE  Purges(r)
<1> USE DEF AllOps, Pcs, Outcomes
<1>0. req \in [Requests -> Request] /\ req[r] \in Request
  BY DEF TypeOK
<1>1. ASSUME req'[r].purged \subseteq req[r].purged PROVE Purges(r)
  BY <1>1 DEF Purges
<1>2. CASE Begin(r)
  <2>1. ASSUME NEW locals \in Request, locals.purged = {},
               \/ \E pc \in Pcs : Continue(r, locals, pc)
               \/ \E o \in Outcomes : Respond(r, locals, o)
        PROVE  Purges(r)
    BY <1>0, <1>1, <2>1, RespondHistory, ContinueHistory
  <2>2. ASSUME NEW op \in AllOps, NEW u \in Users \cup {None}, NEW n \in NoteIds \cup {None}
        PROVE  Start(op, u, n) \in Request /\ Start(op, u, n).purged = {}
    BY StartType DEF Start, Idle
  <2>3. ASSUME NEW u \in Users, NEW n \in NoteIds, CreateNote(r, u, n) PROVE Purges(r)
    <3>1. \E o \in Outcomes : Respond(r, Start("create", u, n), o)
      BY <2>3 DEF CreateNote
    <3> QED
      BY <2>1, <2>2, <3>1
  <2>4. ASSUME NEW u \in Users, NEW n \in NoteIds, NEW s \in {"active", "trashed"},
               PatchNote(r, u, n, s)
        PROVE  Purges(r)
    <3> DEFINE With(b) == [Start("patch", u, n) EXCEPT !.raced = b]
    <3>1. ASSUME NEW b \in BOOLEAN PROVE With(b) \in Request /\ With(b).purged = {}
      BY <2>2 DEF Request
    <3>2. HardDeleting(n, {"rows", "blobs"}) \in BOOLEAN
      BY DEF HardDeleting
    <3>3. \/ Respond(r, With(HardDeleting(n, {"rows", "blobs"})), "ok")
          \/ Respond(r, Start("patch", u, n), "notfound")
      BY <2>4 DEF PatchNote
    <3> HIDE DEF With
    <3> QED
      BY <2>1, <2>2, <3>1, <3>2, <3>3
  <2>5. ASSUME NEW u \in Users, NEW n \in NoteIds, DeleteDialog(r, u, n) PROVE Purges(r)
    <3> DEFINE locals == [Start("delete", u, n) EXCEPT !.shown = notes[n].state]
    <3>1. notes[n].state \in {"active", "trashed"}
      BY <2>5 DEF DeleteDialog, FindNote, NoteExists
    <3>2. locals \in Request /\ locals.purged = {}
      BY <2>2, <3>1 DEF Request
    <3>3. Continue(r, locals, "sent")
      BY <2>5 DEF DeleteDialog
    <3> HIDE DEF locals
    <3> QED
      BY <2>1, <3>2, <3>3
  <2>6. ASSUME NEW u \in Users, NEW n \in NoteIds, NEW k \in Keys, UploadFind(r, u, n, k)
        PROVE  Purges(r)
    <3> DEFINE locals == [Start("upload", u, n) EXCEPT !.key = k]
    <3>1. locals \in Request /\ locals.purged = {}
      BY <2>2 DEF Request
    <3>2. Continue(r, locals, "put") \/ Respond(r, Start("upload", u, n), "notfound")
      BY <2>6 DEF UploadFind
    <3> HIDE DEF locals
    <3> QED
      BY <2>1, <2>2, <3>1, <3>2
  <2>7. ASSUME NEW u \in Users, NEW n \in NoteIds, NEW k \in Keys, CloneSource(r, u, k, n)
        PROVE  Purges(r)
    <3> DEFINE locals == [Start("clone", u, n) EXCEPT !.src = k]
    <3>1. locals \in Request /\ locals.purged = {}
      BY <2>2 DEF Request
    <3>2. Continue(r, locals, "target") \/ Respond(r, locals, "notfound") \/ Respond(r, locals, "ok")
      BY <2>7 DEF CloneSource
    <3> HIDE DEF locals
    <3> QED
      BY <2>1, <3>1, <3>2
  <2>8. ASSUME NEW u \in Users, NEW k \in Keys, FetchFind(r, u, k) PROVE Purges(r)
    <3> DEFINE locals == [Start("fetch", u, None) EXCEPT !.src = k]
    <3>1. locals \in Request /\ locals.purged = {}
      BY <2>2 DEF Request
    <3>2. Continue(r, locals, "fetch") \/ Respond(r, locals, "notfound")
      BY <2>8 DEF FetchFind
    <3> HIDE DEF locals
    <3> QED
      BY <2>1, <3>1, <3>2
  <2>9. ASSUME NEW u \in Users, DeleteAccount(r, u) PROVE Purges(r)
    <3>1. Respond(r, Start("account", u, None), "ok")
      BY <2>9 DEF DeleteAccount
    <3> QED
      BY <2>1, <2>2, <3>1
  <2> QED
    BY <1>2, <2>3, <2>4, <2>5, <2>6, <2>7, <2>8, <2>9 DEF Begin
<1>3. CASE DeleteRows(r)
  <2> DEFINE K == FilesOfNote(req[r].user, req[r].note)
             locals == [req[r] EXCEPT !.todo = K, !.purged = @ \cup K]
  <2>1. locals \in Request /\ locals.purged = req[r].purged \cup K
    BY <1>0 DEF Request, FilesOfNote
  <2>2. Continue(r, locals, "blobs") /\ files' = WithoutFiles(files, K)
    BY <1>3 DEF DeleteRows
  <2>3. req'[r].purged = req[r].purged \cup K
    <3> HIDE DEF locals, K
    <3> QED
      BY <1>0, <2>1, <2>2, ContinueHistory
  <2>4. \A k \in Keys : k \in K => files[k].state = "row"
    BY DEF FilesOfNote, FindFile
  <2>5. \A k \in Keys : k \in K => files'[k].state = "gone"
    <3> HIDE DEF K
    <3> QED
      BY <2>2 DEF WithoutFiles, TypeOK, FileRow
  <2> QED
    <3> HIDE DEF K
    <3> QED
      BY <2>3, <2>4, <2>5 DEF Purges
<1>4. CASE \E k \in Keys : DeleteBlob(r, k)
  BY <1>0, <1>1, <1>4 DEF DeleteBlob, Continue, Request
<1>a. ASSUME NEW locals \in Request, locals.purged = req[r].purged,
             \/ \E pc \in Pcs : Continue(r, locals, pc)
             \/ \E o \in Outcomes : Respond(r, locals, o)
      PROVE  Purges(r)
  BY <1>0, <1>1, <1>a, RespondHistory, ContinueHistory
<1>5. ASSUME NEW k \in Keys, CloneTarget(r, k) PROVE Purges(r)
  <2> DEFINE locals == [req[r] EXCEPT !.key = k]
  <2>1. locals \in Request /\ locals.purged = req[r].purged
    BY <1>0 DEF Request
  <2>2. Continue(r, locals, "copy") \/ Respond(r, req[r], "notfound")
    BY <1>5 DEF CloneTarget
  <2> HIDE DEF locals
  <2> QED
    BY <1>0, <1>a, <2>1, <2>2
<1>6. CASE InsertFile(r)
  <2>1. ASSUME NEW b \in BOOLEAN
        PROVE  [req[r] EXCEPT !.raced = b] \in Request /\ [req[r] EXCEPT !.raced = b].purged = req[r].purged
    BY <1>0 DEF Request
  <2>2. HardDeleting(req[r].note, {"blobs"}) \in BOOLEAN
    BY DEF HardDeleting
  <2>3. \/ Respond(r, req[r], "error")
        \/ \E b \in BOOLEAN : Respond(r, [req[r] EXCEPT !.raced = b], "ok")
    BY <1>6, <2>2 DEF InsertFile
  <2> QED
    BY <1>0, <1>a, <2>1, <2>3
<1>7. CASE RetryDelete(r)
  BY <1>0, <1>1, <1>7 DEF RetryDelete, Continue, Request
<1>8. CASE DeleteFind(r) \/ DeleteSoft(r) \/ DeleteDrop(r) \/ UploadPut(r) \/ CloneCopy(r)
           \/ FetchBlob(r) \/ Crash(r)
  <2>1. \/ \E pc \in Pcs : Continue(r, req[r], pc)
        \/ \E o \in Outcomes : Respond(r, req[r], o)
    BY <1>8 DEF DeleteFind, DeleteSoft, DeleteDrop, DeleteAnswer, UploadPut, CloneCopy, FetchBlob, Crash
  <2> QED
    BY <1>0, <1>a, <2>1
<1> QED
  BY <1>2, <1>3, <1>4, <1>5, <1>6, <1>7, <1>8 DEF Serve

\* A request that begins has caused nothing.
LEMMA IdleCauses ==
  ASSUME HInv, NEW r \in Requests, req[r].pc = "idle"
  PROVE  /\ req[r].op = "none" /\ req[r].key = None /\ ~req[r].raced
         /\ \A k \in Keys : ~OwnCause(r, k)
  BY NoneAssumption DEF HInv, Held, HeldByItself, Idle, OwnCause

\* A first step of anything but a delete has little to hold on to.
LEMMA FirstStep ==
  ASSUME NEW r \in Requests, req'[r].op \notin {"delete", "patch"}, req'[r].pc # "idle",
         req'[r].pc = "done" \/ (req'[r].outcome = "none" /\ ~req'[r].raced),
         req'[r].key # None => req'[r].op \in {"upload", "clone"} /\ req'[r].pc # "target",
         req'[r].todo = {}
  PROVE  Held(r)'
  BY DEF Held, HeldByItself, OwnNote, RowsPurged, ReadAsTrashed, At

LEMMA QuietCauses ==
  ASSUME HInv, NEW r \in Requests, UNCHANGED <<accounts, notes, files, blobs, logged>>,
         Remembers(r),
         \A k \in Keys : OwnCause(r, k) => OwnCause(r, k)'
  PROVE  Causes(r)
<1>1. LeavesCauses(r)
  <2> SUFFICES ASSUME NEW k \in Keys, files[k].state # "row", k \in blobs, OwnCause(r, k)
               PROVE  Caused(k)'
    BY DEF LeavesCauses
  <2>1. OwnCause(r, k)'
    OBVIOUS
  <2> QED
    BY <2>1 DEF Caused
<1>2. NewRowsRaced(r) /\ RestoresRaced(r)
  BY DEF NewRowsRaced, RestoresRaced
<1> QED
  BY <1>1, <1>2 DEF Causes

LEMMA BeginCauses ==
  ASSUME HInv, NEW r \in Requests, Begin(r)
  PROVE  Causes(r) /\ Held(r)'
<1> USE DEF AllOps, Pcs, Outcomes
<1>0. TypeOK /\ req \in [Requests -> Request] /\ req[r] \in Request
  BY DEF HInv, IInv, TypeOK
<1>a. req[r].pc = "idle"
  BY DEF Begin, CreateNote, PatchNote, DeleteDialog, UploadFind, CloneSource, FetchFind,
         DeleteAccount, CanStart
<1>b. /\ req[r].op = "none" /\ req[r].key = None /\ ~req[r].raced
      /\ \A k \in Keys : ~OwnCause(r, k)
  BY <1>a, IdleCauses
<1>c. accounts' \subseteq accounts /\ logged \subseteq logged' => Remembers(r)
  BY <1>b DEF Remembers
<1>1. ASSUME NEW u \in Users, NEW n \in NoteIds, CreateNote(r, u, n)
      PROVE  Causes(r) /\ Held(r)'
  <2>1. /\ req'[r].pc = "done" /\ req'[r].op = "create" /\ req'[r].key = None /\ req'[r].todo = {}
    BY <1>0, <1>1, StartType, StartLocals, RespondHistory DEF CreateNote
  <2>2. Held(r)'
    BY <2>1, FirstStep
  <2>3. RestoresRaced(r)
    BY <1>0, <1>1 DEF CreateNote, RestoresRaced, TypeOK
  <2>4. NewRowsRaced(r) /\ LeavesCauses(r) /\ Remembers(r)
    BY <1>1, <1>b, <1>c DEF CreateNote, NewRowsRaced, LeavesCauses
  <2> QED
    BY <2>2, <2>3, <2>4 DEF Causes
<1>2. ASSUME NEW u \in Users, NEW n \in NoteIds, NEW s \in {"active", "trashed"},
             PatchNote(r, u, n, s)
      PROVE  Causes(r) /\ Held(r)'
  <2> DEFINE raced == HardDeleting(n, {"rows", "blobs"})
             locals == [Start("patch", u, n) EXCEPT !.raced = raced]
  <2>1. Start("patch", u, n) \in Request
    BY StartType
  <2>2. raced \in BOOLEAN
    BY DEF HardDeleting
  <2>3. locals \in Request /\ locals.op = "patch" /\ locals.note = n /\ locals.key = None
        /\ locals.todo = {} /\ locals.raced = raced
    <3>1. ASSUME NEW b \in BOOLEAN PROVE [Start("patch", u, n) EXCEPT !.raced = b] \in Request
      BY <2>1 DEF Request
    <3>2. ASSUME NEW b \in BOOLEAN PROVE [Start("patch", u, n) EXCEPT !.raced = b].raced = b
      BY <2>1 DEF Request
    <3>3. ASSUME NEW b PROVE
            /\ [Start("patch", u, n) EXCEPT !.raced = b].op = "patch"
            /\ [Start("patch", u, n) EXCEPT !.raced = b].note = n
            /\ [Start("patch", u, n) EXCEPT !.raced = b].key = None
            /\ [Start("patch", u, n) EXCEPT !.raced = b].todo = {}
      BY DEF Start, Idle
    <3> HIDE DEF raced
    <3> QED
      BY <2>2, <3>1, <3>2, <3>3
  <2>4. /\ req'[r].pc = "done" /\ req'[r].op = "patch" /\ req'[r].note = n
        /\ req'[r].key = None /\ req'[r].todo = {}
        /\ FindNote(u, n) => req'[r].raced = raced
    <3>1. CASE FindNote(u, n)
      <4>1. Respond(r, locals, "ok")
        BY <1>2, <3>1 DEF PatchNote
      <4> HIDE DEF locals, raced
      <4> QED
        BY <1>0, <2>3, <4>1, RespondHistory
    <3>2. CASE ~FindNote(u, n)
      BY <1>0, <1>2, <2>1, <3>2, StartLocals, RespondHistory DEF PatchNote
    <3> QED
      BY <3>1, <3>2
  <2>5. Held(r)'
    BY <2>4 DEF Held, HeldByItself, OwnNote, RowsPurged, ReadAsTrashed, At
  <2>6. RestoresRaced(r)
    <3> SUFFICES ASSUME NEW m \in NoteIds, notes'[m].state = "active", notes[m].state # "active"
                 PROVE  req'[r].op = "patch" /\ req'[r].note = m
                        /\ (HardDeleting(m, {"rows", "blobs"}) => req'[r].raced)
      BY DEF RestoresRaced
    <3>1. FindNote(u, n) /\ m = n
      BY <1>0, <1>2 DEF PatchNote, TypeOK
    <3> QED
      BY <2>4, <3>1
  <2>7. NewRowsRaced(r) /\ LeavesCauses(r) /\ Remembers(r)
    BY <1>2, <1>b, <1>c DEF PatchNote, NewRowsRaced, LeavesCauses
  <2> QED
    BY <2>5, <2>6, <2>7 DEF Causes
<1>3. ASSUME NEW u \in Users, NEW n \in NoteIds, DeleteDialog(r, u, n)
      PROVE  Causes(r) /\ Held(r)'
  <2>1. /\ req'[r].pc = "sent" /\ req'[r].op = "delete" /\ req'[r].user = u /\ req'[r].note = n
        /\ req'[r].key = None /\ req'[r].todo = {} /\ req'[r].outcome = "none"
    BY <1>0, <1>3 DEF DeleteDialog, Continue, Start, Idle
  <2>2. FindNote(u, n) /\ UNCHANGED <<accounts, notes, files, blobs, logged>>
    BY <1>3 DEF DeleteDialog
  <2>3. Held(r)'
    BY <2>1, <2>2 DEF Held, HeldByItself, OwnNote, RowsPurged, ReadAsTrashed, At, FindNote, NoteExists
  <2>4. Causes(r)
    BY <1>b, <1>c, <2>2, QuietCauses
  <2> QED
    BY <2>3, <2>4
<1>4. ASSUME NEW u \in Users, NEW n \in NoteIds, NEW k \in Keys, UploadFind(r, u, n, k)
      PROVE  Causes(r) /\ Held(r)'
  <2>1. /\ req'[r].op = "upload" /\ req'[r].todo = {} /\ req'[r].pc \in {"done", "put"}
        /\ req'[r].pc = "put" => req'[r].outcome = "none" /\ ~req'[r].raced
    <3>1. CASE FindNote(u, n)
      BY <1>0, <1>4, <3>1 DEF UploadFind, Continue, Start, Idle
    <3>2. CASE ~FindNote(u, n)
      BY <1>0, <1>4, <3>2 DEF UploadFind, Respond, Start, Idle
    <3> QED
      BY <3>1, <3>2
  <2>2. Held(r)'
    BY <2>1, FirstStep
  <2>3. UNCHANGED <<accounts, notes, files, blobs, logged>>
    BY <1>4 DEF UploadFind
  <2>4. Causes(r)
    BY <1>b, <1>c, <2>3, QuietCauses
  <2> QED
    BY <2>2, <2>4
<1>5. ASSUME NEW u \in Users, NEW n \in NoteIds, NEW f \in Keys, CloneSource(r, u, f, n)
      PROVE  Causes(r) /\ Held(r)'
  <2> DEFINE locals == [Start("clone", u, n) EXCEPT !.src = f]
  <2>1. locals \in Request
    BY StartType DEF Request
  <2>2. locals.op = "clone" /\ locals.todo = {} /\ locals.key = None /\ locals.outcome = "none"
        /\ ~locals.raced
    BY DEF Start, Idle
  <2>3. \/ \E o \in Outcomes : Respond(r, locals, o)
        \/ Continue(r, locals, "target")
    BY <1>5 DEF CloneSource
  <2> HIDE DEF locals
  <2>4. /\ req'[r].op = "clone" /\ req'[r].todo = {} /\ req'[r].key = None
        /\ req'[r].pc = "done" \/ (req'[r].pc = "target" /\ req'[r].outcome = "none" /\ ~req'[r].raced)
    BY <1>0, <2>1, <2>2, <2>3, RespondHistory, ContinueHistory
  <2>5. Held(r)'
    BY <2>4, FirstStep
  <2>6. UNCHANGED <<accounts, notes, files, blobs, logged>>
    BY <1>5 DEF CloneSource
  <2>7. Causes(r)
    BY <1>b, <1>c, <2>6, QuietCauses
  <2> QED
    BY <2>5, <2>7
<1>6. ASSUME NEW u \in Users, NEW f \in Keys, FetchFind(r, u, f)
      PROVE  Causes(r) /\ Held(r)'
  <2>1. /\ req'[r].op = "fetch" /\ req'[r].todo = {} /\ req'[r].key = None
        /\ req'[r].pc = "done" \/ (req'[r].pc = "fetch" /\ req'[r].outcome = "none" /\ ~req'[r].raced)
    BY <1>0, <1>6 DEF FetchFind, Continue, Respond, Start, Idle
  <2>2. Held(r)'
    BY <2>1, FirstStep
  <2>3. UNCHANGED <<accounts, notes, files, blobs, logged>>
    BY <1>6 DEF FetchFind
  <2>4. Causes(r)
    BY <1>b, <1>c, <2>3, QuietCauses
  <2> QED
    BY <2>2, <2>4
<1>7. ASSUME NEW u \in Users, DeleteAccount(r, u)
      PROVE  Causes(r) /\ Held(r)'
  <2> DEFINE N == {n \in NoteIds : FindNote(u, n)}
             K == {k \in Keys : FindFile(u, k)} \cup RowsOf(N)
  <2>1. req'[r].pc = "done" /\ req'[r].op = "account" /\ req'[r].key = None /\ req'[r].todo = {}
    BY <1>0, <1>7 DEF DeleteAccount, Respond, Start, Idle
  <2>2. Held(r)'
    BY <2>1, FirstStep
  <2>3. /\ notes' = WithoutNotes(notes, N) /\ files' = WithoutFiles(files, K)
        /\ accounts' = accounts \ {u} /\ UNCHANGED <<blobs, logged>>
    BY <1>7 DEF DeleteAccount
  <2>4. \A k \in K : files[k].owner = u
    BY DEF FindFile, FindNote, RowsOf, HInv, IInv, FileBelongsToNote
  <2>5. \A n \in NoteIds : notes'[n].state = "active" => notes'[n] = notes[n]
    BY <1>0, <2>3 DEF WithoutNotes, TypeOK, NoteRow
  <2>6. \A k \in Keys : files'[k] = IF k \in K THEN [files[k] EXCEPT !.state = "gone"] ELSE files[k]
    BY <2>3 DEF WithoutFiles
  <2> HIDE DEF K
  <2>7. \A k \in Keys : files[k] \in FileRow
    BY <1>0 DEF TypeOK
  <2>8. \A k \in Keys : files'[k].owner = files[k].owner /\ (files'[k].state = "row" => k \notin K)
    BY <2>6, <2>7 DEF FileRow
  <2>9. RestoresRaced(r) /\ NewRowsRaced(r) /\ Remembers(r)
    BY <1>c, <2>3, <2>5, <2>6, <2>8 DEF RestoresRaced, NewRowsRaced
  <2>10. \A s \in Requests : req'[s].purged \subseteq req[s].purged
    BY <1>0, <1>7 DEF DeleteAccount, Respond, Start, Idle
  <2>11. ASSUME NEW k \in K, k \in Keys, files[k].state = "row" PROVE WentWithAccount(k)'
    BY <2>3, <2>4, <2>6, <2>7, <2>8, <2>10, <2>11
    DEF WentWithAccount, HInv, PurgedRowsGone, FileRow
  <2>12. LeavesCauses(r)
    BY <1>b, <2>3, <2>6, <2>8, <2>11 DEF LeavesCauses, Caused
  <2> QED
    BY <2>2, <2>9, <2>12 DEF Causes
<1> QED
  BY <1>1, <1>2, <1>3, <1>4, <1>5, <1>6, <1>7 DEF Begin

LEMMA ServeCauses ==
  ASSUME HInv, NEW r \in Requests, Serve(r)
  PROVE  Causes(r) /\ Held(r)'
<1> USE DEF AllOps, Pcs, Outcomes
<1>0. /\ TypeOK /\ LocalOK(r) /\ req \in [Requests -> Request] /\ req[r] \in Request
      /\ Held(r) /\ \A k \in Keys : k # None
  BY NoneAssumption DEF HInv, IInv, TypeOK
<1>a. req[r].pc \notin {"idle", "done"} /\ req[r].op # "patch"
  BY <1>0 DEF Serve, DeleteFind, DeleteSoft, DeleteRows, DeleteBlob, DeleteDrop, UploadPut, CloneTarget,
         CloneCopy, InsertFile, FetchBlob, At, Held, HeldByItself
<1>b. /\ req'[r].key = req[r].key /\ req'[r].raced = req[r].raced
      /\ accounts' = accounts /\ logged \subseteq logged'
      => Remembers(r)
  BY <1>a DEF Remembers
\* A delete that takes a step and is left with the same note and history.
<1>c. ASSUME req[r].op = "delete",
             req'[r].op = "delete", req'[r].pc \in {"soft", "rows", "blobs", "done"},
             req'[r].user = req[r].user, req'[r].note = req[r].note, req'[r].key = req[r].key,
             req'[r].pc # "done" => req'[r].outcome = "none",
             req'[r].todo \subseteq req'[r].purged,
             req'[r].todo # {} /\ req'[r].pc \in {"soft", "rows"} => req'[r].tries > 0,
             \A n \in NoteIds : notes[n].state # "fresh" =>
               notes'[n].state # "fresh" /\ notes'[n].owner = notes[n].owner
      PROVE  HeldByItself(r)' /\ OwnNote(r)'
  <2>1. HeldByItself(r)'
    BY <1>0, <1>c DEF Held, HeldByItself
  <2>2. OwnNote(r)'
    BY <1>0, <1>c DEF Held, OwnNote, LocalOK
  <2> QED
    BY <2>1, <2>2
<1>d. ASSUME req'[r].op = "delete", req'[r].pc = "done"
      PROVE  RowsPurged(r)' /\ ReadAsTrashed(r)'
  BY <1>d DEF RowsPurged, ReadAsTrashed, At
\* A request to write a file that takes a step.
<1>e. ASSUME req[r].op \in {"upload", "clone"}, req'[r].op = req[r].op,
             req'[r].pc \in {"row", "copy", "done"}, req'[r].todo = req[r].todo,
             req'[r].purged = req[r].purged,
             req'[r].pc # "done" => req'[r].outcome = "none" /\ ~req'[r].raced
      PROVE  Held(r)'
  BY <1>0, <1>e DEF Held, HeldByItself, OwnNote, RowsPurged, ReadAsTrashed, At
<1>1. CASE DeleteFind(r)
  <2> DEFINE n == req[r].note
  <2>1. UNCHANGED <<accounts, notes, files, blobs, logged>> /\ req[r].op = "delete" /\ req[r].pc = "sent"
    BY <1>1 DEF DeleteFind, At
  <2>2. req[r].outcome = "none" /\ req[r].key = None /\ req[r].todo \subseteq req[r].purged
        /\ (req[r].todo # {} => req[r].tries > 0)
    BY <1>0, <2>1 DEF Held, HeldByItself
  <2>3. \/ Respond(r, req[r], "notfound")
        \/ Continue(r, req[r], "soft")
        \/ Continue(r, req[r], "rows") /\ notes[n].state # "active"
    BY <1>1 DEF DeleteFind
  <2>4. /\ req'[r].op = "delete" /\ req'[r].user = req[r].user /\ req'[r].note = n
        /\ req'[r].key = req[r].key /\ req'[r].todo = req[r].todo /\ req'[r].purged = req[r].purged
        /\ req'[r].tries = req[r].tries /\ req'[r].raced = req[r].raced
        /\ \/ req'[r].pc = "done"
           \/ req'[r].pc = "soft" /\ req'[r].outcome = "none"
           \/ req'[r].pc = "rows" /\ req'[r].outcome = "none" /\ notes[n].state # "active"
    BY <1>0, <2>1, <2>2, <2>3, RespondHistory, ContinueHistory
  <2>5. RowsPurged(r)' /\ ReadAsTrashed(r)'
    BY <2>1, <2>4 DEF RowsPurged, ReadAsTrashed, At
  <2>6. Held(r)'
    BY <1>c, <2>1, <2>2, <2>4, <2>5 DEF Held
  <2>7. \A k \in Keys : OwnCause(r, k) => OwnCause(r, k)'
    BY <1>0, <2>2, <2>4 DEF OwnCause
  <2>8. Causes(r)
    BY <1>b, <2>1, <2>4, <2>7, QuietCauses
  <2> QED
    BY <2>6, <2>8
<1>2. CASE DeleteSoft(r)
  <2> DEFINE n == req[r].note
  <2>1. UNCHANGED <<accounts, files, blobs, logged>> /\ req[r].op = "delete" /\ req[r].pc = "soft"
    BY <1>2 DEF DeleteSoft, At
  <2>2. req[r].key = None /\ req[r].todo \subseteq req[r].purged
    BY <1>0, <2>1 DEF Held, HeldByItself
  <2>3. /\ req'[r].op = "delete" /\ req'[r].user = req[r].user /\ req'[r].note = n
        /\ req'[r].key = req[r].key /\ req'[r].todo = req[r].todo /\ req'[r].purged = req[r].purged
        /\ req'[r].tries = req[r].tries /\ req'[r].raced = req[r].raced /\ req'[r].pc = "done"
    BY <1>0, <1>2, <2>1, RespondHistory DEF DeleteSoft, DeleteAnswer
  <2>4. \A m \in NoteIds : notes[m].state # "fresh" =>
          notes'[m].state # "fresh" /\ notes'[m].owner = notes[m].owner
    BY <1>0, <1>2 DEF DeleteSoft, TypeOK, NoteRow
  <2>5. \A m \in NoteIds : notes'[m].state = "active" => notes[m].state = "active"
    BY <1>0, <1>2 DEF DeleteSoft, TypeOK, NoteRow
  <2>6. Held(r)'
    BY <1>c, <1>d, <2>1, <2>2, <2>3, <2>4 DEF Held
  <2>7. ASSUME NEW k \in Keys, OwnCause(r, k) PROVE OwnCause(r, k)'
    BY <1>0, <2>2, <2>3, <2>7 DEF OwnCause
  <2>8. LeavesCauses(r)
    BY <2>1, <2>7 DEF LeavesCauses, Caused
  <2>9. RestoresRaced(r) /\ NewRowsRaced(r) /\ Remembers(r)
    BY <1>b, <2>1, <2>3, <2>5 DEF RestoresRaced, NewRowsRaced
  <2> QED
    BY <2>6, <2>8, <2>9 DEF Causes
<1>3. CASE DeleteRows(r)
  <2> DEFINE n == req[r].note
             K == FilesOfNote(req[r].user, n)
             locals == [req[r] EXCEPT !.todo = K, !.purged = @ \cup K]
  <2>1. /\ UNCHANGED <<accounts, notes, blobs, logged>> /\ files' = WithoutFiles(files, K)
        /\ req[r].op = "delete" /\ req[r].pc = "rows"
    BY <1>3 DEF DeleteRows, At
  <2>2. /\ req[r].outcome = "none" /\ req[r].key = None /\ req[r].todo \subseteq req[r].purged
        /\ req[r].todo # {} => req[r].tries > 0
    BY <1>0, <2>1 DEF Held, HeldByItself
  <2>3. /\ locals \in Request /\ locals.op = req[r].op /\ locals.user = req[r].user
        /\ locals.note = req[r].note /\ locals.key = req[r].key /\ locals.todo = K
        /\ locals.purged = req[r].purged \cup K /\ locals.tries = req[r].tries
        /\ locals.raced = req[r].raced /\ locals.outcome = req[r].outcome
    BY <1>0 DEF Request, FilesOfNote
  <2>4. Continue(r, locals, "blobs")
    BY <1>3 DEF DeleteRows
  <2>5. /\ req'[r].op = "delete" /\ req'[r].pc = "blobs" /\ req'[r].user = req[r].user
        /\ req'[r].note = n /\ req'[r].key = req[r].key /\ req'[r].todo = K
        /\ req'[r].purged = req[r].purged \cup K /\ req'[r].tries = req[r].tries
        /\ req'[r].raced = req[r].raced /\ req'[r].outcome = "none"
    <3> HIDE DEF locals, K
    <3> QED
      BY <1>0, <2>1, <2>2, <2>3, <2>4, ContinueHistory
  <2>6. HeldByItself(r)' /\ OwnNote(r)'
    BY <1>c, <2>1, <2>2, <2>5
  <2>7. \A k \in Keys : files'[k] = IF k \in K THEN [files[k] EXCEPT !.state = "gone"] ELSE files[k]
    BY <2>1 DEF WithoutFiles
  <2>8. \A k \in Keys : files[k] \in FileRow
    BY <1>0 DEF TypeOK
  <2>9. \A k \in Keys : files'[k].owner = files[k].owner /\ (files'[k].state = "row" => k \notin K)
    <3> HIDE DEF K
    <3> QED
      BY <2>7, <2>8 DEF FileRow
  <2>10. RowsPurged(r)'
    <3> SUFFICES ASSUME NEW k \in Keys, files'[k].state = "row", files'[k].note = n PROVE FALSE
      BY <2>5 DEF RowsPurged
    <3>1. k \notin K /\ files[k].state = "row" /\ files[k].note = n
      BY <2>7, <2>9
    <3>2. files[k].owner = req[r].user
      BY <1>0, <2>1, <3>1 DEF HInv, IInv, FileBelongsToNote, Held, OwnNote
    <3> QED
      BY <3>1, <3>2 DEF FilesOfNote, FindFile
  <2>11. ReadAsTrashed(r)'
    <3> SUFFICES ASSUME notes[n].state = "active"
                 PROVE  \E p \in Requests : req'[p].op = "patch" /\ req'[p].note = n /\ req'[p].raced
      BY <2>1, <2>5 DEF ReadAsTrashed, RacedRestore
    <3>1. PICK p \in Requests : req[p].op = "patch" /\ req[p].note = n /\ req[p].raced
      BY <1>0, <2>1 DEF Held, ReadAsTrashed, RacedRestore
    <3>2. req'[p] = req[p]
      BY <1>a, <2>4, <3>1 DEF Continue
    <3> QED
      BY <3>1, <3>2
  <2>12. LeavesCauses(r)
    <3> SUFFICES ASSUME NEW k \in Keys, files'[k].state # "row", k \in blobs,
                        OwnCause(r, k) \/ files[k].state = "row"
                 PROVE  OwnCause(r, k)'
      BY <2>1, <2>9 DEF LeavesCauses, Caused
    <3>1. CASE OwnCause(r, k)
      BY <1>0, <2>2, <2>5, <3>1 DEF OwnCause
    <3>2. CASE files[k].state = "row"
      <4>1. k \in K
        BY <2>7, <3>2
      <4> QED
        BY <2>5, <4>1 DEF OwnCause
    <3> QED
      BY <3>1, <3>2
  <2>13. RestoresRaced(r) /\ NewRowsRaced(r) /\ Remembers(r)
    BY <1>b, <2>1, <2>5, <2>7, <2>9 DEF RestoresRaced, NewRowsRaced
  <2> QED
    BY <2>6, <2>10, <2>11, <2>12, <2>13 DEF Causes, Held
<1>4. ASSUME NEW j \in Keys, DeleteBlob(r, j)
      PROVE  Causes(r) /\ Held(r)'
  <2> DEFINE n == req[r].note
             locals == [req[r] EXCEPT !.todo = @ \ {j}]
  <2>1. /\ UNCHANGED <<accounts, notes, files>> /\ req[r].op = "delete" /\ req[r].pc = "blobs"
        /\ blobs' \subseteq blobs /\ logged \subseteq logged'
        /\ j \notin blobs' \/ j \in logged'
    BY <1>4 DEF DeleteBlob, At
  <2>2. req[r].outcome = "none" /\ req[r].key = None /\ req[r].todo \subseteq req[r].purged
    BY <1>0, <2>1 DEF Held, HeldByItself
  <2>3. /\ locals \in Request /\ locals.op = req[r].op /\ locals.user = req[r].user
        /\ locals.note = req[r].note /\ locals.key = req[r].key /\ locals.todo = req[r].todo \ {j}
        /\ locals.purged = req[r].purged /\ locals.tries = req[r].tries
        /\ locals.raced = req[r].raced /\ locals.outcome = req[r].outcome
    BY <1>0 DEF Request
  <2>4. Continue(r, locals, "blobs")
    BY <1>4 DEF DeleteBlob
  <2>5. /\ req'[r].op = "delete" /\ req'[r].pc = "blobs" /\ req'[r].user = req[r].user
        /\ req'[r].note = n /\ req'[r].key = req[r].key /\ req'[r].todo = req[r].todo \ {j}
        /\ req'[r].purged = req[r].purged /\ req'[r].tries = req[r].tries
        /\ req'[r].raced = req[r].raced /\ req'[r].outcome = "none"
    <3> HIDE DEF locals
    <3> QED
      BY <1>0, <2>1, <2>2, <2>3, <2>4, ContinueHistory
  <2>6. HeldByItself(r)' /\ OwnNote(r)'
    BY <1>c, <2>1, <2>2, <2>5
  <2>7. \A s \in Requests : req'[s].key = req[s].key /\ req'[s].raced = req[s].raced
                            /\ req'[s].op = req[s].op /\ req'[s].note = req[s].note
    BY <1>0, <2>1, <2>4, <2>5 DEF Continue
  <2>8. RowsPurged(r)'
    BY <1>0, <2>1, <2>5, <2>7 DEF Held, RowsPurged, At, RacedInsert
  <2>9. ReadAsTrashed(r)'
    BY <1>0, <2>1, <2>5, <2>7 DEF Held, ReadAsTrashed, RacedRestore
  <2>10. LeavesCauses(r)
    <3> SUFFICES ASSUME NEW k \in Keys, k \in blobs', OwnCause(r, k), k \notin logged'
                 PROVE  OwnCause(r, k)'
      BY <2>1 DEF LeavesCauses, Caused
    <3> QED
      BY <1>0, <2>1, <2>2, <2>5 DEF OwnCause
  <2>11. RestoresRaced(r) /\ NewRowsRaced(r) /\ Remembers(r)
    BY <1>b, <2>1, <2>5 DEF RestoresRaced, NewRowsRaced
  <2> QED
    BY <2>6, <2>8, <2>9, <2>10, <2>11 DEF Causes, Held
<1>5. CASE DeleteDrop(r)
  <2> DEFINE n == req[r].note
             N == IF FindNote(req[r].user, n) THEN {n} ELSE {}
             K == RowsOf(N)
  <2>1. /\ UNCHANGED <<accounts, blobs, logged>> /\ req[r].op = "delete" /\ req[r].pc = "blobs"
        /\ notes' = WithoutNotes(notes, N) /\ files' = WithoutFiles(files, K)
    BY <1>5 DEF DeleteDrop, At
  <2>2. req[r].key = None /\ req[r].todo \subseteq req[r].purged
    BY <1>0, <2>1 DEF Held, HeldByItself
  <2>3. /\ req'[r].op = "delete" /\ req'[r].user = req[r].user /\ req'[r].note = n
        /\ req'[r].key = req[r].key /\ req'[r].todo = req[r].todo /\ req'[r].purged = req[r].purged
        /\ req'[r].tries = req[r].tries /\ req'[r].raced = req[r].raced /\ req'[r].pc = "done"
    BY <1>0, <1>5, <2>1, RespondHistory DEF DeleteDrop, DeleteAnswer
  <2>4. \A m \in NoteIds : /\ notes[m].state # "fresh" =>
                                notes'[m].state # "fresh" /\ notes'[m].owner = notes[m].owner
                           /\ notes'[m].state = "active" => notes[m].state = "active"
    BY <1>0, <2>1 DEF WithoutNotes, TypeOK, NoteRow
  <2>5. Held(r)'
    BY <1>c, <1>d, <2>1, <2>2, <2>3, <2>4 DEF Held
  <2>6. \A k \in Keys : files'[k] = IF k \in K THEN [files[k] EXCEPT !.state = "gone"] ELSE files[k]
    BY <2>1 DEF WithoutFiles
  <2>7. \A k \in Keys : files[k] \in FileRow
    BY <1>0 DEF TypeOK
  <2>8. \A k \in Keys : files'[k].owner = files[k].owner /\ (files'[k].state = "row" => k \notin K)
    <3> HIDE DEF K
    <3> QED
      BY <2>6, <2>7 DEF FileRow
  <2>9. LeavesCauses(r)
    <3> SUFFICES ASSUME NEW k \in Keys, files'[k].state # "row", k \in blobs,
                        OwnCause(r, k) \/ files[k].state = "row"
                 PROVE  \E s \in Requests : OwnCause(s, k)'
      BY <2>1, <2>8 DEF LeavesCauses, Caused
    <3>1. CASE OwnCause(r, k)
      <4>1. OwnCause(r, k)'
        BY <1>0, <2>2, <2>3, <3>1 DEF OwnCause
      <4> QED
        BY <4>1
    <3>2. CASE files[k].state = "row"
      <4>1. files[k].note = n
        BY <2>6, <3>2 DEF RowsOf
      <4>2. PICK s \in Requests : req[s].key = k /\ req[s].raced
        BY <1>0, <2>1, <3>2, <4>1 DEF Held, RowsPurged, At, RacedInsert
      <4>3. req'[s] = req[s]
        BY <1>0, <1>5, <2>2, <4>2 DEF DeleteDrop, Respond
      <4>4. OwnCause(s, k)'
        BY <4>2, <4>3 DEF OwnCause
      <4> QED
        BY <4>4
    <3> QED
      BY <3>1, <3>2
  <2>10. RestoresRaced(r) /\ NewRowsRaced(r) /\ Remembers(r)
    BY <1>b, <2>1, <2>3, <2>4, <2>6, <2>8 DEF RestoresRaced, NewRowsRaced
  <2> QED
    BY <2>5, <2>9, <2>10 DEF Causes
<1>6. CASE UploadPut(r) \/ CloneCopy(r)
  <2>1. /\ UNCHANGED <<accounts, notes, files, logged>> /\ req[r].op \in {"upload", "clone"}
        /\ blobs' \subseteq blobs \cup {req[r].key}
        /\ Continue(r, req[r], "row") \/ Respond(r, req[r], "error")
    BY <1>6 DEF UploadPut, CloneCopy, At
  <2>2. req[r].outcome = "none" /\ ~req[r].raced
    BY <1>0, <1>6, <1>a DEF Held, HeldByItself, UploadPut, CloneCopy, At
  <2>3. /\ req'[r].op = req[r].op /\ req'[r].key = req[r].key /\ req'[r].todo = req[r].todo
        /\ req'[r].purged = req[r].purged /\ req'[r].tries = req[r].tries
        /\ req'[r].raced = req[r].raced
        /\ \/ req'[r].pc = "row" /\ req'[r].outcome = "none"
           \/ req'[r].pc = "done" /\ req'[r].outcome = "error"
    BY <1>0, <2>1, <2>2, RespondHistory, ContinueHistory
  <2>4. Held(r)'
    BY <1>e, <2>1, <2>2, <2>3
  <2>5. LeavesCauses(r)
    <3> SUFFICES ASSUME NEW k \in Keys, files'[k].state # "row", k \in blobs',
                        OwnCause(r, k) \/ k \notin blobs
                 PROVE  OwnCause(r, k)'
      BY <2>1 DEF LeavesCauses, Caused
    <3> QED
      BY <2>1, <2>3 DEF OwnCause, NotAnswered
  <2>6. RestoresRaced(r) /\ NewRowsRaced(r) /\ Remembers(r)
    BY <1>b, <2>1, <2>3 DEF RestoresRaced, NewRowsRaced
  <2> QED
    BY <2>4, <2>5, <2>6 DEF Causes
<1>7. ASSUME NEW j \in Keys, CloneTarget(r, j)
      PROVE  Causes(r) /\ Held(r)'
  <2> DEFINE locals == [req[r] EXCEPT !.key = j]
  <2>1. /\ UNCHANGED <<accounts, notes, files, blobs, logged>>
        /\ req[r].op = "clone" /\ req[r].pc = "target"
        /\ Continue(r, locals, "copy") \/ Respond(r, req[r], "notfound")
    BY <1>7 DEF CloneTarget, At
  <2>2. req[r].outcome = "none" /\ req[r].key = None /\ ~req[r].raced
    BY <1>0, <2>1 DEF Held, HeldByItself
  <2>3. /\ locals \in Request /\ locals.op = req[r].op /\ locals.todo = req[r].todo
        /\ locals.purged = req[r].purged /\ locals.tries = req[r].tries
        /\ locals.outcome = req[r].outcome /\ locals.raced = req[r].raced
    BY <1>0 DEF Request
  <2>4. /\ req'[r].op = req[r].op /\ req'[r].todo = req[r].todo
        /\ req'[r].purged = req[r].purged /\ req'[r].tries = req[r].tries
        /\ \/ req'[r].pc = "copy" /\ req'[r].outcome = "none" /\ ~req'[r].raced
           \/ req'[r].pc = "done"
    <3> HIDE DEF locals
    <3> QED
      BY <1>0, <2>1, <2>2, <2>3, RespondHistory, ContinueHistory
  <2>5. Held(r)'
    BY <1>e, <2>1, <2>4
  <2>6. \A k \in Keys : OwnCause(r, k) => OwnCause(r, k)'
    BY <1>0, <2>2, <2>4 DEF OwnCause
  <2>7. Remembers(r)
    BY <1>a, <2>1, <2>2 DEF Remembers
  <2> QED
    BY <2>1, <2>5, <2>6, <2>7, QuietCauses
<1>8. CASE InsertFile(r)
  <2> DEFINE raced == HardDeleting(req[r].note, {"blobs"})
             locals == [req[r] EXCEPT !.raced = raced]
  <2>1. UNCHANGED <<accounts, notes, blobs, logged>> /\ req[r].pc = "row"
        /\ req[r].op \in {"upload", "clone"} /\ req[r].key \in Keys
        /\ files[req[r].key].state = "fresh"
    BY <1>0, <1>8 DEF InsertFile, LocalOK, Writing
  <2>2. raced \in BOOLEAN
    BY DEF HardDeleting
  <2>3. /\ locals \in Request /\ locals.op = req[r].op /\ locals.key = req[r].key
        /\ locals.todo = req[r].todo /\ locals.purged = req[r].purged /\ locals.tries = req[r].tries
        /\ locals.raced = raced
    <3>1. ASSUME NEW b \in BOOLEAN
          PROVE  /\ [req[r] EXCEPT !.raced = b] \in Request
                 /\ [req[r] EXCEPT !.raced = b].raced = b
                 /\ [req[r] EXCEPT !.raced = b].op = req[r].op
                 /\ [req[r] EXCEPT !.raced = b].key = req[r].key
                 /\ [req[r] EXCEPT !.raced = b].todo = req[r].todo
                 /\ [req[r] EXCEPT !.raced = b].purged = req[r].purged
                 /\ [req[r] EXCEPT !.raced = b].tries = req[r].tries
      BY <1>0 DEF Request
    <3> HIDE DEF raced
    <3> QED
      BY <2>2, <3>1
  <2> DEFINE Inserted ==
               /\ \A k \in Keys \ {req[r].key} : files'[k] = files[k]
               /\ files'[req[r].key].state = "row" /\ files'[req[r].key].note = req[r].note
  <2>4. \/ Respond(r, locals, "ok") /\ Inserted
        \/ Respond(r, req[r], "error") /\ files' = files
    BY <1>0, <1>8, <2>1 DEF InsertFile, TypeOK
  <2>5. /\ req'[r].op = req[r].op /\ req'[r].key = req[r].key /\ req'[r].pc = "done"
        /\ req'[r].todo = req[r].todo /\ req'[r].purged = req[r].purged /\ req'[r].tries = req[r].tries
    <3> HIDE DEF locals
    <3> QED
      BY <1>0, <2>3, <2>4, RespondHistory
  <2>6. \/ req'[r].raced = raced /\ Inserted
        \/ req'[r].outcome = "error" /\ req'[r].raced = req[r].raced /\ files' = files
    <3> HIDE DEF locals, raced, Inserted
    <3>1. Respond(r, locals, "ok") => req'[r].raced = raced
      BY <1>0, <2>3, RespondHistory
    <3>2. Respond(r, req[r], "error") => req'[r].raced = req[r].raced /\ req'[r].outcome = "error"
      BY <1>0, RespondHistory
    <3> QED
      BY <2>4, <3>1, <3>2
  <2>7. Held(r)'
    BY <1>e, <2>1, <2>5
  <2>8. NewRowsRaced(r)
    BY <2>1, <2>5, <2>6 DEF NewRowsRaced
  <2>9. LeavesCauses(r)
    <3> SUFFICES ASSUME NEW k \in Keys, files'[k].state # "row", k \in blobs, OwnCause(r, k)
                 PROVE  OwnCause(r, k)'
      BY <2>1, <2>6 DEF LeavesCauses, Caused
    <3> QED
      BY <2>5, <2>6 DEF OwnCause, NotAnswered
  <2>10. req[r].raced => req'[r].raced
    BY <1>0, <2>1, <2>6 DEF Held, HeldByItself
  <2>11. RestoresRaced(r) /\ Remembers(r)
    BY <1>a, <2>1, <2>5, <2>10 DEF RestoresRaced, Remembers
  <2> QED
    BY <2>7, <2>8, <2>9, <2>11 DEF Causes
<1>9. CASE FetchBlob(r)
  <2>1. UNCHANGED <<accounts, notes, files, blobs, logged>> /\ req[r].op = "fetch"
        /\ \E o \in Outcomes : Respond(r, req[r], o)
    BY <1>9 DEF FetchBlob, At
  <2>2. req[r].key = None
    BY <1>0, <2>1 DEF Held, HeldByItself
  <2>3. /\ req'[r].op = "fetch" /\ req'[r].key = req[r].key /\ req'[r].todo = req[r].todo
        /\ req'[r].purged = req[r].purged /\ req'[r].tries = req[r].tries
        /\ req'[r].raced = req[r].raced /\ req'[r].pc = "done"
    BY <1>0, <2>1, RespondHistory
  <2>4. Held(r)'
    BY <1>0, <2>2, <2>3 DEF Held, HeldByItself, OwnNote, RowsPurged, ReadAsTrashed, At
  <2>5. \A k \in Keys : OwnCause(r, k) => OwnCause(r, k)'
    BY <1>0, <2>2, <2>3 DEF OwnCause
  <2> QED
    BY <1>b, <2>1, <2>3, <2>4, <2>5, QuietCauses
<1> QED
  BY <1>1, <1>2, <1>3, <1>4, <1>5, <1>6, <1>7, <1>8, <1>9 DEF Serve

LEMMA RestCauses ==
  ASSUME HInv, NEW r \in Requests, RetryDelete(r) \/ Crash(r)
  PROVE  Causes(r) /\ Held(r)'
<1> USE DEF AllOps, Pcs, Outcomes
<1>0. /\ TypeOK /\ LocalOK(r) /\ req \in [Requests -> Request] /\ req[r] \in Request
      /\ Held(r) /\ \A k \in Keys : k # None
  BY NoneAssumption DEF HInv, IInv, TypeOK
<1>1. UNCHANGED <<accounts, notes, files, blobs, logged>>
  BY DEF RetryDelete, Crash
<1>2. CASE RetryDelete(r)
  <2> DEFINE locals == [req[r] EXCEPT !.tries = req[r].tries + 1, !.outcome = "none"]
  <2>1. req[r].op = "delete" /\ Continue(r, locals, "sent")
    BY <1>2 DEF RetryDelete, At
  <2>2. req[r].tries \in Nat /\ req[r].tries + 1 \in Nat /\ req[r].tries + 1 > 0
        /\ (req[r].tries > 0 => req[r].tries + 1 > 0)
    BY <1>0 DEF Request
  <2>3. locals \in Request
    BY <1>0, <2>2, RepeatType
  <2>4. /\ locals.op = req[r].op /\ locals.user = req[r].user /\ locals.note = req[r].note
        /\ locals.key = req[r].key /\ locals.todo = req[r].todo /\ locals.purged = req[r].purged
        /\ locals.tries = req[r].tries + 1 /\ locals.raced = req[r].raced /\ locals.outcome = "none"
    BY <1>0 DEF Request
  <2>5. /\ req'[r].pc = "sent" /\ req'[r].op = "delete" /\ req'[r].user = req[r].user
        /\ req'[r].note = req[r].note /\ req'[r].key = req[r].key /\ req'[r].todo = req[r].todo
        /\ req'[r].purged = req[r].purged /\ req'[r].tries > 0
        /\ req'[r].raced = req[r].raced /\ req'[r].outcome = "none"
    <3> HIDE DEF locals
    <3> QED
      BY <1>0, <2>1, <2>2, <2>3, <2>4, ContinueHistory
  <2>6. req[r].key = None /\ req[r].todo \subseteq req[r].purged
    BY <1>0, <2>1 DEF Held, HeldByItself
  <2>7. HeldByItself(r)'
    BY <2>5, <2>6 DEF HeldByItself
  <2>8. OwnNote(r)' /\ RowsPurged(r)' /\ ReadAsTrashed(r)'
    BY <1>0, <1>1, <2>1, <2>5 DEF Held, OwnNote, RowsPurged, ReadAsTrashed, At
  <2>9. \A k \in Keys : OwnCause(r, k) => OwnCause(r, k)'
    BY <1>0, <2>5, <2>6 DEF OwnCause
  <2>10. Remembers(r)
    BY <1>1, <2>1, <2>5 DEF Remembers
  <2> QED
    BY <1>1, <2>7, <2>8, <2>9, <2>10, QuietCauses DEF Held
<1>3. CASE Crash(r)
  <2>1. Respond(r, req[r], "lost") /\ req[r].pc # "done"
    BY <1>3 DEF Crash
  <2>2. /\ req'[r].pc = "done" /\ req'[r].op = req[r].op /\ req'[r].user = req[r].user
        /\ req'[r].note = req[r].note /\ req'[r].key = req[r].key /\ req'[r].todo = req[r].todo
        /\ req'[r].purged = req[r].purged /\ req'[r].tries = req[r].tries
        /\ req'[r].raced = req[r].raced /\ req'[r].outcome = "lost"
    BY <1>0, <2>1, RespondHistory
  <2>3. HeldByItself(r)'
    BY <1>0, <2>2 DEF Held, HeldByItself
  <2>4. OwnNote(r)' /\ RowsPurged(r)' /\ ReadAsTrashed(r)'
    BY <1>0, <1>1, <2>2 DEF Held, OwnNote, RowsPurged, ReadAsTrashed, At
  <2>5. \A k \in Keys : OwnCause(r, k) => OwnCause(r, k)'
    BY <2>2 DEF OwnCause, NotAnswered
  <2>6. Remembers(r)
    BY <1>1, <2>2 DEF Remembers
  <2> QED
    BY <1>1, <2>3, <2>4, <2>5, <2>6, QuietCauses DEF Held
<1> QED
  BY <1>2, <1>3

LEMMA InitCauses == Init => HInv
<1> SUFFICES ASSUME Init PROVE HInv
  OBVIOUS
<1>1. IInv
  BY InitInv
<1>2. OrphansExplained
  BY DEF Init, OrphansExplained
<1>3. \A r \in Requests : req[r] = Idle
  BY DEF Init
<1>5. PurgedRowsGone
  <2>1. Idle.purged = {}
    BY DEF Idle
  <2> QED
    BY <1>3, <2>1 DEF PurgedRowsGone
<1>4. \A r \in Requests : Held(r)
  <2> SUFFICES ASSUME NEW r \in Requests PROVE Held(r)
    OBVIOUS
  <2>1. /\ req[r] = Idle /\ req[r].op = "none" /\ req[r].pc = "idle" /\ req[r].outcome = "none"
        /\ req[r].key = None /\ req[r].todo = {}
    <3>1. Idle.op = "none" /\ Idle.pc = "idle" /\ Idle.outcome = "none" /\ Idle.key = None /\ Idle.todo = {}
      BY DEF Idle
    <3> QED
      BY <1>3, <3>1
  <2>2. HeldByItself(r)
    BY <2>1 DEF HeldByItself
  <2>3. OwnNote(r) /\ RowsPurged(r) /\ ReadAsTrashed(r)
    BY <2>1 DEF OwnNote, RowsPurged, ReadAsTrashed, At
  <2> QED
    BY <2>2, <2>3 DEF Held
<1> QED
  BY <1>1, <1>2, <1>4, <1>5 DEF HInv

LEMMA NextCauses == HInv /\ [Next]_vars => HInv'
<1> SUFFICES ASSUME HInv, [Next]_vars PROVE HInv'
  OBVIOUS
<1>0. IInv /\ IInv'
  BY NextInv DEF HInv
<1>1. ASSUME NEW r \in Requests, Begin(r) PROVE HInv'
  BY <1>0, <1>1, BeginStep, BeginCauses, PurgesRows, CausesPreserve DEF IInv
<1>2. ASSUME NEW r \in Requests, Serve(r) PROVE HInv'
  BY <1>0, <1>2, ServeStep, ServeCauses, PurgesRows, CausesPreserve DEF IInv
<1>3. ASSUME NEW r \in Requests, RetryDelete(r) \/ Crash(r) PROVE HInv'
  BY <1>0, <1>3, RestStep, RestCauses, PurgesRows, CausesPreserve DEF IInv
<1>4. CASE UNCHANGED vars
  <2>1. OrphansExplained'
    BY <1>4 DEF vars, HInv, OrphansExplained, NotAnswered, WentWithAccount
  <2>2. \A r \in Requests : Held(r)'
    BY <1>4 DEF vars, HInv, Held, HeldByItself, OwnNote, RowsPurged, ReadAsTrashed, At,
                RacedInsert, RacedRestore
  <2> QED
    BY <1>0, <1>4, <2>1, <2>2 DEF HInv, PurgedRowsGone, vars
<1> QED
  BY <1>1, <1>2, <1>3, <1>4 DEF Next

\* What a delete that is under way has seen and done stays true of the tables,
\* but for requests that overlapped it, and they are remembered.
THEOREM CausesAreKept == Spec => []HInv
  BY InitCauses, NextCauses, PTL DEF Spec

\* Whatever fails, dies, overlaps or is repeated, an object without a row has
\* one of the known causes.
THEOREM OrphansHaveCauses == Spec => []OrphansExplained
<1>1. HInv => OrphansExplained
  BY DEF HInv
<1> QED
  BY <1>1, CausesAreKept, PTL

\* A note outside the trash goes only with its account, or when its restore
\* overlapped a hard delete that had read it as trashed.
THEOREM ActiveNotesSurvive == Spec => ActiveNotesAreNotDestroyed
<1>1. ASSUME HInv, Next, NEW n \in NoteIds, notes[n].state = "active", notes'[n].state = "gone"
      PROVE  \/ notes[n].owner \notin accounts'
             \/ \E p \in Requests : req[p].op = "patch" /\ req[p].note = n /\ req[p].raced
  <2>0. TypeOK
    BY <1>1 DEF HInv, IInv
  <2>1. PICK r \in Requests : Begin(r) \/ Serve(r) \/ RetryDelete(r) \/ Crash(r)
    BY <1>1 DEF Next
  <2>2. CASE \E u \in Users : DeleteAccount(r, u)
    BY <1>1, <2>0, <2>2 DEF DeleteAccount, WithoutNotes, FindNote
  <2>3. CASE DeleteDrop(r)
    <3>1. At(r, "delete", "blobs") /\ req[r].note = n
      BY <1>1, <2>0, <2>3 DEF DeleteDrop, WithoutNotes
    <3>2. Held(r)
      BY <1>1 DEF HInv
    <3> QED
      BY <1>1, <3>1, <3>2 DEF Held, ReadAsTrashed, RacedRestore, At
  <2>4. CASE notes' = notes
    BY <1>1, <2>4
  <2>5. CASE \E u \in Users, m \in NoteIds : CreateNote(r, u, m)
    BY <1>1, <2>0, <2>5 DEF CreateNote, TypeOK
  <2>6. CASE \E u \in Users, m \in NoteIds, s \in {"active", "trashed"} : PatchNote(r, u, m, s)
    BY <1>1, <2>0, <2>6 DEF PatchNote, TypeOK, NoteRow
  <2>7. CASE DeleteSoft(r)
    BY <1>1, <2>0, <2>7 DEF DeleteSoft, TypeOK, NoteRow
  <2> QED
    BY <2>1, <2>2, <2>3, <2>4, <2>5, <2>6, <2>7
    DEF Begin, Serve, RetryDelete, Crash, DeleteDialog, UploadFind, CloneSource, FetchFind,
        DeleteFind, DeleteRows, DeleteBlob, UploadPut, CloneTarget, CloneCopy, InsertFile, FetchBlob
<1>2. HInv /\ [Next]_vars =>
        [\A n \in NoteIds :
           notes[n].state = "active" /\ notes'[n].state = "gone" =>
             \/ notes[n].owner \notin accounts'
             \/ \E p \in Requests : req[p].op = "patch" /\ req[p].note = n /\ req[p].raced]_vars
  BY <1>1
<1> QED
  BY <1>2, CausesAreKept, PTL DEF Spec, ActiveNotesAreNotDestroyed
-----------------------------------------------------------------------------
(***************************************************************************)
(* What a permanent deletion that never finished leaves behind. A file     *)
(* that is gone keeps naming its note, which was made, so no later note    *)
(* takes that name; and the request that took the file still says so.      *)
(***************************************************************************)
SeedRow(k) == SeedFiles[k].state # "gone"
GoneFilesHadNotes ==
  \A k \in Keys : files[k].state = "gone" /\ SeedRow(k) =>
    files[k].note \in NoteIds /\ notes[files[k].note].state # "fresh"
TookNothingYet ==
  \A k \in Keys : files[k].state = "fresh" => SeedRow(k)
LossesExplained == FilesStay /\ GoneFilesHadNotes /\ TookNothingYet

\* Such a request goes on saying so, until its note is dropped.
LEMMA TakersRemember ==
  ASSUME HInv, [Next]_vars, NEW k \in Keys, NEW r \in Requests, TookFile(r, k),
         files'[k].note = files[k].note, NoteExists(notes', files[k].note)
  PROVE  TookFile(r, k)'
<1> USE DEF AllOps, Pcs, Outcomes
<1>0. /\ TypeOK /\ req \in [Requests -> Request] /\ req[r] \in Request
      /\ Held(r) /\ LocalOK(r) /\ req[r].op = "delete" /\ req[r].note = files[k].note
  BY DEF HInv, IInv, TypeOK, TookFile
<1>1. req[r].pc # "idle"
  <2>1. Idle.op = "none"
    BY DEF Idle
  <2> QED
    BY <1>0, <2>1 DEF Held, HeldByItself
<1>2. CASE req'[r] = req[r]
  BY <1>2 DEF TookFile
<1>3. CASE req'[r] # req[r]
  <2>1. PICK q \in Requests : Begin(q) \/ Serve(q) \/ RetryDelete(q) \/ Crash(q)
    BY <1>3 DEF Next, vars
  <2>2. q = r
    BY <1>3, <2>1, BeginStep, ServeStep, RestStep DEF Frame, Alone, HInv
  <2>3. ~Begin(r)
    BY <1>1 DEF Begin, CreateNote, PatchNote, DeleteDialog, UploadFind, CloneSource, FetchFind,
                DeleteAccount, CanStart
  <2> DEFINE Kept == /\ req'[r].op = "delete" /\ req'[r].note = req[r].note
                     /\ k \in req'[r].purged
  <2>4. CASE DeleteFind(r) \/ DeleteSoft(r)
    <3>1. \/ \E pc \in Pcs : Continue(r, req[r], pc)
          \/ \E o \in Outcomes : Respond(r, req[r], o)
      BY <2>4 DEF DeleteFind, DeleteSoft, DeleteAnswer
    <3>2. req[r].tries > 0
      BY <1>0, <2>4 DEF DeleteFind, DeleteSoft, At, TookFile, Held, HeldByItself
    <3>3. Kept /\ req'[r].tries = req[r].tries
      BY <1>0, <3>1, RespondHistory, ContinueHistory DEF TookFile
    <3> QED
      BY <3>2, <3>3 DEF TookFile
  <2>5. CASE DeleteRows(r)
    <3> DEFINE K == FilesOfNote(req[r].user, req[r].note)
               locals == [req[r] EXCEPT !.todo = K, !.purged = @ \cup K]
    <3>1. /\ locals \in Request /\ locals.op = req[r].op /\ locals.note = req[r].note
          /\ locals.purged = req[r].purged \cup K
      BY <1>0 DEF Request, FilesOfNote
    <3>2. Continue(r, locals, "blobs")
      BY <2>5 DEF DeleteRows
    <3>3. Kept /\ req'[r].pc = "blobs"
      <4> HIDE DEF locals, K
      <4> QED
        BY <1>0, <3>1, <3>2, ContinueHistory DEF TookFile
    <3> QED
      BY <3>3 DEF TookFile
  <2>6. ASSUME NEW j \in Keys, DeleteBlob(r, j) PROVE TookFile(r, k)'
    <3> DEFINE locals == [req[r] EXCEPT !.todo = @ \ {j}]
    <3>1. /\ locals \in Request /\ locals.op = req[r].op /\ locals.note = req[r].note
          /\ locals.purged = req[r].purged
      BY <1>0 DEF Request
    <3>2. Continue(r, locals, "blobs")
      BY <2>6 DEF DeleteBlob
    <3>3. Kept /\ req'[r].pc = "blobs"
      <4> HIDE DEF locals
      <4> QED
        BY <1>0, <3>1, <3>2, ContinueHistory DEF TookFile
    <3> QED
      BY <3>3 DEF TookFile
  <2>7. ~DeleteDrop(r)
    <3> SUFFICES ASSUME DeleteDrop(r) PROVE FALSE
      OBVIOUS
    <3>1. req[r].note \in NoteIds
      BY <1>0 DEF LocalOK
    <3>2. notes' = WithoutNotes(notes, IF FindNote(req[r].user, req[r].note) THEN {req[r].note} ELSE {})
      BY DEF DeleteDrop
    <3>3. notes[req[r].note].owner = req[r].user
      BY <1>0 DEF Held, OwnNote
    <3> QED
      BY <1>0, <3>1, <3>2, <3>3 DEF WithoutNotes, FindNote, NoteExists, TypeOK, NoteRow
  <2>8. CASE RetryDelete(r)
    <3> DEFINE locals == [req[r] EXCEPT !.tries = req[r].tries + 1, !.outcome = "none"]
    <3>1. req[r].tries + 1 \in Nat /\ req[r].tries + 1 > 0
      BY <1>0 DEF Request
    <3>2. locals \in Request
      BY <1>0, <3>1, RepeatType
    <3>3. /\ locals.op = req[r].op /\ locals.note = req[r].note
          /\ locals.purged = req[r].purged /\ locals.tries = req[r].tries + 1
      BY <1>0 DEF Request
    <3>4. Continue(r, locals, "sent")
      BY <2>8 DEF RetryDelete
    <3>5. Kept /\ req'[r].tries > 0
      <4> HIDE DEF locals
      <4> QED
        BY <1>0, <3>1, <3>2, <3>3, <3>4, ContinueHistory DEF TookFile
    <3> QED
      BY <3>5 DEF TookFile
  <2>9. CASE Crash(r)
    <3>1. Respond(r, req[r], "lost")
      BY <2>9 DEF Crash
    <3>2. Kept /\ req'[r].outcome = "lost"
      BY <1>0, <3>1, RespondHistory DEF TookFile
    <3> QED
      BY <3>2 DEF TookFile
  <2>10. req[r].pc \notin {"put", "target", "copy", "row", "fetch"} \/ ~Serve(r)
    BY <1>0 DEF LocalOK, Serve, At, DeleteFind, DeleteSoft, DeleteRows, DeleteBlob, DeleteDrop,
                UploadPut, CloneTarget, CloneCopy, InsertFile, FetchBlob
  <2> QED
    BY <1>0, <2>1, <2>2, <2>3, <2>4, <2>5, <2>6, <2>7, <2>8, <2>9, <2>10
    DEF Serve, At, UploadPut, CloneTarget, CloneCopy, InsertFile, FetchBlob
<1> QED
  BY <1>2, <1>3

\* A row that goes is taken by a delete of its note, or its note goes with it.
LEMMA RowsGoWithNotes ==
  ASSUME HInv, [Next]_vars, NEW k \in Keys, files[k].state = "row", files'[k].state = "gone",
         NoteExists(notes', files[k].note)
  PROVE  \E r \in Requests : TookFile(r, k)'
<1> USE DEF AllOps, Pcs, Outcomes
<1>0. TypeOK /\ IInv /\ req \in [Requests -> Request]
  BY DEF HInv, IInv, TypeOK
<1>1. /\ files[k].note \in NoteIds /\ NoteExists(notes, files[k].note)
      /\ notes[files[k].note].owner = files[k].owner
  BY DEF HInv, IInv, FileBelongsToNote
<1>2. PICK r \in Requests : Begin(r) \/ Serve(r) \/ RetryDelete(r) \/ Crash(r)
  BY DEF Next, vars
<1>3. ASSUME NEW u \in Users, DeleteAccount(r, u) PROVE FALSE
  <2>1. files[k].owner = u
    BY <1>0, <1>1, <1>3 DEF DeleteAccount, WithoutFiles, FindFile, RowsOf, FindNote
  <2> QED
    BY <1>0, <1>1, <1>3, <2>1 DEF DeleteAccount, WithoutNotes, FindNote, NoteExists, TypeOK, NoteRow
<1>4. ~DeleteDrop(r)
  <2> SUFFICES ASSUME DeleteDrop(r) PROVE FALSE
    OBVIOUS
  <2> DEFINE N == IF FindNote(req[r].user, req[r].note) THEN {req[r].note} ELSE {}
  <2>1. notes' = WithoutNotes(notes, N) /\ files' = WithoutFiles(files, RowsOf(N))
    BY DEF DeleteDrop
  <2>2. files[k].note \in N
    <3> HIDE DEF N
    <3> QED
      BY <2>1 DEF WithoutFiles, RowsOf
  <2> QED
    <3> HIDE DEF N
    <3> QED
      BY <1>0, <1>1, <2>1, <2>2 DEF WithoutNotes, NoteExists, TypeOK, NoteRow
<1>5. CASE DeleteRows(r)
  <2> DEFINE K == FilesOfNote(req[r].user, req[r].note)
             locals == [req[r] EXCEPT !.todo = K, !.purged = @ \cup K]
  <2>0. req[r] \in Request
    BY <1>0
  <2>1. /\ locals \in Request /\ locals.op = req[r].op /\ locals.note = req[r].note
        /\ locals.purged = req[r].purged \cup K
    BY <2>0 DEF Request, FilesOfNote
  <2>2. /\ req[r].op = "delete" /\ files' = WithoutFiles(files, K)
        /\ Continue(r, locals, "blobs")
    BY <1>5 DEF DeleteRows, At
  <2>3. k \in K
    <3> HIDE DEF K
    <3> QED
      BY <2>2 DEF WithoutFiles
  <2>4. files[k].note = req[r].note
    BY <2>3 DEF FilesOfNote
  <2>5. files'[k].note = files[k].note
    <3> HIDE DEF K
    <3> QED
      BY <1>0, <2>2 DEF WithoutFiles, TypeOK, FileRow
  <2>6. /\ req'[r].pc = "blobs" /\ req'[r].op = "delete" /\ req'[r].note = req[r].note
        /\ k \in req'[r].purged
    <3> HIDE DEF locals, K
    <3> QED
      BY <1>0, <2>1, <2>2, <2>3, ContinueHistory
  <2> QED
    BY <2>4, <2>5, <2>6 DEF TookFile
<1>6. CASE InsertFile(r)
  BY <1>0, <1>6 DEF InsertFile, LocalOK, Writing, TypeOK, IInv
<1>7. CASE files' = files
  BY <1>7
<1> QED
  BY <1>2, <1>3, <1>4, <1>5, <1>6, <1>7
  DEF Begin, Serve, RetryDelete, Crash, CreateNote, PatchNote, DeleteDialog, UploadFind,
      CloneSource, FetchFind, DeleteFind, DeleteSoft, DeleteBlob, UploadPut, CloneTarget,
      CloneCopy, FetchBlob

\* No step moves a file that is not being inserted, or brings one back.
FileKept(k) ==
  /\ files[k].state # "fresh" => files'[k].note = files[k].note
  /\ files'[k].state = "fresh" => files[k].state = "fresh"
  /\ files[k].state = "fresh" => files'[k].state \in {"fresh", "row"}

LEMMA FilesKeepTheirNote ==
  ASSUME HInv, [Next]_vars, NEW k \in Keys
  PROVE  FileKept(k)
<1>0. TypeOK /\ IInv /\ files[k] \in FileRow
  BY DEF HInv, IInv, TypeOK
<1>1. CASE files' = files
  BY <1>0, <1>1 DEF FileKept
<1>2. CASE \E r \in Requests : Begin(r) \/ Serve(r) \/ RetryDelete(r) \/ Crash(r)
  <2>1. PICK r \in Requests : Begin(r) \/ Serve(r) \/ RetryDelete(r) \/ Crash(r)
    BY <1>2
  <2>2. ASSUME NEW K \in SUBSET Keys, files' = WithoutFiles(files, K),
               \A j \in K : files[j].state = "row"
        PROVE  FileKept(k)
    BY <1>0, <2>2 DEF WithoutFiles, FileRow, FileKept
  <2>3. CASE InsertFile(r)
    BY <1>0, <2>3 DEF InsertFile, IInv, LocalOK, Writing, TypeOK, FileKept
  <2>4. CASE DeleteRows(r)
    BY <2>2, <2>4 DEF DeleteRows, FilesOfNote, FindFile
  <2>5. CASE DeleteDrop(r)
    BY <2>2, <2>5 DEF DeleteDrop, RowsOf
  <2>6. ASSUME NEW u \in Users, DeleteAccount(r, u) PROVE FileKept(k)
    <3> DEFINE N == {n \in NoteIds : FindNote(u, n)}
               K == {j \in Keys : FindFile(u, j)} \cup RowsOf(N)
    <3>1. files' = WithoutFiles(files, K)
      BY <2>6 DEF DeleteAccount
    <3>2. K \in SUBSET Keys /\ \A j \in K : files[j].state = "row"
      BY DEF RowsOf, FindFile
    <3> HIDE DEF K
    <3> QED
      BY <2>2, <3>1, <3>2
  <2> QED
    BY <1>1, <2>1, <2>3, <2>4, <2>5, <2>6
    DEF Begin, Serve, RetryDelete, Crash, CreateNote, PatchNote, DeleteDialog, UploadFind,
        CloneSource, FetchFind, DeleteFind, DeleteSoft, DeleteBlob, UploadPut, CloneTarget,
        CloneCopy, FetchBlob
<1> QED
  BY <1>1, <1>2 DEF Next, vars

\* A note that was made keeps its name, and one that is gone stays gone.
NoteKept(n) == notes'[n].state # "fresh" /\ (NoteExists(notes', n) => NoteExists(notes, n))

LEMMA NotesAreNotRevived ==
  ASSUME HInv, [Next]_vars, NEW n \in NoteIds, notes[n].state # "fresh"
  PROVE  NoteKept(n)
<1>0. TypeOK /\ notes[n] \in NoteRow
  BY DEF HInv, IInv, TypeOK
<1>1. CASE notes' = notes
  BY <1>1 DEF NoteKept, NoteExists
<1>2. CASE \E r \in Requests : Begin(r) \/ Serve(r) \/ RetryDelete(r) \/ Crash(r)
  <2>1. PICK r \in Requests : Begin(r) \/ Serve(r) \/ RetryDelete(r) \/ Crash(r)
    BY <1>2
  <2>2. ASSUME NEW N, notes' = WithoutNotes(notes, N) PROVE NoteKept(n)
    BY <1>0, <2>2 DEF WithoutNotes, NoteExists, NoteRow, NoteKept
  <2>3. ASSUME NEW u \in Users, NEW m \in NoteIds, CreateNote(r, u, m) PROVE NoteKept(n)
    BY <1>0, <2>3 DEF CreateNote, NoteExists, TypeOK, NoteKept
  <2>4. ASSUME NEW u \in Users, NEW m \in NoteIds, NEW s \in {"active", "trashed"},
               PatchNote(r, u, m, s)
        PROVE  NoteKept(n)
    BY <1>0, <2>4 DEF PatchNote, FindNote, NoteExists, TypeOK, NoteRow, NoteKept
  <2>5. CASE DeleteSoft(r)
    BY <1>0, <2>5 DEF DeleteSoft, FindNote, NoteExists, TypeOK, NoteRow, NoteKept
  <2>6. CASE DeleteDrop(r)
    BY <2>2, <2>6 DEF DeleteDrop
  <2>7. ASSUME NEW u \in Users, DeleteAccount(r, u) PROVE NoteKept(n)
    BY <2>2, <2>7 DEF DeleteAccount
  <2> QED
    BY <1>1, <2>1, <2>3, <2>4, <2>5, <2>6, <2>7
    DEF Begin, Serve, RetryDelete, Crash, DeleteDialog, UploadFind, CloneSource, FetchFind,
        DeleteFind, DeleteRows, DeleteBlob, UploadPut, CloneTarget, CloneCopy, InsertFile, FetchBlob
<1> QED
  BY <1>1, <1>2 DEF Next, vars

LEMMA LossesPreserved == HInv /\ LossesExplained /\ [Next]_vars => LossesExplained'
<1> SUFFICES ASSUME HInv, LossesExplained, [Next]_vars PROVE LossesExplained'
  OBVIOUS
<1>0. TypeOK /\ HInv' /\ TypeOK'
  BY NextCauses DEF HInv, IInv
<1>1. TookNothingYet'
  BY FilesKeepTheirNote DEF FileKept, LossesExplained, TookNothingYet, SeedRow
<1>2. ASSUME NEW k \in Keys, files'[k].state = "gone", SeedRow(k)
      PROVE  /\ files'[k].note = files[k].note /\ files[k].note \in NoteIds
             /\ notes[files[k].note].state # "fresh" /\ files[k].state \in {"row", "gone"}
  <2>1. files[k].state \in {"row", "gone"} /\ files'[k].note = files[k].note
    BY <1>0, <1>2, FilesKeepTheirNote DEF FileKept, TypeOK, FileRow
  <2>2. CASE files[k].state = "row"
    BY <2>1, <2>2 DEF HInv, IInv, FileBelongsToNote, NoteExists
  <2>3. CASE files[k].state = "gone"
    BY <1>2, <2>1, <2>3 DEF LossesExplained, GoneFilesHadNotes
  <2> QED
    BY <2>1, <2>2, <2>3
<1>3. GoneFilesHadNotes'
  BY <1>2, NotesAreNotRevived DEF NoteKept, GoneFilesHadNotes, SeedRow
<1>4. FilesStay'
  <2> SUFFICES ASSUME NEW k \in Keys, files'[k].state = "gone", SeedRow(k),
                      NoteExists(notes', files'[k].note)
               PROVE  \E r \in Requests : TookFile(r, k)'
    BY DEF FilesStay, SeedRow, NoteExists
  <2>1. NoteExists(notes', files[k].note)
    BY <1>2
  <2>2. CASE files[k].state = "row"
    BY <2>1, <2>2, RowsGoWithNotes
  <2>3. CASE files[k].state = "gone"
    <3>1. NoteExists(notes, files[k].note)
      BY <1>2, <2>1, NotesAreNotRevived DEF NoteKept
    <3>2. PICK r \in Requests : TookFile(r, k)
      BY <2>3, <3>1 DEF LossesExplained, FilesStay, SeedRow
    <3> QED
      BY <1>2, <2>1, <3>2, TakersRemember
  <2> QED
    BY <1>2, <2>2, <2>3
<1> QED
  BY <1>1, <1>3, <1>4 DEF LossesExplained

\* Only a permanent deletion that has not gone through leaves a note that has
\* lost files: no other failure, crash, repeat or overlap takes one.
THEOREM NotesKeepTheirFiles == Spec => []FilesStay
<1>1. Init => LossesExplained
  BY DEF Init, LossesExplained, FilesStay, GoneFilesHadNotes, TookNothingYet, SeedRow
<1>2. Spec => []LossesExplained
  BY <1>1, LossesPreserved, CausesAreKept, PTL DEF Spec
<1>3. LossesExplained => FilesStay
  BY DEF LossesExplained
<1> QED
  BY <1>2, <1>3, PTL
=============================================================================
