------------------------------ MODULE NoteFiles ------------------------------
(***************************************************************************)
(* The life of notes and of the files embedded in them: the note writes of *)
(* apps/api/src/services/notes.service.ts, files.service.ts, the two       *)
(* repositories they call, the object store behind lib/storage.ts, and the *)
(* foreign keys of db/schema.ts. A request is a process; an action is one  *)
(* awaited database statement or storage call of its handler, because      *)
(* nothing holds a transaction or a lock across two of them.               *)
(*                                                                         *)
(* Of a note only its existence, owner and trash flag matter here; titles, *)
(* bodies and stars are left out. A file's id, its row and its storage key *)
(* are in bijection (files_key_uniq), so the key names all three.          *)
(***************************************************************************)
EXTENDS Naturals, FiniteSets

CONSTANTS
  Users, NoteIds, Keys, Requests,
  None,
  SeedNotes,   \* the notes at the start, [NoteIds -> NoteRow]
  SeedFiles,   \* the files at the start, [Keys -> FileRow]; each has its blob
  Ops,         \* the operations clients issue in this instance
  RetryLimit   \* how often the browser's HTTP client repeats an unanswered DELETE

\* state: "fresh" ids are not drawn yet, "gone" rows are deleted (a UUID is
\* never drawn twice); a file row is "row" while it exists.
NoteRow == [state : {"fresh", "active", "trashed", "gone"}, owner : Users \cup {None}]
FileRow == [state : {"fresh", "row", "gone"}, owner : Users \cup {None}, note : NoteIds \cup {None}]

AllOps == {"create", "patch", "delete", "upload", "clone", "fetch", "account"}

NoteExists(t, n) == t[n].state \in {"active", "trashed"}

ASSUME NoneAssumption == None \notin Users \cup NoteIds \cup Keys \cup Requests
ASSUME BoundAssumption == Ops \subseteq AllOps /\ RetryLimit \in Nat
ASSUME SeedAssumption ==
  /\ SeedNotes \in [NoteIds -> NoteRow]
  /\ SeedFiles \in [Keys -> FileRow]
  /\ \A n \in NoteIds : NoteExists(SeedNotes, n) => SeedNotes[n].owner \in Users
  /\ \A k \in Keys : SeedFiles[k].state = "row" =>
       /\ SeedFiles[k].note \in NoteIds
       /\ NoteExists(SeedNotes, SeedFiles[k].note)
       /\ SeedFiles[k].owner = SeedNotes[SeedFiles[k].note].owner

VARIABLES
  accounts,  \* rows of table users
  notes,     \* table notes
  files,     \* table files
  blobs,     \* keys of the objects in the bucket
  logged,    \* keys of 'orphaned blob: storage delete failed' warnings
  req        \* the requests

vars == <<accounts, notes, files, blobs, logged, req>>

(***************************************************************************)
(* A request's locals. note and key are what it works on (key: the one it  *)
(* drew), src the file it clones or reads, todo the keys deleteByNote      *)
(* returned that are not dealt with yet, tries the repeats so far. The     *)
(* last three are history that no code reads: shown, the note's state on   *)
(* the page whose dialog the user confirmed; purged, the file rows the     *)
(* request deleted; raced, that the request wrote to a note while a hard   *)
(* delete of that note was past its own read (or past its deleteByNote).   *)
(***************************************************************************)
Pcs == {"idle", "sent", "soft", "rows", "blobs", "put", "target", "copy", "row", "fetch", "done"}
Outcomes == {"none", "ok", "notfound", "missing", "error", "lost"}

Request == [op : AllOps \cup {"none"}, pc : Pcs, user : Users \cup {None},
            note : NoteIds \cup {None}, key : Keys \cup {None}, src : Keys \cup {None},
            todo : SUBSET Keys, purged : SUBSET Keys, tries : Nat,
            shown : {"none", "active", "trashed"}, raced : BOOLEAN, outcome : Outcomes]

Idle == [op |-> "none", pc |-> "idle", user |-> None, note |-> None, key |-> None,
         src |-> None, todo |-> {}, purged |-> {}, tries |-> 0,
         shown |-> "none", raced |-> FALSE, outcome |-> "none"]

At(r, op, pc) == req[r].op = op /\ req[r].pc = pc
CanStart(r, op) == op \in Ops /\ req[r].pc = "idle"
Start(op, u, n) == [Idle EXCEPT !.op = op, !.user = u, !.note = n]
Continue(r, locals, pc) == req' = [req EXCEPT ![r] = [locals EXCEPT !.pc = pc]]
Respond(r, locals, outcome) ==
  req' = [req EXCEPT ![r] = [locals EXCEPT !.pc = "done", !.outcome = outcome]]

\* A hard delete of n is under way and at one of these points.
HardDeleting(n, pcs) ==
  \E d \in Requests : req[d].op = "delete" /\ req[d].note = n /\ req[d].pc \in pcs

(***************************************************************************)
(* The repositories' where-clauses: every query is scoped by user_id.      *)
(***************************************************************************)
\* Defects: the query is not scoped by user_id; deleteByNote returns nothing
\* and leaves the rows to the cascade; its where-clause forgets the note.
FindNoteOfAnyone(u, n) == NoteExists(notes, n)
NoFilesOfNote(u, n) == {}

FindNote(u, n) == NoteExists(notes, n) /\ notes[n].owner = u
FindFile(u, k) == files[k].state = "row" /\ files[k].owner = u
FilesOfAnyNote(u, n) == {k \in Keys : FindFile(u, k)}
FilesOfNote(u, n) == {k \in Keys : FindFile(u, k) /\ files[k].note = n}
FreshKey(k) == files[k].state = "fresh" /\ \A s \in Requests : req[s].key # k

\* ON DELETE CASCADE: the file rows of the deleted notes go with them.
\* Defect: there is no cascade.
NoCascade(N) == {}

WithoutNotes(t, N) ==
  [n \in NoteIds |-> IF n \in N THEN [t[n] EXCEPT !.state = "gone"] ELSE t[n]]
WithoutFiles(t, K) ==
  [k \in Keys |-> IF k \in K THEN [t[k] EXCEPT !.state = "gone"] ELSE t[k]]
RowsOf(N) == {k \in Keys : files[k].state = "row" /\ files[k].note \in N}

Init ==
  /\ accounts = Users
  /\ notes = SeedNotes
  /\ files = SeedFiles
  /\ blobs = {k \in Keys : SeedFiles[k].state = "row"}
  /\ logged = {}
  /\ req = [r \in Requests |-> Idle]
-----------------------------------------------------------------------------
(* POST /notes and PATCH /notes/:id *)

\* notes.user_id references users: a surviving session of a deleted account
\* cannot create a note.
CreateNote(r, u, n) ==
  /\ CanStart(r, "create")
  /\ notes[n].state = "fresh"
  /\ \/ /\ u \in accounts
        /\ notes' = [notes EXCEPT ![n] = [state |-> "active", owner |-> u]]
        /\ Respond(r, Start("create", u, n), "ok")
     \/ /\ u \notin accounts
        /\ Respond(r, Start("create", u, n), "error")
        /\ UNCHANGED notes
  /\ UNCHANGED <<accounts, files, blobs, logged>>

\* trashedAt: null restores, trashedAt: <time> trashes.
PatchNote(r, u, n, s) ==
  /\ CanStart(r, "patch")
  /\ \/ /\ FindNote(u, n)
        /\ notes' = [notes EXCEPT ![n].state = s]
        /\ Respond(r, [Start("patch", u, n) EXCEPT !.raced = HardDeleting(n, {"rows", "blobs"})], "ok")
     \/ /\ ~FindNote(u, n)
        /\ Respond(r, Start("patch", u, n), "notfound")
        /\ UNCHANGED notes
  /\ UNCHANGED <<accounts, files, blobs, logged>>

(* DELETE /notes/:id *)

\* The page shows the note and the dialog it offers: 'moved to Recently
\* deleted' or 'permanently deleted' (Editor.tsx). Confirming sends the request.
DeleteDialog(r, u, n) ==
  /\ CanStart(r, "delete")
  /\ FindNote(u, n)
  /\ Continue(r, [Start("delete", u, n) EXCEPT !.shown = notes[n].state], "sent")
  /\ UNCHANGED <<accounts, notes, files, blobs, logged>>

\* findById, then the branch on the trashedAt it read.
\* Defect: the branch is the wrong way round.
DeleteFindSwapped(r) ==
  LET n == req[r].note
  IN /\ At(r, "delete", "sent")
     /\ FindNote(req[r].user, n)
     /\ Continue(r, req[r], IF notes[n].state = "active" THEN "rows" ELSE "soft")
     /\ UNCHANGED <<accounts, notes, files, blobs, logged>>

DeleteFind(r) ==
  LET n == req[r].note
  IN /\ At(r, "delete", "sent")
     /\ \/ ~FindNote(req[r].user, n) /\ Respond(r, req[r], "notfound")
        \/ /\ FindNote(req[r].user, n)
           /\ Continue(r, req[r], IF notes[n].state = "active" THEN "soft" ELSE "rows")
     /\ UNCHANGED <<accounts, notes, files, blobs, logged>>

\* The answer of a completed delete arrives, or the network loses it.
DeleteAnswer == {"ok", "lost"}

\* update(trashedAt: now); a note that is gone by now is no error.
DeleteSoft(r) ==
  LET n == req[r].note
  IN /\ At(r, "delete", "soft")
     /\ notes' = IF FindNote(req[r].user, n) THEN [notes EXCEPT ![n].state = "trashed"] ELSE notes
     /\ \E a \in DeleteAnswer : Respond(r, req[r], a)
     /\ UNCHANGED <<accounts, files, blobs, logged>>

\* files.deleteForNote: deleteByNote returns the keys of the rows it deleted,
DeleteRows(r) ==
  LET K == FilesOfNote(req[r].user, req[r].note)
  IN /\ At(r, "delete", "rows")
     /\ files' = WithoutFiles(files, K)
     /\ Continue(r, [req[r] EXCEPT !.todo = K, !.purged = @ \cup K], "blobs")
     /\ UNCHANGED <<accounts, notes, blobs, logged>>

\* then every key is deleted from the bucket, in any order, best effort.
DeleteBlob(r, k) ==
  /\ At(r, "delete", "blobs")
  /\ k \in req[r].todo
  /\ \/ blobs' = blobs \ {k} /\ UNCHANGED logged
     \/ logged' = logged \cup {k} /\ UNCHANGED blobs
  /\ Continue(r, [req[r] EXCEPT !.todo = @ \ {k}], "blobs")
  /\ UNCHANGED <<accounts, notes, files>>

\* notes.delete: not conditional on the note still being in the trash.
DeleteDrop(r) ==
  LET n == req[r].note
      N == IF FindNote(req[r].user, n) THEN {n} ELSE {}
  IN /\ At(r, "delete", "blobs")
     /\ req[r].todo = {}
     /\ notes' = WithoutNotes(notes, N)
     /\ files' = WithoutFiles(files, RowsOf(N))
     /\ \E a \in DeleteAnswer : Respond(r, req[r], a)
     /\ UNCHANGED <<accounts, blobs, logged>>

\* DELETE is idempotent by HTTP, so the client's HTTP library sends it again
\* when no answer, or a gateway's 5xx, came back.
RetryDelete(r) ==
  /\ At(r, "delete", "done")
  /\ req[r].outcome = "lost"
  /\ req[r].tries < RetryLimit
  /\ Continue(r, [req[r] EXCEPT !.tries = @ + 1, !.outcome = "none"], "sent")
  /\ UNCHANGED <<accounts, notes, files, blobs, logged>>

(* POST /files *)

UploadFind(r, u, n, k) ==
  /\ CanStart(r, "upload")
  /\ FreshKey(k)
  /\ \/ FindNote(u, n) /\ Continue(r, [Start("upload", u, n) EXCEPT !.key = k], "put")
     \/ ~FindNote(u, n) /\ Respond(r, Start("upload", u, n), "notfound")
  /\ UNCHANGED <<accounts, notes, files, blobs, logged>>

\* storage.put: done; aborted (size limit, client gone, storage down); or
\* completed in the bucket with the confirmation lost.
\* Defect: a failed put is swallowed like a failed mail.
UploadPutSwallowed(r) ==
  /\ At(r, "upload", "put")
  /\ blobs' \in {blobs, blobs \cup {req[r].key}}
  /\ Continue(r, req[r], "row")
  /\ UNCHANGED <<accounts, notes, files, logged>>

UploadPut(r) ==
  /\ At(r, "upload", "put")
  /\ \/ blobs' = blobs \cup {req[r].key} /\ Continue(r, req[r], "row")
     \/ blobs' \in {blobs, blobs \cup {req[r].key}} /\ Respond(r, req[r], "error")
  /\ UNCHANGED <<accounts, notes, files, logged>>

\* files.create, for uploads and clones; its foreign keys are the user's and
\* the note's row. A failing INSERT is an unhandled 500.
InsertFile(r) ==
  LET row == [state |-> "row", owner |-> req[r].user, note |-> req[r].note]
      ok  == req[r].user \in accounts /\ NoteExists(notes, req[r].note)
  IN /\ req[r].pc = "row"
     /\ \/ /\ ok
           /\ files' = [files EXCEPT ![req[r].key] = row]
           /\ Respond(r, [req[r] EXCEPT !.raced = HardDeleting(req[r].note, {"blobs"})], "ok")
        \/ ~ok /\ Respond(r, req[r], "error") /\ UNCHANGED files
     /\ UNCHANGED <<accounts, notes, blobs, logged>>

(* POST /files/:id/clone *)

\* A file that is already the target note's is returned as it is.
CloneSource(r, u, f, n) ==
  LET locals == [Start("clone", u, n) EXCEPT !.src = f]
  IN /\ CanStart(r, "clone")
     /\ \/ ~FindFile(u, f) /\ Respond(r, locals, "notfound")
        \/ FindFile(u, f) /\ files[f].note = n /\ Respond(r, locals, "ok")
        \/ FindFile(u, f) /\ files[f].note # n /\ Continue(r, locals, "target")
     /\ UNCHANGED <<accounts, notes, files, blobs, logged>>

CloneTarget(r, k) ==
  /\ At(r, "clone", "target")
  /\ FreshKey(k)
  /\ IF FindNote(req[r].user, req[r].note)
     THEN Continue(r, [req[r] EXCEPT !.key = k], "copy")
     ELSE Respond(r, req[r], "notfound")
  /\ UNCHANGED <<accounts, notes, files, blobs, logged>>

\* storage.copy: done; refused (the source object is gone, the store is down);
\* or completed in the bucket with the confirmation lost.
CloneCopy(r) ==
  LET copied == IF req[r].src \in blobs THEN blobs \cup {req[r].key} ELSE blobs
  IN /\ At(r, "clone", "copy")
     /\ \/ req[r].src \in blobs /\ blobs' = copied /\ Continue(r, req[r], "row")
        \/ blobs' \in {blobs, copied} /\ Respond(r, req[r], "error")
     /\ UNCHANGED <<accounts, notes, files, logged>>

(* GET /files/:id?type=file *)

FetchFind(r, u, f) ==
  LET locals == [Start("fetch", u, None) EXCEPT !.src = f]
  IN /\ CanStart(r, "fetch")
     /\ IF FindFile(u, f) THEN Continue(r, locals, "fetch") ELSE Respond(r, locals, "notfound")
     /\ UNCHANGED <<accounts, notes, files, blobs, logged>>

FetchBlob(r) ==
  /\ At(r, "fetch", "fetch")
  /\ \E a \in {IF req[r].src \in blobs THEN "ok" ELSE "missing", "error"} : Respond(r, req[r], a)
  /\ UNCHANGED <<accounts, notes, files, blobs, logged>>

(* DELETE /auth/me: the users row and everything that references it *)

DeleteAccount(r, u) ==
  LET N == {n \in NoteIds : FindNote(u, n)}
      K == {k \in Keys : FindFile(u, k)}
  IN /\ CanStart(r, "account")
     /\ accounts' = accounts \ {u}
     /\ notes' = WithoutNotes(notes, N)
     /\ files' = WithoutFiles(files, K \cup RowsOf(N))
     /\ Respond(r, Start("account", u, None), "ok")
     /\ UNCHANGED <<blobs, logged>>

\* The process, or its connection to the database, dies between two steps.
Crash(r) ==
  /\ req[r].pc \notin {"idle", "sent", "done"}
  /\ Respond(r, req[r], "lost")
  /\ UNCHANGED <<accounts, notes, files, blobs, logged>>

-----------------------------------------------------------------------------
Begin(r) ==
  \E u \in Users :
    \/ \E n \in NoteIds :
         \/ CreateNote(r, u, n)
         \/ \E s \in {"active", "trashed"} : PatchNote(r, u, n, s)
         \/ DeleteDialog(r, u, n)
         \/ \E k \in Keys : UploadFind(r, u, n, k)
         \/ \E f \in Keys : CloneSource(r, u, f, n)
    \/ \E f \in Keys : FetchFind(r, u, f)
    \/ DeleteAccount(r, u)

\* The steps a request takes by itself once its handler runs.
Serve(r) ==
  \/ DeleteFind(r) \/ DeleteSoft(r) \/ DeleteRows(r)
  \/ \E k \in Keys : DeleteBlob(r, k)
  \/ DeleteDrop(r)
  \/ UploadPut(r)
  \/ \E k \in Keys : CloneTarget(r, k)
  \/ CloneCopy(r)
  \/ InsertFile(r)
  \/ FetchBlob(r)

Next == \E r \in Requests : Begin(r) \/ Serve(r) \/ RetryDelete(r) \/ Crash(r)

Spec == Init /\ [][Next]_vars

-----------------------------------------------------------------------------
(* Properties *)

\* The tables, the bucket and the handlers' locals have their types.
TypeOK ==
  /\ accounts \subseteq Users
  /\ notes \in [NoteIds -> NoteRow]
  /\ files \in [Keys -> FileRow]
  /\ blobs \subseteq Keys
  /\ logged \subseteq Keys
  /\ req \in [Requests -> Request]

\* "A row never points at a missing object": uploads and clones write the blob
\* before the row, deletes remove the row before the blob, and no other
\* request can get in between.
RowHasBlob == \A k \in Keys : files[k].state = "row" => k \in blobs

\* A file row hangs off an existing note of the same user, although upload and
\* clone check the note long before they insert the row.
FileBelongsToNote ==
  \A k \in Keys : files[k].state = "row" =>
    /\ files[k].note \in NoteIds
    /\ NoteExists(notes, files[k].note)
    /\ notes[files[k].note].owner = files[k].owner

\* A blob without a row always has one of the known causes: its upload or
\* clone is under way, failed or died; the delete that took its row is under
\* way or died; the failed blob delete was logged; its row went with the
\* account, taken by no delete; or the row was inserted while a hard delete of
\* the note was past deleteByNote.
NotAnswered(r) == req[r].outcome \in {"none", "error", "lost"}
WentWithAccount(k) ==
  /\ files[k].state = "gone"
  /\ files[k].owner \in Users \ accounts
  /\ \A r \in Requests : k \notin req[r].purged
OrphansExplained ==
  \A k \in blobs : files[k].state # "row" =>
    \/ k \in logged
    \/ WentWithAccount(k)
    \/ \E r \in Requests :
         \/ req[r].key = k /\ (NotAnswered(r) \/ req[r].raced)
         \/ k \in req[r].todo
         \/ k \in req[r].purged /\ req[r].tries > 0

\* A note that is still there has lost a file only to a hard delete of that
\* note which has not gone through: it is under way, died before it dropped the
\* note, or is repeated. (The delete takes the rows first and the note last, so
\* such a note can be restored, without its files.)
TookFile(r, k) ==
  /\ req[r].op = "delete" /\ req[r].note = files[k].note /\ k \in req[r].purged
  /\ req[r].pc = "blobs" \/ req[r].outcome = "lost" \/ req[r].tries > 0
FilesStay ==
  \A k \in Keys :
    files[k].state = "gone" /\ SeedFiles[k].state # "gone" /\ NoteExists(notes, files[k].note) =>
      \E r \in Requests : TookFile(r, k)

\* A request only ever changes rows of the user whose session it carries.
UsersAreIsolated ==
  [][\A r \in Requests :
       req'[r] # req[r] =>
         /\ \A n \in NoteIds :
              NoteExists(notes, n) /\ notes'[n] # notes[n] => notes[n].owner = req'[r].user
         /\ \A k \in Keys :
              files[k].state = "row" /\ files'[k] # files[k] => files[k].owner = req'[r].user]_vars

\* A note that is not in the trash is destroyed only with its account, or when
\* its restore overlapped a hard delete that had already read it as trashed.
ActiveNotesAreNotDestroyed ==
  [][\A n \in NoteIds :
       notes[n].state = "active" /\ notes'[n].state = "gone" =>
         \/ notes[n].owner \notin accounts'
         \/ \E p \in Requests : req[p].op = "patch" /\ req[p].note = n /\ req[p].raced]_vars

\* What makes RowHasBlob and FileBelongsToNote inductive: a handler between
\* its first check and its INSERT holds a key nobody else drew, for a note that
\* is or was the user's; a blob is written before its row; and a key waiting
\* to be deleted from the bucket has lost its row for good.
Writing(r) == req[r].pc \in {"put", "copy", "row"}
LocalOK(r) ==
  /\ req[r].op # "none" => req[r].user \in Users
  /\ req[r].op \in {"patch", "delete", "upload", "clone"} => req[r].note \in NoteIds
  /\ req[r].pc \in {"put", "copy", "target", "row"} => req[r].op \in {"upload", "clone"}
  /\ Writing(r) =>
       /\ req[r].key \in Keys
       /\ files[req[r].key].state = "fresh"
       /\ notes[req[r].note].state # "fresh"
       /\ notes[req[r].note].owner = req[r].user
  /\ req[r].pc = "row" => req[r].key \in blobs
  /\ \A k \in req[r].todo : files[k].state = "gone"
KeysDrawnOnce ==
  \A r, s \in Requests : req[r].key # None /\ req[r].key = req[s].key => r = s
IInv == TypeOK /\ RowHasBlob /\ FileBelongsToNote /\ KeysDrawnOnce /\ \A r \in Requests : LocalOK(r)

-----------------------------------------------------------------------------
(* What the comments promise and overlapping or repeated requests break *)

\* Editor.tsx:68 "will be moved to Recently deleted. You can restore it from
\* there": a delete confirmed in that dialog leaves the note in the table.
MoveIsRestorable ==
  [][\A r \in Requests :
       req[r].op = "delete" /\ req[r].shown = "active" /\ req'[r] # req[r] =>
         (NoteExists(notes, req[r].note) => NoteExists(notes', req[r].note))]_vars
=============================================================================
