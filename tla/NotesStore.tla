------------------------------ MODULE NotesStore ------------------------------
(***************************************************************************)
(* The notes store of one tab (stores/notes.ts) under optimistic updates:  *)
(* stars and titles are shown before the API has them (useUpdateNote.ts)   *)
(* and put back when it refuses; restoring and deleting wait for the API   *)
(* (useRestoreNote.ts, useDeleteNote.ts); and the list of the current      *)
(* scope overwrites what is cached (useLoadNotes.ts). All of them may be   *)
(* on the wire at once, and are carried out and answered in any order.     *)
(*                                                                         *)
(* Bodies are saved one at a time and are in Autosave; pages, search and   *)
(* creating are in NoteList. The API's other clients are quiet here. The   *)
(* dialogs that ask for a title or a confirmation keep the user from some  *)
(* clicks while they wait; without them more can happen, not less.         *)
(***************************************************************************)
EXTENDS NoteIds

CONSTANTS
  Notes, Titles,
  None,
  Seed,        \* the API's rows at the start
  MaxUpdates,  \* bound on the changes the user asks for
  MaxScopes,   \* bound on the changes of scope
  Failures     \* whether requests may fail

Scopes == {"all", "starred", "trash"}
Row == [title : Titles, starred : BOOLEAN, trashed : BOOLEAN, at : Nat]

ASSUME NotesAssumption == IsFiniteSet(Notes)
ASSUME NoneAssumption == None \notin Notes \cup Row
ASSUME SeedAssumption ==
  /\ Seed \in [Notes -> Row]
  /\ \A n \in Notes : Seed[n].at \in 1 .. Cardinality(Notes)
  /\ \A m, n \in Notes : Seed[m].at = Seed[n].at => m = n
ASSUME BoundsAssumption ==
  MaxUpdates \in Nat /\ MaxScopes \in Nat /\ Failures \in BOOLEAN

VARIABLES
  server,   \* the API's rows, None once deleted; at is updatedAt
  clock,    \* the API's clock
  byId,     \* cached rows, None if absent
  ids,      \* the ids of the list
  scope,    \* the scope in the URL
  scopes,   \* changes of scope so far
  open,     \* noteId in the URL
  list,     \* the list request of the current scope
  req,      \* every request to change a note, in the order of the clicks
  past      \* history, read by the properties only

store == <<byId, ids>>
url == <<scope, scopes, open>>
vars == <<server, clock, store, url, list, req, past>>

Slots == 1 .. MaxUpdates
Kinds == {"update", "restore", "delete"}

\* A patch sets one column; it is nothing when a note is deleted.
Patch == [field : {"title"}, value : Titles] \cup [field : {"starred"}, value : BOOLEAN]
           \cup [field : {"trashed"}, value : {FALSE}]
Patched(row, p) == [row EXCEPT ![p.field] = p.value]

(***************************************************************************)
(* A request: "sent", then "applied" or "refused" by the API, then         *)
(* answered ("done"); "late" is one its client gave up and the API has     *)
(* not seen yet. prev, index and scope are what useUpdateNote captured,    *)
(* answer the row the API was left with, alone whether no other request    *)
(* about the note has been under way with it.                              *)
(***************************************************************************)
Request == [pc : {"unused", "sent", "applied", "refused", "late", "done"},
            kind : Kinds,
            note : Notes \cup {None}, patch : Patch \cup {None}, prev : Row \cup {None},
            index : Nat, scope : Scopes, answer : Row \cup {None}, time : Nat, alone : BOOLEAN]
Blank(pc) == [pc |-> pc, kind |-> "update", note |-> None, patch |-> None, prev |-> None,
              index |-> 0, scope |-> "all", answer |-> None, time |-> 0, alone |-> TRUE]

Waiting(r) == req[r].pc \in {"sent", "applied", "refused", "late"}

\* The list request: "failed" leaves the error message instead of the list.
List == [pc : {"sent", "read", "done", "failed"}, items : Seq(Notes),
         rows : [Notes -> Row \cup {None}], time : Nat]
NoRows == [n \in Notes |-> None]
ListIs(pc) == [pc |-> pc, items |-> <<>>, rows |-> NoRows, time |-> 0]

(***************************************************************************)
(* changed: when the API last changed a note; heard: when it gave the      *)
(* latest answer about the note that has arrived; overtaken: notes of      *)
(* which an older answer arrived later; undone: notes that were rolled     *)
(* back although another request about them had been under way; missed:    *)
(* notes the API changed for a request that the tab counts as failed;      *)
(* misjudged: listed notes that an answer took out although they match the *)
(* scope or left in although they do not, because it was judged by an      *)
(* earlier scope (a patch) or not at all;                                  *)
(* matching: notes that have been in the scope since its list was read;    *)
(* crossed: whether two requests have been under way at once.              *)
(***************************************************************************)
Past == [changed : [Notes -> Nat], heard : [Notes -> Nat], overtaken : SUBSET Notes,
         undone : SUBSET Notes, missed : SUBSET Notes, misjudged : SUBSET Notes,
         matching : SUBSET Notes, crossed : BOOLEAN]

\* The API's view filter, and noteMatchesScope of useUpdateNote.ts.
Matches(row, s) ==
  /\ row # None
  /\ CASE s = "all"     -> ~row.trashed
       [] s = "starred" -> ~row.trashed /\ row.starred
       [] s = "trash"   -> row.trashed

Init ==
  /\ server = Seed
  /\ clock = Cardinality(Notes)
  /\ byId = NoRows /\ ids = <<>>
  /\ scope \in Scopes /\ scopes = 0 /\ open = None
  /\ list = ListIs("sent")
  /\ req = [r \in Slots |-> Blank("unused")]
  /\ past = [changed |-> [n \in Notes |-> Seed[n].at], heard |-> [n \in Notes |-> 0],
             overtaken |-> {}, undone |-> {}, missed |-> {},
             misjudged |-> {}, matching |-> {}, crossed |-> FALSE]

-----------------------------------------------------------------------------
(* stores/notes.ts *)

\* Defect for the mutation runs: removeNote leaves the id in the list.
RemoveByIdOnly(b, xs, n) == <<[b EXCEPT ![n] = None], xs>>

RemoveNote(b, xs, n) ==
  IF b[n] = None THEN <<b, xs>> ELSE <<[b EXCEPT ![n] = None], Without(xs, n)>>

\* Defect: the note stays where it is.
BumpNever(s, n) == s

BumpNoteToTop(s, n) == IF n \in ToSet(s) THEN <<n>> \o RemoveFirst(s, n) ELSE s

\* splice puts a note at the end when the list has become shorter.
MoveNoteToIndex(s, n, i) ==
  IF n \notin ToSet(s) THEN s
  ELSE LET rest == RemoveFirst(s, n)
       IN InsertAt(rest, IF i <= Len(rest) THEN i ELSE Len(rest) + 1, n)

IndexOf(s, n) == IF n \in ToSet(s) THEN SelectInSeq(s, LAMBDA m : m = n) ELSE 0

-----------------------------------------------------------------------------
(* Navigation and the list: useWorkspaceNav.ts, useLoadNotes.ts *)

\* A click on a card, or the browser's Back to an address with any note in it.
Open(n) ==
  /\ open # n
  /\ open' = n
  /\ UNCHANGED <<server, clock, store, scope, scopes, list, req, past>>

\* Another scope: the request of the last one is aborted, the list is emptied,
\* the cache is not.
ChangeScope(s) ==
  /\ s # scope /\ scopes < MaxScopes
  /\ scope' = s /\ scopes' = scopes + 1 /\ open' = None
  /\ ids' = <<>>
  /\ list' = ListIs("sent")
  /\ past' = [past EXCEPT !.matching = {}, !.crossed = @ \/ \E r \in Slots : Waiting(r)]
  /\ UNCHANGED <<server, clock, byId, req>>

\* The API's SELECT for the scope, newest first.
ListRead ==
  /\ list.pc = "sent"
  /\ LET found == {n \in Notes : Matches(server[n], scope)}
     IN \E items \in [1 .. Cardinality(found) -> found] :
          /\ \A i, j \in DOMAIN items : i < j => server[items[i]].at > server[items[j]].at
          /\ list' = [pc |-> "read", time |-> clock, items |-> items,
                      rows |-> [n \in Notes |-> IF n \in found THEN server[n] ELSE None]]
          /\ past' = [past EXCEPT !.matching = found]
  /\ UNCHANGED <<server, clock, store, url, req>>

\* What an answer about the notes S, given at time t, adds to the history.
Heard(S, t) ==
  [past EXCEPT !.heard = [n \in Notes |-> IF n \in S /\ t > @[n] THEN t ELSE @[n]],
               !.overtaken = @ \cup {n \in S : past.heard[n] > t}]

\* setNotes.
SetNotes ==
  /\ byId' = [n \in Notes |-> IF list.rows[n] # None THEN list.rows[n] ELSE byId[n]]
  /\ ids' = list.items

ListDone ==
  /\ list.pc = "read"
  /\ SetNotes
  /\ list' = ListIs("done")
  /\ past' = Heard({n \in Notes : list.rows[n] # None}, list.time)
  /\ UNCHANGED <<server, clock, url, req>>

ListFailed ==
  /\ Failures /\ list.pc \in {"sent", "read"}
  /\ list' = ListIs("failed")
  /\ UNCHANGED <<server, clock, store, url, req, past>>

-----------------------------------------------------------------------------
(* The user's changes of the note that the pane shows *)

\* Request r about n goes out.
Send(r, n, kind, p) ==
  LET others == {q \in Slots : Waiting(q) /\ req[q].note = n}
      new == [pc |-> "sent", kind |-> kind, note |-> n, patch |-> p, prev |-> byId[n],
              index |-> IndexOf(ids, n), scope |-> scope, answer |-> None, time |-> 0,
              alone |-> others = {}]
  IN /\ req[r].pc = "unused" /\ \A q \in Slots : q < r => req[q].pc # "unused"
     /\ req' = [q \in Slots |-> IF q = r THEN new
                               ELSE IF q \in others THEN [req[q] EXCEPT !.alone = FALSE]
                               ELSE req[q]]
     /\ past' = [past EXCEPT !.crossed =
                   @ \/ list.pc \in {"sent", "read"} \/ \E q \in Slots : Waiting(q)]
     /\ UNCHANGED <<server, clock, url, list>>

\* useUpdateNote up to its await.
UpdateNote(r, n, p) ==
  /\ open = n /\ byId[n] # None
  /\ Send(r, n, "update", p)
  /\ byId' = [byId EXCEPT ![n] = Patched(@, p)]
  /\ ids' = BumpNoteToTop(ids, n)

ToggleStar(r) ==
  \E n \in Notes :
    byId[n] # None /\ UpdateNote(r, n, [field |-> "starred", value |-> ~byId[n].starred])

EditTitle(r) ==
  \E n \in Notes, t \in Titles : UpdateNote(r, n, [field |-> "title", value |-> t])

\* The menu offers to restore a note that the cache has as trashed.
RestoreNote(r) ==
  \E n \in Notes :
    /\ open = n /\ byId[n] # None /\ byId[n].trashed
    /\ Send(r, n, "restore", [field |-> "trashed", value |-> FALSE])
    /\ UNCHANGED store

DeleteNote(r) ==
  \E n \in Notes :
    /\ open = n /\ byId[n] # None
    /\ Send(r, n, "delete", None)
    /\ UNCHANGED store

-----------------------------------------------------------------------------
(* The API: PATCH and DELETE of notes.service.ts *)

\* What a request makes of a row: a patch also sets updatedAt; deleting moves
\* a note to the trash, and one that is there already out of the table.
RowAfter(row, kind, p) ==
  CASE kind # "delete" -> [Patched(row, p) EXCEPT !.at = clock + 1]
    [] kind = "delete" /\ ~row.trashed -> [row EXCEPT !.trashed = TRUE, !.at = clock + 1]
    [] kind = "delete" /\ row.trashed -> None

Apply(r) ==
  LET n == req[r].note
      row == RowAfter(server[n], req[r].kind, req[r].patch)
  IN /\ req[r].pc \in {"sent", "late"}
     /\ IF server[n] = None
        THEN /\ req' = [req EXCEPT ![r] = IF @.pc = "late" THEN Blank("done") ELSE [@ EXCEPT !.pc = "refused"]]
             /\ UNCHANGED <<server, clock, past>>
        ELSE /\ server' = [server EXCEPT ![n] = row] /\ clock' = clock + 1
             /\ req' = [req EXCEPT ![r] = IF @.pc = "late" THEN Blank("done")
                         ELSE [@ EXCEPT !.pc = "applied", !.answer = row, !.time = clock + 1]]
             /\ past' = [past EXCEPT
                  !.changed[n] = clock + 1,
                  !.missed = IF req[r].pc = "late" THEN @ \cup {n} ELSE @,
                  !.matching = IF Matches(row, scope) THEN @ ELSE @ \ {n}]
     /\ UNCHANGED <<store, url, list>>

-----------------------------------------------------------------------------
(* The answers *)

\* A note that no longer matches the scope leaves the list. scope is the one of
\* the click: the callback was made then.
\* Defect: it is never checked.
LeavesNever(next, s) == FALSE

Leaves(next, s) == ~Matches(next, s)

\* Was it right for the list to let the note of request r go, or to keep it?
Judged(r, h, gone) ==
  [h EXCEPT !.misjudged =
     IF /\ req[r].kind = "update" => req[r].scope # scope
        /\ req[r].note \in ToSet(ids)
        /\ gone = Matches(req[r].answer, scope)
     THEN @ \cup {req[r].note} ELSE @]

UpdateDone(r) ==
  LET n == req[r].note
      next == req[r].answer
      gone == Leaves(next, req[r].scope)
      set == [byId EXCEPT ![n] = next]
      left == IF gone THEN RemoveNote(set, ids, n) ELSE <<set, ids>>
  IN /\ req[r].pc = "applied" /\ req[r].kind = "update"
     /\ byId' = left[1] /\ ids' = left[2]
     /\ req' = [req EXCEPT ![r] = Blank("done")]
     /\ past' = Judged(r, Heard({n}, req[r].time), gone)
     /\ UNCHANGED <<server, clock, url, list>>

\* Restored or deleted: the note leaves the store, and the address is written
\* without ?n=, whatever note is open by now.
Removed(r) ==
  LET n == req[r].note
      left == RemoveNote(byId, ids, n)
  IN /\ req[r].pc = "applied" /\ req[r].kind # "update"
     /\ byId' = left[1] /\ ids' = left[2]
     /\ open' = None
     /\ req' = [req EXCEPT ![r] = Blank("done")]
     /\ past' = Judged(r, Heard({n}, req[r].time), TRUE)
     /\ UNCHANGED <<server, clock, scope, scopes, list>>

\* The catch of useUpdateNote: the note as it was, in its old place.
\* Defect: the note keeps the patch, as if the API had it.
NoRollback(r) == UNCHANGED store

Rollback(r) ==
  LET n == req[r].note
  IN /\ byId' = [byId EXCEPT ![n] = req[r].prev]
     /\ ids' = IF req[r].index = 0 THEN ids ELSE MoveNoteToIndex(ids, n, req[r].index)

\* A 404, an error, no answer, or the client's timeout: then the API may have
\* carried the request out, or do it later.
Failed(r) ==
  LET n == req[r].note
  IN /\ req[r].pc = "refused" \/ (Failures /\ req[r].pc \in {"sent", "applied"})
     /\ IF req[r].kind = "update" THEN Rollback(r) ELSE UNCHANGED store
     /\ req' \in {[req EXCEPT ![r] = Blank("done")]} \cup
                 (IF req[r].pc = "sent" THEN {[req EXCEPT ![r].pc = "late"]} ELSE {})
     /\ past' = [past EXCEPT
          !.undone = IF req[r].kind = "update" /\ ~req[r].alone THEN @ \cup {n} ELSE @,
          !.missed = IF req[r].pc = "applied" THEN @ \cup {n} ELSE @]
     /\ UNCHANGED <<server, clock, url, list>>

Next ==
  \/ \E n \in Notes : Open(n)
  \/ \E s \in Scopes : ChangeScope(s)
  \/ ListRead \/ ListDone \/ ListFailed
  \/ \E r \in Slots :
       \/ ToggleStar(r) \/ EditTitle(r) \/ RestoreNote(r) \/ DeleteNote(r)
       \/ Apply(r) \/ UpdateDone(r) \/ Removed(r) \/ Failed(r)

Spec == Init /\ [][Next]_vars

-----------------------------------------------------------------------------
(* Properties *)

\* The API's rows, the store, the requests and the history have their types.
TypeOK ==
  /\ server \in [Notes -> Row \cup {None}] /\ clock \in Nat
  /\ byId \in [Notes -> Row \cup {None}] /\ ids \in Seq(Notes)
  /\ scope \in Scopes /\ scopes \in 0 .. MaxScopes /\ open \in Notes \cup {None}
  /\ list \in List
  /\ req \in [Slots -> Request]
  /\ past \in Past

\* Nothing is on the wire, and nothing given up is left with the API.
Quiet == list.pc \in {"done", "failed"} /\ \A r \in Slots : ~Waiting(r)
Disturbed == past.overtaken \cup past.undone \cup past.missed

\* useNotes.ts reads byId[id]! for every id of the list, without a check: the
\* list never names a note that is not cached, nor the same note twice.
ListIsCached ==
  /\ \A n \in ToSet(ids) : byId[n] # None
  /\ \A i, j \in DOMAIN ids : ids[i] = ids[j] => i = j

\* The types of the state, and ListIsCached.
WellFormed == TypeOK /\ ListIsCached

\* Once everything is answered, a cached note is what the API has, unless an
\* answer about it was overtaken by a later one, it was rolled back while
\* another request about it was under way, or the API did what the tab was
\* told had failed. Star and rename at once, however they interleave, are fine.
CacheMatchesApi ==
  Quiet => \A n \in Notes \ Disturbed : byId[n] \in {None, server[n]}

\* Then, too, the list shows only notes of its scope, and every note that has
\* been in the scope since the list was read, unless the answer to a patch came
\* in another scope than that of the click, or a note was restored or deleted
\* into the list that its answer then takes it out of.
ListMatchesApi ==
  Quiet /\ list.pc = "done" =>
    \A n \in Notes \ Disturbed :
      \/ n \in past.misjudged
      \/ /\ n \in ToSet(ids) => Matches(server[n], scope)
         /\ n \in past.matching => n \in ToSet(ids)

\* The list is in the API's order, newest first, when the user waited for each
\* answer before the next click and the API did nothing behind his back.
OrderMatchesApi ==
  Quiet /\ list.pc = "done" /\ ~past.crossed /\ past.missed = {} =>
    \A i, j \in DOMAIN ids : i < j => server[ids[i]].at > server[ids[j]].at
=============================================================================
