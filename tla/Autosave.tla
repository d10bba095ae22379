------------------------------- MODULE Autosave -------------------------------
(***************************************************************************)
(* Editing notes in the web app: the editor pane (EditorPane.tsx,          *)
(* useLoadNote.ts), the editor it mounts (Editor.tsx, useNoteEditor.ts)    *)
(* and its saver (useAutosave.ts, useUpdateNote.ts), which PATCHes the     *)
(* note's body to the API. JavaScript runs to completion between awaits,   *)
(* so a step is one event: a key, a click, or an answer from the API.      *)
(*                                                                         *)
(* A note's body is the edit that produced it. Edits are numbered; number  *)
(* 0 is the body a note starts with. Of a note's other columns only that   *)
(* they can take it out of the current scope matters.                      *)
(***************************************************************************)
EXTENDS Naturals, FiniteSets

CONSTANTS
  Notes,
  Editors,   \* mounted instances of <Editor>, and unmounted ones still saving
  None,
  MaxEdits,  \* bound on the number of edits
  Failures   \* whether requests may fail

ASSUME NoneAssumption == None \notin Notes \cup Editors
ASSUME BoundsAssumption == MaxEdits \in Nat /\ Failures \in BOOLEAN

VARIABLES
  open,      \* noteId in the URL, or None
  loading,   \* isLoading of useLoadNote
  fetching,  \* the note whose GET is on the wire and not aborted, or None
  mounted,   \* the instance of <Editor> in the pane, or None
  screen,    \* the body in the Tiptap editor
  store,     \* byId of the notes store: the body of each cached note, or None
  saver,     \* the refs of useAutosave, per instance
  late,      \* saves given up by the client that the API may yet carry out
  server,    \* the body the API has of each note
  past       \* history, read by the properties only

pane == <<open, loading, fetching>>
view == <<mounted, screen>>
vars == <<pane, view, store, saver, late, server, past>>

(***************************************************************************)
(* An edit: the note it was typed in, its number, and the note the saver   *)
(* was busy with at that moment (the edit's own note if it was idle).      *)
(***************************************************************************)
Edit == [note : Notes, k : 0 .. MaxEdits, behind : Notes]
FirstBody(n) == [note |-> n, k |-> 0, behind |-> n]
ASSUME EditAssumption == None \notin Edit

(***************************************************************************)
(* useAutosave: content is contentRef; while inFlightRef is set a loop     *)
(* that captured noteId saves note, with one PATCH out ("sent": not yet    *)
(* applied, "applied": not yet answered). prev is what a failure restores. *)
(***************************************************************************)
Saver == [content : Edit \cup {None}, pc : {"idle", "sent", "applied"},
          note : Notes \cup {None}, saving : Edit \cup {None}, prev : Edit \cup {None}]
IdleSaver == [content |-> None, pc |-> "idle", note |-> None, saving |-> None, prev |-> None]

InFlight(i) == saver[i].pc # "idle"

(***************************************************************************)
(* typed: the last edit of each note; failed: the edits whose save was     *)
(* answered with an error, or never sent because the note had left the     *)
(* store; clobbered: the edits overwritten in contentRef by an edit of     *)
(* another note; overlapped: the notes that two savers were busy with at   *)
(* once, one of them possibly a save the client had given up.              *)
(***************************************************************************)
Past == [typed : [Notes -> Edit], failed : SUBSET (1 .. MaxEdits),
         clobbered : SUBSET (1 .. MaxEdits), overlapped : SUBSET Notes]
EditCount == CHOOSE k \in 0 .. MaxEdits :
               /\ \A n \in Notes : past.typed[n].k <= k
               /\ \E n \in Notes : past.typed[n].k = k

Init ==
  /\ open = None /\ loading = FALSE /\ fetching = None /\ mounted = None /\ screen = None
  /\ store = [n \in Notes |-> FirstBody(n)]
  /\ saver = [i \in Editors |-> IdleSaver]
  /\ late = {}
  /\ server = [n \in Notes |-> FirstBody(n)]
  /\ past = [typed |-> [n \in Notes |-> FirstBody(n)],
              failed |-> {}, clobbered |-> {}, overlapped |-> {}]

-----------------------------------------------------------------------------
(* What React renders after a step that left the pane with these values. *)

Visible(o, l, s) == ~l /\ o # None /\ s[o] # None

\* The same <Editor> goes on when another cached note is opened: it has no key.
\* Its content is only set when it mounts or the note id changes.
Render ==
  IF ~Visible(open', loading', store') THEN mounted' = None /\ screen' = None
  ELSE IF mounted = None
       THEN /\ mounted' \in {i \in Editors : saver[i] = IdleSaver}
            /\ screen' = store'[open']
       ELSE /\ mounted' = mounted
            /\ screen' = IF open' # open THEN store'[open'] ELSE screen

-----------------------------------------------------------------------------
(* Navigation *)

\* The effect of useLoadNote on a change of noteId; its cleanup aborts the
\* request of the note that was open before.
Open(n) ==
  /\ n # open
  /\ open' = n
  /\ IF store[n] = None THEN fetching' = n /\ loading' = TRUE
                        ELSE fetching' = None /\ UNCHANGED loading
  /\ UNCHANGED <<store, saver, late, server, past>>
  /\ Render

Close ==
  /\ open # None
  /\ open' = None /\ fetching' = None
  /\ UNCHANGED <<loading, store, saver, late, server, past>>
  /\ Render

LoadDone ==
  /\ fetching # None
  /\ \/ store' = [store EXCEPT ![fetching] = server[fetching]]
     \/ Failures /\ UNCHANGED store
  /\ loading' = FALSE /\ fetching' = None
  /\ UNCHANGED <<open, saver, late, server, past>>
  /\ Render

\* removeNote: the note was deleted or restored, or left the scope.
Drop(n) ==
  /\ store[n] # None
  /\ store' = [store EXCEPT ![n] = None]
  /\ UNCHANGED <<pane, saver, late, server, past>>
  /\ Render

-----------------------------------------------------------------------------
(* Saving *)

\* Instance i is not the only one that saves n: another one is busy with it, or
\* a PATCH that was given up may still be carried out.
NotAlone(i, n) ==
  \/ \E j \in Editors \ {i} : InFlight(j) /\ saver[j].note = n
  \/ \E p \in late' : p.note = n

\* The head of flush's loop in instance i, which saves note n: edit e is what
\* contentRef holds, s the store. updateNote patches the store, remembers what
\* was there and sends the PATCH; a note that is not in the store is not saved.
\* Defect for the mutation runs: there is no loop, so a save is not followed by
\* another one.
FlushOnce(i, n, e, s) ==
  /\ saver' = [saver EXCEPT ![i] = IF InFlight(i) \/ e = None \/ s[n] = None
               THEN [IdleSaver EXCEPT !.content = e]
               ELSE [content |-> None, pc |-> "sent", note |-> n, saving |-> e, prev |-> s[n]]]
  /\ store' = IF e = None \/ s[n] = None THEN s ELSE [s EXCEPT ![n] = e]

Flush(i, n, e, s) ==
  /\ saver' = [saver EXCEPT ![i] = IF e = None \/ s[n] = None THEN IdleSaver
               ELSE [content |-> None, pc |-> "sent", note |-> n, saving |-> e, prev |-> s[n]]]
  /\ store' = IF e = None \/ s[n] = None THEN s ELSE [s EXCEPT ![n] = e]

\* What Flush adds to the history.
Unsaved(n, e, s) == IF e # None /\ s[n] = None THEN {e.k} ELSE {}
Crossing(i, n, e) == IF e # None /\ NotAlone(i, n) THEN {n} ELSE {}

\* handleUpdate on every change of the document.
Type ==
  LET i == mounted
      busy == InFlight(i)
      e == [note |-> open, k |-> EditCount + 1, behind |-> IF busy THEN saver[i].note ELSE open]
      waiting == saver[i].content
  IN /\ mounted # None
     /\ EditCount < MaxEdits
     /\ screen' = e
     /\ \/ busy /\ saver' = [saver EXCEPT ![i].content = e] /\ UNCHANGED store
        \/ ~busy /\ Flush(i, open, e, store)
     /\ UNCHANGED <<pane, mounted, late, server>>
     /\ past' = [past EXCEPT
          !.typed[open] = e,
          !.clobbered = IF waiting # None /\ waiting.note # open THEN @ \cup {waiting.k} ELSE @,
          !.overlapped = @ \cup Crossing(i, e.behind, e)]

\* The API runs the UPDATE of a PATCH that its client still waits for,
Apply(i) ==
  /\ saver[i].pc = "sent"
  /\ server' = [server EXCEPT ![saver[i].note] = saver[i].saving]
  /\ saver' = [saver EXCEPT ![i].pc = "applied"]
  /\ UNCHANGED <<pane, view, store, late, past>>

\* or of one that it has given up.
ApplyLate(p) ==
  /\ p \in late
  /\ server' = [server EXCEPT ![p.note] = p.saving]
  /\ late' = late \ {p}
  /\ UNCHANGED <<pane, view, store, saver, past>>

\* Defects: contentRef is cleared after the save; the loop saves to the note
\* that is open by now.
ForgetContent(i) == None
NoteOpenNow(i) == IF open = None THEN saver[i].note ELSE open

Content(i) == saver[i].content
NoteId(i) == saver[i].note

\* The loop goes on with what was typed meanwhile, and with the noteId that it
\* captured when it started.
GoOn(i, s, lost) ==
  /\ Flush(i, NoteId(i), Content(i), s)
  /\ UNCHANGED <<pane, server>>
  /\ past' = [past EXCEPT
       !.failed = @ \cup lost \cup Unsaved(NoteId(i), Content(i), s),
       !.overlapped = @ \cup Crossing(i, NoteId(i), Content(i))]
  /\ Render

\* The answer holds the updated row; a note that left the scope is dropped.
SaveDone(i, inScope) ==
  LET n == saver[i].note
  IN /\ saver[i].pc = "applied"
     /\ UNCHANGED late
     /\ GoOn(i, [store EXCEPT ![n] = IF inScope THEN saver[i].saving ELSE None], {})

\* An error answer, no answer, or the HTTP client's timeout: the note is rolled
\* back, the error is swallowed and the loop goes on.
\* Defect: the error is not caught, so inFlightRef stays set.
SaveFailedUncaught(i) ==
  /\ Failures
  /\ InFlight(i)
  /\ saver' = [saver EXCEPT ![i].pc = "crashed"]
  /\ UNCHANGED <<pane, view, store, late, server, past>>

SaveFailed(i) ==
  LET n == saver[i].note
      e == saver[i].saving
  IN /\ Failures
     /\ InFlight(i)
     /\ late' \in IF saver[i].pc = "sent" THEN {late, late \cup {[note |-> n, saving |-> e]}} ELSE {late}
     /\ GoOn(i, [store EXCEPT ![n] = saver[i].prev], IF saver[i].pc = "sent" THEN {e.k} ELSE {})

Answer(i) == Apply(i) \/ (\E b \in BOOLEAN : SaveDone(i, b)) \/ SaveFailed(i)

Navigate == (\E n \in Notes : Open(n) \/ Drop(n)) \/ Close \/ LoadDone

Next ==
  \/ Navigate
  \/ Type
  \/ \E i \in Editors : Answer(i)
  \/ \E p \in late : ApplyLate(p)

Spec == Init /\ [][Next]_vars

\* A request is answered, times out or breaks: the promise settles.
FairSpec == Spec /\ \A i \in Editors : WF_vars(Answer(i))

-----------------------------------------------------------------------------
(* Properties *)

\* The pane, the store, the refs and the server's rows have their types.
TypeOK ==
  /\ open \in Notes \cup {None} /\ loading \in BOOLEAN /\ fetching \in Notes \cup {None}
  /\ mounted \in Editors \cup {None} /\ screen \in Edit \cup {None}
  /\ store \in [Notes -> Edit \cup {None}]
  /\ saver \in [Editors -> Saver]
  /\ late \subseteq [note : Notes, saving : Edit]
  /\ server \in [Notes -> Edit]
  /\ past \in Past

\* The types, and what the loop of useAutosave is for: what was typed waits in
\* contentRef only while a save is under way that will come back for it.
WellFormed == TypeOK /\ \A i \in Editors : saver[i].content # None => InFlight(i)

\* Text typed in one note becomes the body of another only in one way: it was
\* typed while the same editor was still saving that other note.
MisfiledOnlyBehindASave ==
  \A n \in Notes : server[n].note # n => server[n].behind = n

\* The API's copy of a note goes back to an earlier edit only when an earlier
\* editor of the note was still saving it when the later edit was typed, or a
\* save the client had given up came through after all.
SavesInOrder ==
  [][\A n \in Notes : server'[n].k < server[n].k => n \in past.overlapped]_vars

\* When nothing is being saved, the API has the last edit of every note, or
\* one of these happened: its save failed, an edit of another note overwrote
\* it or was filed in its place, it was itself filed under another note, or
\* two savers were busy with the note at once.
AtRest == \A i \in Editors : ~InFlight(i)
LostEditExplained ==
  AtRest =>
    \A n \in Notes :
      LET e == past.typed[n] IN
      server[n] # e =>
        \/ e.k \in past.failed \cup past.clobbered
        \/ e.behind # n
        \/ server[n].note # n
        \/ n \in past.overlapped

\* The spinner of the pill goes away once the user stops typing: a saver never
\* stays busy, whatever fails.
SaverEnds == \A i \in Editors : InFlight(i) ~> ~InFlight(i)
=============================================================================
