------------------------------- MODULE NoteList -------------------------------
(***************************************************************************)
(* The list of notes in the web app's sidebar: useLoadNotes.ts (pages and  *)
(* their requests), the ids of stores/notes.ts, and NoteList.tsx with the  *)
(* IntersectionObserver that asks for the next page when the sentinel at   *)
(* the end of the list scrolls into view. The list requests race with each *)
(* other, with changes of the scope or the search, and with creating and   *)
(* deleting notes in the same tab (useCreateNote.ts, useDeleteNote.ts).    *)
(*                                                                         *)
(* The API orders notes by updatedAt, newest first, and a cursor is the    *)
(* updatedAt of a page's last note; here all of them differ (Pagination    *)
(* deals with equal ones). Changes that editing makes to the list are left *)
(* to the model of the optimistic updates.                                 *)
(***************************************************************************)
EXTENDS NoteIds

CONSTANTS
  Notes,
  Queries,    \* the values of baseParams: scope and debounced search
  QueryOf,    \* the one query each note matches
  NewQuery,   \* the query a new note matches
  PageSize,
  MaxWrites,  \* bound on changes of the table
  Seed,       \* updatedAt of each note at the start, 0 if it is not made yet
  Failures    \* whether requests may fail

ASSUME BoundsAssumption ==
  /\ IsFiniteSet(Notes)
  /\ QueryOf \in [Notes -> Queries] /\ NewQuery \in Queries
  /\ PageSize \in Nat \ {0} /\ MaxWrites \in Nat /\ Failures \in BOOLEAN
ASSUME SeedAssumption ==
  /\ Seed \in [Notes -> 0 .. Cardinality(Notes)]
  /\ \A m, n \in Notes : Seed[m] = Seed[n] /\ Seed[m] # 0 => m = n

VARIABLES
  updatedAt,     \* the API's table: 0 while a note does not exist
  writes,        \* writes so far; the clock of updatedAt
  query,         \* baseParams
  ids,           \* ids of the notes store
  nextCursor,    \* nextCursor, 0 for null
  isLoading, isLoadingMore, error,
  first, more,   \* the list requests of the current AbortController
  observed,      \* the observer watches the sentinel that is in the page
  pending,       \* creates and deletes of this tab: done by the API, not answered
  seen           \* history: [pages of this query, notes written since, notes made here]

list == <<query, ids, nextCursor, isLoading, isLoadingMore, error>>
vars == <<updatedAt, writes, list, first, more, observed, pending, seen>>

Now == Cardinality(Notes) + writes
Rows(q) == {n \in Notes : updatedAt[n] # 0 /\ QueryOf[n] = q}

\* A list request: not there, sent, or answered with these items.
Request == [pc : {"idle", "sent", "read"}, items : Seq(Notes), next : Nat]
NoRequest == [pc |-> "idle", items |-> <<>>, next |-> 0]
Sent == [NoRequest EXCEPT !.pc = "sent"]

Init ==
  /\ updatedAt = Seed /\ writes = 0
  /\ query \in Queries
  /\ ids = <<>> /\ nextCursor = 0
  /\ isLoading = TRUE /\ isLoadingMore = FALSE /\ error = FALSE
  /\ first = Sent /\ more = NoRequest
  /\ observed = FALSE
  /\ pending = [n \in Notes |-> "none"]
  /\ seen = [pages |-> 0, touched |-> {}, made |-> {}]

-----------------------------------------------------------------------------
(* NoteList.tsx *)

\* The sentinel is in the page when the list is shown and can go on.
SentinelShown(xs, next, loadingMore, err) ==
  /\ ~err /\ xs # <<>>  \* else the message, the skeleton or 'No notes here'
  /\ next # 0 /\ ~loadingMore

\* The effect runs when hasMore or isLoading changes, and only then; a sentinel
\* that left the page and came back is another element.
\* Defect for the mutation runs: the effect never runs again.
BindOnce == observed' = observed

Bind ==
  LET shown  == SentinelShown(ids, nextCursor, isLoadingMore, error)
      shown1 == SentinelShown(ids', nextCursor', isLoadingMore', error')
      rerun  == (nextCursor # 0) # (nextCursor' # 0) \/ isLoading # isLoading'
  IN observed' = (shown1 /\ IF rerun THEN nextCursor' # 0 /\ ~isLoading' ELSE observed /\ shown)

-----------------------------------------------------------------------------
(* useLoadNotes.ts *)

\* The effect on baseParams: abort what is on the wire and start again.
\* Defect: nothing is aborted.
ChangeQueryNoAbort(q) ==
  /\ q # query
  /\ query' = q /\ ids' = <<>> /\ nextCursor' = 0
  /\ isLoading' = TRUE /\ isLoadingMore' = FALSE /\ error' = FALSE
  /\ first' = (IF first.pc = "read" THEN first ELSE Sent) /\ UNCHANGED more
  /\ seen' = [seen EXCEPT !.pages = 0]
  /\ UNCHANGED <<updatedAt, writes, pending>>
  /\ Bind

ChangeQuery(q) ==
  /\ q # query
  /\ query' = q /\ ids' = <<>> /\ nextCursor' = 0
  /\ isLoading' = TRUE /\ isLoadingMore' = FALSE /\ error' = FALSE
  /\ first' = Sent /\ more' = NoRequest
  /\ seen' = [seen EXCEPT !.pages = 0]
  /\ UNCHANGED <<updatedAt, writes, pending>>
  /\ Bind

\* ORDER BY updated_at DESC.
Newest(P) ==
  CHOOSE s \in [1 .. Cardinality(P) -> P] :
    \A i, j \in DOMAIN s : i < j => updatedAt[s[i]] > updatedAt[s[j]]

\* The API's SELECT of the page after a cursor (0: the first page).
\* Defect: the note at the cursor is part of the next page.
PageFrom(cursor) ==
  LET S == {n \in Rows(query) : cursor = 0 \/ updatedAt[n] <= cursor}
      P == {n \in S : Cardinality({m \in S : updatedAt[m] > updatedAt[n]}) < PageSize}
      items == Newest(P)
  IN [pc |-> "read", items |-> items, next |-> IF S = P THEN 0 ELSE updatedAt[Last(items)]]

PageAfter(cursor) ==
  LET S == {n \in Rows(query) : cursor = 0 \/ updatedAt[n] < cursor}
      P == {n \in S : Cardinality({m \in S : updatedAt[m] > updatedAt[n]}) < PageSize}
      items == Newest(P)
  IN [pc |-> "read", items |-> items, next |-> IF S = P THEN 0 ELSE updatedAt[Last(items)]]

ReadFirst ==
  /\ first.pc = "sent"
  /\ first' = PageAfter(0)
  /\ seen' = [seen EXCEPT !.touched = {}]
  /\ UNCHANGED <<updatedAt, writes, list, more, observed, pending>>

FirstDone ==
  /\ first.pc = "read"
  /\ ids' = first.items /\ nextCursor' = first.next
  /\ isLoading' = FALSE
  /\ first' = NoRequest
  /\ seen' = [seen EXCEPT !.pages = 1]
  /\ UNCHANGED <<updatedAt, writes, query, isLoadingMore, error, more, pending>>
  /\ Bind

FirstFailed ==
  /\ Failures /\ first.pc # "idle"
  /\ error' = TRUE /\ isLoading' = FALSE
  /\ first' = NoRequest
  /\ UNCHANGED <<updatedAt, writes, query, ids, nextCursor, isLoadingMore, more, pending, seen>>
  /\ Bind

\* The user scrolls to the sentinel: the observer's callback is loadMore, which
\* uses the cursor of the last page.
LoadMore ==
  /\ observed
  /\ nextCursor # 0 /\ ~isLoadingMore /\ ~isLoading
  /\ isLoadingMore' = TRUE
  /\ more' = Sent
  /\ UNCHANGED <<updatedAt, writes, query, ids, nextCursor, isLoading, error, first, pending, seen>>
  /\ Bind

ReadMore ==
  /\ more.pc = "sent"
  /\ more' = PageAfter(nextCursor)
  /\ UNCHANGED <<updatedAt, writes, list, first, observed, pending, seen>>

\* appendNotes.
\* Defect: the page replaces the list.
ReplaceNotes(xs, items) == items

AppendNotes(xs, items) == xs \o items

MoreDone ==
  /\ more.pc = "read"
  /\ ids' = AppendNotes(ids, more.items) /\ nextCursor' = more.next
  /\ isLoadingMore' = FALSE
  /\ more' = NoRequest
  /\ seen' = [seen EXCEPT !.pages = @ + 1]
  /\ UNCHANGED <<updatedAt, writes, query, isLoading, error, first, pending>>
  /\ Bind

\* Defect: isLoadingMore is only reset on success.
MoreFailedStillBusy ==
  /\ Failures /\ more.pc # "idle"
  /\ error' = TRUE
  /\ more' = NoRequest
  /\ UNCHANGED <<updatedAt, writes, query, ids, nextCursor, isLoading, isLoadingMore, first, pending, seen>>
  /\ Bind

MoreFailed ==
  /\ Failures /\ more.pc # "idle"
  /\ error' = TRUE /\ isLoadingMore' = FALSE
  /\ more' = NoRequest
  /\ UNCHANGED <<updatedAt, writes, query, ids, nextCursor, isLoading, first, pending, seen>>
  /\ Bind

-----------------------------------------------------------------------------
(* The table changes, by this tab or elsewhere *)

\* The API carries out a write of n.
Write(n, time) ==
  /\ writes < MaxWrites
  /\ writes' = writes + 1
  /\ updatedAt' = [updatedAt EXCEPT ![n] = time]
  /\ UNCHANGED <<list, first, more, observed>>

Elsewhere(n) ==
  /\ updatedAt[n] # 0
  /\ Write(n, Now + 1) \/ Write(n, 0)
  /\ seen' = [seen EXCEPT !.touched = @ \cup {n}]
  /\ UNCHANGED pending

Create(n) ==
  /\ Seed[n] = 0 /\ n \notin seen.made /\ QueryOf[n] = NewQuery
  /\ Write(n, Now + 1)
  /\ pending' = [pending EXCEPT ![n] = "create"]
  /\ seen' = [seen EXCEPT !.touched = @ \cup {n}, !.made = @ \cup {n}]

Delete(n) ==
  /\ updatedAt[n] # 0 /\ pending[n] = "none"
  /\ Write(n, 0)
  /\ pending' = [pending EXCEPT ![n] = "delete"]
  /\ seen' = [seen EXCEPT !.touched = @ \cup {n}]

\* Their answers: prependNotes and removeNote, whatever the list shows by now.
Created(n) ==
  /\ pending[n] = "create"
  /\ pending' = [pending EXCEPT ![n] = "none"]
  /\ ids' = <<n>> \o ids
  /\ UNCHANGED <<updatedAt, writes, query, nextCursor, isLoading, isLoadingMore, error, first, more, seen>>
  /\ Bind

Deleted(n) ==
  /\ pending[n] = "delete"
  /\ pending' = [pending EXCEPT ![n] = "none"]
  /\ ids' = Without(ids, n)
  /\ UNCHANGED <<updatedAt, writes, query, nextCursor, isLoading, isLoadingMore, error, first, more, seen>>
  /\ Bind

Answer == ReadFirst \/ FirstDone \/ FirstFailed \/ ReadMore \/ MoreDone \/ MoreFailed

Next ==
  \/ \E q \in Queries : ChangeQuery(q)
  \/ LoadMore
  \/ Answer
  \/ \E n \in Notes : Elsewhere(n) \/ Create(n) \/ Created(n) \/ Delete(n) \/ Deleted(n)

Spec == Init /\ [][Next]_vars

\* Requests are answered, and the user keeps scrolling to the end of the list.
FairSpec == Spec /\ WF_vars(Answer) /\ WF_vars(LoadMore)

-----------------------------------------------------------------------------
(* Properties *)

\* The table, the hook's state and the requests have their types.
TypeOK ==
  /\ updatedAt \in [Notes -> Nat] /\ writes \in 0 .. MaxWrites
  /\ query \in Queries /\ ids \in Seq(Notes) /\ nextCursor \in Nat
  /\ isLoading \in BOOLEAN /\ isLoadingMore \in BOOLEAN /\ error \in BOOLEAN
  /\ first \in Request /\ more \in Request /\ observed \in BOOLEAN
  /\ pending \in [Notes -> {"none", "create", "delete"}]
  /\ seen \in [pages : Nat, touched : SUBSET Notes, made : SUBSET Notes]

Shown == ToSet(ids)

\* A late answer to an earlier scope or search never gets into the list: what
\* is shown matches the current one, or was created in this tab.
OnlyTheCurrentQuery == \A n \in Shown : QueryOf[n] = query \/ n \in seen.made

\* What has been scrolled past has no holes: every note that matched when the
\* first page was read and was not written since is shown, down to the cursor.
NoGaps ==
  seen.pages > 0 =>
    \A n \in Rows(query) \ seen.touched :
      nextCursor = 0 \/ updatedAt[n] >= nextCursor => n \in Shown

\* A note is in the list twice only if this tab created it: the answer to the
\* create prepends a note that a page read in between has brought already.
TwiceOnlyIfCreated ==
  \A i, j \in DOMAIN ids : i # j /\ ids[i] = ids[j] => ids[i] \in seen.made

\* The types, and that the busy flags belong to a request that will answer them.
WellFormed ==
  /\ TypeOK
  /\ isLoading <=> first.pc # "idle"
  /\ isLoadingMore <=> more.pc # "idle"

\* A list with more pages gets its second one when the user scrolls down, as
\* long as it still shows a note of the first: the observer is bound to the
\* sentinel that appears with the first page. (A list that this tab emptied
\* and then created a note in shows a new sentinel, which nobody watches.)
OfFirstPage == Shown \ seen.made
SecondPageLoads ==
  (seen.pages = 1 /\ nextCursor # 0 /\ OfFirstPage # {})
    ~> (seen.pages # 1 \/ error \/ OfFirstPage = {})
=============================================================================
