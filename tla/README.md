# Verification of notable

TLA+ models of the note-taking application in this repository: a Fastify API
over PostgreSQL and S3 storage (`apps/api`), a React single-page app
(`apps/web`), and two shared packages (`packages/shared`: Zod schemas,
`packages/editor`: Tiptap configuration). Everything is model-checked with TLC;
every safety property of a passing run, and the refinement of the one-time codes,
is also proved with TLAPS for every value of the constants.

Run a model with `tlc -config <cfg> <MC module>`, check the proofs with
`tlapm <module>`. `PROJECT.json` ties definitions to source lines, runs to
properties, properties to mutants, theorems to properties, and hazards to the
properties that cover them.

## 1. Inventory

### The system's parts and their state

| Part | State | Operations |
| --- | --- | --- |
| Authentication (`auth.service`, `auth.repository`) | tables `users`, `auth_tokens`, `email_change_tokens`; JWTs in cookies (no server-side session) | request and verify a login code, request and confirm a new address, delete the account, current user |
| Notes (`notes.service`, `notes.repository`) | table `notes` | create, update (title, body, star, trash), delete, list by cursor |
| Files (`files.service`, `files.repository`, `lib/storage`) | table `files`, objects in the bucket | upload, clone into another note, read, delete with the note |
| Processes (`server.ts`, `lib/lifecycle`, `db/migrate`, `ensureBucket`) | schema, bucket, open requests, signal handlers | migrate, make the bucket, listen, drain on SIGTERM, restart |
| Rate limiting (`plugins/ratelimit`) | counters in memory or in Redis | count, refuse |
| Editor pane (`useLoadNote`, `EditorPane`, `Editor`, `useNoteEditor`, `useAutosave`, `useUpdateNote`) | open note, loading flag, text on the screen, `byId` of the store, refs of the saver | open, type, save, drop |
| Note list (`useLoadNotes`, `NoteList`, list part of `stores/notes`) | `ids`, `nextCursor`, busy flags, abort controller, `IntersectionObserver` | first page, next page, change of scope or search, create, delete |
| Notes store (`stores/notes`, `useUpdateNote`, `useRestoreNote`, `useDeleteNote`) | `byId`, `ids`, what a callback remembers to roll back to | star, rename, restore, delete, and the list that overwrites them |
| Web session (`stores/auth`, `useLoadUser`, `AuthGate`, `Login`, `Settings`, `UserMenu`, `ConfirmModal`) | the cookie, current user, loading flag, the forms' steps and busy flags | load, sign in, sign out, change the address, delete the account |
| Mail, metrics, logging, swagger, health, configuration | none that the program reads back, or external | |
| Editor extensions, toolbars, rendering, design pages | presentation | |

### How they interact, and what is hard about it

* Every HTTP request is an independent asynchronous handler. **No handler uses
  a transaction**: each awaited statement commits by itself, so at every `await`
  any other request, of the same or another replica, can run. Whatever a handler
  read before an `await` may be stale after it.
* The API can die between any two statements; the database and the bucket keep
  what was done. There is no background job that repairs anything.
* A note's files live in two stores that nothing makes atomic: the row in
  PostgreSQL (with foreign keys and `ON DELETE CASCADE`) and the object in S3.
* Replicas start beside each other, against storage that may not be up; a
  process that fails ends, and its container is started again.
* The browser runs events one at a time but has several requests in the air:
  loads, saves, list pages, stars. Some are aborted when the user moves on, some
  are not; one that was given up may still be carried out by the API. The HTTP
  client (ky) repeats idempotent requests, DELETE among them.
* Changes are shown before the API has them and taken back when it refuses; the
  callback that takes them back remembers the list and the scope of the click.
* A request carries the cookie the browser holds when it is sent, and all tabs
  share that cookie; the tab itself only knows what it was last told.
* PostgreSQL keeps microseconds in the two timestamps, a JavaScript `Date` keeps
  milliseconds, and the list cursor passes through a `Date`.

### What makes each part correct

* *Authentication*: a code works once, for the account, flow and address it was
  made for; after the maximum of answered misses or after being superseded it
  is dead; an answered change of address kills the codes of the old one; nothing
  else loses a code.
* *Notes and files*: a file row always has its object and its note, of the same
  user; objects without a row have a known cause; users never touch each
  other's rows; a note that is not in the trash is not destroyed.
* *Processes*: nothing is served before the schema and the bucket exist; a
  graceful shutdown cuts off nobody who still waits, and ends; whoever is not
  stopped gets to serve; the shared limit holds across replicas and restarts.
* *Listing*: a walk lists each note that stays as it is exactly once, and ends.
* *Editing*: text ends up in its own note, newer over older, or there is a known
  cause; a saver never stays busy.
* *List*: what is shown belongs to the current query, has no holes and no
  duplicates; busy flags belong to requests; scrolling loads the second page.
* *Notes store*: when all is answered, the cache, the list and its order are the
  API's, or there is a known cause.
* *Session*: a click acts on the account that is shown; the tab ends up knowing
  the session; no spinner or form waits for nothing.

The hazards behind these, each at its line, are in `PROJECT.json`.

## 2. Modules

| Module | Models | Built on |
| --- | --- | --- |
| `AuthRepository` | the SQL statements of `auth.repository.ts`, one operator each, over a table as a function from token hash to row | |
| `AuthService` | `auth.service.ts` and `routes/auth.routes.ts`: one process per request, one action per statement | `AuthRepository` |
| `OneTimeCode` | what a flow with mailed codes promises: the abstract specification | |
| `AuthCodes` | the two refinement mappings from `AuthService` to `OneTimeCode` | `AuthService`, `OneTimeCode` |
| `NoteFiles` | note writes, files, bucket, foreign keys; one process per request | |
| `Pagination` | `GET /notes` with cursors, writers beside it | |
| `Deployment` | replicas: migration, bucket, start, shutdown, crashes, rate limits | |
| `Autosave` | editor pane, editor and saver of one tab, and the API's copy of the notes | |
| `NoteIds` | `ids.filter` of `removeNote`, which the next two share | |
| `NoteList` | list, its requests, the infinite scroll of one tab | `NoteIds` |
| `NotesStore` | cache and list of one tab under optimistic updates, and the API's rows | `NoteIds` |
| `Session` | auth store, gate, forms and requests of one tab, the cookie, another tab | |
| `AuthServiceProofs`, `NoteFilesProofs`, `PaginationProofs`, `DeploymentProofs`, `AutosaveProofs`, `NoteListProofs`, `NotesStoreProofs`, `SessionProofs` | theorems | the module they are named after; `AuthServiceProofs` on `AuthCodes` |
| `MC*` | instances for TLC: seeds, orders, symmetry | the module they are named after |

How the parts meet: a request of `Autosave`, `NoteList`, `NotesStore` or
`Session` is one whose handler is taken apart in `NoteFiles`, `Pagination` or
`AuthService`. The tab's models let the API carry a request out in one step, at
any time between click and answer or, if it changes rows that the model keeps,
after the client gave it up: each of the handlers concerned changes the row in
question in one statement. The processes that `Crash` in `AuthService` and
`NoteFiles` are those of `Deployment`.

### AuthRepository and AuthService

`users`, `authTokens` and `emailTokens` are the tables; `sessions` is the set of
users a JWT was ever signed for; `req` holds each handler's program counter and
locals. An action is one awaited statement; a request's arrival is merged with
its first statement, before which the handler reads nothing shared. `/login` is
`LoginUpsert, LoginPrune, LoginInsert, LoginMail`; `/verify` is `VerifyFind,
VerifyConsume, VerifyBump`; and so on: the action's prefix names the route, its
suffix the statement. The two unique keys that can fail an INSERT or UPDATE
(token hash, address) and the foreign key on `users` are guards whose negation is
the "error" outcome. Environment actions: a row expires; a handler dies between
two statements (`Crash`). A SHA-256 digest is the tuple that is hashed.

Because nothing is transactional, some statements in the comments hold only for
requests that do not overlap, and the properties say so: `SupersededCodeIsDead`
speaks of codes whose request was *answered* before the next one started, and
`AttemptCap` of misses that were answered. Two logins that overlap can leave two
live codes, two overlapping change requests two live targets, guesses in flight
together are all judged against the old count, and an address claimed between the
re-check and the UPDATE (`auth.service.ts:150`) is answered with a 500.

### OneTimeCode and AuthCodes

`OneTimeCode` has a state per code (unissued, live, redeemed, dead), what it is
for, a number of wrong answers, and the set of grants given. A grant is only
given by `Redeem`, of a live code below the maximum, and no code comes back.
`AuthCodes` reads this off `AuthService` twice. In the login flow a code is named
by the login request that drew it, and a grant is a session of its account; in
the email-change flow a grant is an account with an address, given to the
confirmation that consumed the row. A row that expired, was pruned or went with
its account is a dead code.

### NoteFiles

`accounts`, `notes`, `files`, `blobs` (the bucket) and `logged` (warnings about
objects that could not be deleted). Of a note only existence, owner and trash
flag are kept; a file's id, row and storage key are one name. Deleting runs
through `DeleteDialog` (what the user saw), `DeleteFind` (what the handler
read), then `DeleteSoft`, or `DeleteRows`, `DeleteBlob` per key and `DeleteDrop`.
Uploads and clones write the object first and `InsertFile` last. `DeleteAccount`
is the cascade. `Crash` may end any handler, storage calls may fail, and a DELETE
whose answer was lost may be sent again (`RetryDelete`, at most `RetryLimit`
times). A storage call that fails may have been carried out all the same: an
upload's or a clone's object may be there although its request is answered with
an error. Objects are left without a row, each with its cause in
`OrphansExplained`: an upload, clone or delete that failed or died, an upload
that inserted its row while its note was being deleted for good (`raced`), an
object whose deletion failed (`logged`), and the object of a row that went with
its account. That last cause needs a row that was there and that no delete took
(`WentWithAccount`); the key of a failed upload, which never had one, needs one of
the others.

### Pagination

One client sends back each page's cursor; other requests create, edit, hide and
delete notes. Times count in the column's unit and `ToDate` truncates to a
multiple of `Precision`, in the cursor and in the `updated_at` the application
writes. Filters are one boolean per note: it is listed or hidden.

### Deployment

`proc[r]` is how far replica r's process is: `migrate.js`, the two requests of
`ensureBucket` (`Head`, `Create`), `Listen`, `RegisterGracefulShutdown`; then
`Close` is `app.close()` and `Exit` the end of the pool and of the process. What
`app.close()` waits for are connections, not handlers: when the client of a
request goes away (`Leave`: it gave up, or lost the connection) the handler runs
on, and may meet the ended pool or the exit (`Finish` and `End` with "cut"). A
failing step, `listen` among them, ends the process, and `Start` is docker's
restart, unless the container was stopped. Two replicas may find the same
migration to do or the same bucket missing. `Signal` is SIGTERM or SIGINT: after
`listen` and before the handlers are registered, PID 1 ignores it, and a process
that is not PID 1 dies of it. `Kill`, `StorageFails` and `RedisFails` are the
faults. `Arrive` is a request to a limited route: `Count` in the counter of the
process or in Redis. With Redis away the request passes uncounted or fails,
whichever the plugin does: the code relies on a default of `skipOnError` that it
states in a comment (`ratelimit.ts:22`) and does not set. That `app.close()` also
quits the client of Redis (`ratelimit.ts:34`) is left out: by then nobody is
admitted any more.

### Autosave

A body is the number of the edit that produced it together with the note it was
typed in, so that a body filed under another note is visible. `saver` holds the
refs of each instance of `useAutosave`; an instance that is unmounted keeps
saving. `Render` says what React mounts after each event: switching between two
cached notes keeps the editor instance and its refs. `late` are PATCHes the
client gave up and the API may still run. A note may leave the store because an
answer takes it out of the scope; what waits for it is dropped without a request.

### NoteList

`first` and `more` are the two requests of the current abort controller; `Bind`
is the effect that (re)creates the observer, run after every event that changes
the page, as React does; the rest follows the handlers of `useLoadNotes`.
`pending` are creates and deletes that the API has done and not answered.

### NotesStore

`byId`, `ids`, the scope and the open note are the tab's; `server` and `clock`
the API's; `list` is the list request of the current scope and `req` every change
the user asked for, in the order of the clicks. `UpdateNote` is `useUpdateNote`
up to its await: it remembers the row, its place and the scope, patches the row
and moves it to the top. `Apply` is the API, `UpdateDone`, `Removed` and `Failed`
the callbacks; `Rollback` puts the remembered row and place back. `ListDone`
overwrites what it lists. Answers come in any order, and one whose client gave up
may be carried out later ("late"). `past` records what makes an honest difference
between tab and API: an older answer after a newer one, a rollback across another
request, a change the tab was told had failed, an answer judged by the scope of
the click. Bodies are in `Autosave`; a title is a member of a small set.

### Session

`flight` holds the at most one request of each kind, which carries the cookie of
the moment it was sent; `Serve` is the API, `Succeed` and `Fail` the callbacks;
that the browser takes the cookie of an answer and that the tab hears of the
answer are one step. `Render` is `AuthGate` and React: what the store and the URL
now show, what that unmounts, and that an unmounted component's `setState` is
lost. `OtherTab` may sign in, out, change the address or delete the account, and
`Expire` ends the session by itself, cookie and JWT (30 days).

A request can outlive its answer. `Resend` is the HTTP client repeating a failed
`GET /me` or `DELETE /me` with the cookie of the moment of the repeat. A
confirmation or removal that is given up while the API may have it (by a timeout,
a broken connection, a reload or a repeat) becomes a member of `late`, and
`CarryOut` is the API getting to it at any later time. The other kinds change
nothing that the model keeps when they are carried out late; a verification whose
answer nobody hears sets no cookie. A member of `late` may stand for two
confirmations, so it may stay in `late` when one is carried out.

`past` records since the last `GET /me` what the tab could not know. There are six
causes, in two classes. "session": another tab, an expired session, or an answer
that came after the session it belonged to had ended. "account": a `GET /me` that
failed, a change or removal whose answer was lost, or one that was carried out
after it had been given up. Only the first class can make a click act on another
account (`ActsOnTheShownUser`); both can leave an idle tab wrong
(`TabKnowsTheSession`).

## 3. Runs

All bounds are small enough to finish in under five minutes and large enough for
the races named in the hazards, which take two or three requests.

| Run | What it shows | Bounds and why they are enough |
| --- | --- | --- |
| `Auth` | `SingleUse`, `AttemptCap`, `SupersededCodeIsDead`, `SentCodeSurvives`, `RedeemsOwnCode`, `SupersededTargetIsDead`, `EarlierCodesDieWithOldEmail`, and that both flows refine `OneTimeCode` (`CodesAreOneTime`) | all six operations, 2 users, 2 addresses, 2 codes (a right and a wrong one, or a redraw of the same), 3 requests, 1 attempt: a login, a miss or a second login, and the answer that must find its code dead; one account at the start, so the address can be freed and claimed again |
| `AuthOldEmail` | the comment "Old email can no longer mint a session" is refuted | a login, a change request, its confirmation |
| `FilesLifecycle` | `RowHasBlob`, `OrphansExplained`, `FileBelongsToNote`, `FilesStay`, `UsersAreIsolated`, `ActiveNotesAreNotDestroyed` | 2 users, 3 notes (trashed with a file, active, not made yet), 2 storage keys, 3 requests, one repeat: every pair of operations with a third in between |
| `FilesMoveTwoTabs` | a move to the trash, confirmed in two tabs, deletes for good | 2 deletes of one note |
| `Pages` | `ExactUpToTheMillisecond`, `ErrsToOneSide`, `WalkEnds` | 4 notes, pages of 2, all six orders, 2 writes, 2 notes in one millisecond |
| `PagesSkip` | a descending walk skips notes, nobody writing | pages of 1, 4 notes |
| `Saves` | `MisfiledOnlyBehindASave`, `LostEditExplained`, `SavesInOrder`, `SaverEnds` | 2 notes, 2 editor instances, 3 edits: one being saved, one waiting, one overwriting it |
| `List` | `OnlyTheCurrentQuery`, `NoGaps`, `TwiceOnlyIfCreated`, `SecondPageLoads` | 6 notes in 2 queries, pages of 2 (three pages), 3 writes |
| `Store` | `CacheMatchesApi`, `ListMatchesApi`, `OrderMatchesApi` | 2 notes, 2 titles, 2 changes, 2 changes of scope: two changes of one or of two notes, each side of a list answer |
| `SignIn` | `ActsOnTheShownUser`, `TabKnowsTheSession` | 2 users, 1 change of address, 1 reload, 1 step of another tab or expiry, 2 requests under way at once: every pair of requests, with a third party or a late request in between; nothing is repeated |
| `SignInEnds` | `NothingHangs` | 1 user, the same bounds, and one repeat of a failed read or removal |
| `Replicas` | `ServesOnlyWhenReady`, `NobodyWaitingIsCutOff`, `LimitHolds`, `EventuallyServes`, `ShutdownEnds` | 2 replicas, 2 requests, a limit of 1, 2 faults, 1 signal: a race for bucket and migrations with a failure in it, a limit that one request reaches |

`WellFormed` is the type invariant of `List`, `Store`, `Saves` and `SignIn`, and
says as well that busy flags and dialogs have a request to wait for, that text
waits only behind a save, and that the list names only cached notes, each once.
The types of the other modules are proved (section 5).

Two larger instances were checked once, without a violation: four overlapping
logins and verifications of one account with 2 attempts (1.3 million states, the
first four properties of `Auth`), and two users with a repeat in `Session` (7.5
million states, the three properties of `SignIn`). They take too long together
with the others for standing runs; the theorems about these properties (section
5) hold for every value of the bounds.

Symmetry is used for request names and, in `SignIn`, for users, in the safety
runs only; every run with a liveness property is checked without it. Deadlock
checking is off where the instance really stops: when all requests are answered,
the walk is over, the edits are used up, or the replicas are stopped.

Each property of a passing run has a mutant: a plausible slip in the code
(a dropped guard, a missing reset, swapped branches), written next to the
definition it replaces and marked "Defect", under which TLC finds the property
violated.

### Fairness

* `Pagination!FairSpec`: the client keeps asking while there is a next page. The
  property is about the cursor making progress, so a client that gives up is of
  no interest.
* `Autosave!FairSpec`: weak fairness of a saver's answer. The awaited promise
  settles: the API answers, the connection breaks, or the HTTP client's timeout
  fires. No fairness is assumed of the user or of abandoned requests.
* `NoteList!FairSpec`: list requests are answered (same reason), and the user
  scrolls on while the observer watches the sentinel.
* `Session!FairSpec`: while requests are under way, one of them gets on
  (`Answer`: the API serves it, its answer arrives, or it fails, by the client's
  timeout if by nothing else). Nothing is assumed of clicks, repeats, late
  requests, expiry or the other tab.
* `Deployment!FairSpec`: a process that is starting or closing gets on, and
  docker restarts one that ended (`Boot`, `Shutdown`, per replica); the handler
  of a request comes to its end (`Finish`: `app.close()` waits for it if its
  client does, so this is what the code relies on); storage comes back after an
  outage. Faults and signals are bounded, and none of them is fair.

## 4. What disagrees with the code's own statements

Three runs end in a counterexample, each against a sentence in the repository,
quoted in `PROJECT.json`: the old address can still mint a session when a login
was under way (`AuthOldEmail`); a stale tab turns "move to Recently deleted" into
permanent deletion (`FilesMoveTwoTabs`; an HTTP-level repeat of the DELETE does
the same, see `RetryDelete`); millisecond cursors skip notes (`PagesSkip`;
ascending walks repeat them, see `ErrsToOneSide`).

Behaviour that no sentence forbids but a reader may not expect, most of them an
excuse that some property has to make. Such a property says that there is no other
cause; it does not flag the behaviour it excuses:

* Deleting the account leaves its objects in the bucket (`OrphansExplained`).
* A permanent deletion takes the files first and the note last. When it dies in
  between, the note is still in the trash and can be restored, without its files
  (`FilesStay`).
* What is typed in one note while another is being saved is saved into that
  other note (`MisfiledOnlyBehindASave`); an edit that waits behind a save that
  fails, or whose note leaves the store, is lost (`LostEditExplained`).
* A graceful shutdown ends the pool under a handler whose client has gone, so a
  request that was given up may be broken off between two of its statements
  (`lifecycle.ts:23`); and a signal between `listen` and the registration of the
  handlers breaks off whatever is running, waited for or not
  (`NobodyWaitingIsCutOff`).
* With Redis away a limited route is open or fails, depending on a default of the
  plugin (`Arrive`).
* The observer loses the sentinel after the second page: the third never loads
  by scrolling (`SecondPageLoads` is only about the second).
* A star or restore answered after a change of scope is judged by the scope of
  the click: the note leaves a list it belongs to, or stays in one it does not
  (`misjudged` in `ListMatchesApi`).
* Rolling a failed change back undoes another one that succeeded meanwhile
  (`undone` in `CacheMatchesApi`).
* The confirmation of a new address, answered after signing out, shows an account
  without a session (`useConfirmEmailChange.ts:20`, the cause "session" of
  `ActsOnTheShownUser`).
* A change of address or a removal that was reported as failed may be carried out
  afterwards; the tab goes on showing the old address, or the deleted account,
  until it next asks (`CarryOut`, "account" in `TabKnowsTheSession`).
* The repeat of `DELETE /me` carries the cookie of its own moment: once the user
  has left the page and signed in as somebody else, that is the other account's
  (`Resend`). While the page waits for the removal it is still the account shown
  (`ActsOnTheShownUser`).
* Opening a cached note while another one loads leaves the spinner on
  (`useLoadNote.ts:15`, `Open` in `Autosave`).
* The answer to a deletion closes whatever note is open by then
  (`useDeleteNote.ts:19`, `Removed` in `NotesStore`).
* The notes store is not emptied on sign-out (`stores/notes.ts:18`); the next
  load replaces the list but not the cache.

## 5. Proofs

All theorems hold for every value of the constants. The assumptions are those of
the modules: `None` is none of the names, bounds are natural numbers, limits are
positive where the code has them so, and the seeds are states the database can be
in. Finiteness of a set is assumed only where the module counts it.

**AuthServiceProofs**, in three parts. `IInv` is an invariant of
`AuthService!Spec` (`InvariantHolds`), and from it follow `TypeCorrect`,
`CodesAreSingleUse`, `CodesAreBound`, `NewCodesSupersede`, `NewTargetsSupersede`
and `ConfirmationKillsEarlierCodes`. The properties are not inductive by
themselves. That a code is redeemed once needs that a row carries what its
creator put in the digest (`LoginRowsOK`, `ChangeRowsOK`), so a creator has one
row, and that a redeemed code has no live row any more (`HitOK`). That a new code
supersedes needs that a request which was over cannot insert another row
(`AfterOK`, and the program counters in `LocalOK`). `Frame(r)` states once what
any step of a request does: rows are kept or the one row is inserted by `r`, no
other request's locals change, a hit is an old one or a row just marked used, and
`r` passes its pruning only by pruning. `FramePreserves` shows that such a step
preserves `IInv`; one lemma per action, or per group of like actions, shows that
it is such a step.

The second part is the refinement, `RefinesOneTimeCode`: `CInv` adds to `IInv`
that a request that has not drawn a code has no row. Each step of a handler is
then `Issue`, `Redeem`, `Miss` or `Discard` of the abstract flow, and a step that
touches no code is a stutter; a statement that prunes, wipes, expires or cascades
is a `Discard` of the codes whose rows it takes, possibly none.

The third part counts: `LInv` adds two invariants to `CInv`. `CountInv`: only
finitely many requests have begun, a row has counted at least the wrong answers
given against it, and those that were answered when a request began are fixed; so
the request that redeems a row has seen fewer misses than the maximum
(`AttemptsAreCapped`). `SentInv`: the row of a login that was answered is there
unless one of the requests that may take it has run (`SentCodesSurvive`).

**NoteFilesProofs.** `IInv` is an invariant of `NoteFiles!Spec` (`Inductive`), and
from it follow `TypeCorrect`, `RowsHaveBlobs`, `FilesBelongToNotes` and the action
property `Isolation`. `FileBelongsToNote` and `RowHasBlob` are not inductive by
themselves: a handler inserts its row long after it checked the note and wrote the
object. `LocalOK` says what it still holds then: the key is its own and has no row
yet, the note is or was its user's, the object is there; and that a key waiting to
be deleted from the bucket has lost its row for good. `KeysDrawnOnce` keeps two
handlers from sharing a key. `HInv` adds the causes (`CausesAreKept`): a hard
delete past `deleteByNote` finds no row but of an upload that raced it, and finds
the note active only if a restore raced it; a repeated delete remembers the keys
it dropped (`Held`). `Causes(r)` states what a step does to them, and
`CausesPreserve` that such a step preserves `HInv`. `OrphansHaveCauses` and
`ActiveNotesSurvive` follow. `NotesKeepTheirFiles` adds `LossesExplained`: a file
that is gone still names a note that was made, so no later note takes the name
(`NotesAreNotRevived`), and whoever took it still says so (`TakersRemember`),
unless its `DeleteDrop` has run, which finds the note its own (`OwnNote`).

**DeploymentProofs.** `TypeCorrect`, `OnlyReadyReplicasServe`,
`NobodyWaitingIsEverCutOff` and `LimitsHold`. A process past a stage of its start
has seen it done, and what is done is never undone (`StageInv`, `StagesKept`). A
process whose pool is being ended has no client left that waits, and runs only
handlers whose clients have gone (`StageInv`); so only `Kill` and a signal that
finds no handler can cut off somebody who waits. The limit is a count: whoever
got through was counted in a counter that is at most the limit for each time it
started from zero, or was let through unseen.

**PaginationProofs.** `PInv` is the invariant (`WalksStayOnCourse`): besides
types, `OnCourse` says of each note that has been in the list all along that it
is not counted yet if it lies beyond the cursor, and was counted once if it does
not. Only a note that shares the millisecond of a cursor used so far (`Excused`)
may have been passed uncounted, on the way down, or lie ahead although it was
counted, on the way up. The order of a walk is total because `id` breaks ties,
and a page is the first part of what is left, cut by counting. `WalksAreExact`
and `WalksErrToOneSide` follow. `ExactIfNotTruncated` is what the code's own test
says, under the one hypothesis that it needs: if a `Date` were as precise as the
column (`Precision = 1`), every walk would be exact, with ties, writers and all.

**NoteListProofs.** `LInv` is the invariant (`ListStaysInStep`), and
`BusyFlagsHaveRequests`, `NoLatePageIsShown`, `ScrollingLeavesNoGaps` and
`OnlyCreatedNotesAppearTwice` are parts of it. A page that has been read holds
every note of the query between the cursor it was asked with and its own, but for
what was written since (`PageInv`); what is listed was written after the cursor or
is of this tab's making (`ShownInv`). As the API's clock only goes up, a note that
is touched leaves the range below the cursor, so a page can repeat only what this
tab has prepended, and it can miss only what was touched. `NewestSorts` shows that
the page exists: a finite set with distinct times is numbered by their ranks.

**NotesStoreProofs**, in four parts that each rest on the ones before.

* `CacheExplained` is the invariant of the cache, and `CacheMatches` follows. An
  undisturbed cached row is the API's or has an answer to come
  (`CachedOrPending`); the answer to the latest change of a note came, is to come,
  or was lost (`LatestIsKnown`); a list answer is right about what did not change
  since it was read (`ListIsOf`); and a request that was alone remembers the API's
  row (`PrevInv`).
* `StoreHolds` and `StoreWellFormed`: types, and that the list names only cached
  notes, each once. A rollback always has a row to put back (`HoldsInv`), and
  `removeNote`, `bumpNoteToTop` and `moveNoteToIndex` keep a list without
  repetitions one (`WithoutFacts`, `BumpFacts`, `MoveFacts`, for lists of any
  length, with an index that may have become too large).
* `ListExplained` and `ListMatches`. `ListMatchesApi` speaks of quiet states only;
  while requests are under way, a listed note that is out of the scope waits for
  the answer to the *latest* change of it (`ListedInv`), and an answer that would
  take out a note that has matched since the list was read is older than that
  list (`OldAnswerInv`), so that whoever it overtakes knows.
* `OrderExplained` and `OrderMatches`. While no two requests overlap, the list is
  sorted but for the one note that was bumped, that note is on top, and putting it
  back to its index gives the old list again (`OrderInv`, by `BumpFacts`); when
  the API carries the change out, the note on top is the newest.

**SessionProofs.** `InvariantHolds`, and from it `FormsAreWired` and
`ClicksHitTheShownUser`: a busy form has a request whose component is still
mounted (`Wired`), a request's answer is of the kind and account it was sent for
(`AnswersFit`), and cookie and user agree unless another tab, an expiry or a late
answer came in between (`SameSession`). `TheTabKnows` needs `TruthInv` besides:
what the tab shows, or is about to be told, is the account of the cookie, but for
answers under way that put it right. A removal that was applied before its answer
was lost is put right by its repeat, which finds nothing (`Gone`).

**AutosaveProofs.** `InvariantHolds`, and from it `NothingWaitsAlone`,
`TextIsMisfiledBehindASave`, `LostEditsAreExplained` and `SavesStayInOrder`. What
a saver holds is newer than what the API has, or two saves of the note crossed
(`Newer`), and the last edit of every note is on the screen, in a saver, at the
API or has one of the causes (`Accounted`). Only that last edit is followed: of
an earlier one that another edit of the same note has replaced, nothing is
claimed.

Only model-checked are the liveness properties (`WalkEnds`, `SaverEnds`,
`SecondPageLoads`, `NothingHangs`, `EventuallyServes`, `ShutdownEnds`): fairness
and `ENABLED` are out of the prover's reach. The three refuted statements of
section 4 have counterexamples and nothing to prove.

`SelectSeq`, `SortSeq` and other recursive definitions compute by induction, which
the prover cannot do. Where a theorem needs what they compute, the models say it
outright instead: `Without` numbers the elements that are kept, `Newest` and
`ListRead` choose the sequence that is sorted, and a page is cut by counting. The
lemmas `WithoutFacts`, `Filtered`, `NewestSorts` and `PageRead` show that these
sequences exist and hold what they should.

What is assumed of the constants, besides their types: `Notes` and `NoteIds` are
finite wherever notes are counted or sorted (a user has finitely many); the notes
of a seed have different times in `NoteList` and `NotesStore`, where the API's
clock tells them apart (ties are what `Pagination` is about).

## 6. What is not modelled, and why

* The end of a rate limit's window and how a client is told apart: both belong to
  `@fastify/rate-limit`. The models stay within one window and one client.
* The text of mails, metrics, logs, API docs, configuration, health checks:
  nothing in the program depends on them. Whether a mail was sent changes no
  answer, which `LoginMail` and `RequestMail` show.
* The mapping of errors to status codes, and the attributes of the cookie but for
  its age: no state. An error class is the outcome of a request in the models.
* Two verifications, or two of any kind of session request, under way at once:
  `Session` has at most one of each kind, although leaving the login page and
  coming back allows another.
* The SQL of the migrations: generated. Only whether it was applied counts.
* Full-text search, and titles but for their order: data without control.
* Tiptap extensions, toolbars, the link popover and rendering; the design pages
  under `routes/_design`: presentation.
* Dialogs of notes (`NoteTitleModal`, `DeleteNoteModal`): without them the user
  can do more in `NotesStore`, not less. That `NoteTitleModal` resets its form
  when the title changes under it (`NoteTitleModal.tsx:51`) loses what is being
  typed there and nothing else.

## 7. Plan

What is left, in the order of what it would add:

1. `NotesStore` with a second client of the API, and with `Autosave` over the same
   `byId`: both overwrite cached notes, and each is modelled without the other.
2. `Session` with two requests of one kind under way, above all two verifications.
3. Abstract specifications for `NoteFiles` (atomic file operations, and garbage)
   and `Pagination` (a set of notes still to be listed), and their refinements.
