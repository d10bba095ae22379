-------------------------------- MODULE Session --------------------------------
(***************************************************************************)
(* Who is signed in, in one tab of the web app: the auth store, the        *)
(* requests that fill and empty it (useLoadUser.ts, useVerifyCode.ts,      *)
(* useSignOut.ts, useConfirmEmailChange.ts, useDeleteAccount.ts), the gate *)
(* in front of every page (AuthGate.tsx) and the pages that send them      *)
(* (Login.tsx, UserMenu.tsx, Settings.tsx, ConfirmModal.tsx).              *)
(*                                                                         *)
(* The session is a cookie, which every request carries as it is when the  *)
(* request is sent or repeated, which an answer may set or clear, which    *)
(* expires, and which all tabs share: OtherTab is whatever another tab     *)
(* does with it. A request the client gives up may still be carried out.   *)
(* Codes are in AuthService; here an answer to one is right or wrong, and  *)
(* an address is the number of changes its account has seen. Signing in    *)
(* with an address that has no account would make one; that is left out.   *)
(***************************************************************************)
EXTENDS Naturals, FiniteSets

CONSTANTS
  Users,
  None,
  MaxChanges,  \* bound on the changes of an account's address
  MaxReloads,  \* bound on reloads of the page
  MaxOther,    \* bound on what the other tab does and on sessions that expire
  MaxFlights,  \* bound on the requests under way when one more is sent
  RetryLimit,  \* how often the HTTP client repeats a failed GET or DELETE
  Failures     \* whether requests may fail

ASSUME BoundsAssumption ==
  /\ MaxChanges \in Nat /\ MaxReloads \in Nat /\ MaxOther \in Nat /\ MaxFlights \in Nat
  /\ RetryLimit \in Nat /\ Failures \in BOOLEAN

VARIABLES
  email,      \* the API's users: the address of each, None once deleted
  cookie,     \* whose session the browser holds, or None
  user,       \* user of the auth store
  isLoading,  \* isLoading of the auth store
  page,       \* the address in the URL
  ui,         \* the local state of the page that is shown
  flight,     \* the requests under way: at most one of each kind
  late,       \* requests the client has given up that the API may yet carry out
  reloads, others,
  past        \* history: what has disturbed the tab since its last GET /me

tab == <<user, isLoading, page, ui>>
vars == <<email, cookie, tab, flight, late, reloads, others, past>>

Emails == 0 .. MaxChanges
Me == [id : Users, email : Emails]  \* MeResponse
ASSUME NoneAssumption == None \notin Users \cup Emails \cup Me
Pages == {"login", "workspace", "settings"}

Kinds == {"load", "send code", "verify", "sign out", "request", "confirm", "remove"}

(***************************************************************************)
(* A request: whose session it carries (for verify: whose code), what the  *)
(* API answered, and whether the component that sent it is still mounted,  *)
(* so that its setState calls still count. tries: the repeats so far;      *)
(* applied: an earlier try has removed an account, but its answer is lost. *)
(***************************************************************************)
Flight == [pc : {"idle", "sent", "ok", "refused"}, as : Users \cup {None},
           answer : Me \cup {None}, mounted : BOOLEAN,
           tries : 0 .. RetryLimit, applied : BOOLEAN]
NoFlight == [pc |-> "idle", as |-> None, answer |-> None, mounted |-> FALSE,
             tries |-> 0, applied |-> FALSE]
SentAs(u) == [NoFlight EXCEPT !.pc = "sent", !.as = u, !.mounted = TRUE]
Idle(k) == flight[k].pc = "idle"

\* Requests with an effect that the client no longer hears of.
Forsaken == [kind : {"confirm", "remove"}, as : Users]
Forsake(k) ==
  IF k \in {"confirm", "remove"} /\ flight[k].pc = "sent" /\ flight[k].as # None
  THEN {[kind |-> k, as |-> flight[k].as]} ELSE {}

(***************************************************************************)
(* Local state. step and busy: Login's step and isSubmitting, Settings'    *)
(* step and busy, UserMenu's isPending. dialog: Settings' ConfirmModal.    *)
(***************************************************************************)
Steps == [login |-> {"email", "code"}, workspace |-> {"menu"}, settings |-> {"idle", "verify", "done"}]
Ui(p) == [step : Steps[p], busy : BOOLEAN, dialog : {"closed", "open", "busy"}]
Fresh(p) == [busy |-> FALSE, dialog |-> "closed",
             step |-> CASE p = "login" -> "email" [] p = "settings" -> "idle" [] OTHER -> "menu"]

\* The component that sent requests fs is unmounted. The answers that would only
\* have set its local state are of no interest any more.
Unmount(fs) ==
  [k \in Kinds |-> IF fs[k].pc = "idle" \/ k \in {"send code", "request"} THEN NoFlight
                   ELSE [fs[k] EXCEPT !.mounted = FALSE]]

\* App.tsx: the page that is shown, or "spinner" while the user is loading.
Shown == IF isLoading THEN "spinner" ELSE page

\* What can have come between the tab and the API since the tab's last GET /me.
\* "session": another tab, an expired session, or an answer that came after the
\* session it belonged to had ended. "account": a GET /me that failed, a change or
\* removal whose answer was lost or that the API carried out after the client had
\* given it up.
Causes == {"session", "account"}

Init ==
  /\ email = [u \in Users |-> 0]
  /\ cookie \in Users \cup {None}
  /\ user = None /\ isLoading = TRUE
  /\ page \in Pages /\ ui = Fresh(page)
  /\ flight = [k \in Kinds |-> IF k = "load" THEN SentAs(cookie) ELSE NoFlight]
  /\ late = {} /\ reloads = 0 /\ others = 0 /\ past = {}

-----------------------------------------------------------------------------
(* AuthGate.tsx *)

(***************************************************************************)
(* React after a step that leaves the store with user' and isLoading', the *)
(* URL at p, the mounted page (if it stays) with local state u, and the    *)
(* requests fs: the gate redirects; a page that is unmounted forgets its   *)
(* local state, and its requests can no longer set it.                     *)
(***************************************************************************)
Render(p, u, fs) ==
  LET redirected == IF isLoading' THEN p
                    ELSE IF user' = None THEN "login"
                    ELSE IF p = "login" THEN "workspace" ELSE p
      shown1 == IF isLoading' THEN "spinner" ELSE redirected
  IN /\ page' = redirected
     /\ ui' = IF shown1 = Shown THEN u ELSE Fresh(redirected)
     /\ flight' = IF shown1 = Shown THEN fs ELSE Unmount(fs)

-----------------------------------------------------------------------------
(* The pages *)

\* The page sends request k; u is its local state then.
SendFrom(p, k, as, u) ==
  /\ Shown = p /\ Idle(k)
  /\ Cardinality({j \in Kinds : ~Idle(j)}) < MaxFlights
  /\ flight' = [flight EXCEPT ![k] = SentAs(as)]
  /\ ui' = u
  /\ UNCHANGED <<email, cookie, user, isLoading, page, late, reloads, others, past>>

\* Login.tsx. Nothing can be submitted while isSubmitting.
SendCode == ~ui.busy /\ ui.step = "email" /\ SendFrom("login", "send code", None, [ui EXCEPT !.busy = TRUE])
Verify(u) ==
  /\ ~ui.busy /\ ui.step = "code" /\ email[u] # None
  /\ SendFrom("login", "verify", u, [ui EXCEPT !.busy = TRUE])

\* "Use a different email" is not disabled while a code is being verified.
DifferentEmail ==
  /\ Shown = "login" /\ ui.step = "code"
  /\ ui' = [ui EXCEPT !.step = "email"]
  /\ UNCHANGED <<email, cookie, user, isLoading, page, flight, late, reloads, others, past>>

\* UserMenu.tsx.
SignOut == ~ui.busy /\ SendFrom("workspace", "sign out", cookie, [ui EXCEPT !.busy = TRUE])

\* Settings.tsx.
RequestChange ==
  /\ ~ui.busy /\ ui.dialog = "closed" /\ ui.step \in {"idle", "done"}
  /\ SendFrom("settings", "request", cookie, [ui EXCEPT !.busy = TRUE])
ConfirmChange ==
  /\ ~ui.busy /\ ui.dialog = "closed" /\ ui.step = "verify"
  /\ SendFrom("settings", "confirm", cookie, [ui EXCEPT !.busy = TRUE])
CancelVerify ==
  /\ Shown = "settings" /\ ~ui.busy /\ ui.dialog = "closed" /\ ui.step = "verify"
  /\ ui' = [ui EXCEPT !.step = "idle"]
  /\ UNCHANGED <<email, cookie, user, isLoading, page, flight, late, reloads, others, past>>

\* Its ConfirmModal cannot be closed while it is busy.
\* Defect: it can.
ToggleDialogAnyTime ==
  /\ Shown = "settings"
  /\ ui' = [ui EXCEPT !.dialog = IF @ = "closed" THEN "open" ELSE "closed"]
  /\ UNCHANGED <<email, cookie, user, isLoading, page, flight, late, reloads, others, past>>

ToggleDialog ==
  /\ Shown = "settings" /\ ui.dialog # "busy"
  /\ ui' = [ui EXCEPT !.dialog = IF @ = "closed" THEN "open" ELSE "closed"]
  /\ UNCHANGED <<email, cookie, user, isLoading, page, flight, late, reloads, others, past>>
RemoveAccount ==
  ui.dialog = "open" /\ SendFrom("settings", "remove", cookie, [ui EXCEPT !.dialog = "busy"])

\* A link or the browser's Back: a page that is shown anew starts afresh.
Navigate(p) ==
  /\ Shown # "spinner" /\ p # page
  /\ UNCHANGED <<email, cookie, user, isLoading, late, reloads, others, past>>
  /\ Render(p, ui, flight)

\* A guest who goes to another page comes back to a fresh login form.
LeaveLogin ==
  /\ Shown = "login"
  /\ ui' = Fresh("login")
  /\ flight' = Unmount(flight)
  /\ UNCHANGED <<email, cookie, user, isLoading, page, late, reloads, others, past>>

\* Everything in the tab is lost, and App.tsx loads the user. What the tab had
\* sent is no longer heard of, but the API may have it.
Reload ==
  /\ reloads < MaxReloads
  /\ reloads' = reloads + 1
  /\ user' = None /\ isLoading' = TRUE
  /\ flight' = [k \in Kinds |-> IF k = "load" THEN SentAs(cookie) ELSE NoFlight]
  /\ late' = late \cup UNION {Forsake(k) : k \in Kinds}
  /\ ui' = Fresh(page)
  /\ past' = {}
  /\ UNCHANGED <<email, cookie, page, others>>

-----------------------------------------------------------------------------
(* The API, auth.routes.ts: requireUser takes any session whose JWT is valid; *)
(* signing out needs none.                                                    *)

HasUser(u) == u # None /\ email[u] # None

Changed(u) == [email EXCEPT ![u] = @ + 1]

Served(k, pc, answer) ==
  /\ flight' = [flight EXCEPT ![k].pc = pc, ![k].answer = answer]
  /\ UNCHANGED <<cookie, tab, late, reloads, others, past>>

Serve(k) ==
  LET u == flight[k].as
  IN /\ flight[k].pc = "sent"
     /\ \/ /\ k = "load" /\ HasUser(u)
           /\ Served(k, "ok", [id |-> u, email |-> email[u]]) /\ UNCHANGED email
        \/ /\ k = "confirm" /\ HasUser(u) /\ email[u] < MaxChanges
           /\ email' = Changed(u)
           /\ Served(k, "ok", [id |-> u, email |-> email[u] + 1])
        \/ /\ k = "remove" /\ u # None
           /\ email' = [email EXCEPT ![u] = None]
           /\ Served(k, "ok", None)
        \/ /\ k \in {"send code", "sign out"} \/ (k \in {"verify", "request"} /\ HasUser(u))
           /\ Served(k, "ok", None) /\ UNCHANGED email
        \* 401; a wrong code; an address that is taken; too many requests
        \/ /\ CASE k = "load" -> ~HasUser(u) [] k = "remove" -> u = None [] OTHER -> k # "sign out"
           /\ Served(k, "refused", None) /\ UNCHANGED email

\* The API gets to a request that the client has given up. A GET /me that is
\* still to be answered will tell the tab. (A member of late may stand for two
\* confirmations; a second removal finds nothing.)
CarryOut(l) ==
  LET heard == flight["load"].pc = "sent" /\ Idle("confirm")
  IN /\ HasUser(l.as)
     /\ \/ l.kind = "remove" /\ email' = [email EXCEPT ![l.as] = None] /\ late' = late \ {l}
        \/ /\ l.kind = "confirm" /\ email[l.as] < MaxChanges
           /\ email' = Changed(l.as) /\ late' \in {late, late \ {l}}
     /\ past' = IF heard THEN past ELSE past \cup {"account"}
     /\ UNCHANGED <<cookie, tab, flight, reloads, others>>

-----------------------------------------------------------------------------
(* The answers *)

\* setState of a component that is mounted no more does nothing.
Local(k, u) == IF flight[k].mounted THEN u ELSE ui
Answered(k) == [flight EXCEPT ![k] = NoFlight]

\* The answer to k comes when the tab is no longer the session that sent it.
Late(k) == ~Idle("load") \/ user = None \/ user.id # flight[k].as

\* loadUser of useLoadUser.ts, up to its await.
LoadUser ==
  /\ isLoading' = TRUE /\ UNCHANGED user
  /\ Render(page, ui, [Answered("verify") EXCEPT !["load"] = SentAs(cookie')])

\* The rest of it.
Loaded ==
  /\ user' = flight["load"].answer /\ isLoading' = FALSE
  /\ UNCHANGED <<email, cookie, past>>
  /\ Render(page, ui, Answered("load"))

\* useVerifyCode.ts: the answer sets the cookie. (The answer to a change of
\* address may still come: what another tab has done since is not forgotten.)
Verified ==
  /\ cookie' = flight["verify"].as
  /\ past' = IF Idle("confirm") THEN {} ELSE past
  /\ UNCHANGED email
  /\ LoadUser

\* The answer to k leads the page to another step.
NextStep(k, step) ==
  /\ UNCHANGED <<email, cookie, isLoading>>
  /\ Render(page, Local(k, [ui EXCEPT !.step = step, !.busy = FALSE]), Answered(k))

\* useSignIn.ts, useRequestEmailChange.ts.
CodeSent == UNCHANGED <<user, past>> /\ NextStep("send code", "code")
ChangeRequested == UNCHANGED <<user, past>> /\ NextStep("request", "verify")

\* useConfirmEmailChange.ts.
\* Defect: the store keeps the old address.
SetUpdatedNever == UNCHANGED user
SetUpdated == user' = flight["confirm"].answer

ChangeConfirmed ==
  /\ SetUpdated
  /\ past' = IF Late("confirm") THEN past \cup {"session"} ELSE past
  /\ NextStep("confirm", "done")

\* useSignOut.ts, useDeleteAccount.ts: the answer clears the cookie.
\* Defect: it only clears the cookie.
ForgetUserNever == UNCHANGED user
ForgetUser == user' = None

Ended(k) ==
  /\ cookie' = None
  /\ ForgetUser
  /\ past' = IF Late(k) THEN past \cup {"session"} ELSE past
  /\ UNCHANGED <<email, isLoading>>
  /\ Render(page, ui, Answered(k))
SignedOut == Ended("sign out")
AccountRemoved == Ended("remove")

Succeed(k) ==
  /\ flight[k].pc = "ok"
  /\ CASE k = "load" -> Loaded
       [] k = "verify" -> Verified
       [] k = "send code" -> CodeSent
       [] k = "request" -> ChangeRequested
       [] k = "confirm" -> ChangeConfirmed
       [] k = "sign out" -> SignedOut
       [] k = "remove" -> AccountRemoved
  /\ UNCHANGED <<late, reloads, others>>

\* The catch of loadUser.
LoadFailed == user' = None /\ isLoading' = FALSE

\* The catch of the page's handler: the form can be used again.
\* Defect: the one of a code that was verified only shows the error.
FormAgainUnlessVerify(k) ==
  CASE k = "remove" -> [ui EXCEPT !.dialog = "open"]
    [] k = "verify" -> ui
    [] OTHER -> [ui EXCEPT !.busy = FALSE]
FormAgain(k) == IF k = "remove" THEN [ui EXCEPT !.dialog = "open"] ELSE [ui EXCEPT !.busy = FALSE]

\* An error answer, or none.
Fail(k) ==
  LET lost == flight[k].pc # "refused"
      done == flight[k].applied \/ (k \in {"confirm", "remove"} /\ flight[k].pc = "ok")
      untold == done \/ (k = "load" /\ lost)
  IN /\ ~lost \/ (Failures /\ flight[k].pc \in {"sent", "ok"})
     /\ late' = late \cup Forsake(k)
     /\ past' = IF untold THEN past \cup {"account"} ELSE past
     /\ IF k = "load" THEN LoadFailed ELSE UNCHANGED <<user, isLoading>>
     /\ UNCHANGED <<email, cookie, reloads, others>>
     /\ Render(page, Local(k, FormAgain(k)), Answered(k))

Answer(k) == Serve(k) \/ Succeed(k) \/ Fail(k)

\* The HTTP client repeats a GET or DELETE when the connection broke or a 5xx
\* came back; the browser adds the cookie of that moment.
Under(f, u) == [f EXCEPT !.pc = "sent", !.as = u, !.answer = None]
Resend(k) ==
  LET f == flight[k]
  IN /\ Failures /\ k \in {"load", "remove"}
     /\ f.pc \in {"sent", "ok"} /\ f.tries < RetryLimit
     /\ flight' = [flight EXCEPT ![k] =
          [Under(f, cookie) EXCEPT !.tries = @ + 1,
                                   !.applied = @ \/ (k = "remove" /\ f.pc = "ok")]]
     /\ late' = late \cup Forsake(k)
     /\ UNCHANGED <<email, cookie, tab, reloads, others, past>>

-----------------------------------------------------------------------------
\* Another tab signs in or out, deletes its account or changes its address.
OtherTab ==
  /\ others < MaxOther
  /\ others' = others + 1
  /\ \/ /\ cookie' \in {u \in Users : email[u] # None} \cup {None} /\ cookie' # cookie
        /\ UNCHANGED email
     \/ HasUser(cookie) /\ email' = [email EXCEPT ![cookie] = None] /\ cookie' = None
     \/ HasUser(cookie) /\ email[cookie] < MaxChanges /\ email' = Changed(cookie) /\ UNCHANGED cookie
  /\ past' = past \cup {"session"}
  /\ UNCHANGED <<tab, flight, late, reloads>>

\* The session ends by itself, 30 days after the code was verified: the browser
\* drops the cookie, the JWT is void, also in requests the API has not seen yet.
Expire ==
  /\ others < MaxOther /\ others' = others + 1
  /\ cookie # None /\ cookie' = None
  /\ \E K \in SUBSET {k \in Kinds \ {"verify"} : flight[k].pc = "sent" /\ flight[k].as = cookie} :
       flight' = [k \in Kinds |-> IF k \in K THEN Under(flight[k], None) ELSE flight[k]]
  /\ past' = past \cup {"session"}
  /\ UNCHANGED <<email, tab, late, reloads>>

Click ==
  \/ SendCode \/ (\E u \in Users : Verify(u)) \/ DifferentEmail \/ LeaveLogin
  \/ SignOut
  \/ RequestChange \/ ConfirmChange \/ CancelVerify \/ ToggleDialog \/ RemoveAccount
  \/ (\E p \in Pages : Navigate(p))
  \/ Reload

Next ==
  \/ Click
  \/ \E k \in Kinds : Answer(k) \/ Resend(k)
  \/ \E l \in late : CarryOut(l)
  \/ OtherTab \/ Expire

Spec == Init /\ [][Next]_vars

\* While requests are under way, one of them gets on: it is answered or fails.
FairSpec == Spec /\ WF_vars(\E k \in Kinds : Answer(k))

-----------------------------------------------------------------------------
(* Properties *)

\* The accounts, the store, the page and the requests have their types.
TypeOK ==
  /\ email \in [Users -> Emails \cup {None}] /\ cookie \in Users \cup {None}
  /\ user \in Me \cup {None} /\ isLoading \in BOOLEAN
  /\ page \in Pages /\ ui \in Ui(page)
  /\ flight \in [Kinds -> Flight]
  /\ late \subseteq Forsaken
  /\ reloads \in 0 .. MaxReloads /\ others \in 0 .. MaxOther
  /\ past \subseteq Causes

\* What a click on a page is done to is the account that the page shows: the
\* cookie that the request will carry is that user's, and so is the session that
\* a removal the page is waiting for carries, however often it is repeated;
\* unless another tab has changed the session, it has expired, or the answer to an
\* earlier request of this tab came after the session it belonged to had ended.
ActsOnTheShownUser ==
  Shown \in {"workspace", "settings"} /\ "session" \notin past =>
    /\ user # None /\ cookie = user.id
    /\ ui.dialog = "busy" => flight["remove"].as = user.id

\* When nothing is on the wire, the tab knows who is signed in, under which
\* address: it shows the account of the cookie, as the API has it, or the login
\* page, unless one of the six causes came in between: another tab, an expired
\* session, a GET /me that failed, a change or removal whose answer was lost or
\* which was carried out after the tab had given it up, or an answer that came
\* after its session had ended. A removal whose answer is lost is no such cause
\* when its repetition is answered.
AllIdle == \A k \in Kinds : Idle(k)
TabKnowsTheSession ==
  AllIdle /\ past = {} =>
    IF HasUser(cookie) THEN user = [id |-> cookie, email |-> email[cookie]] ELSE user = None

\* The types, and that a busy form or dialog waits for a request that will end
\* it: the component that shows a spinner is the one that sent a request still
\* under way.
WellFormed ==
  /\ TypeOK
  /\ ui.busy => \E k \in Kinds \ {"load", "remove"} : ~Idle(k) /\ flight[k].mounted
  /\ ui.dialog = "busy" <=> ~Idle("remove") /\ flight["remove"].mounted

\* The full-page spinner goes away, whatever fails and whatever other tabs do;
\* and giving up the address on the login page while its code is being verified
\* is no dead end: the busy form becomes usable, or the user is signed in.
NothingHangs ==
  /\ isLoading ~> ~isLoading
  /\ (Shown = "login" /\ ui.busy) ~> (Shown # "login" \/ ~ui.busy)
=============================================================================
