---------------------------- MODULE SessionProofs ----------------------------
(***************************************************************************)
(* Safety of Session for every set of users and every bound.               *)
(***************************************************************************)
EXTENDS Session, TLAPS

\* The page whose form or menu sends a request.
PageOf(k) == IF k \in {"send code", "verify"} THEN "login"
             ELSE IF k = "sign out" THEN "workspace" ELSE "settings"

(***************************************************************************)
(* The local state u of the page shown fits the requests fs: those that    *)
(* can still set it were sent by it, and what is busy waits for one.       *)
(***************************************************************************)
Wired(shown, u, fs) ==
  /\ \A k \in Kinds \ {"load"} : fs[k].mounted => shown = PageOf(k) /\ fs[k].pc # "idle"
  /\ u.busy => \E k \in Kinds \ {"load", "remove"} : fs[k].pc # "idle" /\ fs[k].mounted
  /\ u.dialog = "busy" <=> fs["remove"].pc # "idle" /\ fs["remove"].mounted

\* An answer that carries a user carries the one whose session was sent.
AnswersFit(fs) ==
  \A k \in {"load", "confirm"} : fs[k].answer # None => fs[k].answer.id = fs[k].as

\* The store names the cookie's user, or is about to be told; a removal that the
\* page waits for carries that cookie.
Undisturbed(p) == "session" \notin p
SameSession ==
  Undisturbed(past) =>
    /\ isLoading => flight["load"].as = cookie
    /\ ~isLoading /\ user # None => cookie = user.id
    /\ flight["remove"].mounted => flight["remove"].as = cookie

IInv ==
  /\ TypeOK
  /\ Wired(Shown, ui, flight)
  /\ isLoading <=> flight["load"].pc # "idle"
  /\ ~isLoading /\ page # "login" => user # None
  /\ AnswersFit(flight)
  /\ SameSession

-----------------------------------------------------------------------------
(* Requests and local state. *)

LEMMA Nothing ==
  /\ NoFlight \in Flight /\ NoFlight.pc = "idle" /\ NoFlight.answer = None
  /\ NoFlight.mounted = FALSE
  BY BoundsAssumption DEF NoFlight, Flight

LEMMA Sent ==
  ASSUME NEW u \in Users \cup {None}
  PROVE  /\ SentAs(u) \in Flight /\ SentAs(u).pc = "sent" /\ SentAs(u).as = u
         /\ SentAs(u).answer = None /\ SentAs(u).mounted = TRUE
<1>1. NoFlight \in Flight
  BY Nothing
<1>2. ASSUME NEW f \in Flight, NEW g, g = [f EXCEPT !.pc = "sent", !.as = u, !.mounted = TRUE]
      PROVE  /\ g \in Flight /\ g.pc = "sent" /\ g.as = u
             /\ g.answer = f.answer /\ g.mounted = TRUE
  BY <1>2 DEF Flight
<1>3. SentAs(u) = [NoFlight EXCEPT !.pc = "sent", !.as = u, !.mounted = TRUE]
  BY DEF SentAs
<1> QED
  BY <1>1, <1>2, <1>3, Nothing

LEMMA Forsakes ==
  ASSUME NEW k \in Kinds, TypeOK
  PROVE  Forsake(k) \subseteq Forsaken
<1>1. flight[k].as \in Users \cup {None}
  BY DEF TypeOK, Flight
<1> QED
  BY <1>1 DEF Forsake, Forsaken

LEMMA Unmounts ==
  ASSUME NEW fs \in [Kinds -> Flight]
  PROVE  /\ Unmount(fs) \in [Kinds -> Flight]
         /\ \A k \in Kinds : Unmount(fs)[k].mounted = FALSE
         /\ \A k \in {"load", "confirm", "remove"} :
              /\ Unmount(fs)[k].pc = fs[k].pc
              /\ fs[k].pc # "idle" =>
                   /\ Unmount(fs)[k].as = fs[k].as /\ Unmount(fs)[k].answer = fs[k].answer
                   /\ Unmount(fs)[k].applied = fs[k].applied
              /\ fs[k].pc = "idle" => Unmount(fs)[k].answer = None
<1>1. \A k \in Kinds : /\ [fs[k] EXCEPT !.mounted = FALSE] \in Flight
                       /\ [fs[k] EXCEPT !.mounted = FALSE].mounted = FALSE
                       /\ [fs[k] EXCEPT !.mounted = FALSE].pc = fs[k].pc
                       /\ [fs[k] EXCEPT !.mounted = FALSE].as = fs[k].as
                       /\ [fs[k] EXCEPT !.mounted = FALSE].answer = fs[k].answer
                       /\ [fs[k] EXCEPT !.mounted = FALSE].applied = fs[k].applied
  BY DEF Flight
<1>2. {"load", "confirm", "remove"} \subseteq Kinds
  BY DEF Kinds
<1> QED
  BY <1>1, <1>2, Nothing DEF Unmount

LEMMA Fresher ==
  ASSUME NEW p \in Pages
  PROVE  Fresh(p) \in Ui(p) /\ Fresh(p).busy = FALSE /\ Fresh(p).dialog = "closed"
  BY DEF Fresh, Ui, Pages, Steps

-----------------------------------------------------------------------------
(* What React makes of a step. *)

LEMMA Rendered ==
  ASSUME IInv, NEW p \in Pages, NEW u, NEW fs, Render(p, u, fs), isLoading' \in BOOLEAN,
         p = page \/ ~isLoading'
  PROVE  /\ page' \in Pages
         /\ ~isLoading' /\ page' # "login" => user' # None
         /\ \/ Shown' = Shown /\ page' = page /\ ui' = u /\ flight' = fs
            \/ Shown' # Shown /\ ui' = Fresh(page') /\ flight' = Unmount(fs)
<1>1. page \in Pages /\ isLoading \in BOOLEAN /\ "spinner" \notin Pages
  BY DEF IInv, TypeOK, Pages
<1>2. page' \in Pages
  BY DEF Render, Pages
<1>3. ~isLoading' /\ page' # "login" => user' # None
  BY DEF Render
<1>4. \/ Shown' = Shown /\ ui' = u /\ flight' = fs
      \/ Shown' # Shown /\ ui' = Fresh(page') /\ flight' = Unmount(fs)
  BY DEF Render, Shown
<1>5. Shown' = Shown => page' = page
  BY <1>1, <1>2 DEF Shown, Render
<1> QED
  BY <1>2, <1>3, <1>4, <1>5

LEMMA RenderInv ==
  ASSUME IInv, NEW p \in Pages, NEW u \in Ui(page), NEW fs \in [Kinds -> Flight],
         Render(p, u, fs), p = page \/ ~isLoading',
         isLoading' \in BOOLEAN, user' \in Me \cup {None},
         email' \in [Users -> Emails \cup {None}], cookie' \in Users \cup {None},
         reloads' \in 0 .. MaxReloads, others' \in 0 .. MaxOther, past' \subseteq Causes,
         late' \subseteq Forsaken,
         Shown' = Shown => Wired(Shown, u, fs),
         isLoading' <=> fs["load"].pc # "idle",
         AnswersFit(fs),
         Undisturbed(past') => /\ isLoading' => fs["load"].as = cookie'
                               /\ ~isLoading' /\ user' # None => cookie' = user'.id
                               /\ Shown' = Shown /\ fs["remove"].mounted => fs["remove"].as = cookie'
  PROVE  IInv'
<1>1. page' \in Pages /\ (~isLoading' /\ page' # "login" => user' # None)
  BY Rendered
<1>2. CASE Shown' = Shown /\ page' = page /\ ui' = u /\ flight' = fs
  <2>1. TypeOK'
    BY <1>1, <1>2 DEF TypeOK, Ui
  <2>2. Wired(Shown, ui, flight)'
    BY <1>2 DEF Wired
  <2> QED
    BY <1>1, <1>2, <2>1, <2>2 DEF IInv, AnswersFit, SameSession, Undisturbed
<1>3. CASE Shown' # Shown /\ ui' = Fresh(page') /\ flight' = Unmount(fs)
  <2>1. /\ flight' \in [Kinds -> Flight]
        /\ \A k \in Kinds : flight'[k].mounted = FALSE
        /\ \A k \in {"load", "confirm", "remove"} :
              /\ flight'[k].pc = fs[k].pc
              /\ fs[k].pc # "idle" => flight'[k].as = fs[k].as /\ flight'[k].answer = fs[k].answer
              /\ fs[k].pc = "idle" => flight'[k].answer = None
    BY <1>3, Unmounts
  <2>2. ui' \in Ui(page') /\ ui'.busy = FALSE /\ ui'.dialog = "closed"
    BY <1>1, <1>3, Fresher
  <2>3. TypeOK'
    BY <1>1, <2>1, <2>2 DEF TypeOK, Ui
  <2>4. Wired(Shown, ui, flight)'
    <3>1. "remove" \in Kinds
      BY DEF Kinds
    <3> QED
      BY <2>1, <2>2, <3>1 DEF Wired
  <2>5. AnswersFit(flight)'
    BY <2>1 DEF AnswersFit
  <2>6. SameSession'
    <3>1. "remove" \in Kinds
      BY DEF Kinds
    <3> QED
      BY <2>1, <3>1 DEF SameSession, Undisturbed
  <2>7. isLoading' <=> flight'["load"].pc # "idle"
    BY <2>1
  <2> QED
    BY <1>1, <2>3, <2>4, <2>5, <2>6, <2>7 DEF IInv
<1> QED
  BY <1>2, <1>3, Rendered

\* A step after which the same page is shown, with the same user.
LEMMA StayInv ==
  ASSUME IInv, UNCHANGED <<user, isLoading, page>>, ui' \in Ui(page),
         flight' \in [Kinds -> Flight],
         email' \in [Users -> Emails \cup {None}], cookie' \in Users \cup {None},
         reloads' \in 0 .. MaxReloads, others' \in 0 .. MaxOther, past' \subseteq Causes,
         late' \subseteq Forsaken,
         Wired(Shown, ui', flight'), AnswersFit(flight'),
         flight'["load"].pc # "idle" <=> flight["load"].pc # "idle",
         Undisturbed(past') =>
           /\ Undisturbed(past) /\ UNCHANGED cookie
           /\ \A k \in {"load", "remove"} :
                \/ flight'[k].as = cookie
                \/ flight'[k].as = flight[k].as /\ (flight'[k].mounted => flight[k].mounted)
  PROVE  IInv'
<1>1. TypeOK'
  BY DEF IInv, TypeOK, Ui
<1>2. Wired(Shown, ui, flight)'
  BY DEF Wired, Shown
<1>3. SameSession'
  BY DEF IInv, SameSession, Undisturbed
<1> QED
  BY <1>1, <1>2, <1>3 DEF IInv, AnswersFit

-----------------------------------------------------------------------------
(* The clicks. *)

LEMMA SendInv ==
  ASSUME IInv, NEW k \in Kinds \ {"load"}, NEW as \in Users \cup {None}, NEW u \in Ui(page),
         SendFrom(PageOf(k), k, as, u),
         IF k = "remove" THEN u.busy = ui.busy /\ u.dialog = "busy" /\ as = cookie
                         ELSE u.dialog = ui.dialog
  PROVE  IInv'
<1>1. /\ TypeOK /\ flight \in [Kinds -> Flight] /\ k \in Kinds /\ Shown = PageOf(k)
      /\ flight' = [flight EXCEPT ![k] = SentAs(as)] /\ ui' = u /\ flight[k].pc = "idle"
      /\ UNCHANGED <<email, cookie, user, isLoading, page, late, reloads, others, past>>
  BY DEF SendFrom, IInv, TypeOK, Idle
<1>2. /\ flight' \in [Kinds -> Flight] /\ \A j \in Kinds \ {k} : flight'[j] = flight[j]
      /\ flight'[k].pc = "sent" /\ flight'[k].as = as /\ flight'[k].answer = None
      /\ flight'[k].mounted = TRUE
  BY <1>1, Sent
<1>3. Wired(Shown, ui, flight) /\ "remove" \in Kinds /\ "load" \in Kinds /\ "confirm" \in Kinds
  BY DEF IInv, Kinds
<1>4. Wired(Shown, ui', flight')
  <2>1. \A j \in Kinds \ {"load"} : flight'[j].mounted => Shown = PageOf(j) /\ flight'[j].pc # "idle"
    BY <1>1, <1>2, <1>3 DEF Wired
  <2>2. CASE k = "remove"
    BY <1>1, <1>2, <1>3, <2>1, <2>2 DEF Wired
  <2>3. CASE k # "remove"
    BY <1>1, <1>2, <1>3, <2>1, <2>3 DEF Wired
  <2> QED
    BY <2>2, <2>3
<1>5. AnswersFit(flight')
  BY <1>2, <1>3 DEF IInv, AnswersFit
<1>6. /\ flight'["load"] = flight["load"]
      /\ flight'["remove"] = flight["remove"] \/ flight'["remove"].as = cookie
  BY <1>2, <1>3
<1> QED
  BY <1>1, <1>2, <1>4, <1>5, <1>6, StayInv DEF TypeOK

\* A click that sends nothing and leaves the busy flags as they are.
LEMMA LocalInv ==
  ASSUME IInv, UNCHANGED <<email, cookie, user, isLoading, page, flight, late, reloads, others, past>>,
         ui' \in Ui(page), ui'.busy = ui.busy, ui'.dialog = "busy" <=> ui.dialog = "busy"
  PROVE  IInv'
<1>1. Wired(Shown, ui', flight')
  BY DEF IInv, Wired
<1>2. AnswersFit(flight') /\ flight' = flight /\ flight \in [Kinds -> Flight]
  BY DEF IInv, AnswersFit, TypeOK
<1> QED
  BY <1>1, <1>2, StayInv DEF IInv, TypeOK

LEMMA WithBusy ==
  ASSUME NEW p, NEW u \in Ui(p), NEW b \in BOOLEAN
  PROVE  /\ [u EXCEPT !.busy = b] \in Ui(p)
         /\ [u EXCEPT !.busy = b].busy = b /\ [u EXCEPT !.busy = b].dialog = u.dialog
  BY DEF Ui

LEMMA WithDialog ==
  ASSUME NEW p, NEW u \in Ui(p), NEW d \in {"closed", "open", "busy"}
  PROVE  /\ [u EXCEPT !.dialog = d] \in Ui(p)
         /\ [u EXCEPT !.dialog = d].dialog = d /\ [u EXCEPT !.dialog = d].busy = u.busy
  BY DEF Ui

LEMMA WithStep ==
  ASSUME NEW p, NEW u \in Ui(p), NEW s \in Steps[p]
  PROVE  /\ [u EXCEPT !.step = s] \in Ui(p)
         /\ [u EXCEPT !.step = s].busy = u.busy /\ [u EXCEPT !.step = s].dialog = u.dialog
  BY DEF Ui

LEMMA WithStepDone ==
  ASSUME NEW p, NEW u \in Ui(p), NEW s \in Steps[p]
  PROVE  /\ [u EXCEPT !.step = s, !.busy = FALSE] \in Ui(p)
         /\ [u EXCEPT !.step = s, !.busy = FALSE].busy = FALSE
         /\ [u EXCEPT !.step = s, !.busy = FALSE].dialog = u.dialog
  BY DEF Ui

LEMMA ClickInv ==
  ASSUME IInv, Click
  PROVE  IInv'
<1>1. /\ TypeOK /\ ui \in Ui(page) /\ page \in Pages /\ cookie \in Users \cup {None}
      /\ flight \in [Kinds -> Flight] /\ Wired(Shown, ui, flight)
      /\ {"send code", "verify", "sign out", "request", "confirm", "remove"} = Kinds \ {"load"}
  BY DEF IInv, TypeOK, Kinds
<1> DEFINE busy == [ui EXCEPT !.busy = TRUE]
<1>2. busy \in Ui(page) /\ busy.dialog = ui.dialog
  BY <1>1, WithBusy
<1>3. ASSUME NEW k \in Kinds \ {"load", "remove"}, NEW as \in Users \cup {None},
             SendFrom(PageOf(k), k, as, busy)
      PROVE  IInv'
  <2> HIDE DEF busy
  <2> QED
    BY <1>2, <1>3, SendInv
<1>4. ASSUME SendCode \/ (\E u \in Users : Verify(u)) \/ SignOut \/ RequestChange \/ ConfirmChange
      PROVE  IInv'
  <2>1. CASE SendCode
    BY <1>1, <1>3, <2>1 DEF SendCode, PageOf
  <2>2. CASE \E u \in Users : Verify(u)
    BY <1>1, <1>3, <2>2 DEF Verify, PageOf
  <2>3. CASE SignOut
    BY <1>1, <1>3, <2>3 DEF SignOut, PageOf
  <2>4. CASE RequestChange
    BY <1>1, <1>3, <2>4 DEF RequestChange, PageOf
  <2>5. CASE ConfirmChange
    BY <1>1, <1>3, <2>5 DEF ConfirmChange, PageOf
  <2> QED
    BY <1>4, <2>1, <2>2, <2>3, <2>4, <2>5
<1>5. ASSUME RemoveAccount PROVE IInv'
  <2> DEFINE removing == [ui EXCEPT !.dialog = "busy"]
  <2>1. removing \in Ui(page) /\ removing.dialog = "busy" /\ removing.busy = ui.busy
    <3>1. "busy" \in {"closed", "open", "busy"}
      OBVIOUS
    <3> QED
      BY <1>1, <3>1, WithDialog
  <2>2. SendFrom(PageOf("remove"), "remove", cookie, removing) /\ "remove" \in Kinds \ {"load"}
    BY <1>1, <1>5 DEF RemoveAccount, PageOf
  <2> HIDE DEF removing
  <2> QED
    BY <1>1, <2>1, <2>2, SendInv
<1>6. ASSUME DifferentEmail \/ CancelVerify PROVE IInv'
  <2>1. PICK step \in Steps[page] : ui' = [ui EXCEPT !.step = step]
    <3>1. CASE DifferentEmail
      <4>1. page = "login"
        BY <1>1, <3>1 DEF DifferentEmail, Shown
      <4> QED
        BY <3>1, <4>1 DEF DifferentEmail, Steps
    <3>2. CASE CancelVerify
      <4>1. page = "settings"
        BY <1>1, <3>2 DEF CancelVerify, Shown
      <4> QED
        BY <3>2, <4>1 DEF CancelVerify, Steps
    <3> QED
      BY <1>6, <3>1, <3>2
  <2> QED
    <3>1. ui' \in Ui(page) /\ ui'.busy = ui.busy /\ ui'.dialog = ui.dialog
      BY <1>1, <2>1, WithStep
    <3> QED
      BY <1>6, <3>1, LocalInv DEF DifferentEmail, CancelVerify
<1>7. ASSUME ToggleDialog PROVE IInv'
  <2>1. PICK d \in {"closed", "open"} : ui' = [ui EXCEPT !.dialog = d]
    BY <1>7 DEF ToggleDialog
  <2>2. ui' \in Ui(page) /\ ui'.dialog = d /\ ui'.busy = ui.busy
    <3>1. d \in {"closed", "open", "busy"}
      OBVIOUS
    <3> QED
      BY <1>1, <2>1, <3>1, WithDialog
  <2> QED
    BY <1>7, <2>2, LocalInv DEF ToggleDialog
<1>8. ASSUME NEW p \in Pages, Navigate(p) PROVE IInv'
  <2>1. ~isLoading /\ ~isLoading'
    BY <1>8 DEF Navigate, Shown
  <2>2. AnswersFit(flight) /\ SameSession /\ (isLoading <=> flight["load"].pc # "idle")
    BY DEF IInv
  <2> QED
    BY <1>1, <1>8, <2>1, <2>2, RenderInv DEF Navigate, TypeOK, SameSession, Undisturbed
<1>9. ASSUME LeaveLogin PROVE IInv'
  <2>1. Shown = "login" /\ page = "login" /\ "login" \in Pages /\ isLoading = FALSE
    BY <1>1, <1>9 DEF LeaveLogin, Shown, Pages, TypeOK
  <2>2. ui' \in Ui(page) /\ ui'.busy = FALSE /\ ui'.dialog = "closed"
    BY <1>9, <2>1, Fresher DEF LeaveLogin
  <2>3. /\ flight' \in [Kinds -> Flight] /\ \A k \in Kinds : flight'[k].mounted = FALSE
        /\ \A k \in {"load", "confirm"} :
              /\ flight'[k].pc = flight[k].pc
              /\ flight[k].pc # "idle" =>
                   flight'[k].as = flight[k].as /\ flight'[k].answer = flight[k].answer
              /\ flight[k].pc = "idle" => flight'[k].answer = None
    <3> DEFINE fs == Unmount(flight)
    <3>1. /\ fs \in [Kinds -> Flight] /\ \A k \in Kinds : fs[k].mounted = FALSE
          /\ \A k \in {"load", "confirm", "remove"} :
               /\ fs[k].pc = flight[k].pc
               /\ flight[k].pc # "idle" => fs[k].as = flight[k].as /\ fs[k].answer = flight[k].answer
               /\ flight[k].pc = "idle" => fs[k].answer = None
      BY <1>1, Unmounts
    <3>2. flight' = fs
      BY <1>9 DEF LeaveLogin
    <3> HIDE DEF fs
    <3> QED
      BY <3>1, <3>2
  <2>4. Wired(Shown, ui, flight)'
    <3>1. "remove" \in Kinds
      BY DEF Kinds
    <3> QED
      BY <2>2, <2>3, <3>1 DEF Wired
  <2>5. AnswersFit(flight)'
    BY <2>3 DEF IInv, AnswersFit
  <2>6. TypeOK'
    BY <1>1, <1>9, <2>2, <2>3 DEF LeaveLogin, TypeOK, Ui
  <2>7. "remove" \in Kinds
    BY DEF Kinds
  <2> QED
    BY <1>9, <2>1, <2>3, <2>4, <2>5, <2>6, <2>7
       DEF IInv, LeaveLogin, SameSession, Undisturbed
<1>10. ASSUME Reload PROVE IInv'
  <2>1. /\ flight' = [k \in Kinds |-> IF k = "load" THEN SentAs(cookie) ELSE NoFlight]
        /\ user' = None /\ isLoading' = TRUE /\ ui' = Fresh(page) /\ past' = {}
        /\ UNCHANGED <<email, cookie, page, others>> /\ reloads' \in 0 .. MaxReloads
        /\ late' \subseteq Forsaken
    <3>1. reloads \in 0 .. MaxReloads /\ MaxReloads \in Nat
      BY <1>1, BoundsAssumption DEF TypeOK
    <3>2. reloads < MaxReloads /\ reloads' = reloads + 1
      BY <1>10 DEF Reload
    <3>3. reloads' \in 0 .. MaxReloads
      BY <3>1, <3>2
    <3>4. late' \subseteq Forsaken
      BY <1>1, <1>10, Forsakes DEF Reload, TypeOK
    <3> QED
      BY <1>10, <3>3, <3>4 DEF Reload
  <2>2. /\ flight' \in [Kinds -> Flight] /\ flight'["load"].pc = "sent"
        /\ flight'["load"].as = cookie /\ \A k \in Kinds : flight'[k].answer = None
        /\ \A k \in Kinds \ {"load"} : flight'[k].pc = "idle" /\ flight'[k].mounted = FALSE
    <3>1. "load" \in Kinds
      BY DEF Kinds
    <3> QED
      BY <1>1, <2>1, <3>1, Sent, Nothing
  <2>3. ui' \in Ui(page) /\ ui'.busy = FALSE /\ ui'.dialog = "closed"
    BY <1>1, <2>1, Fresher
  <2>4. TypeOK'
    BY <1>1, <2>1, <2>2, <2>3 DEF TypeOK, Ui
  <2>5. Wired(Shown, ui, flight)'
    BY <1>1, <2>2, <2>3 DEF Wired
  <2>6. AnswersFit(flight)'
    BY <1>1, <2>2 DEF AnswersFit, Kinds
  <2> QED
    BY <1>1, <2>1, <2>2, <2>4, <2>5, <2>6 DEF IInv, SameSession, Undisturbed
<1> QED
  BY <1>4, <1>5, <1>6, <1>7, <1>8, <1>9, <1>10 DEF Click

-----------------------------------------------------------------------------
(* The API and the other tab. *)

LEMMA OneMore ==
  ASSUME TypeOK, NEW u \in Users, email[u] \in Nat, email[u] < MaxChanges
  PROVE  /\ Changed(u) \in [Users -> Emails \cup {None}]
         /\ email[u] + 1 \in Emails
<1>1. email[u] + 1 \in Emails
  BY BoundsAssumption DEF Emails
<1> QED
  BY <1>1 DEF Changed, TypeOK

LEMMA ServeInv ==
  ASSUME IInv, NEW k \in Kinds, Serve(k)
  PROVE  IInv'
<1> DEFINE u == flight[k].as
<1>1. /\ TypeOK /\ flight \in [Kinds -> Flight] /\ u \in Users \cup {None}
      /\ flight[k].pc = "sent" /\ Wired(Shown, ui, flight) /\ AnswersFit(flight)
      /\ email \in [Users -> Emails \cup {None}]
  BY DEF IInv, TypeOK, Serve, Flight
<1>2. HasUser(u) => u \in Users /\ email[u] \in Nat /\ email[u] \in Emails
  BY <1>1 DEF HasUser, Emails
<1>3. PICK pc \in {"ok", "refused"}, answer \in Me \cup {None} :
        Served(k, pc, answer) /\ (k \in {"load", "confirm"} /\ answer # None => answer.id = u)
  <2>1. CASE /\ k = "load" /\ HasUser(u)
             /\ Served(k, "ok", [id |-> u, email |-> email[u]])
    BY <1>2, <2>1 DEF Me
  <2>2. CASE /\ k = "confirm" /\ HasUser(u) /\ email[u] < MaxChanges
             /\ Served(k, "ok", [id |-> u, email |-> email[u] + 1])
    BY <1>1, <1>2, <2>2, OneMore DEF Me
  <2>3. CASE Served(k, "ok", None) \/ Served(k, "refused", None)
    BY <2>3
  <2> QED
    BY <2>1, <2>2, <2>3 DEF Serve
<1>4. email' \in [Users -> Emails \cup {None}]
  <2>1. CASE UNCHANGED email
    BY <1>1, <2>1
  <2>2. CASE HasUser(u) /\ email[u] < MaxChanges /\ email' = Changed(u)
    BY <1>1, <1>2, <2>2, OneMore
  <2>3. CASE email' = [email EXCEPT ![u] = None]
    BY <1>1, <2>3
  <2> QED
    BY <2>1, <2>2, <2>3 DEF Serve
<1>5. /\ flight' = [flight EXCEPT ![k].pc = pc, ![k].answer = answer]
      /\ UNCHANGED <<cookie, user, isLoading, page, ui, late, reloads, others, past>>
  BY <1>3 DEF Served, tab
<1>6. /\ flight' \in [Kinds -> Flight] /\ \A j \in Kinds \ {k} : flight'[j] = flight[j]
      /\ flight'[k].pc = pc /\ flight'[k].answer = answer
      /\ flight'[k].as = flight[k].as /\ flight'[k].mounted = flight[k].mounted
  <2>1. flight[k] \in Flight
    BY <1>1
  <2>2. /\ [flight[k] EXCEPT !.pc = pc, !.answer = answer] \in Flight
        /\ [flight[k] EXCEPT !.pc = pc, !.answer = answer].pc = pc
        /\ [flight[k] EXCEPT !.pc = pc, !.answer = answer].answer = answer
        /\ [flight[k] EXCEPT !.pc = pc, !.answer = answer].as = flight[k].as
        /\ [flight[k] EXCEPT !.pc = pc, !.answer = answer].mounted = flight[k].mounted
    BY <2>1 DEF Flight
  <2>3. flight' = [flight EXCEPT ![k] = [flight[k] EXCEPT !.pc = pc, !.answer = answer]]
    BY <1>1, <1>5
  <2> QED
    BY <1>1, <2>2, <2>3
<1>7. \A j \in Kinds : /\ flight'[j].pc # "idle" <=> flight[j].pc # "idle"
                       /\ flight'[j].mounted = flight[j].mounted /\ flight'[j].as = flight[j].as
  BY <1>1, <1>6
<1>8. "load" \in Kinds /\ "confirm" \in Kinds /\ "remove" \in Kinds
  BY DEF Kinds
<1>9. Wired(Shown, ui', flight')
  BY <1>1, <1>5, <1>7, <1>8 DEF Wired
<1>10. AnswersFit(flight')
  BY <1>1, <1>3, <1>6, <1>8 DEF AnswersFit
<1> QED
  BY <1>1, <1>4, <1>5, <1>6, <1>7, <1>8, <1>9, <1>10, StayInv DEF TypeOK

LEMMA OtherTabInv ==
  ASSUME IInv, OtherTab
  PROVE  IInv'
<1>1. TypeOK /\ UNCHANGED <<user, isLoading, page, ui, flight, late, reloads>>
  BY DEF IInv, OtherTab, tab
<1>2. past' = past \cup {"session"} /\ past' \subseteq Causes /\ ~Undisturbed(past')
  BY <1>1 DEF OtherTab, TypeOK, Causes, Undisturbed
<1>3. others' \in 0 .. MaxOther
  <2>1. others \in 0 .. MaxOther /\ MaxOther \in Nat
    BY <1>1, BoundsAssumption DEF TypeOK
  <2>2. others < MaxOther /\ others' = others + 1
    BY DEF OtherTab
  <2> QED
    BY <2>1, <2>2
<1>4. email' \in [Users -> Emails \cup {None}] /\ cookie' \in Users \cup {None}
  <2>1. HasUser(cookie) => cookie \in Users /\ email[cookie] \in Nat
    BY <1>1 DEF HasUser, TypeOK, Emails
  <2> QED
    BY <1>1, <2>1, OneMore DEF OtherTab, TypeOK
<1>5. Wired(Shown, ui', flight') /\ AnswersFit(flight')
  BY <1>1 DEF IInv, Wired, AnswersFit
<1> QED
  BY <1>1, <1>2, <1>3, <1>4, <1>5, StayInv DEF TypeOK

LEMMA Overtaking ==
  ASSUME NEW f \in Flight, NEW u \in Users \cup {None}
  PROVE  /\ Under(f, u) \in Flight /\ Under(f, u).pc = "sent" /\ Under(f, u).as = u
         /\ Under(f, u).answer = None /\ Under(f, u).mounted = f.mounted
         /\ Under(f, u).tries = f.tries /\ Under(f, u).applied = f.applied
  BY DEF Under, Flight

LEMMA ExpireInv ==
  ASSUME IInv, Expire
  PROVE  IInv'
<1>1. /\ TypeOK /\ UNCHANGED <<email, user, isLoading, page, ui, late, reloads>>
      /\ flight \in [Kinds -> Flight] /\ Wired(Shown, ui, flight) /\ AnswersFit(flight)
      /\ {"load", "confirm", "remove"} \subseteq Kinds
  BY DEF IInv, TypeOK, Expire, tab, Kinds
<1>2. past' = past \cup {"session"} /\ past' \subseteq Causes /\ ~Undisturbed(past')
  BY <1>1 DEF Expire, TypeOK, Causes, Undisturbed
<1>3. others' \in 0 .. MaxOther /\ cookie' = None
  <2>1. others \in 0 .. MaxOther /\ MaxOther \in Nat
    BY <1>1, BoundsAssumption DEF TypeOK
  <2>2. others < MaxOther /\ others' = others + 1
    BY DEF Expire
  <2> QED
    BY <2>1, <2>2 DEF Expire
<1>4. PICK K \in SUBSET {k \in Kinds \ {"verify"} : flight[k].pc = "sent" /\ flight[k].as = cookie} :
        flight' = [k \in Kinds |-> IF k \in K THEN Under(flight[k], None) ELSE flight[k]]
  BY DEF Expire
<1>5. /\ flight' \in [Kinds -> Flight]
      /\ \A k \in Kinds :
           /\ flight'[k].pc = flight[k].pc /\ flight'[k].mounted = flight[k].mounted
           /\ (flight'[k] = flight[k] \/ flight'[k].answer = None)
  BY <1>1, <1>4, Overtaking
<1>6. Wired(Shown, ui', flight')
  BY <1>1, <1>5 DEF Wired
<1>7. AnswersFit(flight')
  BY <1>1, <1>5 DEF AnswersFit
<1> QED
  BY <1>1, <1>2, <1>3, <1>5, <1>6, <1>7, StayInv DEF TypeOK

LEMMA CarryOutInv ==
  ASSUME IInv, NEW l \in late, CarryOut(l)
  PROVE  IInv'
<1>1. /\ TypeOK /\ UNCHANGED <<cookie, user, isLoading, page, ui, flight, reloads, others>>
      /\ Wired(Shown, ui, flight) /\ AnswersFit(flight) /\ l.as \in Users
  BY DEF IInv, TypeOK, CarryOut, tab, Forsaken
<1>2. past' \subseteq Causes /\ (Undisturbed(past') => Undisturbed(past))
  BY <1>1 DEF CarryOut, TypeOK, Causes, Undisturbed
<1>3. late' \subseteq Forsaken
  BY <1>1 DEF CarryOut, TypeOK
<1>4. email' \in [Users -> Emails \cup {None}]
  <2>1. email[l.as] \in Nat
    BY <1>1 DEF CarryOut, HasUser, TypeOK, Emails
  <2> QED
    BY <1>1, <2>1, OneMore DEF CarryOut, TypeOK
<1>5. Wired(Shown, ui', flight') /\ AnswersFit(flight')
  BY <1>1 DEF Wired, AnswersFit
<1> QED
  BY <1>1, <1>2, <1>3, <1>4, <1>5, StayInv DEF TypeOK

\* A request that is repeated carries the cookie of that moment.
LEMMA Resent ==
  ASSUME IInv, NEW k \in Kinds, Resend(k)
  PROVE  /\ k \in {"load", "remove"} /\ flight[k].pc \in {"sent", "ok"}
         /\ flight' \in [Kinds -> Flight] /\ \A j \in Kinds \ {k} : flight'[j] = flight[j]
         /\ flight'[k].pc = "sent" /\ flight'[k].as = cookie /\ flight'[k].answer = None
         /\ flight'[k].mounted = flight[k].mounted
         /\ flight[k].applied \/ (k = "remove" /\ flight[k].pc = "ok") => flight'[k].applied
<1> DEFINE f == flight[k]
           again == Under(f, cookie)
           done == f.applied \/ (k = "remove" /\ f.pc = "ok")
           g == [again EXCEPT !.tries = again.tries + 1, !.applied = again.applied \/ (k = "remove" /\ f.pc = "ok")]
<1>1. /\ f \in Flight /\ flight \in [Kinds -> Flight] /\ cookie \in Users \cup {None}
      /\ k \in {"load", "remove"} /\ f.pc \in {"sent", "ok"} /\ f.tries < RetryLimit
  BY DEF Resend, IInv, TypeOK
<1>2. /\ again \in Flight /\ again.pc = "sent" /\ again.as = cookie
      /\ again.answer = None /\ again.mounted = f.mounted
      /\ again.tries = f.tries /\ again.applied = f.applied
  BY <1>1, Overtaking
<1>3. flight' = [flight EXCEPT ![k] = g]
  BY DEF Resend
<1> HIDE DEF again, f
<1>4. f.tries + 1 \in 0 .. RetryLimit /\ f.applied \in BOOLEAN
  BY <1>1, BoundsAssumption DEF Flight
<1>5. /\ g \in Flight /\ g.pc = "sent" /\ g.as = cookie /\ g.answer = None
      /\ g.mounted = f.mounted /\ (done => g.applied)
  BY <1>2, <1>4 DEF Flight
<1> HIDE DEF g
<1> QED
  BY <1>1, <1>3, <1>5 DEF f

LEMMA ResendInv ==
  ASSUME IInv, NEW k \in Kinds, Resend(k)
  PROVE  IInv'
<1>1. /\ TypeOK /\ UNCHANGED <<email, cookie, user, isLoading, page, ui, reloads, others, past>>
      /\ Wired(Shown, ui, flight) /\ AnswersFit(flight)
      /\ {"load", "confirm", "remove"} \subseteq Kinds
  BY DEF IInv, Resend, tab, Kinds
<1>2. late' \subseteq Forsaken
  BY <1>1, Forsakes DEF Resend, TypeOK
<1>3. Wired(Shown, ui', flight')
  BY <1>1, Resent DEF Wired
<1>4. AnswersFit(flight')
  BY <1>1, Resent DEF AnswersFit
<1>5. \A j \in {"load", "remove"} :
        /\ flight'[j].as = cookie \/ flight'[j] = flight[j]
        /\ flight'[j].pc # "idle" <=> flight[j].pc # "idle"
  BY <1>1, Resent
<1> QED
  BY <1>1, <1>2, <1>3, <1>4, <1>5, Resent, StayInv DEF TypeOK

-----------------------------------------------------------------------------
(* The answers. *)

LEMMA Answering ==
  ASSUME IInv, NEW k \in Kinds
  PROVE  /\ Answered(k) \in [Kinds -> Flight]
         /\ \A j \in Kinds \ {k} : Answered(k)[j] = flight[j]
         /\ Answered(k)[k].pc = "idle" /\ Answered(k)[k].mounted = FALSE
         /\ Answered(k)[k].answer = None
         /\ AnswersFit(Answered(k))
<1>1. flight \in [Kinds -> Flight] /\ AnswersFit(flight) /\ {"load", "confirm"} \subseteq Kinds
  BY DEF IInv, TypeOK, Kinds
<1>2. /\ Answered(k) \in [Kinds -> Flight]
      /\ \A j \in Kinds \ {k} : Answered(k)[j] = flight[j]
      /\ Answered(k)[k].pc = "idle" /\ Answered(k)[k].mounted = FALSE
      /\ Answered(k)[k].answer = None
  BY <1>1, Nothing DEF Answered
<1>3. AnswersFit(Answered(k))
  <2> SUFFICES ASSUME NEW j \in {"load", "confirm"}, Answered(k)[j].answer # None
               PROVE  Answered(k)[j].answer.id = Answered(k)[j].as
    BY DEF AnswersFit
  <2>1. j # k /\ j \in Kinds
    BY <1>1, <1>2
  <2> QED
    BY <1>1, <1>2, <2>1 DEF AnswersFit
<1> QED
  BY <1>2, <1>3

\* The page when the answer to k only concerns its local state.
LEMMA WiredAnswer ==
  ASSUME IInv, NEW k \in Kinds \ {"load"}, NEW u,
         IF flight[k].mounted
         THEN IF k = "remove" THEN u.busy = ui.busy /\ u.dialog # "busy"
                              ELSE u.busy = FALSE /\ u.dialog = ui.dialog
         ELSE u.busy = ui.busy /\ u.dialog = ui.dialog
  PROVE  Wired(Shown, u, Answered(k))
<1>1. Wired(Shown, ui, flight) /\ "remove" \in Kinds
  BY DEF IInv, Kinds
<1>2. /\ \A j \in Kinds \ {k} : Answered(k)[j] = flight[j]
      /\ Answered(k)[k].pc = "idle" /\ Answered(k)[k].mounted = FALSE
  BY Answering
<1>3. \A j \in Kinds \ {"load"} :
        Answered(k)[j].mounted => Shown = PageOf(j) /\ Answered(k)[j].pc # "idle"
  BY <1>1, <1>2 DEF Wired
<1>4. u.busy => \E j \in Kinds \ {"load", "remove"} :
                  Answered(k)[j].pc # "idle" /\ Answered(k)[j].mounted
  <2>1. CASE flight[k].mounted /\ k # "remove"
    BY <2>1
  <2>2. CASE ~flight[k].mounted \/ k = "remove"
    BY <1>1, <1>2, <2>2 DEF Wired
  <2> QED
    BY <2>1, <2>2
<1>5. u.dialog = "busy" <=> Answered(k)["remove"].pc # "idle" /\ Answered(k)["remove"].mounted
  <2>1. CASE k = "remove"
    BY <1>1, <1>2, <2>1 DEF Wired
  <2>2. CASE k # "remove"
    BY <1>1, <1>2, <2>2 DEF Wired
  <2> QED
    BY <2>1, <2>2
<1> QED
  BY <1>3, <1>4, <1>5 DEF Wired

\* What every answer leaves alone, and where the load request stands.
LEMMA Facts ==
  ASSUME IInv
  PROVE  /\ email \in [Users -> Emails \cup {None}] /\ cookie \in Users \cup {None}
         /\ user \in Me \cup {None} /\ isLoading \in BOOLEAN
         /\ page \in Pages /\ ui \in Ui(page) /\ past \subseteq Causes
         /\ flight \in [Kinds -> Flight]
         /\ late \subseteq Forsaken
         /\ reloads \in 0 .. MaxReloads /\ others \in 0 .. MaxOther
         /\ {"load", "confirm", "remove", "verify", "send code", "request", "sign out"} = Kinds
         /\ \A k \in Kinds : /\ flight[k].answer \in Me \cup {None}
                             /\ flight[k].as \in Users \cup {None}
         /\ isLoading <=> flight["load"].pc # "idle"
         /\ isLoading <=> Shown = "spinner"
         /\ ~isLoading => Shown = page
         /\ \A k \in Kinds \ {"load"} : flight[k].mounted => Shown = PageOf(k)
<1>1. TypeOK /\ Wired(Shown, ui, flight)
  BY DEF IInv
<1>2. isLoading <=> Shown = "spinner"
  BY <1>1 DEF TypeOK, Shown, Pages
<1>3. \A k \in Kinds : flight[k].answer \in Me \cup {None} /\ flight[k].as \in Users \cup {None}
  BY <1>1 DEF TypeOK, Flight
<1> QED
  BY <1>1, <1>2, <1>3 DEF IInv, TypeOK, Wired, Shown, Kinds

LEMMA LoadedInv ==
  ASSUME IInv, flight["load"].pc = "ok", Loaded, UNCHANGED <<late, reloads, others>>
  PROVE  IInv'
<1>1. /\ user' = flight["load"].answer /\ isLoading' = FALSE /\ UNCHANGED <<email, cookie, past>>
      /\ Render(page, ui, Answered("load"))
  BY DEF Loaded
<1>2. page' \in Pages
  BY <1>1, Facts, Rendered
<1>3. Shown' # Shown
  BY <1>1, <1>2, Facts DEF Shown, Pages
<1>4. user' \in Me \cup {None} /\ "load" \in Kinds
  BY <1>1, Facts
<1>5. Undisturbed(past') => (user' # None => cookie' = user'.id)
  BY <1>1, Facts DEF IInv, SameSession, AnswersFit
<1>6. /\ Answered("load") \in [Kinds -> Flight] /\ Answered("load")["load"].pc = "idle"
      /\ AnswersFit(Answered("load"))
  BY <1>4, Answering
<1> QED
  BY <1>1, <1>3, <1>4, <1>5, <1>6, Facts, RenderInv

LEMMA VerifiedInv ==
  ASSUME IInv, flight["verify"].pc = "ok", Verified, UNCHANGED <<late, reloads, others>>
  PROVE  IInv'
<1> DEFINE fs == [Answered("verify") EXCEPT !["load"] = SentAs(cookie')]
<1>1. /\ cookie' \in Users \cup {None} /\ UNCHANGED <<email, user>>
      /\ isLoading' = TRUE /\ Render(page, ui, fs) /\ past' \subseteq Causes
  BY Facts DEF Verified, LoadUser
<1>2. /\ fs \in [Kinds -> Flight] /\ \A j \in Kinds \ {"verify", "load"} : fs[j] = flight[j]
      /\ fs["verify"].mounted = FALSE
      /\ fs["load"].pc = "sent" /\ fs["load"].as = cookie' /\ fs["load"].answer = None
  <2>1. "verify" \in Kinds /\ "load" \in Kinds
    BY Facts
  <2>2. /\ Answered("verify") \in [Kinds -> Flight]
        /\ \A j \in Kinds \ {"verify"} : Answered("verify")[j] = flight[j]
        /\ Answered("verify")["verify"].mounted = FALSE
    BY <2>1, Answering
  <2>3. /\ SentAs(cookie') \in Flight /\ SentAs(cookie').pc = "sent"
        /\ SentAs(cookie').as = cookie' /\ SentAs(cookie').answer = None
    BY <1>1, Sent
  <2> QED
    BY <2>1, <2>2, <2>3
<1> HIDE DEF fs
<1>3. AnswersFit(fs)
  BY <1>2, Facts DEF IInv, AnswersFit
<1>4. Shown' = Shown => Wired(Shown, ui, fs) /\ ~fs["remove"].mounted
  <2> SUFFICES ASSUME Shown' = Shown PROVE Wired(Shown, ui, fs) /\ ~fs["remove"].mounted
    OBVIOUS
  <2>1. Shown = "spinner"
    BY <1>1 DEF Shown
  <2>2. \A k \in Kinds \ {"load"} : ~flight[k].mounted
    BY <2>1, Facts DEF PageOf
  <2>3. ui.busy = FALSE /\ ui.dialog # "busy"
    <3>1. ui.busy \in BOOLEAN
      BY Facts DEF Ui
    <3> QED
      BY <2>2, <3>1, Facts DEF IInv, Wired
  <2>4. \A k \in Kinds \ {"load"} : ~fs[k].mounted
    BY <1>2, <2>2
  <2> QED
    BY <2>3, <2>4, Facts DEF Wired
<1> QED
  BY <1>1, <1>2, <1>3, <1>4, Facts, RenderInv DEF Undisturbed

LEMMA NextStepInv ==
  ASSUME IInv, NEW k \in {"send code", "request", "confirm"}, NEW step \in Steps[PageOf(k)],
         NextStep(k, step), UNCHANGED <<late, reloads, others>>,
         user' \in Me \cup {None}, past' \subseteq Causes,
         Undisturbed(past') =>
           /\ Undisturbed(past)
           /\ ~isLoading /\ user' # None => cookie = user'.id
  PROVE  IInv'
<1> DEFINE done == [ui EXCEPT !.step = step, !.busy = FALSE]
           u == IF flight[k].mounted THEN done ELSE ui
<1>1. UNCHANGED <<email, cookie, isLoading>> /\ Render(page, u, Answered(k))
  BY DEF NextStep, Local
<1>2. k \in Kinds \ {"load"} /\ k # "remove" /\ "load" \in Kinds
  BY Facts
<1>3. u \in Ui(page) /\ IF flight[k].mounted THEN u.busy = FALSE /\ u.dialog = ui.dialog ELSE u = ui
  <2>1. CASE flight[k].mounted
    <3>1. step \in Steps[page]
      BY <1>2, <2>1, Facts DEF PageOf
    <3>2. done \in Ui(page) /\ done.busy = FALSE /\ done.dialog = ui.dialog
      <4>1. ui \in Ui(page)
        BY Facts
      <4>2. done \in Ui(page)
        BY <3>1, <4>1, WithStepDone
      <4>3. done.busy = FALSE /\ done.dialog = ui.dialog
        BY <3>1, <4>1, WithStepDone
      <4> QED
        BY <4>2, <4>3
    <3>3. u = done
      BY <2>1
    <3> HIDE DEF u, done
    <3> QED
      BY <2>1, <3>2, <3>3
  <2>2. CASE ~flight[k].mounted
    BY <2>2, Facts
  <2> QED
    BY <2>1, <2>2
<1> HIDE DEF u
<1>4. Wired(Shown, u, Answered(k))
  BY <1>2, <1>3, WiredAnswer
<1>5. /\ Answered(k) \in [Kinds -> Flight] /\ Answered(k)["load"] = flight["load"]
      /\ Answered(k)["remove"] = flight["remove"] /\ AnswersFit(Answered(k))
  BY <1>2, Answering, Facts
<1>6. Undisturbed(past') => /\ isLoading' => Answered(k)["load"].as = cookie'
                            /\ ~isLoading' /\ user' # None => cookie' = user'.id
                            /\ Answered(k)["remove"].mounted => Answered(k)["remove"].as = cookie'
  BY <1>1, <1>5 DEF IInv, SameSession
<1> QED
  BY <1>1, <1>3, <1>4, <1>5, <1>6, Facts, RenderInv

LEMMA LateDisturbs ==
  ASSUME NEW p
  PROVE  ~Undisturbed(p \cup {"session"})
  BY DEF Undisturbed

LEMMA StepsInv ==
  ASSUME IInv, CodeSent \/ ChangeRequested \/ ChangeConfirmed, UNCHANGED <<late, reloads, others>>
  PROVE  IInv'
<1>1. CASE CodeSent
  <2>1. "code" \in Steps[PageOf("send code")]
    BY DEF Steps, PageOf
  <2> QED
    BY <1>1, <2>1, Facts, NextStepInv DEF CodeSent, IInv, SameSession
<1>2. CASE ChangeRequested
  <2>1. "verify" \in Steps[PageOf("request")]
    BY DEF Steps, PageOf
  <2> QED
    BY <1>2, <2>1, Facts, NextStepInv DEF ChangeRequested, IInv, SameSession
<1>3. CASE ChangeConfirmed
  <2>1. "done" \in Steps[PageOf("confirm")]
    BY DEF Steps, PageOf
  <2>2. user' = flight["confirm"].answer /\ user' \in Me \cup {None}
    BY <1>3, Facts DEF ChangeConfirmed, SetUpdated
  <2>3. past' = IF Late("confirm") THEN past \cup {"session"} ELSE past
    BY <1>3 DEF ChangeConfirmed
  <2>4. past' \subseteq Causes
    BY <2>3, Facts DEF Causes
  <2>5. Undisturbed(past') =>
          Undisturbed(past) /\ (~isLoading /\ user' # None => cookie = user'.id)
    <3>1. CASE Late("confirm")
      BY <2>3, <3>1, LateDisturbs
    <3>2. CASE ~Late("confirm")
      <4>1. user # None /\ user.id = flight["confirm"].as /\ past' = past
        BY <2>3, <3>2 DEF Late
      <4>2. user' # None => user'.id = flight["confirm"].as
        BY <2>2 DEF IInv, AnswersFit
      <4> QED
        BY <4>1, <4>2 DEF IInv, SameSession
    <3> QED
      BY <3>1, <3>2
  <2> QED
    BY <1>3, <2>1, <2>2, <2>4, <2>5, NextStepInv DEF ChangeConfirmed
<1> QED
  BY <1>1, <1>2, <1>3

LEMMA EndedInv ==
  ASSUME IInv, NEW k \in {"sign out", "remove"}, Ended(k), UNCHANGED <<late, reloads, others>>
  PROVE  IInv'
<1>1. /\ cookie' = None /\ user' = None /\ UNCHANGED <<email, isLoading>>
      /\ past' = (IF Late(k) THEN past \cup {"session"} ELSE past)
      /\ Render(page, ui, Answered(k))
  BY DEF Ended, ForgetUser
<1>2. k \in Kinds \ {"load"} /\ "load" \in Kinds
  BY Facts
<1>3. /\ Answered(k) \in [Kinds -> Flight] /\ Answered(k)["load"] = flight["load"]
      /\ AnswersFit(Answered(k))
  BY <1>2, Answering
<1>4. past' \subseteq Causes
  BY <1>1, Facts DEF Causes
<1>5. Undisturbed(past') => ~isLoading'
  <2>1. CASE Late(k)
    BY <1>1, <2>1, LateDisturbs
  <2>2. CASE ~Late(k)
    BY <1>1, <2>2, Facts DEF Late, Idle
  <2> QED
    BY <2>1, <2>2
<1>6. Shown' = Shown => Wired(Shown, ui, Answered(k)) /\ ~Answered(k)["remove"].mounted
  <2> SUFFICES ASSUME Shown' = Shown
               PROVE  Wired(Shown, ui, Answered(k)) /\ ~Answered(k)["remove"].mounted
    OBVIOUS
  <2>1. ASSUME NEW j \in {"sign out", "remove"} PROVE ~flight[j].mounted
    <3> SUFFICES ASSUME flight[j].mounted PROVE FALSE
      OBVIOUS
    <3>1. Shown = PageOf(j) /\ Shown # "login" /\ ~isLoading
      BY Facts DEF PageOf
    <3>2. page' = "login" /\ Shown' = "login"
      BY <1>1, <3>1, Rendered, Facts DEF Shown
    <3> QED
      BY <3>1, <3>2
  <2>2. ~Answered(k)["remove"].mounted
    BY <1>2, <2>1, Answering, Facts
  <2> QED
    BY <1>2, <2>1, <2>2, WiredAnswer
<1> QED
  BY <1>1, <1>3, <1>4, <1>5, <1>6, Facts, RenderInv

LEMMA SucceedInv ==
  ASSUME IInv, NEW k \in Kinds, Succeed(k)
  PROVE  IInv'
<1>1. UNCHANGED <<late, reloads, others>> /\ flight[k].pc = "ok"
  BY DEF Succeed
<1>2. CASE k = "load"
  BY <1>1, <1>2, LoadedInv DEF Succeed
<1>3. CASE k = "verify"
  BY <1>1, <1>3, VerifiedInv DEF Succeed
<1>4. CASE k \in {"send code", "request", "confirm"}
  BY <1>1, <1>4, StepsInv DEF Succeed
<1>5. CASE k \in {"sign out", "remove"}
  BY <1>1, <1>5, EndedInv DEF Succeed, SignedOut, AccountRemoved
<1> QED
  BY <1>2, <1>3, <1>4, <1>5, Facts

LEMMA FailInv ==
  ASSUME IInv, NEW k \in Kinds, Fail(k)
  PROVE  IInv'
<1> DEFINE u == IF flight[k].mounted THEN FormAgain(k) ELSE ui
<1>1. /\ flight[k].pc # "idle" /\ UNCHANGED <<email, cookie, reloads, others>>
      /\ late' \subseteq Forsaken
      /\ IF k = "load" THEN user' = None /\ isLoading' = FALSE ELSE UNCHANGED <<user, isLoading>>
      /\ Render(page, u, Answered(k))
  BY Facts, Forsakes DEF Fail, LoadFailed, Local, IInv
<1>2. past' \subseteq Causes /\ (Undisturbed(past') => Undisturbed(past))
  BY Facts DEF Fail, Causes, Undisturbed
<1>3. /\ u \in Ui(page)
      /\ IF flight[k].mounted
         THEN IF k = "remove" THEN u.busy = ui.busy /\ u.dialog # "busy"
                              ELSE u.busy = FALSE /\ u.dialog = ui.dialog
         ELSE u = ui
  <2>1. CASE ~flight[k].mounted
    BY <2>1, Facts
  <2>2. CASE flight[k].mounted /\ k = "remove"
    <3>1. "open" \in {"closed", "open", "busy"} /\ u = [ui EXCEPT !.dialog = "open"]
      BY <2>2 DEF FormAgain
    <3> HIDE DEF u
    <3> QED
      BY <2>2, <3>1, Facts, WithDialog
  <2>3. CASE flight[k].mounted /\ k # "remove"
    <3>1. u = [ui EXCEPT !.busy = FALSE]
      BY <2>3 DEF FormAgain
    <3> HIDE DEF u
    <3> QED
      BY <2>3, <3>1, Facts, WithBusy
  <2> QED
    BY <2>1, <2>2, <2>3
<1> HIDE DEF u
<1>4. /\ Answered(k) \in [Kinds -> Flight] /\ \A j \in Kinds \ {k} : Answered(k)[j] = flight[j]
      /\ Answered(k)[k].pc = "idle" /\ AnswersFit(Answered(k))
  BY Answering
<1>5. CASE k = "load"
  <2>1. page' \in Pages
    BY <1>1, <1>5, Facts, Rendered
  <2>2. Shown' # Shown
    BY <1>1, <1>5, <2>1, Facts DEF Shown, Pages
  <2> QED
    BY <1>1, <1>2, <1>3, <1>4, <1>5, <2>2, Facts, RenderInv
<1>6. CASE k # "load"
  <2>1. Wired(Shown, u, Answered(k))
    BY <1>3, <1>6, WiredAnswer
  <2>2. /\ Answered(k)["load"] = flight["load"]
        /\ Answered(k)["remove"].mounted => Answered(k)["remove"] = flight["remove"]
    BY <1>4, <1>6, Answering, Facts
  <2>3. Undisturbed(past') =>
          /\ isLoading' => Answered(k)["load"].as = cookie'
          /\ ~isLoading' /\ user' # None => cookie' = user'.id
          /\ Answered(k)["remove"].mounted => Answered(k)["remove"].as = cookie'
    BY <1>1, <1>2, <1>6, <2>2 DEF IInv, SameSession
  <2>4. (isLoading' <=> Answered(k)["load"].pc # "idle") /\ UNCHANGED <<user, isLoading>>
    BY <1>1, <1>6, <2>2, Facts
  <2> QED
    BY <1>1, <1>2, <1>3, <1>4, <2>1, <2>3, <2>4, Facts, RenderInv
<1> QED
  BY <1>5, <1>6

-----------------------------------------------------------------------------
(* The invariant of the specification. *)

LEMMA InitInv ==
  ASSUME Init
  PROVE  IInv
<1>1. /\ cookie \in Users \cup {None} /\ user = None /\ isLoading = TRUE /\ page \in Pages
      /\ ui = Fresh(page) /\ late = {} /\ past = {} /\ reloads = 0 /\ others = 0
      /\ email = [u \in Users |-> 0]
      /\ flight = [k \in Kinds |-> IF k = "load" THEN SentAs(cookie) ELSE NoFlight]
  BY DEF Init
<1>2. "load" \in Kinds /\ "confirm" \in Kinds /\ "remove" \in Kinds
  BY DEF Kinds
<1>3. /\ flight \in [Kinds -> Flight] /\ flight["load"].pc = "sent" /\ flight["load"].as = cookie
      /\ \A k \in Kinds : flight[k].answer = None
      /\ \A k \in Kinds \ {"load"} : flight[k].mounted = FALSE
  BY <1>1, <1>2, Sent, Nothing
<1>4. ui \in Ui(page) /\ ui.busy = FALSE /\ ui.dialog = "closed"
  BY <1>1, Fresher
<1>5. 0 \in 0 .. MaxReloads /\ 0 \in 0 .. MaxOther /\ 0 \in Emails
  BY BoundsAssumption DEF Emails
<1>6. TypeOK
  BY <1>1, <1>3, <1>4, <1>5 DEF TypeOK
<1>7. Wired(Shown, ui, flight)
  BY <1>2, <1>3, <1>4 DEF Wired
<1>8. AnswersFit(flight) /\ SameSession
  BY <1>1, <1>2, <1>3 DEF AnswersFit, SameSession
<1> QED
  BY <1>1, <1>3, <1>6, <1>7, <1>8 DEF IInv

LEMMA NextInv ==
  ASSUME IInv, [Next]_vars
  PROVE  IInv'
<1>1. CASE UNCHANGED vars
  <2>1. UNCHANGED <<email, cookie, user, isLoading, page, ui, flight, late, reloads, others, past>>
    BY <1>1 DEF vars, tab
  <2> QED
    BY <2>1, Facts, LocalInv
<1>2. ASSUME NEW k \in Kinds, Answer(k) PROVE IInv'
  BY <1>2, ServeInv, SucceedInv, FailInv DEF Answer
<1> QED
  BY <1>1, <1>2, ClickInv, OtherTabInv, ExpireInv, CarryOutInv, ResendInv DEF Next

\* However clicks, answers, reloads and other tabs interleave, the requests
\* that can still set the page were sent by it, an answer names the user whose
\* session asked, and an undisturbed store names the cookie's user.
THEOREM InvariantHolds == Spec => []IInv
<1>1. Init => IInv
  BY InitInv
<1>2. IInv /\ [Next]_vars => IInv'
  BY NextInv
<1> QED
  BY <1>1, <1>2, PTL DEF Spec

\* A form or dialog is busy only for a request that will free it (Login.tsx,
\* Settings.tsx, UserMenu.tsx, ConfirmModal.tsx), and everything keeps its type.
THEOREM FormsAreWired == Spec => []WellFormed
<1>1. IInv => WellFormed
  BY DEF IInv, Wired, WellFormed, Idle
<1> QED
  BY <1>1, InvariantHolds, PTL

\* A click on a page acts on the account the page shows, for any number of
\* users, reloads and steps of other tabs (AuthGate.tsx, useLoadUser.ts).
THEOREM ClicksHitTheShownUser == Spec => []ActsOnTheShownUser
<1>1. IInv => ActsOnTheShownUser
  <2> SUFFICES ASSUME IInv, Shown \in {"workspace", "settings"}, "session" \notin past
               PROVE  /\ user # None /\ cookie = user.id
                      /\ ui.dialog = "busy" => flight["remove"].as = user.id
    BY DEF ActsOnTheShownUser
  <2>1. user # None /\ cookie = user.id
    BY Facts DEF IInv, SameSession, Undisturbed, Shown
  <2>2. ui.dialog = "busy" => flight["remove"].as = cookie
    BY DEF IInv, Wired, SameSession, Undisturbed
  <2> QED
    BY <2>1, <2>2
<1> QED
  BY <1>1, InvariantHolds, PTL

-----------------------------------------------------------------------------
(* What the tab knows. *)

\* The answers under way that tell the tab who is signed in, or will sign it out.
Telling == {"load", "confirm", "remove"}
Given(r) == r.pc \in {"ok", "refused"}

\* The account of removal r is gone, and a try of r is still to be answered.
Gone(r) == r.pc = "ok" \/ (r.pc = "sent" /\ r.applied)

\* The answer to a change of address has the latest address of its account.
ConfirmFits(em, fs) ==
  fs["confirm"].pc = "ok" =>
    /\ fs["confirm"].answer # None /\ fs["confirm"].as \in Users
    /\ em[fs["confirm"].as] \in {None, fs["confirm"].answer.email}

\* me, which the tab shows or is about to be told, is the account of cookie ck,
\* but for answers under way that will put it right.
Told(me, em, ck, fs) ==
  IF me = None THEN ck = None \/ em[ck] = None
  ELSE /\ me.id = ck /\ ck \in Users
       /\ IF em[ck] = None THEN Gone(fs["remove"]) /\ fs["remove"].as = ck
          ELSE \/ me.email = em[ck]
               \/ /\ fs["confirm"].pc = "ok" /\ fs["confirm"].as = ck
                  /\ fs["confirm"].answer.email = em[ck]

Truth(em, ck, me, loading, fs) ==
  /\ ConfirmFits(em, fs)
  /\ loading /\ Given(fs["load"]) => Told(fs["load"].answer, em, ck, fs)
  /\ loading /\ fs["load"].pc = "refused" => fs["load"].answer = None
  /\ ~loading => Told(me, em, ck, fs)

TruthInv == past = {} => Truth(email, cookie, user, isLoading, flight)

\* Requests fs and gs tell the tab the same.
Alike(gs, fs) ==
  /\ \A k \in Telling :
       IF Given(fs[k]) THEN gs[k].pc = fs[k].pc /\ gs[k].as = fs[k].as /\ gs[k].answer = fs[k].answer
       ELSE ~Given(gs[k])
  /\ Gone(fs["remove"]) => Gone(gs["remove"]) /\ gs["remove"].as = fs["remove"].as

LEMMA AlikeTruth ==
  ASSUME NEW em, NEW ck, NEW me, NEW loading \in BOOLEAN, NEW fs, NEW gs,
         Truth(em, ck, me, loading, fs), Alike(gs, fs)
  PROVE  Truth(em, ck, me, loading, gs)
<1>1. /\ Given(fs["load"]) <=> Given(gs["load"])
      /\ Given(fs["load"]) => gs["load"].answer = fs["load"].answer
      /\ gs["load"].pc = "refused" => fs["load"].pc = "refused"
      /\ \A k \in {"confirm", "remove"} :
           /\ gs[k].pc = "ok" <=> fs[k].pc = "ok"
           /\ fs[k].pc = "ok" => gs[k].as = fs[k].as /\ gs[k].answer = fs[k].answer
      /\ Gone(fs["remove"]) => Gone(gs["remove"]) /\ gs["remove"].as = fs["remove"].as
  BY DEF Alike, Telling, Given
<1>2. \A x : Told(x, em, ck, fs) => Told(x, em, ck, gs)
  BY <1>1 DEF Told
<1>3. ConfirmFits(em, gs)
  BY <1>1 DEF Truth, ConfirmFits
<1> QED
  BY <1>1, <1>2, <1>3 DEF Truth, Given

LEMMA AlikeRender ==
  ASSUME NEW p, NEW u, NEW fs \in [Kinds -> Flight], Render(p, u, fs)
  PROVE  Alike(flight', fs)
<1>1. Telling \subseteq Kinds
  BY DEF Telling, Kinds
<1>2. flight' = fs \/ flight' = Unmount(fs)
  BY DEF Render
<1>3. Alike(fs, fs)
  BY DEF Alike
<1>4. Alike(Unmount(fs), fs)
  BY <1>1, Unmounts DEF Alike, Given, Gone, Telling
<1> QED
  BY <1>2, <1>3, <1>4

LEMMA ClickTruth ==
  ASSUME IInv, TruthInv, Click
  PROVE  TruthInv'
<1>1. flight \in [Kinds -> Flight] /\ Telling \subseteq Kinds /\ isLoading \in BOOLEAN
  BY Facts DEF Telling
<1>2. ASSUME UNCHANGED <<email, cookie, user, isLoading, past>>, Alike(flight', flight)
      PROVE  TruthInv'
  BY <1>1, <1>2, AlikeTruth DEF TruthInv
<1>3. Alike(flight, flight)
  BY DEF Alike
<1>4. ASSUME NEW p, NEW k \in Kinds, NEW as, NEW u, SendFrom(p, k, as, u)
      PROVE  TruthInv'
  <2>1. flight' = [flight EXCEPT ![k] = SentAs(as)] /\ flight[k].pc = "idle"
    BY <1>4 DEF SendFrom, Idle
  <2>2. SentAs(as).pc = "sent"
    BY DEF SentAs
  <2>3. Alike(flight', flight)
    BY <1>1, <2>1, <2>2 DEF Alike, Given, Gone, Telling
  <2> QED
    BY <1>2, <1>4, <2>3 DEF SendFrom
<1>5. CASE \/ SendCode \/ (\E u \in Users : Verify(u)) \/ SignOut
           \/ RequestChange \/ ConfirmChange \/ RemoveAccount
  <2>1. {"send code", "verify", "sign out", "request", "confirm", "remove"} \subseteq Kinds
    BY DEF Kinds
  <2> QED
    BY <1>4, <1>5, <2>1
    DEF SendCode, Verify, SignOut, RequestChange, ConfirmChange, RemoveAccount
<1>6. CASE DifferentEmail \/ CancelVerify \/ ToggleDialog
  BY <1>2, <1>3, <1>6 DEF DifferentEmail, CancelVerify, ToggleDialog
<1>7. ASSUME NEW p \in Pages, Navigate(p)
      PROVE  TruthInv'
  <2>1. UNCHANGED <<email, cookie, user, isLoading, past>> /\ Render(p, ui, flight)
    BY <1>7 DEF Navigate
  <2> QED
    BY <1>1, <1>2, <2>1, AlikeRender
<1>8. CASE LeaveLogin
  <2>1. Alike(flight', flight)
    BY <1>1, <1>8, Unmounts DEF LeaveLogin, Alike, Given, Gone, Telling
  <2> QED
    BY <1>2, <1>8, <2>1 DEF LeaveLogin
<1>9. CASE Reload
  <2>1. /\ isLoading' = TRUE
        /\ flight'["load"].pc = "sent" /\ flight'["confirm"].pc = "idle"
    BY <1>9 DEF Reload, Kinds, SentAs, NoFlight
  <2> QED
    BY <2>1 DEF TruthInv, Truth, ConfirmFits, Given
<1> QED
  BY <1>5, <1>6, <1>7, <1>8, <1>9 DEF Click

LEMMA OtherTabTruth ==
  ASSUME OtherTab \/ Expire
  PROVE  TruthInv'
  BY DEF OtherTab, Expire, TruthInv

\* What the API carries out late is noted, or a GET /me will tell of it.
LEMMA CarryOutTruth ==
  ASSUME IInv, NEW l \in late, CarryOut(l)
  PROVE  TruthInv'
<1>1. UNCHANGED <<flight, isLoading>> /\ (isLoading <=> flight["load"].pc # "idle")
  BY DEF CarryOut, tab, IInv
<1>2. past' = {} => flight["load"].pc = "sent" /\ flight["confirm"].pc = "idle"
  BY DEF CarryOut, Idle
<1> QED
  BY <1>1, <1>2 DEF TruthInv, Truth, ConfirmFits, Given

\* A removal that was carried out and is sent again is still to be answered.
LEMMA ResendTruth ==
  ASSUME IInv, TruthInv, NEW k \in Kinds, Resend(k)
  PROVE  TruthInv'
<1>1. UNCHANGED <<email, cookie, user, isLoading, past>> /\ {"load", "confirm", "remove"} \subseteq Kinds
  BY DEF Resend, tab, Kinds
<1> SUFFICES ASSUME past = {} PROVE Truth(email, cookie, user, isLoading, flight')
  BY <1>1 DEF TruthInv
<1>2. Truth(email, cookie, user, isLoading, flight) /\ flight'["confirm"] = flight["confirm"]
  BY <1>1, Resent DEF TruthInv
<1>3. CASE k = "load"
  BY <1>2, <1>3, Resent, Facts DEF Truth, ConfirmFits, Given
<1>4. CASE k = "remove"
  <2>1. flight'["load"] = flight["load"]
    BY <1>1, <1>4, Resent
  <2>2. \A x : Told(x, email, cookie, flight) => Told(x, email, cookie, flight')
    BY <1>2, <1>4, Resent DEF Told, Gone
  <2> QED
    BY <1>2, <2>1, <2>2 DEF Truth, ConfirmFits
<1> QED
  BY <1>3, <1>4, Resent

LEMMA ServeTruth ==
  ASSUME IInv, TruthInv, NEW k \in Kinds, Serve(k)
  PROVE  TruthInv'
<1> DEFINE u == flight[k].as
<1>1. SUFFICES ASSUME past = {}, Truth(email, cookie, user, isLoading, flight),
                      UNCHANGED <<cookie, user, isLoading>>
               PROVE  Truth(email', cookie, user, isLoading, flight')
  BY DEF Serve, Served, TruthInv, tab
<1>2. /\ flight \in [Kinds -> Flight] /\ email \in [Users -> Emails \cup {None}]
      /\ cookie \in Users \cup {None} /\ u \in Users \cup {None}
      /\ Telling \subseteq Kinds /\ flight[k].pc = "sent" /\ isLoading \in BOOLEAN
  BY Facts DEF Serve, Telling
<1>3. ASSUME NEW pc, NEW answer, Served(k, pc, answer)
      PROVE  /\ flight'[k].pc = pc /\ flight'[k].answer = answer /\ flight'[k].as = u
             /\ \A j \in Kinds \ {k} : flight'[j] = flight[j]
  BY <1>2, <1>3 DEF Served, Flight
<1>4. CASE k = "load"
  <2>1. isLoading /\ u = cookie
    BY <1>1, <1>2, <1>4, Facts DEF IInv, SameSession, Undisturbed
  <2>2. CASE /\ HasUser(u) /\ UNCHANGED email
             /\ Served(k, "ok", [id |-> u, email |-> email[u]])
    <3> DEFINE me == [id |-> u, email |-> email[u]]
    <3>1. u \in Users /\ me \in Me /\ me.id = u /\ me.email = email[u] /\ email[u] # None
      BY <1>2, <2>2 DEF HasUser, Me
    <3>2. me # None
      BY <3>1, NoneAssumption
    <3>3. /\ flight'["load"].answer = me /\ flight'["load"].pc = "ok"
          /\ flight'["confirm"] = flight["confirm"]
      BY <1>2, <1>3, <1>4, <2>2 DEF Telling
    <3> HIDE DEF me
    <3>4. Told(me, email, cookie, flight')
      BY <2>1, <3>1, <3>2 DEF Told
    <3> QED
      BY <1>1, <2>1, <2>2, <3>3, <3>4 DEF Truth, ConfirmFits
  <2>3. CASE ~HasUser(u) /\ UNCHANGED email /\ Served(k, "refused", None)
    <3>1. flight'["load"].answer = None /\ flight'["confirm"] = flight["confirm"]
      BY <1>2, <1>3, <1>4, <2>3 DEF Telling
    <3>2. Told(None, email, cookie, flight')
      BY <2>1, <2>3 DEF Told, HasUser
    <3> QED
      BY <1>1, <2>1, <2>3, <3>1, <3>2 DEF Truth, ConfirmFits
  <2> QED
    BY <1>4, <2>2, <2>3 DEF Serve
<1>5. CASE k = "confirm"
  <2>1. CASE UNCHANGED email /\ Served(k, "refused", None)
    <3>1. /\ flight'["confirm"].pc = "refused" /\ flight["confirm"].pc = "sent"
          /\ flight'["load"] = flight["load"] /\ flight'["remove"] = flight["remove"]
      BY <1>2, <1>3, <1>5, <2>1 DEF Telling
    <3>2. \A x : Told(x, email, cookie, flight) => Told(x, email, cookie, flight')
      BY <3>1 DEF Told
    <3> QED
      BY <1>1, <2>1, <3>1, <3>2 DEF Truth, ConfirmFits
  <2>2. CASE /\ HasUser(u) /\ email[u] < MaxChanges /\ email' = Changed(u)
             /\ Served(k, "ok", [id |-> u, email |-> email[u] + 1])
    <3> DEFINE me == [id |-> u, email |-> email[u] + 1]
    <3>1. u \in Users /\ email[u] \in Nat /\ email[u] + 1 \in Emails
      BY <1>2, <2>2, OneMore DEF HasUser, Emails, IInv
    <3>2. me \in Me /\ me.email = email[u] + 1 /\ me # None /\ email[u] + 1 # None
      BY <3>1, NoneAssumption DEF Me
    <3>3. /\ email'[u] = email[u] + 1 /\ email[u] # None
          /\ \A v \in Users \ {u} : email'[v] = email[v]
      BY <1>2, <2>2, <3>1 DEF Changed, HasUser
    <3>4. /\ flight'["confirm"].pc = "ok" /\ flight["confirm"].pc = "sent"
          /\ flight'["confirm"].as = u /\ flight'["confirm"].answer = me
          /\ flight'["load"] = flight["load"] /\ flight'["remove"] = flight["remove"]
      BY <1>2, <1>3, <1>5, <2>2 DEF Telling
    <3> HIDE DEF u, me
    <3>5. ConfirmFits(email', flight')
      BY <3>1, <3>2, <3>3, <3>4 DEF ConfirmFits
    <3>6. \A x : Told(x, email, cookie, flight) => Told(x, email', cookie, flight')
      BY <1>2, <3>1, <3>2, <3>3, <3>4 DEF Told
    <3> QED
      BY <1>1, <3>4, <3>5, <3>6 DEF Truth
  <2> QED
    BY <1>5, <2>1, <2>2 DEF Serve
<1>6. CASE k = "remove"
  <2>1. CASE u = None /\ UNCHANGED email /\ Served(k, "refused", None)
    <3>1. /\ flight'["remove"].pc = "refused" /\ flight["remove"].pc = "sent"
          /\ flight'["load"] = flight["load"] /\ flight'["confirm"] = flight["confirm"]
      BY <1>2, <1>3, <1>6, <2>1 DEF Telling
    <3>2. \A x : Told(x, email, cookie, flight) => Told(x, email, cookie, flight')
      BY <1>6, <2>1, <3>1, NoneAssumption DEF Told
    <3> QED
      BY <1>1, <2>1, <3>1, <3>2 DEF Truth, ConfirmFits
  <2>2. CASE u # None /\ email' = [email EXCEPT ![u] = None] /\ Served(k, "ok", None)
    <3>1. /\ flight'["remove"].pc = "ok" /\ flight["remove"].pc = "sent"
          /\ flight'["remove"].as = u /\ flight["remove"].as = u
          /\ flight'["load"] = flight["load"] /\ flight'["confirm"] = flight["confirm"]
      BY <1>2, <1>3, <1>6, <2>2 DEF Telling
    <3>2. u \in Users /\ email'[u] = None /\ \A v \in Users \ {u} : email'[v] = email[v]
      BY <1>2, <2>2
    <3> HIDE DEF u
    <3>3. ConfirmFits(email', flight')
      BY <1>1, <3>1, <3>2 DEF Truth, ConfirmFits
    <3>4. \A x : Told(x, email, cookie, flight) => Told(x, email', cookie, flight')
      BY <1>2, <3>1, <3>2 DEF Told, Gone
    <3> QED
      BY <1>1, <3>1, <3>3, <3>4 DEF Truth
  <2> QED
    BY <1>6, <2>1, <2>2 DEF Serve
<1>7. CASE k \notin Telling
  <2>1. UNCHANGED email /\ \E pc, answer : Served(k, pc, answer)
    BY <1>7 DEF Serve, Telling
  <2>2. \A j \in Telling : flight'[j] = flight[j]
    BY <1>2, <1>3, <1>7, <2>1
  <2>3. Alike(flight', flight)
    BY <2>2 DEF Alike, Telling
  <2> QED
    BY <1>1, <1>2, <2>1, <2>3, AlikeTruth
<1> QED
  BY <1>4, <1>5, <1>6, <1>7 DEF Telling

\* The answer to k is taken off the wire.
LEMMA TakenOff ==
  ASSUME IInv, NEW k \in Kinds, NEW gs, Alike(gs, Answered(k))
  PROVE  /\ \A j \in Telling \ {k} : /\ gs[j].pc = "ok" <=> flight[j].pc = "ok"
                                     /\ Given(gs[j]) <=> Given(flight[j])
                                     /\ Given(flight[j]) => /\ gs[j].pc = flight[j].pc
                                                            /\ gs[j].as = flight[j].as
                                                            /\ gs[j].answer = flight[j].answer
         /\ k \in Telling => ~Given(gs[k]) /\ gs[k].pc # "ok"
         /\ k # "remove" /\ Gone(flight["remove"]) =>
              Gone(gs["remove"]) /\ gs["remove"].as = flight["remove"].as
<1>1. Telling \subseteq Kinds
  BY Facts DEF Telling
<1>2. (\A j \in Kinds \ {k} : Answered(k)[j] = flight[j]) /\ Answered(k)[k].pc = "idle"
  BY Answering
<1> QED
  BY <1>1, <1>2 DEF Alike, Given, Telling

LEMMA StillFits ==
  ASSUME IInv, NEW k \in Kinds, NEW gs, Alike(gs, Answered(k)), ConfirmFits(email, flight)
  PROVE  ConfirmFits(email, gs)
<1>1. CASE k = "confirm"
  <2>1. gs["confirm"].pc # "ok"
    BY <1>1, TakenOff DEF Telling
  <2> QED
    BY <2>1 DEF ConfirmFits
<1>2. CASE k # "confirm"
  <2>1. "confirm" \in Telling \ {k}
    BY <1>2 DEF Telling
  <2>2. gs["confirm"].pc = "ok" => /\ flight["confirm"].pc = "ok"
                                   /\ gs["confirm"].as = flight["confirm"].as
                                   /\ gs["confirm"].answer = flight["confirm"].answer
    BY <2>1, TakenOff DEF Given
  <2> QED
    BY <2>2 DEF ConfirmFits
<1> QED
  BY <1>1, <1>2

LEMMA SucceedTruth ==
  ASSUME IInv, TruthInv, NEW k \in Kinds, Succeed(k)
  PROVE  TruthInv'
<1>1. /\ flight[k].pc = "ok" /\ flight \in [Kinds -> Flight] /\ isLoading \in BOOLEAN
      /\ cookie \in Users \cup {None} /\ user \in Me \cup {None}
      /\ Kinds = Telling \cup {"verify", "send code", "request", "sign out"}
      /\ "verify" \notin Telling /\ "sign out" \notin Telling
  BY Facts DEF Succeed, Telling
<1>2. Answered(k) \in [Kinds -> Flight]
  BY Answering
<1>3. ASSUME Alike(flight', Answered(k)), past = {}
      PROVE  ConfirmFits(email, flight')
  BY <1>3, StillFits DEF TruthInv, Truth
<1>4. CASE k = "load"
  <2>1. /\ user' = flight["load"].answer /\ isLoading' = FALSE /\ UNCHANGED <<email, cookie, past>>
        /\ Alike(flight', Answered("load"))
    BY <1>2, <1>4, AlikeRender DEF Succeed, Loaded
  <2>2. isLoading /\ Given(flight["load"])
    BY <1>1, <1>4, Facts DEF Given
  <2>3. \A x : Told(x, email, cookie, flight) => Told(x, email, cookie, flight')
    BY <1>4, <2>1, TakenOff DEF Told, Telling, Given
  <2>4. past = {} => ConfirmFits(email, flight') /\ Told(user', email, cookie, flight')
    BY <1>3, <1>4, <2>1, <2>2, <2>3 DEF TruthInv, Truth
  <2> QED
    BY <2>1, <2>4 DEF TruthInv, Truth
<1>5. CASE k = "verify"
  <2> DEFINE fs == [Answered("verify") EXCEPT !["load"] = SentAs(cookie')]
  <2>1. /\ past' = (IF Idle("confirm") THEN {} ELSE past) /\ UNCHANGED email
        /\ isLoading' = TRUE /\ cookie' \in Users \cup {None} /\ Render(page, ui, fs)
    BY <1>1, <1>5, Facts DEF Succeed, Verified, LoadUser
  <2>2. SentAs(cookie') \in Flight /\ SentAs(cookie').pc = "sent"
    BY <2>1, Sent
  <2>3. fs \in [Kinds -> Flight] /\ fs["load"].pc = "sent" /\ fs["confirm"] = flight["confirm"]
    BY <1>1, <1>5, <2>2, Answering DEF Telling
  <2> HIDE DEF fs
  <2>4. Alike(flight', fs)
    BY <2>1, <2>3, AlikeRender
  <2>5. past' = {} => ConfirmFits(email, fs)
    <3>1. CASE Idle("confirm")
      BY <2>3, <3>1 DEF ConfirmFits, Idle
    <3>2. CASE ~Idle("confirm")
      BY <2>1, <2>3, <3>2 DEF TruthInv, Truth, ConfirmFits
    <3> QED
      BY <3>1, <3>2
  <2>6. ~Given(fs["load"]) /\ fs["load"].pc # "refused"
    BY <2>3 DEF Given
  <2>7. past' = {} => Truth(email', cookie', user', isLoading', fs)
    BY <2>1, <2>5, <2>6 DEF Truth
  <2> QED
    BY <2>1, <2>4, <2>7, AlikeTruth DEF TruthInv
<1>6. CASE k \in {"send code", "request"}
  <2>1. /\ UNCHANGED <<user, past, email, cookie, isLoading>>
        /\ Alike(flight', Answered(k))
    BY <1>2, <1>6, AlikeRender DEF Succeed, CodeSent, ChangeRequested, NextStep
  <2>2. \A j \in Telling : Answered(k)[j] = flight[j]
    BY <1>1, <1>6, Answering DEF Telling
  <2>3. Alike(Answered(k), flight)
    BY <2>2 DEF Alike, Telling
  <2> SUFFICES ASSUME past = {} PROVE Truth(email, cookie, user, isLoading, flight')
    BY <2>1 DEF TruthInv
  <2>4. Truth(email, cookie, user, isLoading, flight)
    BY DEF TruthInv
  <2>5. Truth(email, cookie, user, isLoading, Answered(k))
    BY <1>1, <2>3, <2>4, AlikeTruth
  <2> QED
    BY <1>1, <2>1, <2>5, AlikeTruth
<1>7. CASE k = "confirm"
  <2>1. /\ user' = flight["confirm"].answer /\ UNCHANGED <<email, cookie, isLoading>>
        /\ past' = (IF Late("confirm") THEN past \cup {"session"} ELSE past)
        /\ Alike(flight', Answered("confirm"))
    BY <1>2, <1>7, AlikeRender DEF Succeed, ChangeConfirmed, SetUpdated, NextStep
  <2> SUFFICES ASSUME past' = {} PROVE Truth(email, cookie, user', isLoading, flight')
    BY <2>1 DEF TruthInv
  <2>2. past = {} /\ ~Late("confirm") /\ Truth(email, cookie, user, isLoading, flight)
    BY <2>1 DEF TruthInv
  <2>3. ~isLoading /\ user # None /\ user.id = flight["confirm"].as
    BY <2>2, Facts DEF Late, Idle
  <2>4. /\ user' # None /\ flight["confirm"].as \in Users
        /\ email[flight["confirm"].as] \in {None, user'.email}
    BY <1>1, <1>7, <2>1, <2>2 DEF Truth, ConfirmFits
  <2>5. user'.id = flight["confirm"].as
    BY <2>1, <2>4 DEF IInv, AnswersFit
  <2>6. Told(user, email, cookie, flight)
    BY <2>2, <2>3 DEF Truth
  <2>7. Told(user', email, cookie, flight')
    <3>1. cookie = user'.id /\ cookie \in Users
      BY <2>3, <2>5, <2>6 DEF Told
    <3>2. email[cookie] = None => Gone(flight'["remove"]) /\ flight'["remove"].as = cookie
      <4>1. email[cookie] = None => Gone(flight["remove"]) /\ flight["remove"].as = cookie
        BY <2>3, <2>6 DEF Told
      <4> DEFINE gs == flight'
      <4>2. Alike(gs, Answered("confirm")) /\ "confirm" \in Kinds
        BY <2>1 DEF Kinds
      <4> HIDE DEF gs
      <4>3. Gone(flight["remove"]) => Gone(gs["remove"]) /\ gs["remove"].as = flight["remove"].as
        BY <4>2, TakenOff
      <4> QED
        BY <4>1, <4>3 DEF gs
    <3> QED
      BY <2>4, <2>5, <3>1, <3>2 DEF Told
  <2> QED
    BY <1>3, <1>7, <2>1, <2>2, <2>3, <2>7 DEF Truth
<1>8. CASE k \in {"sign out", "remove"}
  <2>1. /\ cookie' = None /\ user' = None /\ UNCHANGED <<email, isLoading>>
        /\ past' = (IF Late(k) THEN past \cup {"session"} ELSE past)
        /\ Alike(flight', Answered(k))
    BY <1>2, <1>8, AlikeRender DEF Succeed, SignedOut, AccountRemoved, Ended, ForgetUser
  <2> SUFFICES ASSUME past' = {} PROVE Truth(email, cookie', user', isLoading, flight')
    BY <2>1 DEF TruthInv
  <2>2. past = {} /\ ~Late(k)
    BY <2>1
  <2>3. ~isLoading
    BY <2>2, Facts DEF Late, Idle
  <2> QED
    BY <1>3, <2>1, <2>2, <2>3 DEF Truth, Told
<1> QED
  BY <1>1, <1>4, <1>5, <1>6, <1>7, <1>8 DEF Telling

LEMMA FailTruth ==
  ASSUME IInv, TruthInv, NEW k \in Kinds, Fail(k)
  PROVE  TruthInv'
<1>1. /\ flight[k].pc # "idle" /\ UNCHANGED <<email, cookie>>
      /\ IF k = "load" THEN user' = None /\ isLoading' = FALSE ELSE UNCHANGED <<user, isLoading>>
      /\ Alike(flight', Answered(k))
      /\ past' = {} => /\ past = {} /\ (k = "load" => flight[k].pc = "refused")
                       /\ k \in {"confirm", "remove"} => flight[k].pc # "ok"
                       /\ ~flight[k].applied
  <2>1. Answered(k) \in [Kinds -> Flight]
    BY Answering
  <2> QED
    BY <2>1, AlikeRender DEF Fail, LoadFailed
<1> SUFFICES ASSUME past' = {} PROVE Truth(email, cookie, user', isLoading', flight')
  BY <1>1 DEF TruthInv
<1>2. /\ past = {} /\ Truth(email, cookie, user, isLoading, flight)
      /\ (k = "load" => flight[k].pc = "refused") /\ (k \in {"confirm", "remove"} => flight[k].pc # "ok")
      /\ ~flight[k].applied
  BY <1>1 DEF TruthInv
<1>3. ConfirmFits(email, flight')
  BY <1>1, <1>2, StillFits DEF Truth
<1>4. \A x : Told(x, email, cookie, flight) => Told(x, email, cookie, flight')
  BY <1>1, <1>2, TakenOff DEF Told, Telling, Given, Gone
<1>5. CASE k = "load"
  <2>1. isLoading /\ Given(flight["load"])
    BY <1>2, <1>5, Facts DEF Given
  <2>2. flight["load"].answer = None
    BY <1>2, <1>5, <2>1 DEF Truth
  <2> QED
    BY <1>1, <1>2, <1>3, <1>4, <1>5, <2>1, <2>2 DEF Truth
<1>6. CASE k # "load"
  <2>1. /\ Given(flight'["load"]) <=> Given(flight["load"])
        /\ Given(flight["load"]) => /\ flight'["load"].answer = flight["load"].answer
                                    /\ flight'["load"].pc = flight["load"].pc
    BY <1>1, <1>6, TakenOff DEF Telling
  <2> QED
    BY <1>1, <1>2, <1>3, <1>4, <1>6, <2>1 DEF Truth, Given
<1> QED
  BY <1>5, <1>6

LEMMA InitTruth ==
  ASSUME Init
  PROVE  TruthInv
<1>1. isLoading = TRUE /\ flight["load"].pc = "sent" /\ flight["confirm"].pc = "idle"
  BY DEF Init, Kinds, SentAs, NoFlight
<1> QED
  BY <1>1 DEF TruthInv, Truth, ConfirmFits, Given

LEMMA NextTruth ==
  ASSUME IInv, TruthInv, [Next]_vars
  PROVE  TruthInv'
<1>1. CASE UNCHANGED vars
  <2>1. UNCHANGED <<email, cookie, user, isLoading, flight, past>>
    BY <1>1 DEF vars, tab
  <2> QED
    BY <2>1 DEF TruthInv
<1>2. ASSUME NEW k \in Kinds, Answer(k) PROVE TruthInv'
  BY <1>2, ServeTruth, SucceedTruth, FailTruth DEF Answer
<1> QED
  BY <1>1, <1>2, ClickTruth, OtherTabTruth, CarryOutTruth, ResendTruth DEF Next

\* When nothing is on the wire the tab shows the account of its cookie as the
\* API has it, or the login page, unless one of the named causes came in between:
\* another tab, an expired session, a failed GET /me, a lost or late answer, or a
\* request carried out after the tab gave it up (useLoadUser.ts,
\* useConfirmEmailChange.ts, useDeleteAccount.ts): for any number of users, address
\* changes, reloads and repeated requests.
THEOREM TheTabKnows == Spec => []TabKnowsTheSession
<1>1. Init => IInv /\ TruthInv
  BY InitInv, InitTruth
<1>2. IInv /\ TruthInv /\ [Next]_vars => IInv' /\ TruthInv'
  BY NextInv, NextTruth
<1>3. IInv /\ TruthInv => TabKnowsTheSession
  <2> SUFFICES ASSUME IInv, TruthInv, AllIdle, past = {}
               PROVE  IF HasUser(cookie) THEN user = [id |-> cookie, email |-> email[cookie]]
                                         ELSE user = None
    BY DEF TabKnowsTheSession
  <2>1. flight["load"].pc = "idle" /\ flight["confirm"].pc = "idle" /\ flight["remove"].pc = "idle"
    BY DEF AllIdle, Idle, Kinds
  <2>2. Told(user, email, cookie, flight) /\ user \in Me \cup {None}
    BY <2>1, Facts DEF TruthInv, Truth
  <2>3. CASE user = None
    BY <2>2, <2>3 DEF Told, HasUser
  <2>4. CASE user # None
    <3>1. /\ user.id = cookie /\ cookie \in Users /\ email[cookie] # None
          /\ user.email = email[cookie]
      BY <2>1, <2>2, <2>4 DEF Told, Gone
    <3>2. user = [id |-> user.id, email |-> user.email] /\ cookie # None
      BY <2>2, <2>4, <3>1, NoneAssumption DEF Me
    <3> QED
      BY <3>1, <3>2 DEF HasUser
  <2> QED
    BY <2>3, <2>4
<1> QED
  BY <1>1, <1>2, <1>3, PTL DEF Spec
=============================================================================
