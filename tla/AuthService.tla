----------------------------- MODULE AuthService -----------------------------
(***************************************************************************)
(* apps/api/src/services/auth.service.ts as served by routes/auth.routes:  *)
(* passwordless login, email change and account deletion. Each HTTP        *)
(* request is a process; each action is one awaited database statement of  *)
(* its handler (or the awaited mail), because any other request can run at *)
(* every await. The arrival of a request is merged with its first          *)
(* statement, before which the handler reads nothing shared.               *)
(***************************************************************************)
EXTENDS AuthRepository

CONSTANTS
  Seed,  \* the users table at the start, [UserIds -> Emails \cup {None}]
  Ops    \* the operations clients issue in this instance

AllOps == {"login", "verify", "request", "confirm", "delete", "me"}

ASSUME SeedAssumption ==
  /\ Seed \in [UserIds -> Emails \cup {None}]
  /\ \A u, v \in UserIds : Seed[u] = Seed[v] /\ Seed[u] # None => u = v
ASSUME OpsAssumption == Ops \subseteq AllOps

VARIABLES
  users,         \* table users
  everUsed,      \* ids drawn so far: randomUUID never repeats one
  authTokens,    \* table auth_tokens
  emailTokens,   \* table email_change_tokens
  sessions,      \* users for whom a session JWT has been signed
  req            \* the requests

vars == <<users, everUsed, authTokens, emailTokens, sessions, req>>
tables == <<users, everUsed, authTokens, emailTokens, sessions>>

(***************************************************************************)
(* A request. user, email and code are the handler's locals. after, missed *)
(* and hit are history: the requests answered before this one reached its  *)
(* first statement, the codes it was judged a wrong answer for, and the    *)
(* code it redeemed. Outcomes name the response: "ok" 200, "invalid" and   *)
(* "bad" 400, "unauthorized" 401, "conflict" 409, "error" 500, "lost": the *)
(* process or its connection died and the client got nothing it can use.   *)
(***************************************************************************)
Pcs == {"idle", "prune", "insert", "mail", "consume", "bump",
        "taken", "recheck", "swap", "wipe", "done"}
Outcomes == {"none", "ok", "invalid", "bad", "unauthorized", "conflict", "error", "lost"}

Request == [op      : AllOps \cup {"none"},
            pc      : Pcs,
            user    : UserIds \cup {None},
            email   : Emails \cup {None},
            code    : Codes \cup {None},
            outcome : Outcomes,
            after   : SUBSET Requests,
            missed  : SUBSET (Requests \cup {None}),
            hit     : Requests \cup {None}]

Idle == [op |-> "none", pc |-> "idle", user |-> None, email |-> None,
         code |-> None, outcome |-> "none", after |-> {}, missed |-> {}, hit |-> None]

Answered == {r \in Requests : req[r].pc = "done"}
At(r, op, pc) == req[r].op = op /\ req[r].pc = pc

\* The locals with which request r starts.
Start(r, op, u, e, c) ==
  [Idle EXCEPT !.op = op, !.user = u, !.email = e, !.code = c, !.after = Answered]
CanStart(r, op) == op \in Ops /\ req[r].pc = "idle"

Continue(r, locals, pc) == req' = [req EXCEPT ![r] = [locals EXCEPT !.pc = pc]]
Respond(r, locals, outcome) ==
  req' = [req EXCEPT ![r] = [locals EXCEPT !.pc = "done", !.outcome = outcome]]

Init ==
  /\ users = Seed
  /\ everUsed = {u \in UserIds : Seed[u] # None}
  /\ authTokens = [h \in LoginHashes |-> NoRow]
  /\ emailTokens = [h \in ChangeHashes |-> NoRow]
  /\ sessions = {u \in UserIds : Seed[u] # None}
  /\ req = [r \in Requests |-> Idle]

-----------------------------------------------------------------------------
(* POST /login: initiateLogin *)

\* getOrCreateUser: the upsert returns the row of the address, new or not.
LoginUpsert(r, e, u) ==
  /\ CanStart(r, "login")
  /\ \/ users[u] = e /\ UNCHANGED <<users, everUsed>>
     \/ /\ u \notin everUsed
        /\ \A v \in UserIds : users[v] # e
        /\ users' = [users EXCEPT ![u] = e]
        /\ everUsed' = everUsed \cup {u}
  /\ Continue(r, Start(r, "login", u, e, None), "prune")
  /\ UNCHANGED <<authTokens, emailTokens, sessions>>

LoginPrune(r) ==
  /\ At(r, "login", "prune")
  /\ authTokens' = DeleteLiveTokens(authTokens, req[r].user)
  /\ Continue(r, req[r], "insert")
  /\ UNCHANGED <<users, everUsed, emailTokens, sessions>>

\* generateCode and createToken; a failing INSERT is an unhandled 500.
LoginInsert(r, c) ==
  LET u == req[r].user
      h == HashCode(u, c)
  IN /\ At(r, "login", "insert")
     /\ \/ /\ CanCreate(authTokens, users, u, h)
           /\ authTokens' = CreateToken(authTokens, h, FreshRow(u, None, r))
           /\ Continue(r, [req[r] EXCEPT !.code = c], "mail")
        \/ /\ ~CanCreate(authTokens, users, u, h)
           /\ Respond(r, req[r], "error")
           /\ UNCHANGED authTokens
     /\ UNCHANGED <<users, everUsed, emailTokens, sessions>>

\* sendLoginCode, sent or not: a mail error is swallowed and the answer is 200.
LoginMail(r) ==
  /\ At(r, "login", "mail")
  /\ Respond(r, req[r], "ok")
  /\ UNCHANGED tables

(* POST /verify: verifyCode *)

VerifyFind(r, e, c) ==
  /\ CanStart(r, "verify")
  /\ \/ \E u \in UserIds :
          /\ users[u] = e
          /\ Continue(r, Start(r, "verify", u, e, c), "consume")
     \/ /\ \A u \in UserIds : users[u] # e
        /\ Respond(r, Start(r, "verify", None, e, c), "invalid")
  /\ UNCHANGED tables

\* The atomic UPDATE; on a hit the route signs the session for the row's user.
VerifyConsume(r) ==
  LET u == req[r].user
      h == HashCode(u, req[r].code)
      row == authTokens[h]
  IN /\ At(r, "verify", "consume")
     /\ \/ /\ Redeemable(row, MaxAttempts)
           /\ authTokens' = ConsumeToken(authTokens, h)
           /\ sessions' = sessions \cup {row.userId}
           /\ Respond(r, [req[r] EXCEPT !.hit = row.by], "ok")
        \/ /\ ~Redeemable(row, MaxAttempts)
           /\ Continue(r, [req[r] EXCEPT !.missed = OpenCodes(authTokens, u)], "bump")
           /\ UNCHANGED <<authTokens, sessions>>
     /\ UNCHANGED <<users, everUsed, emailTokens>>

VerifyBump(r) ==
  /\ At(r, "verify", "bump")
  /\ authTokens' = IncrementLiveAttempts(authTokens, req[r].user)
  /\ Respond(r, req[r], "invalid")
  /\ UNCHANGED <<users, everUsed, emailTokens, sessions>>

(* POST /me/email/request: requestEmailChange *)

RequestLoad(r, u, e) ==
  LET locals == Start(r, "request", u, e, None)
  IN /\ CanStart(r, "request")
     /\ u \in sessions
     /\ \/ users[u] = None /\ Respond(r, locals, "unauthorized")
        \/ users[u] = e /\ Respond(r, locals, "bad")
        \/ users[u] \notin {None, e} /\ Continue(r, locals, "taken")
     /\ UNCHANGED tables

RequestTaken(r) ==
  /\ At(r, "request", "taken")
  /\ IF EmailTakenByOther(users, req[r].email, req[r].user)
     THEN Respond(r, req[r], "conflict")
     ELSE Continue(r, req[r], "prune")
  /\ UNCHANGED tables

RequestPrune(r) ==
  /\ At(r, "request", "prune")
  /\ emailTokens' = DeleteLiveTokens(emailTokens, req[r].user)
  /\ Continue(r, req[r], "insert")
  /\ UNCHANGED <<users, everUsed, authTokens, sessions>>

RequestInsert(r, c) ==
  LET u == req[r].user
      e == req[r].email
      h == HashEmailChangeCode(u, e, c)
  IN /\ At(r, "request", "insert")
     /\ \/ /\ CanCreate(emailTokens, users, u, h)
           /\ emailTokens' = CreateToken(emailTokens, h, FreshRow(u, e, r))
           /\ Continue(r, [req[r] EXCEPT !.code = c], "mail")
        \/ /\ ~CanCreate(emailTokens, users, u, h)
           /\ Respond(r, req[r], "error")
           /\ UNCHANGED emailTokens
     /\ UNCHANGED <<users, everUsed, authTokens, sessions>>

RequestMail(r) ==
  /\ At(r, "request", "mail")
  /\ Respond(r, req[r], "ok")
  /\ UNCHANGED tables

(* POST /me/email/confirm: confirmEmailChange *)

\* On a hit the handler goes on with the address stored in the row.
ConfirmConsume(r, u, e, c) ==
  LET locals == Start(r, "confirm", u, e, c)
      h == HashEmailChangeCode(u, e, c)
      row == emailTokens[h]
      found == Redeemable(row, MaxAttempts) /\ row.userId = u
  IN /\ CanStart(r, "confirm")
     /\ u \in sessions
     /\ \/ /\ found
           /\ emailTokens' = ConsumeToken(emailTokens, h)
           /\ Continue(r, [locals EXCEPT !.hit = row.by, !.email = row.newEmail], "recheck")
        \/ /\ ~found
           /\ Continue(r, [locals EXCEPT !.missed = OpenCodes(emailTokens, u)], "bump")
           /\ UNCHANGED emailTokens
     /\ UNCHANGED <<users, everUsed, authTokens, sessions>>

ConfirmBump(r) ==
  /\ At(r, "confirm", "bump")
  /\ emailTokens' = IncrementLiveAttempts(emailTokens, req[r].user)
  /\ Respond(r, req[r], "invalid")
  /\ UNCHANGED <<users, everUsed, authTokens, sessions>>

ConfirmRecheck(r) ==
  /\ At(r, "confirm", "recheck")
  /\ IF EmailTakenByOther(users, req[r].email, req[r].user)
     THEN Respond(r, req[r], "conflict")
     ELSE Continue(r, req[r], "swap")
  /\ UNCHANGED tables

\* setUserEmail: no row updated is a 500, and so is a unique violation.
ConfirmSwap(r) ==
  LET u == req[r].user
      e == req[r].email
  IN /\ At(r, "confirm", "swap")
     /\ \/ /\ users[u] # None
           /\ ~EmailTakenByOther(users, e, u)
           /\ users' = [users EXCEPT ![u] = e]
           /\ Continue(r, req[r], "wipe")
        \/ /\ users[u] = None \/ EmailTakenByOther(users, e, u)
           /\ Respond(r, req[r], "error")
           /\ UNCHANGED users
     /\ UNCHANGED <<everUsed, authTokens, emailTokens, sessions>>

\* Defect: the login codes of the old address are left alone.
ConfirmWithoutWipe(r) ==
  At(r, "confirm", "wipe") /\ Respond(r, req[r], "ok") /\ UNCHANGED tables

ConfirmWipe(r) ==
  /\ At(r, "confirm", "wipe")
  /\ authTokens' = DeleteLiveTokens(authTokens, req[r].user)
  /\ Respond(r, req[r], "ok")
  /\ UNCHANGED <<users, everUsed, emailTokens, sessions>>

(* DELETE /me and GET /me *)

DeleteAccount(r, u) ==
  /\ CanStart(r, "delete")
  /\ u \in sessions
  /\ users' = [users EXCEPT ![u] = None]
  /\ authTokens' = CascadeUser(authTokens, u)
  /\ emailTokens' = CascadeUser(emailTokens, u)
  /\ Respond(r, Start(r, "delete", u, None, None), "ok")
  /\ UNCHANGED <<everUsed, sessions>>

GetCurrentUser(r, u) ==
  /\ CanStart(r, "me")
  /\ u \in sessions
  /\ Respond(r, Start(r, "me", u, None, None),
             IF users[u] = None THEN "unauthorized" ELSE "ok")
  /\ UNCHANGED tables

-----------------------------------------------------------------------------
(* The environment *)

ExpireLogin(h) ==
  /\ authTokens[h].state = "live" /\ ~authTokens[h].expired
  /\ authTokens' = ExpireToken(authTokens, h)
  /\ UNCHANGED <<users, everUsed, emailTokens, sessions, req>>

ExpireChange(h) ==
  /\ emailTokens[h].state = "live" /\ ~emailTokens[h].expired
  /\ emailTokens' = ExpireToken(emailTokens, h)
  /\ UNCHANGED <<users, everUsed, authTokens, sessions, req>>

\* The process or its database connection dies between two statements.
Crash(r) ==
  /\ req[r].pc \notin {"idle", "done"}
  /\ Respond(r, req[r], "lost")
  /\ UNCHANGED tables

Login(r) ==
  \/ \E e \in Emails, u \in UserIds : LoginUpsert(r, e, u)
  \/ LoginPrune(r)
  \/ \E c \in Codes : LoginInsert(r, c)
  \/ LoginMail(r)

Verify(r) ==
  \/ \E e \in Emails, c \in Codes : VerifyFind(r, e, c)
  \/ VerifyConsume(r)
  \/ VerifyBump(r)

RequestChange(r) ==
  \/ \E u \in UserIds, e \in Emails : RequestLoad(r, u, e)
  \/ RequestTaken(r)
  \/ RequestPrune(r)
  \/ \E c \in Codes : RequestInsert(r, c)
  \/ RequestMail(r)

ConfirmChange(r) ==
  \/ \E u \in UserIds, e \in Emails, c \in Codes : ConfirmConsume(r, u, e, c)
  \/ ConfirmBump(r)
  \/ ConfirmRecheck(r)
  \/ ConfirmSwap(r)
  \/ ConfirmWipe(r)

Account(r) == \E u \in UserIds : DeleteAccount(r, u) \/ GetCurrentUser(r, u)

Expire ==
  \/ \E h \in LoginHashes : ExpireLogin(h)
  \/ \E h \in ChangeHashes : ExpireChange(h)

Next ==
  \/ \E r \in Requests :
       Login(r) \/ Verify(r) \/ RequestChange(r) \/ ConfirmChange(r) \/ Account(r) \/ Crash(r)
  \/ Expire

Spec == Init /\ [][Next]_vars

-----------------------------------------------------------------------------
(* Properties *)

\* The tables and the handlers' locals have their types.
TypeOK ==
  /\ users \in [UserIds -> Emails \cup {None}]
  /\ everUsed \subseteq UserIds
  /\ authTokens \in [LoginHashes -> Row]
  /\ emailTokens \in [ChangeHashes -> Row]
  /\ sessions \subseteq UserIds
  /\ req \in [Requests -> Request]

\* A code is redeemed by at most one request, however the answers race and
\* whatever is deleted and re-issued in between: the UPDATE that consumes it
\* is atomic (consumeToken, consumeEmailChangeToken).
SingleUse ==
  \A r, s \in Requests : req[r].hit # None /\ req[r].hit = req[s].hit => r = s

\* A session or an address change is only ever obtained with a code that was
\* generated for that account, by that flow and, for a change, for that very
\* address: the binding hashCode and hashEmailChangeCode put in the digest.
RedeemsOwnCode ==
  \A r \in Requests :
    LET t == req[r].hit IN
    t # None =>
      /\ req[t].op = (IF req[r].op = "verify" THEN "login" ELSE "request")
      /\ req[t].user = req[r].user
      /\ req[t].code = req[r].code
      /\ req[r].op = "confirm" => req[t].email = req[r].email

\* Once a code has had MAX_ATTEMPTS wrong answers *answered*, no request that
\* starts later redeems it. (Wrong answers still in flight are not counted
\* yet: that the count lags behind them is why this is stated on answers.)
Misses(r, t) == {s \in req[r].after : t \in req[s].missed /\ req[s].outcome = "invalid"}
AttemptCap ==
  \A r \in Requests :
    req[r].hit # None => Cardinality(Misses(r, req[r].hit)) < MaxAttempts

\* "Re-requesting genuinely supersedes the previous code": a login request
\* that starts after another one was answered leaves the earlier code dead,
\* whatever else runs beside it. The same for the pending email change.
PastPrune(r) == req[r].pc \in {"insert", "mail"} \/ req[r].outcome = "ok"
Supersedes(t, op) ==
  \A r \in Requests : \A h \in DOMAIN t :
    /\ req[r].op = op
    /\ PastPrune(r)
    /\ Live(t[h], req[r].user)
    => t[h].by \notin req[r].after
SupersededCodeIsDead == Supersedes(authTokens, "login")
SupersededTargetIsDead == Supersedes(emailTokens, "request")

\* "Old email can no longer mint a session", for login requests answered
\* before the change was confirmed.
EarlierCodesDieWithOldEmail ==
  \A r \in Requests : \A h \in LoginHashes :
    /\ req[r].op = "confirm" /\ req[r].outcome = "ok"
    /\ Live(authTokens[h], req[r].user)
    => authTokens[h].by \notin req[r].after

\* A login code that was sent stays in the table, redeemable or already
\* redeemed, until some request for the same account that was not over
\* before it destroys it: a later or overlapping login, a confirmed change
\* of address, or the deletion of the account. Nothing else loses a code.
Destroyers(l) ==
  {r \in Requests \ {l} :
     /\ r \notin req[l].after
     /\ req[r].user = req[l].user
     /\ req[r].op \in {"login", "confirm", "delete"}}
SentCodeSurvives ==
  \A l \in Requests :
    req[l].op = "login" /\ req[l].outcome = "ok" /\ Destroyers(l) = {} =>
      LET row == authTokens[HashCode(req[l].user, req[l].code)]
      IN row.by = l /\ row.state # "none"

-----------------------------------------------------------------------------
(* The inductive invariant behind the properties above. *)

\* Request t has got its code and its row: from there on its locals are fixed.
Issued(t, op) == req[t].op = op /\ req[t].pc \in {"mail", "done"}

\* Every row carries what its creator put in the digest.
LoginRowsOK ==
  \A h \in LoginHashes : authTokens[h].state # "none" =>
    /\ authTokens[h].by \in Requests
    /\ Issued(authTokens[h].by, "login")
    /\ authTokens[h].userId = req[authTokens[h].by].user
    /\ h = HashCode(req[authTokens[h].by].user, req[authTokens[h].by].code)
ChangeRowsOK ==
  \A h \in ChangeHashes : emailTokens[h].state # "none" =>
    /\ emailTokens[h].by \in Requests
    /\ Issued(emailTokens[h].by, "request")
    /\ emailTokens[h].userId = req[emailTokens[h].by].user
    /\ emailTokens[h].newEmail = req[emailTokens[h].by].email
    /\ h = HashEmailChangeCode(req[emailTokens[h].by].user, req[emailTokens[h].by].email,
                               req[emailTokens[h].by].code)

\* What a handler holds between its statements.
LocalOK(r) ==
  /\ req[r].pc \in {"prune", "insert", "mail"} => req[r].op \in {"login", "request"}
  /\ req[r].pc = "consume" => req[r].op = "verify" /\ req[r].code \in Codes
  /\ req[r].pc \notin {"idle", "done"} => req[r].user \in UserIds
  /\ req[r].op \in {"request", "confirm"} => req[r].email \in Emails
  /\ req[r].op = "confirm" => req[r].pc \in {"bump", "recheck", "swap", "wipe", "done"}
  /\ req[r].op = "verify" /\ req[r].hit # None => req[r].pc = "done"
  /\ req[r].outcome # "none" => req[r].pc = "done"
AfterOK(r) == \A s \in req[r].after : req[s].pc = "done"

\* A redeemed code is gone or marked used, in the table it belongs to.
HitOK(r) ==
  req[r].hit # None =>
    /\ req[r].op \in {"verify", "confirm"}
    /\ req[r].hit \in Requests
    /\ Issued(req[r].hit, IF req[r].op = "verify" THEN "login" ELSE "request")
    /\ req[r].op = "verify" =>
         \A h \in LoginHashes : authTokens[h].by = req[r].hit => authTokens[h].state # "live"
    /\ req[r].op = "confirm" =>
         \A h \in ChangeHashes : emailTokens[h].by = req[r].hit => emailTokens[h].state # "live"

IInv ==
  /\ TypeOK
  /\ LoginRowsOK /\ ChangeRowsOK
  /\ \A r \in Requests : LocalOK(r) /\ AfterOK(r) /\ HitOK(r)
  /\ SingleUse /\ RedeemsOwnCode
  /\ SupersededCodeIsDead /\ SupersededTargetIsDead /\ EarlierCodesDieWithOldEmail

-----------------------------------------------------------------------------
(* What a comment promises and an overlapping request breaks *)

\* auth.service.ts:157 "Old email can no longer mint a session": once every
\* confirmation is answered, a live code was sent to the account's address.
OldEmailMintsNothing ==
  (\A r \in Requests : req[r].op = "confirm" => req[r].outcome \in {"ok", "invalid", "conflict"})
  => \A h \in LoginHashes :
       authTokens[h].state = "live" =>
         req[authTokens[h].by].email = users[authTokens[h].userId]
=============================================================================
