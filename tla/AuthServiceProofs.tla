-------------------------- MODULE AuthServiceProofs --------------------------
(***************************************************************************)
(* AuthService for every set of users, addresses, codes and requests and   *)
(* every bound on the attempts, in three parts:                            *)
(*   1. safety;                                                            *)
(*   2. AuthService implements OneTimeCode, for login codes and for        *)
(*      email-change codes;                                                *)
(*   3. the counts, for any number of requests: the attempts column is     *)
(*      never behind the wrong answers given, so the cap holds; and a      *)
(*      login code that was sent is only lost to a request of its own      *)
(*      account.                                                           *)
(***************************************************************************)
EXTENDS AuthCodes, FiniteSetTheorems, TLAPS

(***************************************************************************)
(* What one statement does to a table: every row that is there afterwards  *)
(* was there before with the same owner, address and creator, and no dead  *)
(* code comes alive, except for the row an INSERT adds.                    *)
(***************************************************************************)
Kept(old, new) ==
  /\ old.state # "none"
  /\ new.userId = old.userId /\ new.newEmail = old.newEmail /\ new.by = old.by
  /\ new.state = "live" => old.state = "live"

LEMMA NoRowType == NoRow \in Row
  BY DEF NoRow, Row

LEMMA FreshRowType ==
  ASSUME NEW u \in UserIds, NEW e \in Emails \cup {None}, NEW r \in Requests
  PROVE  /\ FreshRow(u, e, r) \in Row
         /\ FreshRow(u, e, r).state = "live" /\ FreshRow(u, e, r).userId = u
         /\ FreshRow(u, e, r).newEmail = e /\ FreshRow(u, e, r).by = r
  BY DEF FreshRow, Row

LEMMA Unchanged ==
  ASSUME NEW H, NEW t \in [H -> Row]
  PROVE  \A h \in H : t[h].state # "none" => Kept(t[h], t[h])
  BY DEF Kept

LEMMA Deletes ==
  ASSUME NEW H, NEW t \in [H -> Row], NEW u
  PROVE  /\ DeleteLiveTokens(t, u) \in [H -> Row]
         /\ \A h \in H : DeleteLiveTokens(t, u)[h].state # "none" =>
              Kept(t[h], DeleteLiveTokens(t, u)[h])
         /\ \A h \in H : ~Live(DeleteLiveTokens(t, u)[h], u)
  BY NoRowType DEF DeleteLiveTokens, Live, Kept, NoRow

LEMMA Cascades ==
  ASSUME NEW H, NEW t \in [H -> Row], NEW u
  PROVE  /\ CascadeUser(t, u) \in [H -> Row]
         /\ \A h \in H : CascadeUser(t, u)[h].state # "none" => Kept(t[h], CascadeUser(t, u)[h])
  BY NoRowType DEF CascadeUser, Kept, NoRow

LEMMA Bumped ==
  ASSUME NEW row \in Row
  PROVE  [row EXCEPT !.attempts = row.attempts + 1] \in Row
<1>1. row.attempts + 1 \in Nat
  BY DEF Row
<1> QED
  BY <1>1 DEF Row

LEMMA Increments ==
  ASSUME NEW H, NEW t \in [H -> Row], NEW u
  PROVE  /\ IncrementLiveAttempts(t, u) \in [H -> Row]
         /\ \A h \in H : IncrementLiveAttempts(t, u)[h].state # "none" =>
              Kept(t[h], IncrementLiveAttempts(t, u)[h])
<1>1. \A h \in H : [t[h] EXCEPT !.attempts = t[h].attempts + 1] \in Row
  BY Bumped
<1>2. IncrementLiveAttempts(t, u) \in [H -> Row]
  BY <1>1 DEF IncrementLiveAttempts
<1>3. ASSUME NEW h \in H, IncrementLiveAttempts(t, u)[h].state # "none"
      PROVE  Kept(t[h], IncrementLiveAttempts(t, u)[h])
  <2>1. t[h] \in Row
    OBVIOUS
  <2>2. \A n : /\ [t[h] EXCEPT !.attempts = n].state = t[h].state
               /\ [t[h] EXCEPT !.attempts = n].userId = t[h].userId
               /\ [t[h] EXCEPT !.attempts = n].newEmail = t[h].newEmail
               /\ [t[h] EXCEPT !.attempts = n].by = t[h].by
    BY <2>1 DEF Row
  <2>3. IncrementLiveAttempts(t, u)[h] \in {t[h], [t[h] EXCEPT !.attempts = t[h].attempts + 1]}
    BY DEF IncrementLiveAttempts
  <2> QED
    BY <1>3, <2>2, <2>3 DEF Kept
<1> QED
  BY <1>2, <1>3

LEMMA Expires ==
  ASSUME NEW H, NEW t \in [H -> Row], NEW g \in H
  PROVE  /\ ExpireToken(t, g) \in [H -> Row]
         /\ \A h \in H : ExpireToken(t, g)[h].state # "none" => Kept(t[h], ExpireToken(t, g)[h])
<1>1. [t[g] EXCEPT !.expired = TRUE] \in Row
  BY DEF Row
<1> QED
  BY <1>1 DEF ExpireToken, Kept, Row

LEMMA Consumes ==
  ASSUME NEW H, NEW t \in [H -> Row], NEW g \in H, t[g].state = "live"
  PROVE  /\ ConsumeToken(t, g) \in [H -> Row]
         /\ \A h \in H : ConsumeToken(t, g)[h].state # "none" => Kept(t[h], ConsumeToken(t, g)[h])
         /\ ConsumeToken(t, g)[g].state = "used"
<1>1. [t[g] EXCEPT !.state = "used"] \in Row
  BY DEF Row
<1> QED
  BY <1>1 DEF ConsumeToken, Kept, Row

LEMMA Creates ==
  ASSUME NEW H, NEW t \in [H -> Row], NEW g \in H, NEW row \in Row
  PROVE  /\ CreateToken(t, g, row) \in [H -> Row]
         /\ CreateToken(t, g, row)[g] = row
         /\ \A h \in H \ {g} : CreateToken(t, g, row)[h] = t[h]
  BY DEF CreateToken

-----------------------------------------------------------------------------
(* The locals of a request. *)

LEMMA StartLocals ==
  ASSUME TypeOK, NEW r \in Requests, NEW op \in AllOps, NEW u \in UserIds \cup {None},
         NEW e \in Emails \cup {None}, NEW c \in Codes \cup {None}
  PROVE  /\ Start(r, op, u, e, c) \in Request
         /\ Start(r, op, u, e, c).op = op /\ Start(r, op, u, e, c).user = u
         /\ Start(r, op, u, e, c).email = e /\ Start(r, op, u, e, c).code = c
         /\ Start(r, op, u, e, c).outcome = "none" /\ Start(r, op, u, e, c).hit = None
         /\ Start(r, op, u, e, c).after = Answered
  BY DEF Start, Idle, Request, Pcs, Outcomes, Answered

LEMMA RespondLocals ==
  ASSUME req \in [Requests -> Request], NEW r \in Requests, NEW locals \in Request,
         NEW outcome \in Outcomes, Respond(r, locals, outcome)
  PROVE  /\ req' \in [Requests -> Request]
         /\ \A s \in Requests \ {r} : req'[s] = req[s]
         /\ req'[r].pc = "done" /\ req'[r].outcome = outcome
         /\ req'[r].op = locals.op /\ req'[r].user = locals.user
         /\ req'[r].email = locals.email /\ req'[r].code = locals.code
         /\ req'[r].after = locals.after /\ req'[r].hit = locals.hit
<1>1. [locals EXCEPT !.pc = "done", !.outcome = outcome] \in Request
  BY DEF Request, Pcs
<1> QED
  BY <1>1 DEF Respond, Request

LEMMA ContinueLocals ==
  ASSUME req \in [Requests -> Request], NEW r \in Requests, NEW locals \in Request,
         NEW pc \in Pcs, Continue(r, locals, pc)
  PROVE  /\ req' \in [Requests -> Request]
         /\ \A s \in Requests \ {r} : req'[s] = req[s]
         /\ req'[r].pc = pc /\ req'[r].outcome = locals.outcome
         /\ req'[r].op = locals.op /\ req'[r].user = locals.user
         /\ req'[r].email = locals.email /\ req'[r].code = locals.code
         /\ req'[r].after = locals.after /\ req'[r].hit = locals.hit
<1>1. [locals EXCEPT !.pc = pc] \in Request
  BY DEF Request
<1> QED
  BY <1>1 DEF Continue, Request

LEMMA WithCode ==
  ASSUME NEW locals \in Request, NEW c \in Codes
  PROVE  /\ [locals EXCEPT !.code = c] \in Request
         /\ [locals EXCEPT !.code = c].code = c
         /\ [locals EXCEPT !.code = c].op = locals.op
         /\ [locals EXCEPT !.code = c].user = locals.user
         /\ [locals EXCEPT !.code = c].email = locals.email
         /\ [locals EXCEPT !.code = c].outcome = locals.outcome
         /\ [locals EXCEPT !.code = c].after = locals.after
         /\ [locals EXCEPT !.code = c].hit = locals.hit
  BY DEF Request

LEMMA WithMissed ==
  ASSUME NEW locals \in Request, NEW M \in SUBSET (Requests \cup {None})
  PROVE  /\ [locals EXCEPT !.missed = M] \in Request
         /\ [locals EXCEPT !.missed = M].code = locals.code
         /\ [locals EXCEPT !.missed = M].op = locals.op
         /\ [locals EXCEPT !.missed = M].user = locals.user
         /\ [locals EXCEPT !.missed = M].email = locals.email
         /\ [locals EXCEPT !.missed = M].outcome = locals.outcome
         /\ [locals EXCEPT !.missed = M].after = locals.after
         /\ [locals EXCEPT !.missed = M].hit = locals.hit
  BY DEF Request

-----------------------------------------------------------------------------
(***************************************************************************)
(* A step of request r. Others: nobody else's locals change and r was not  *)
(* answered yet. Mine: a request that waits for its mail keeps what it put *)
(* in its row, and after is fixed from the first statement on.             *)
(***************************************************************************)
Others(r) == req[r].pc # "done" /\ \A s \in Requests \ {r} : req'[s] = req[s]
SameNames(r) ==
  /\ req'[r].op = req[r].op /\ req'[r].user = req[r].user
  /\ req'[r].email = req[r].email /\ req'[r].code = req[r].code
Mine(r) ==
  /\ req[r].pc = "mail" => req'[r].pc = "done" /\ SameNames(r)
  /\ req'[r].after = req[r].after \/ req'[r].after = Answered

\* The rows: kept, or the one that r inserts.
Inserts(r, op) ==
  /\ req[r].pc = "insert" /\ req[r].op = op
  /\ req'[r].pc = "mail" /\ req'[r].op = op
LoginRows(r) ==
  \A h \in LoginHashes : authTokens'[h].state # "none" =>
    \/ Kept(authTokens[h], authTokens'[h])
    \/ /\ Inserts(r, "login")
       /\ authTokens'[h].by = r /\ authTokens'[h].userId = req'[r].user
       /\ h = HashCode(req'[r].user, req'[r].code)
ChangeRows(r) ==
  \A h \in ChangeHashes : emailTokens'[h].state # "none" =>
    \/ Kept(emailTokens[h], emailTokens'[h])
    \/ /\ Inserts(r, "request")
       /\ emailTokens'[h].by = r /\ emailTokens'[h].userId = req'[r].user
       /\ emailTokens'[h].newEmail = req'[r].email
       /\ h = HashEmailChangeCode(req'[r].user, req'[r].email, req'[r].code)

\* What r has redeemed: what it had before, or a row it just marked used.
OldHit(r) == req'[r].hit = req[r].hit /\ SameNames(r)
LoginHit(r) ==
  /\ req'[r].op = "verify"
  /\ \E h \in LoginHashes :
       /\ h = HashCode(req'[r].user, req'[r].code)
       /\ authTokens[h].state = "live" /\ authTokens[h].by = req'[r].hit
       /\ authTokens'[h].state # "live"
ChangeHit(r) ==
  /\ req'[r].op = "confirm"
  /\ \E h \in ChangeHashes :
       /\ h = HashEmailChangeCode(req'[r].user, req'[r].email, req'[r].code)
       /\ emailTokens[h].state = "live" /\ emailTokens[h].by = req'[r].hit
       /\ emailTokens'[h].state # "live"
Hits(r) == req'[r].hit # None => OldHit(r) \/ LoginHit(r) \/ ChangeHit(r)

\* A request gets past its pruning, or its wipe, by doing it.
Prunes(r) ==
  PastPrune(r)' =>
    \/ PastPrune(r) /\ req[r].op = req'[r].op /\ req[r].user = req'[r].user
                    /\ req[r].after = req'[r].after
    \/ /\ req'[r].op = "login" =>
            \A h \in LoginHashes : ~Live(authTokens'[h], req'[r].user)
       /\ req'[r].op = "request" =>
            \A h \in ChangeHashes : ~Live(emailTokens'[h], req'[r].user)
       /\ req'[r].op = "confirm" =>
            \A h \in LoginHashes : ~Live(authTokens'[h], req'[r].user)

Frame(r) == Others(r) /\ Mine(r) /\ LoginRows(r) /\ ChangeRows(r) /\ Hits(r) /\ Prunes(r)

(***************************************************************************)
(* With its own locals in order, such a step preserves the invariant.      *)
(***************************************************************************)
\* The code in a row is its creator's, so a creator has one row at most.
LEMMA OneRowEach ==
  ASSUME IInv
  PROVE  /\ \A g, h \in LoginHashes :
              /\ authTokens[g].state # "none" /\ authTokens[h].state # "none"
              /\ authTokens[g].by = authTokens[h].by
              => g = h
         /\ \A g, h \in ChangeHashes :
              /\ emailTokens[g].state # "none" /\ emailTokens[h].state # "none"
              /\ emailTokens[g].by = emailTokens[h].by
              => g = h
<1>1. LoginRowsOK /\ ChangeRowsOK
  BY DEF IInv
<1>2. \A g \in LoginHashes : authTokens[g].state # "none" =>
         g = HashCode(req[authTokens[g].by].user, req[authTokens[g].by].code)
  BY <1>1 DEF LoginRowsOK
<1>3. \A g \in ChangeHashes : emailTokens[g].state # "none" =>
         g = HashEmailChangeCode(req[emailTokens[g].by].user, req[emailTokens[g].by].email,
                                 req[emailTokens[g].by].code)
  BY <1>1 DEF ChangeRowsOK
<1> QED
  BY <1>2, <1>3

\* Requests that have their row keep what they put in it.
LEMMA IssuedStays ==
  ASSUME NEW r \in Requests, Frame(r), NEW t \in Requests, NEW op, Issued(t, op)
  PROVE  /\ req'[t].op = op /\ req'[t].pc \in {"mail", "done"}
         /\ req'[t].user = req[t].user /\ req'[t].email = req[t].email
         /\ req'[t].code = req[t].code
<1>1. CASE t = r
  BY <1>1 DEF Frame, Others, Mine, SameNames, Issued
<1>2. CASE t # r
  BY <1>2 DEF Frame, Others, Issued
<1> QED
  BY <1>1, <1>2

LEMMA LoginRowsStayOK ==
  ASSUME IInv, NEW r \in Requests, Frame(r)
  PROVE  LoginRowsOK'
<1> SUFFICES ASSUME NEW h \in LoginHashes, authTokens'[h].state # "none"
             PROVE  \E t \in Requests :
                      /\ authTokens'[h].by = t
                      /\ req'[t].op = "login" /\ req'[t].pc \in {"mail", "done"}
                      /\ authTokens'[h].userId = req'[t].user
                      /\ h = HashCode(req'[t].user, req'[t].code)
  BY DEF LoginRowsOK, Issued
<1>1. CASE Kept(authTokens[h], authTokens'[h])
  <2>1. PICK t \in Requests :
          /\ authTokens[h].by = t /\ Issued(t, "login") /\ authTokens[h].userId = req[t].user
          /\ h = HashCode(req[t].user, req[t].code)
    BY <1>1 DEF IInv, LoginRowsOK, Kept
  <2>2. /\ req'[t].op = "login" /\ req'[t].pc \in {"mail", "done"}
        /\ req'[t].user = req[t].user /\ req'[t].code = req[t].code
    BY <2>1, IssuedStays
  <2> QED
    BY <1>1, <2>1, <2>2 DEF Kept
<1>2. CASE /\ Inserts(r, "login")
           /\ authTokens'[h].by = r /\ authTokens'[h].userId = req'[r].user
           /\ h = HashCode(req'[r].user, req'[r].code)
  BY <1>2 DEF Inserts
<1> QED
  BY <1>1, <1>2 DEF Frame, LoginRows

LEMMA ChangeRowsStayOK ==
  ASSUME IInv, NEW r \in Requests, Frame(r)
  PROVE  ChangeRowsOK'
<1> SUFFICES ASSUME NEW h \in ChangeHashes, emailTokens'[h].state # "none"
             PROVE  \E t \in Requests :
                      /\ emailTokens'[h].by = t
                      /\ req'[t].op = "request" /\ req'[t].pc \in {"mail", "done"}
                      /\ emailTokens'[h].userId = req'[t].user
                      /\ emailTokens'[h].newEmail = req'[t].email
                      /\ h = HashEmailChangeCode(req'[t].user, req'[t].email, req'[t].code)
  BY DEF ChangeRowsOK, Issued
<1>1. CASE Kept(emailTokens[h], emailTokens'[h])
  <2>1. PICK t \in Requests :
          /\ emailTokens[h].by = t /\ Issued(t, "request")
          /\ emailTokens[h].userId = req[t].user /\ emailTokens[h].newEmail = req[t].email
          /\ h = HashEmailChangeCode(req[t].user, req[t].email, req[t].code)
    BY <1>1 DEF IInv, ChangeRowsOK, Kept
  <2>2. /\ req'[t].op = "request" /\ req'[t].pc \in {"mail", "done"}
        /\ req'[t].user = req[t].user /\ req'[t].email = req[t].email
        /\ req'[t].code = req[t].code
    BY <2>1, IssuedStays
  <2> QED
    BY <1>1, <2>1, <2>2 DEF Kept
<1>2. CASE /\ Inserts(r, "request")
           /\ emailTokens'[h].by = r /\ emailTokens'[h].userId = req'[r].user
           /\ emailTokens'[h].newEmail = req'[r].email
           /\ h = HashEmailChangeCode(req'[r].user, req'[r].email, req'[r].code)
  BY <1>2 DEF Inserts
<1> QED
  BY <1>1, <1>2 DEF Frame, ChangeRows

LEMMA AfterStaysOK ==
  ASSUME IInv, NEW r \in Requests, Frame(r), NEW s \in Requests, TypeOK'
  PROVE  AfterOK(s)' /\ r \notin req'[s].after
<1>1. req'[s].after \in SUBSET Requests
  BY DEF TypeOK, Request
<1>2. \A t \in req'[s].after : req[t].pc = "done"
  BY DEF IInv, AfterOK, Frame, Others, Mine, Answered
<1> QED
  BY <1>1, <1>2 DEF Frame, Others, AfterOK

\* The two kinds of rows have creators of different kinds.
LEMMA Creators ==
  ASSUME IInv
  PROVE  /\ \A h \in LoginHashes : authTokens[h].state # "none" =>
              /\ authTokens[h].by \in Requests /\ Issued(authTokens[h].by, "login")
              /\ h = HashCode(req[authTokens[h].by].user, req[authTokens[h].by].code)
         /\ \A h \in ChangeHashes : emailTokens[h].state # "none" =>
              /\ emailTokens[h].by \in Requests /\ Issued(emailTokens[h].by, "request")
              /\ h = HashEmailChangeCode(req[emailTokens[h].by].user,
                                         req[emailTokens[h].by].email,
                                         req[emailTokens[h].by].code)
  BY DEF IInv, LoginRowsOK, ChangeRowsOK

\* No dead code comes alive and no request that has its row gets another one.
LEMMA DeadStaysDead ==
  ASSUME IInv, NEW r \in Requests, Frame(r), NEW t \in Requests
  PROVE  /\ (/\ Issued(t, "login")
             /\ \A h \in LoginHashes : authTokens[h].by = t => authTokens[h].state # "live")
            => \A h \in LoginHashes : authTokens'[h].by = t => authTokens'[h].state # "live"
         /\ (/\ Issued(t, "request")
             /\ \A h \in ChangeHashes : emailTokens[h].by = t => emailTokens[h].state # "live")
            => \A h \in ChangeHashes : emailTokens'[h].by = t => emailTokens'[h].state # "live"
<1>1. ASSUME Issued(t, "login"),
             \A h \in LoginHashes : authTokens[h].by = t => authTokens[h].state # "live",
             NEW h \in LoginHashes, authTokens'[h].by = t, authTokens'[h].state = "live"
      PROVE  FALSE
  BY <1>1 DEF Frame, LoginRows, Kept, Inserts, Issued
<1>2. ASSUME Issued(t, "request"),
             \A h \in ChangeHashes : emailTokens[h].by = t => emailTokens[h].state # "live",
             NEW h \in ChangeHashes, emailTokens'[h].by = t, emailTokens'[h].state = "live"
      PROVE  FALSE
  BY <1>2 DEF Frame, ChangeRows, Kept, Inserts, Issued
<1> QED
  BY <1>1, <1>2

\* A code that has just been redeemed has no live row left.
LEMMA NewHitIsDead ==
  ASSUME IInv, NEW r \in Requests, Frame(r)
  PROVE  /\ LoginHit(r) =>
              \E t \in Requests :
                /\ t # r /\ req'[r].hit = t /\ Issued(t, "login")
                /\ req[t].user = req'[r].user /\ req[t].code = req'[r].code
                /\ \E h \in LoginHashes : authTokens[h].by = t /\ authTokens[h].state = "live"
                /\ \A h \in LoginHashes : authTokens'[h].by = t => authTokens'[h].state # "live"
         /\ ChangeHit(r) =>
              \E t \in Requests :
                /\ t # r /\ req'[r].hit = t /\ Issued(t, "request")
                /\ req[t].user = req'[r].user /\ req[t].code = req'[r].code
                /\ req[t].email = req'[r].email
                /\ \E h \in ChangeHashes : emailTokens[h].by = t /\ emailTokens[h].state = "live"
                /\ \A h \in ChangeHashes : emailTokens'[h].by = t => emailTokens'[h].state # "live"
<1>1. ASSUME LoginHit(r)
      PROVE  \E t \in Requests :
                /\ t # r /\ req'[r].hit = t /\ Issued(t, "login")
                /\ req[t].user = req'[r].user /\ req[t].code = req'[r].code
                /\ \E h \in LoginHashes : authTokens[h].by = t /\ authTokens[h].state = "live"
                /\ \A h \in LoginHashes : authTokens'[h].by = t => authTokens'[h].state # "live"
  <2>1. PICK h \in LoginHashes :
          /\ h = HashCode(req'[r].user, req'[r].code)
          /\ authTokens[h].state = "live" /\ authTokens[h].by = req'[r].hit
          /\ authTokens'[h].state # "live"
    BY <1>1 DEF LoginHit
  <2>2. PICK t \in Requests :
          t = authTokens[h].by /\ Issued(t, "login") /\ h = HashCode(req[t].user, req[t].code)
    BY <2>1, Creators
  <2>3. req[t].user = req'[r].user /\ req[t].code = req'[r].code
    BY <2>1, <2>2 DEF HashCode
  <2>4. t # r
    BY <1>1, <2>2, IssuedStays DEF LoginHit
  <2>5. ASSUME NEW g \in LoginHashes, authTokens'[g].by = t, authTokens'[g].state = "live"
        PROVE  FALSE
    <3>1. Kept(authTokens[g], authTokens'[g])
      BY <2>4, <2>5 DEF Frame, LoginRows
    <3>2. g = h
      BY <2>1, <2>2, <2>5, <3>1, OneRowEach DEF Kept
    <3> QED
      BY <2>1, <2>5, <3>2
  <2> QED
    BY <2>1, <2>2, <2>3, <2>4, <2>5
<1>2. ASSUME ChangeHit(r)
      PROVE  \E t \in Requests :
                /\ t # r /\ req'[r].hit = t /\ Issued(t, "request")
                /\ req[t].user = req'[r].user /\ req[t].code = req'[r].code
                /\ req[t].email = req'[r].email
                /\ \E h \in ChangeHashes : emailTokens[h].by = t /\ emailTokens[h].state = "live"
                /\ \A h \in ChangeHashes : emailTokens'[h].by = t => emailTokens'[h].state # "live"
  <2>1. PICK h \in ChangeHashes :
          /\ h = HashEmailChangeCode(req'[r].user, req'[r].email, req'[r].code)
          /\ emailTokens[h].state = "live" /\ emailTokens[h].by = req'[r].hit
          /\ emailTokens'[h].state # "live"
    BY <1>2 DEF ChangeHit
  <2>2. PICK t \in Requests :
          /\ t = emailTokens[h].by /\ Issued(t, "request")
          /\ h = HashEmailChangeCode(req[t].user, req[t].email, req[t].code)
    BY <2>1, Creators
  <2>3. /\ req[t].user = req'[r].user /\ req[t].code = req'[r].code
        /\ req[t].email = req'[r].email
    BY <2>1, <2>2 DEF HashEmailChangeCode
  <2>4. t # r
    BY <1>2, <2>2, IssuedStays DEF ChangeHit
  <2>5. ASSUME NEW g \in ChangeHashes, emailTokens'[g].by = t, emailTokens'[g].state = "live"
        PROVE  FALSE
    <3>1. Kept(emailTokens[g], emailTokens'[g])
      BY <2>4, <2>5 DEF Frame, ChangeRows
    <3>2. g = h
      BY <2>1, <2>2, <2>5, <3>1, OneRowEach DEF Kept
    <3> QED
      BY <2>1, <2>5, <3>2
  <2> QED
    BY <2>1, <2>2, <2>3, <2>4, <2>5
<1> QED
  BY <1>1, <1>2

\* What a request had redeemed before the step, seen after it.
Redeemed(s, t) ==
  /\ req'[s].hit = t /\ t \in Requests
  /\ req'[s].op \in {"verify", "confirm"}
  /\ Issued(t, IF req'[s].op = "verify" THEN "login" ELSE "request")
  /\ req'[s].op = "verify" =>
       \A h \in LoginHashes : authTokens'[h].by = t => authTokens'[h].state # "live"
  /\ req'[s].op = "confirm" =>
       \A h \in ChangeHashes : emailTokens'[h].by = t => emailTokens'[h].state # "live"

LEMMA OldHitStaysOK ==
  ASSUME IInv, NEW r \in Requests, Frame(r), NEW s \in Requests, req'[s].hit # None,
         req'[s].hit = req[s].hit, req'[s].op = req[s].op
  PROVE  \E t \in Requests : Redeemed(s, t)
<1>1. PICK t \in Requests : t = req[s].hit
  BY DEF IInv, HitOK
<1>2. /\ req[s].op \in {"verify", "confirm"}
      /\ Issued(t, IF req[s].op = "verify" THEN "login" ELSE "request")
      /\ req[s].op = "verify" =>
           \A h \in LoginHashes : authTokens[h].by = t => authTokens[h].state # "live"
      /\ req[s].op = "confirm" =>
           \A h \in ChangeHashes : emailTokens[h].by = t => emailTokens[h].state # "live"
  BY <1>1 DEF IInv, HitOK
<1>3. CASE req[s].op = "verify"
  BY <1>1, <1>2, <1>3, DeadStaysDead DEF Redeemed
<1>4. CASE req[s].op = "confirm"
  BY <1>1, <1>2, <1>4, DeadStaysDead DEF Redeemed
<1> QED
  BY <1>2, <1>3, <1>4

LEMMA HitIsRedeemed ==
  ASSUME IInv, NEW r \in Requests, Frame(r), NEW s \in Requests, req'[s].hit # None
  PROVE  \E t \in Requests : Redeemed(s, t)
<1>1. CASE s # r
  BY <1>1, OldHitStaysOK DEF Frame, Others
<1>2. CASE s = r /\ OldHit(r)
  BY <1>2, OldHitStaysOK DEF OldHit, SameNames
<1>3. CASE s = r /\ LoginHit(r)
  BY <1>3, NewHitIsDead DEF LoginHit, Redeemed
<1>4. CASE s = r /\ ChangeHit(r)
  BY <1>4, NewHitIsDead DEF ChangeHit, Redeemed
<1> QED
  BY <1>1, <1>2, <1>3, <1>4 DEF Frame, Hits

LEMMA HitStaysOK ==
  ASSUME IInv, NEW r \in Requests, Frame(r), NEW s \in Requests
  PROVE  HitOK(s)'
<1> SUFFICES ASSUME req'[s].hit # None
             PROVE  /\ req'[s].op \in {"verify", "confirm"}
                    /\ req'[s].hit \in Requests
                    /\ req'[req'[s].hit].op = (IF req'[s].op = "verify" THEN "login" ELSE "request")
                    /\ req'[req'[s].hit].pc \in {"mail", "done"}
                    /\ req'[s].op = "verify" =>
                         \A h \in LoginHashes :
                           authTokens'[h].by = req'[s].hit => authTokens'[h].state # "live"
                    /\ req'[s].op = "confirm" =>
                         \A h \in ChangeHashes :
                           emailTokens'[h].by = req'[s].hit => emailTokens'[h].state # "live"
  BY DEF HitOK, Issued
<1>1. PICK t \in Requests : Redeemed(s, t)
  BY HitIsRedeemed
<1>2. /\ req'[t].op = (IF req'[s].op = "verify" THEN "login" ELSE "request")
      /\ req'[t].pc \in {"mail", "done"}
  BY <1>1, IssuedStays DEF Redeemed
<1> QED
  BY <1>1, <1>2 DEF Redeemed

LEMMA SingleUseStays ==
  ASSUME IInv, NEW r \in Requests, Frame(r)
  PROVE  SingleUse'
<1>1. ASSUME NEW s \in Requests \ {r}, req'[s].hit # None, req'[s].hit = req'[r].hit
      PROVE  FALSE
  <2>1. req'[s] = req[s]
    BY <1>1 DEF Frame, Others
  <2>2. PICK t \in Requests :
          /\ t = req[s].hit
          /\ req[s].op \in {"verify", "confirm"}
          /\ Issued(t, IF req[s].op = "verify" THEN "login" ELSE "request")
          /\ req[s].op = "verify" =>
               \A h \in LoginHashes : authTokens[h].by = t => authTokens[h].state # "live"
          /\ req[s].op = "confirm" =>
               \A h \in ChangeHashes : emailTokens[h].by = t => emailTokens[h].state # "live"
    BY <1>1, <2>1 DEF IInv, HitOK
  <2>3. CASE OldHit(r)
    BY <1>1, <2>1, <2>3 DEF OldHit, IInv, SingleUse
  <2>4. CASE LoginHit(r)
    BY <1>1, <2>1, <2>2, <2>4, NewHitIsDead DEF Issued
  <2>5. CASE ChangeHit(r)
    BY <1>1, <2>1, <2>2, <2>5, NewHitIsDead DEF Issued
  <2> QED
    BY <1>1, <2>3, <2>4, <2>5 DEF Frame, Hits
<1>2. ASSUME NEW s \in Requests \ {r}, NEW q \in Requests \ {r},
             req'[s].hit # None, req'[s].hit = req'[q].hit
      PROVE  s = q
  BY <1>2 DEF Frame, Others, IInv, SingleUse
<1> QED
  BY <1>1, <1>2 DEF SingleUse

LEMMA OwnCodesStay ==
  ASSUME IInv, NEW r \in Requests, Frame(r)
  PROVE  RedeemsOwnCode'
<1> SUFFICES ASSUME NEW s \in Requests, req'[s].hit # None
             PROVE  \E t \in Requests :
                      /\ t = req'[s].hit
                      /\ req'[t].op = (IF req'[s].op = "verify" THEN "login" ELSE "request")
                      /\ req'[t].user = req'[s].user
                      /\ req'[t].code = req'[s].code
                      /\ req'[s].op = "confirm" => req'[t].email = req'[s].email
  BY DEF RedeemsOwnCode
<1>1. ASSUME req'[s].hit = req[s].hit, req'[s].op = req[s].op, req'[s].user = req[s].user,
             req'[s].email = req[s].email, req'[s].code = req[s].code
      PROVE  \E t \in Requests :
                      /\ t = req'[s].hit
                      /\ req'[t].op = (IF req'[s].op = "verify" THEN "login" ELSE "request")
                      /\ req'[t].user = req'[s].user
                      /\ req'[t].code = req'[s].code
                      /\ req'[s].op = "confirm" => req'[t].email = req'[s].email
  <2>1. PICK t \in Requests :
          t = req[s].hit /\ Issued(t, IF req[s].op = "verify" THEN "login" ELSE "request")
    BY <1>1 DEF IInv, HitOK
  <2>2. /\ req[t].user = req[s].user /\ req[t].code = req[s].code
        /\ req[s].op = "confirm" => req[t].email = req[s].email
    BY <1>1, <2>1 DEF IInv, RedeemsOwnCode
  <2> QED
    BY <1>1, <2>1, <2>2, IssuedStays
<1>2. CASE s # r
  BY <1>1, <1>2 DEF Frame, Others
<1>3. CASE s = r /\ OldHit(r)
  BY <1>1, <1>3 DEF OldHit, SameNames
<1>4. CASE s = r /\ LoginHit(r)
  <2>1. PICK t \in Requests : /\ req'[r].hit = t /\ Issued(t, "login")
                              /\ req[t].user = req'[r].user /\ req[t].code = req'[r].code
    BY <1>4, NewHitIsDead
  <2> QED
    BY <1>4, <2>1, IssuedStays DEF LoginHit
<1>5. CASE s = r /\ ChangeHit(r)
  <2>1. PICK t \in Requests : /\ req'[r].hit = t /\ Issued(t, "request")
                              /\ req[t].user = req'[r].user /\ req[t].code = req'[r].code
                              /\ req[t].email = req'[r].email
    BY <1>5, NewHitIsDead
  <2> QED
    BY <1>5, <2>1, IssuedStays DEF ChangeHit
<1> QED
  BY <1>2, <1>3, <1>4, <1>5 DEF Frame, Hits

\* What r's pruning leaves, and what it does not touch.
LEMMA SupersededStays ==
  ASSUME IInv, TypeOK', NEW r \in Requests, Frame(r)
  PROVE  SupersededCodeIsDead' /\ SupersededTargetIsDead'
<1>1. ASSUME NEW s \in Requests, NEW h \in LoginHashes, req'[s].op = "login",
             req'[s].pc \in {"insert", "mail"} \/ req'[s].outcome = "ok",
             authTokens'[h].state = "live", authTokens'[h].userId = req'[s].user
      PROVE  authTokens'[h].by \notin req'[s].after
  <2>1. CASE authTokens'[h].by = r
    BY <2>1, AfterStaysOK
  <2>2. CASE Kept(authTokens[h], authTokens'[h])
    <3>1. ASSUME PastPrune(s), req[s].op = "login", req[s].user = req'[s].user,
                 req[s].after = req'[s].after
          PROVE  authTokens'[h].by \notin req'[s].after
      BY <1>1, <2>2, <3>1 DEF IInv, SupersededCodeIsDead, Supersedes, Kept, Live, TypeOK
    <3>2. CASE s # r
      BY <1>1, <3>1, <3>2 DEF Frame, Others, PastPrune
    <3>3. CASE s = r
      BY <1>1, <3>1, <3>3 DEF Frame, Prunes, PastPrune, Live
    <3> QED
      BY <3>2, <3>3
  <2> QED
    BY <1>1, <2>1, <2>2 DEF Frame, LoginRows
<1>2. ASSUME NEW s \in Requests, NEW h \in ChangeHashes, req'[s].op = "request",
             req'[s].pc \in {"insert", "mail"} \/ req'[s].outcome = "ok",
             emailTokens'[h].state = "live", emailTokens'[h].userId = req'[s].user
      PROVE  emailTokens'[h].by \notin req'[s].after
  <2>1. CASE emailTokens'[h].by = r
    BY <2>1, AfterStaysOK
  <2>2. CASE Kept(emailTokens[h], emailTokens'[h])
    <3>1. ASSUME PastPrune(s), req[s].op = "request", req[s].user = req'[s].user,
                 req[s].after = req'[s].after
          PROVE  emailTokens'[h].by \notin req'[s].after
      BY <1>2, <2>2, <3>1 DEF IInv, SupersededTargetIsDead, Supersedes, Kept, Live, TypeOK
    <3>2. CASE s # r
      BY <1>2, <3>1, <3>2 DEF Frame, Others, PastPrune
    <3>3. CASE s = r
      BY <1>2, <3>1, <3>3 DEF Frame, Prunes, PastPrune, Live
    <3> QED
      BY <3>2, <3>3
  <2> QED
    BY <1>2, <2>1, <2>2 DEF Frame, ChangeRows
<1>3. DOMAIN authTokens' = LoginHashes /\ DOMAIN emailTokens' = ChangeHashes
  BY DEF TypeOK
<1> QED
  BY <1>1, <1>2, <1>3 DEF SupersededCodeIsDead, SupersededTargetIsDead, Supersedes, PastPrune, Live

LEMMA EarlierStays ==
  ASSUME IInv, TypeOK', NEW r \in Requests, Frame(r)
  PROVE  EarlierCodesDieWithOldEmail'
<1> SUFFICES ASSUME NEW s \in Requests, NEW h \in LoginHashes, req'[s].op = "confirm",
                    req'[s].outcome = "ok",
                    authTokens'[h].state = "live", authTokens'[h].userId = req'[s].user
             PROVE  authTokens'[h].by \notin req'[s].after
  BY DEF EarlierCodesDieWithOldEmail, Live
<1>1. CASE authTokens'[h].by = r
  BY <1>1, AfterStaysOK
<1>2. CASE Kept(authTokens[h], authTokens'[h])
  <2>1. CASE s # r
    BY <1>2, <2>1 DEF Frame, Others, IInv, EarlierCodesDieWithOldEmail, Kept, Live
  <2>2. CASE s = r
    <3>1. LocalOK(r) /\ req[r].pc # "done"
      BY DEF IInv, Frame, Others
    <3>2. ~(PastPrune(r) /\ req[r].op = "confirm")
      BY <3>1 DEF LocalOK, PastPrune
    <3> QED
      BY <2>2, <3>2 DEF Frame, Prunes, PastPrune, Live
  <2> QED
    BY <2>1, <2>2
<1> QED
  BY <1>1, <1>2 DEF Frame, LoginRows

LEMMA FramePreserves ==
  ASSUME IInv, TypeOK', NEW r \in Requests, Frame(r), LocalOK(r)'
  PROVE  IInv'
<1>1. ASSUME NEW s \in Requests PROVE LocalOK(s)'
  <2>1. CASE s = r
    BY <2>1
  <2>2. CASE s # r
    BY <2>2 DEF Frame, Others, IInv, LocalOK
  <2> QED
    BY <2>1, <2>2
<1>2. LoginRowsOK' /\ ChangeRowsOK'
  BY LoginRowsStayOK, ChangeRowsStayOK
<1>3. \A s \in Requests : AfterOK(s)' /\ HitOK(s)'
  BY AfterStaysOK, HitStaysOK
<1>4. SingleUse' /\ RedeemsOwnCode'
  BY SingleUseStays, OwnCodesStay
<1> QED
  BY <1>1, <1>2, <1>3, <1>4, SupersededStays, EarlierStays DEF IInv

-----------------------------------------------------------------------------
(* Every action of a request is such a step: first its locals. *)

Locals(r) == req' \in [Requests -> Request] /\ Others(r) /\ Mine(r) /\ Hits(r)

LEMMA StartContinues ==
  ASSUME IInv, NEW r \in Requests, req[r].pc = "idle", NEW op \in AllOps,
         NEW u \in UserIds \cup {None}, NEW e \in Emails \cup {None},
         NEW c \in Codes \cup {None}, NEW pc \in Pcs, Continue(r, Start(r, op, u, e, c), pc)
  PROVE  /\ Locals(r)
         /\ req'[r].pc = pc /\ req'[r].outcome = "none" /\ req'[r].hit = None
         /\ req'[r].op = op /\ req'[r].user = u /\ req'[r].email = e /\ req'[r].code = c
<1>1. TypeOK
  BY DEF IInv
<1>2. req \in [Requests -> Request]
  BY <1>1 DEF TypeOK
<1>3. Start(r, op, u, e, c) \in Request
  BY <1>1, StartLocals
<1>4. /\ req' \in [Requests -> Request]
      /\ \A s \in Requests \ {r} : req'[s] = req[s]
      /\ req'[r].pc = pc /\ req'[r].outcome = "none" /\ req'[r].hit = None
      /\ req'[r].op = op /\ req'[r].user = u /\ req'[r].email = e /\ req'[r].code = c
      /\ req'[r].after = Answered
  BY <1>1, <1>2, <1>3, StartLocals, ContinueLocals
<1> QED
  BY <1>4 DEF Locals, Others, Mine, Hits

LEMMA StartResponds ==
  ASSUME IInv, NEW r \in Requests, req[r].pc = "idle", NEW op \in AllOps,
         NEW u \in UserIds \cup {None}, NEW e \in Emails \cup {None},
         NEW c \in Codes \cup {None}, NEW outcome \in Outcomes,
         Respond(r, Start(r, op, u, e, c), outcome)
  PROVE  /\ Locals(r)
         /\ req'[r].pc = "done" /\ req'[r].outcome = outcome /\ req'[r].hit = None
         /\ req'[r].op = op /\ req'[r].user = u /\ req'[r].email = e /\ req'[r].code = c
<1>1. TypeOK
  BY DEF IInv
<1>2. req \in [Requests -> Request]
  BY <1>1 DEF TypeOK
<1> QED
  BY <1>1, <1>2, StartLocals, RespondLocals DEF Locals, Others, Mine, Hits

LEMMA GoesOn ==
  ASSUME IInv, NEW r \in Requests, req[r].pc \notin {"done", "mail"}, NEW pc \in Pcs,
         Continue(r, req[r], pc)
  PROVE  /\ Locals(r) /\ SameNames(r)
         /\ req'[r].pc = pc /\ req'[r].outcome = "none" /\ req'[r].outcome = req[r].outcome
         /\ req'[r].after = req[r].after /\ req'[r].hit = req[r].hit
<1>1. req \in [Requests -> Request] /\ req[r] \in Request /\ req[r].outcome = "none"
  BY DEF IInv, TypeOK, LocalOK
<1> QED
  BY <1>1, ContinueLocals DEF Locals, Others, Mine, Hits, OldHit, SameNames

LEMMA Answers ==
  ASSUME IInv, NEW r \in Requests, req[r].pc \notin {"idle", "done"},
         NEW outcome \in Outcomes, Respond(r, req[r], outcome)
  PROVE  /\ Locals(r) /\ SameNames(r) /\ LocalOK(r)'
         /\ req'[r].pc = "done" /\ req'[r].outcome = outcome
         /\ req'[r].after = req[r].after /\ req'[r].hit = req[r].hit
<1>1. req \in [Requests -> Request] /\ req[r] \in Request /\ LocalOK(r)
  BY DEF IInv, TypeOK
<1>2. /\ req' \in [Requests -> Request]
      /\ \A s \in Requests \ {r} : req'[s] = req[s]
      /\ req'[r].pc = "done" /\ req'[r].outcome = outcome
      /\ req'[r].op = req[r].op /\ req'[r].user = req[r].user
      /\ req'[r].email = req[r].email /\ req'[r].code = req[r].code
      /\ req'[r].after = req[r].after /\ req'[r].hit = req[r].hit
  BY <1>1, RespondLocals
<1>3. LocalOK(r)'
  BY <1>1, <1>2 DEF LocalOK
<1> QED
  BY <1>2, <1>3 DEF Locals, Others, Mine, Hits, OldHit, SameNames

LEMMA TablesAlone ==
  ASSUME IInv, NEW r \in Requests
  PROVE  /\ UNCHANGED authTokens => LoginRows(r)
         /\ UNCHANGED emailTokens => ChangeRows(r)
<1>1. authTokens \in [LoginHashes -> Row] /\ emailTokens \in [ChangeHashes -> Row]
  BY DEF IInv, TypeOK
<1> QED
  BY <1>1, Unchanged DEF LoginRows, ChangeRows

\* A step that leaves the tables alone and prunes nothing.
LEMMA QuietStep ==
  ASSUME IInv, NEW r \in Requests, UNCHANGED <<authTokens, emailTokens, sessions>>,
         users' \in [UserIds -> Emails \cup {None}], everUsed' \subseteq UserIds,
         Locals(r), Prunes(r), LocalOK(r)'
  PROVE  IInv'
<1>1. TypeOK'
  BY DEF IInv, TypeOK, Locals
<1>2. Frame(r)
  BY TablesAlone DEF Frame, Locals
<1> QED
  BY <1>1, <1>2, FramePreserves

-----------------------------------------------------------------------------
(* The actions that leave the two tables alone. *)

LEMMA LoginUpsertInv ==
  ASSUME IInv, NEW r \in Requests, NEW e \in Emails, NEW u \in UserIds, LoginUpsert(r, e, u)
  PROVE  IInv'
<1>1. users' \in [UserIds -> Emails \cup {None}] /\ everUsed' \subseteq UserIds
  BY DEF LoginUpsert, IInv, TypeOK
<1>2. /\ Locals(r) /\ req'[r].pc = "prune" /\ req'[r].outcome = "none"
      /\ req'[r].op = "login" /\ req'[r].user = u
  BY StartContinues DEF LoginUpsert, CanStart, AllOps, Pcs
<1>3. LocalOK(r)' /\ Prunes(r)
  BY <1>2 DEF LocalOK, Prunes, PastPrune
<1> QED
  BY <1>1, <1>2, <1>3, QuietStep DEF LoginUpsert

LEMMA VerifyFindInv ==
  ASSUME IInv, NEW r \in Requests, NEW e \in Emails, NEW c \in Codes, VerifyFind(r, e, c)
  PROVE  IInv'
<1>1. /\ Locals(r) /\ req'[r].hit = None /\ req'[r].op = "verify" /\ req'[r].code = c
      /\ \/ req'[r].pc = "consume" /\ req'[r].outcome = "none" /\ req'[r].user \in UserIds
         \/ req'[r].pc = "done" /\ req'[r].outcome = "invalid"
  <2>1. req[r].pc = "idle" /\ "verify" \in AllOps /\ "invalid" \in Outcomes /\ "consume" \in Pcs
    BY DEF VerifyFind, CanStart, AllOps, Outcomes, Pcs
  <2>2. CASE \E u \in UserIds : Continue(r, Start(r, "verify", u, e, c), "consume")
    BY <2>1, <2>2, StartContinues
  <2>3. CASE Respond(r, Start(r, "verify", None, e, c), "invalid")
    BY <2>1, <2>3, StartResponds
  <2> QED
    BY <2>2, <2>3 DEF VerifyFind
<1>2. LocalOK(r)' /\ Prunes(r)
  BY <1>1 DEF LocalOK, Prunes, PastPrune
<1> QED
  BY <1>1, <1>2, QuietStep DEF VerifyFind, tables, IInv, TypeOK

LEMMA RequestLoadInv ==
  ASSUME IInv, NEW r \in Requests, NEW u \in UserIds, NEW e \in Emails, RequestLoad(r, u, e)
  PROVE  IInv'
<1>1. /\ Locals(r) /\ req'[r].hit = None /\ req'[r].op = "request" /\ req'[r].email = e
      /\ req'[r].user = u
      /\ \/ req'[r].pc = "taken" /\ req'[r].outcome = "none"
         \/ req'[r].pc = "done" /\ req'[r].outcome \in {"unauthorized", "bad"}
  <2>1. /\ req[r].pc = "idle" /\ "request" \in AllOps /\ "taken" \in Pcs
        /\ "unauthorized" \in Outcomes /\ "bad" \in Outcomes
    BY DEF RequestLoad, CanStart, AllOps, Outcomes, Pcs
  <2>2. CASE Continue(r, Start(r, "request", u, e, None), "taken")
    BY <2>1, <2>2, StartContinues
  <2>3. CASE Respond(r, Start(r, "request", u, e, None), "unauthorized")
    BY <2>1, <2>3, StartResponds
  <2>4. CASE Respond(r, Start(r, "request", u, e, None), "bad")
    BY <2>1, <2>4, StartResponds
  <2> QED
    BY <2>2, <2>3, <2>4 DEF RequestLoad
<1>2. LocalOK(r)' /\ Prunes(r)
  BY <1>1 DEF LocalOK, Prunes, PastPrune
<1> QED
  BY <1>1, <1>2, QuietStep DEF RequestLoad, tables, IInv, TypeOK

LEMMA GetCurrentUserInv ==
  ASSUME IInv, NEW r \in Requests, NEW u \in UserIds, GetCurrentUser(r, u)
  PROVE  IInv'
<1>1. /\ Locals(r) /\ req'[r].hit = None /\ req'[r].op = "me" /\ req'[r].pc = "done"
  BY StartResponds DEF GetCurrentUser, CanStart, AllOps, Outcomes
<1>2. LocalOK(r)' /\ Prunes(r)
  BY <1>1 DEF LocalOK, Prunes, PastPrune
<1> QED
  BY <1>1, <1>2, QuietStep DEF GetCurrentUser, tables, IInv, TypeOK

\* The mail is out, or the process is gone: r is answered.
LEMMA AnswersInv ==
  ASSUME IInv, NEW r \in Requests, req[r].pc \notin {"idle", "done"}, UNCHANGED tables,
         NEW outcome \in Outcomes, Respond(r, req[r], outcome),
         outcome = "ok" => req[r].pc = "mail"
  PROVE  IInv'
<1>1. /\ Locals(r) /\ SameNames(r) /\ LocalOK(r)' /\ req'[r].after = req[r].after
      /\ req'[r].pc = "done" /\ req'[r].outcome = outcome
  BY Answers
<1>2. Prunes(r)
  BY <1>1 DEF Prunes, PastPrune, SameNames
<1> QED
  BY <1>1, <1>2, QuietStep DEF tables, IInv, TypeOK

LEMMA CheckInv ==
  ASSUME IInv, NEW r \in Requests, UNCHANGED tables,
         RequestTaken(r) \/ ConfirmRecheck(r)
  PROVE  IInv'
<1>1. req[r].pc \in {"taken", "recheck"} /\ LocalOK(r)
  BY DEF RequestTaken, ConfirmRecheck, At, IInv
<1>2. CASE Respond(r, req[r], "conflict")
  BY <1>1, <1>2, AnswersInv DEF Outcomes
<1>3. CASE \/ req[r].op = "request" /\ Continue(r, req[r], "prune")
           \/ req[r].op = "confirm" /\ Continue(r, req[r], "swap")
  <2>1. PICK pc \in {"prune", "swap"} :
          Continue(r, req[r], pc) /\ (req[r].op = "request" <=> pc = "prune")
                                  /\ (req[r].op = "confirm" <=> pc = "swap")
    BY <1>3
  <2>2. /\ Locals(r) /\ SameNames(r) /\ req'[r].pc = pc /\ req'[r].outcome = "none"
        /\ req'[r].hit = req[r].hit
    BY <1>1, <2>1, GoesOn DEF Pcs
  <2>3. LocalOK(r)' /\ Prunes(r)
    BY <1>1, <2>1, <2>2 DEF LocalOK, Prunes, PastPrune, SameNames
  <2> QED
    BY <2>2, <2>3, QuietStep DEF tables, IInv, TypeOK
<1> QED
  BY <1>2, <1>3 DEF RequestTaken, ConfirmRecheck, At

LEMMA ConfirmSwapInv ==
  ASSUME IInv, NEW r \in Requests, ConfirmSwap(r)
  PROVE  IInv'
<1>1. req[r].pc = "swap" /\ req[r].op = "confirm" /\ LocalOK(r) /\ TypeOK
  BY DEF ConfirmSwap, At, IInv
<1>2. req[r].user \in UserIds /\ req[r].email \in Emails
  BY <1>1 DEF LocalOK
<1>3. CASE Respond(r, req[r], "error") /\ UNCHANGED users
  BY <1>1, <1>3, AnswersInv DEF ConfirmSwap, tables, Outcomes
<1>4. CASE users' = [users EXCEPT ![req[r].user] = req[r].email] /\ Continue(r, req[r], "wipe")
  <2>1. users' \in [UserIds -> Emails \cup {None}] /\ everUsed' \subseteq UserIds
    BY <1>1, <1>2, <1>4 DEF ConfirmSwap, TypeOK
  <2>2. /\ Locals(r) /\ SameNames(r) /\ req'[r].pc = "wipe" /\ req'[r].outcome = "none"
        /\ req'[r].hit = req[r].hit
    BY <1>1, <1>4, GoesOn DEF Pcs
  <2>3. LocalOK(r)' /\ Prunes(r)
    BY <1>1, <2>2 DEF LocalOK, Prunes, PastPrune, SameNames
  <2> QED
    BY <2>1, <2>2, <2>3, QuietStep DEF ConfirmSwap
<1> QED
  BY <1>3, <1>4 DEF ConfirmSwap

-----------------------------------------------------------------------------
(* The actions that write one of the two tables. *)

LEMMA TableStep ==
  ASSUME IInv, NEW r \in Requests,
         users' \in [UserIds -> Emails \cup {None}], UNCHANGED everUsed,
         authTokens' \in [LoginHashes -> Row], emailTokens' \in [ChangeHashes -> Row],
         sessions' \subseteq UserIds,
         Locals(r), LoginRows(r), ChangeRows(r), Prunes(r), LocalOK(r)'
  PROVE  IInv'
<1>1. TypeOK'
  BY DEF IInv, TypeOK, Locals
<1>2. Frame(r)
  BY DEF Frame, Locals
<1> QED
  BY <1>1, <1>2, FramePreserves

LEMMA LoginPruneInv ==
  ASSUME IInv, NEW r \in Requests, LoginPrune(r)
  PROVE  IInv'
<1>1. req[r].pc = "prune" /\ req[r].op = "login" /\ LocalOK(r) /\ TypeOK
  BY DEF LoginPrune, At, IInv
<1>2. /\ authTokens' \in [LoginHashes -> Row] /\ LoginRows(r)
      /\ \A h \in LoginHashes : ~Live(authTokens'[h], req[r].user)
  BY <1>1, Deletes DEF LoginPrune, TypeOK, LoginRows
<1>3. /\ Locals(r) /\ SameNames(r) /\ req'[r].pc = "insert" /\ req'[r].outcome = "none"
      /\ req'[r].hit = req[r].hit
  BY <1>1, GoesOn DEF LoginPrune, Pcs
<1>4. LocalOK(r)' /\ Prunes(r)
  BY <1>1, <1>2, <1>3 DEF LocalOK, Prunes, PastPrune, SameNames
<1> QED
  BY <1>1, <1>2, <1>3, <1>4, TableStep, TablesAlone DEF LoginPrune, TypeOK

LEMMA RequestPruneInv ==
  ASSUME IInv, NEW r \in Requests, RequestPrune(r)
  PROVE  IInv'
<1>1. req[r].pc = "prune" /\ req[r].op = "request" /\ LocalOK(r) /\ TypeOK
  BY DEF RequestPrune, At, IInv
<1>2. /\ emailTokens' \in [ChangeHashes -> Row] /\ ChangeRows(r)
      /\ \A h \in ChangeHashes : ~Live(emailTokens'[h], req[r].user)
  BY <1>1, Deletes DEF RequestPrune, TypeOK, ChangeRows
<1>3. /\ Locals(r) /\ SameNames(r) /\ req'[r].pc = "insert" /\ req'[r].outcome = "none"
      /\ req'[r].hit = req[r].hit
  BY <1>1, GoesOn DEF RequestPrune, Pcs
<1>4. LocalOK(r)' /\ Prunes(r)
  BY <1>1, <1>2, <1>3 DEF LocalOK, Prunes, PastPrune, SameNames
<1> QED
  BY <1>1, <1>2, <1>3, <1>4, TableStep, TablesAlone DEF RequestPrune, TypeOK

LEMMA ConfirmWipeInv ==
  ASSUME IInv, NEW r \in Requests, ConfirmWipe(r)
  PROVE  IInv'
<1>1. req[r].pc = "wipe" /\ req[r].op = "confirm" /\ TypeOK
  BY DEF ConfirmWipe, At, IInv
<1>2. /\ authTokens' \in [LoginHashes -> Row] /\ LoginRows(r)
      /\ \A h \in LoginHashes : ~Live(authTokens'[h], req[r].user)
  BY <1>1, Deletes DEF ConfirmWipe, TypeOK, LoginRows
<1>3. Locals(r) /\ SameNames(r) /\ LocalOK(r)' /\ req'[r].pc = "done"
  BY <1>1, Answers DEF ConfirmWipe, Outcomes
<1>4. Prunes(r)
  BY <1>1, <1>2, <1>3 DEF Prunes, SameNames
<1> QED
  BY <1>1, <1>2, <1>3, <1>4, TableStep, TablesAlone DEF ConfirmWipe, TypeOK

LEMMA BumpInv ==
  ASSUME IInv, NEW r \in Requests, VerifyBump(r) \/ ConfirmBump(r)
  PROVE  IInv'
<1>1. req[r].pc = "bump" /\ Respond(r, req[r], "invalid") /\ TypeOK
  BY DEF VerifyBump, ConfirmBump, At, IInv
<1>2. /\ authTokens' \in [LoginHashes -> Row] /\ LoginRows(r)
      /\ emailTokens' \in [ChangeHashes -> Row] /\ ChangeRows(r)
  <2>1. CASE VerifyBump(r)
    BY <1>1, <2>1, Increments, TablesAlone DEF VerifyBump, TypeOK, LoginRows
  <2>2. CASE ConfirmBump(r)
    BY <1>1, <2>2, Increments, TablesAlone DEF ConfirmBump, TypeOK, ChangeRows
  <2> QED
    BY <2>1, <2>2
<1>3. /\ Locals(r) /\ LocalOK(r)' /\ req'[r].pc = "done" /\ req'[r].outcome = "invalid"
  BY <1>1, Answers DEF Outcomes
<1>4. Prunes(r)
  BY <1>3 DEF Prunes, PastPrune
<1> QED
  BY <1>1, <1>2, <1>3, <1>4, TableStep DEF VerifyBump, ConfirmBump, TypeOK

LEMMA DeleteAccountInv ==
  ASSUME IInv, NEW r \in Requests, NEW u \in UserIds, DeleteAccount(r, u)
  PROVE  IInv'
<1>1. TypeOK
  BY DEF IInv
<1>2. users' \in [UserIds -> Emails \cup {None}] /\ sessions' \subseteq UserIds
  BY <1>1 DEF DeleteAccount, TypeOK
<1>3. /\ authTokens' \in [LoginHashes -> Row] /\ LoginRows(r)
      /\ emailTokens' \in [ChangeHashes -> Row] /\ ChangeRows(r)
  BY <1>1, Cascades DEF DeleteAccount, TypeOK, LoginRows, ChangeRows
<1>4. Locals(r) /\ req'[r].hit = None /\ req'[r].op = "delete" /\ req'[r].pc = "done"
  BY StartResponds DEF DeleteAccount, CanStart, AllOps, Outcomes
<1>5. LocalOK(r)' /\ Prunes(r)
  BY <1>4 DEF LocalOK, Prunes, PastPrune
<1> QED
  BY <1>2, <1>3, <1>4, <1>5, TableStep DEF DeleteAccount

LEMMA LoginInsertInv ==
  ASSUME IInv, NEW r \in Requests, NEW c \in Codes, LoginInsert(r, c)
  PROVE  IInv'
<1> DEFINE u == req[r].user
           h == HashCode(u, c)
<1>1. req[r].pc = "insert" /\ req[r].op = "login" /\ LocalOK(r) /\ HitOK(r) /\ TypeOK
  BY DEF LoginInsert, At, IInv
<1>2. /\ u \in UserIds /\ h \in LoginHashes /\ req[r].hit = None /\ req[r].outcome = "none"
      /\ req[r] \in Request /\ req \in [Requests -> Request]
  BY <1>1 DEF LocalOK, HitOK, LoginHashes, HashCode, TypeOK
<1>3. CASE Respond(r, req[r], "error") /\ UNCHANGED authTokens
  BY <1>1, <1>3, AnswersInv DEF LoginInsert, tables, Outcomes
<1>4. CASE /\ authTokens' = CreateToken(authTokens, h, FreshRow(u, None, r))
           /\ Continue(r, [req[r] EXCEPT !.code = c], "mail")
  <2> HIDE DEF h
  <2>1. /\ req' \in [Requests -> Request] /\ \A s \in Requests \ {r} : req'[s] = req[s]
        /\ req'[r].pc = "mail" /\ req'[r].outcome = "none" /\ req'[r].op = "login"
        /\ req'[r].user = u /\ req'[r].code = c /\ req'[r].after = req[r].after
        /\ req'[r].hit = None
    <3> DEFINE locals == [req[r] EXCEPT !.code = c]
    <3>1. /\ locals \in Request /\ locals.op = req[r].op /\ locals.user = req[r].user
          /\ locals.email = req[r].email /\ locals.code = c
          /\ locals.outcome = req[r].outcome
          /\ locals.after = req[r].after /\ locals.hit = req[r].hit
      BY <1>2, WithCode
    <3>2. Continue(r, locals, "mail") /\ "mail" \in Pcs
      BY <1>4 DEF Pcs
    <3> HIDE DEF locals
    <3> QED
      BY <1>1, <1>2, <3>1, <3>2, ContinueLocals
  <2>2. FreshRow(u, None, r) \in Row /\ FreshRow(u, None, r).userId = u
        /\ FreshRow(u, None, r).by = r
    BY <1>2 DEF FreshRow, Row
  <2>3. /\ authTokens' \in [LoginHashes -> Row] /\ authTokens'[h] = FreshRow(u, None, r)
        /\ \A g \in LoginHashes \ {h} : authTokens'[g] = authTokens[g]
    BY <1>1, <1>2, <1>4, <2>2 DEF TypeOK, CreateToken
  <2>4. LoginRows(r)
    <3>1. \A g \in LoginHashes : authTokens[g].state # "none" => Kept(authTokens[g], authTokens[g])
      BY DEF Kept
    <3>2. h = HashCode(req'[r].user, req'[r].code)
      BY <2>1 DEF h
    <3> QED
      BY <1>1, <2>1, <2>2, <2>3, <3>1, <3>2 DEF LoginRows, Inserts
  <2>5. Locals(r) /\ LocalOK(r)' /\ Prunes(r)
    BY <1>1, <1>2, <2>1 DEF Locals, Others, Mine, Hits, LocalOK, Prunes, PastPrune
  <2> QED
    BY <1>1, <2>3, <2>4, <2>5, TableStep, TablesAlone DEF LoginInsert, TypeOK
<1> QED
  BY <1>3, <1>4 DEF LoginInsert

LEMMA RequestInsertInv ==
  ASSUME IInv, NEW r \in Requests, NEW c \in Codes, RequestInsert(r, c)
  PROVE  IInv'
<1> DEFINE u == req[r].user
           e == req[r].email
           h == HashEmailChangeCode(u, e, c)
<1>1. req[r].pc = "insert" /\ req[r].op = "request" /\ LocalOK(r) /\ HitOK(r) /\ TypeOK
  BY DEF RequestInsert, At, IInv
<1>2. /\ u \in UserIds /\ e \in Emails /\ h \in ChangeHashes
      /\ req[r].hit = None /\ req[r].outcome = "none"
      /\ req[r] \in Request /\ req \in [Requests -> Request]
  BY <1>1 DEF LocalOK, HitOK, ChangeHashes, HashEmailChangeCode, TypeOK
<1>3. CASE Respond(r, req[r], "error") /\ UNCHANGED emailTokens
  BY <1>1, <1>3, AnswersInv DEF RequestInsert, tables, Outcomes
<1>4. CASE /\ emailTokens' = CreateToken(emailTokens, h, FreshRow(u, e, r))
           /\ Continue(r, [req[r] EXCEPT !.code = c], "mail")
  <2> HIDE DEF h
  <2>1. /\ req' \in [Requests -> Request] /\ \A s \in Requests \ {r} : req'[s] = req[s]
        /\ req'[r].pc = "mail" /\ req'[r].outcome = "none" /\ req'[r].op = "request"
        /\ req'[r].user = u /\ req'[r].email = e /\ req'[r].code = c
        /\ req'[r].after = req[r].after /\ req'[r].hit = None
    <3> DEFINE locals == [req[r] EXCEPT !.code = c]
    <3>1. /\ locals \in Request /\ locals.op = req[r].op /\ locals.user = req[r].user
          /\ locals.email = req[r].email /\ locals.code = c
          /\ locals.outcome = req[r].outcome
          /\ locals.after = req[r].after /\ locals.hit = req[r].hit
      BY <1>2, WithCode
    <3>2. Continue(r, locals, "mail") /\ "mail" \in Pcs
      BY <1>4 DEF Pcs
    <3> HIDE DEF locals
    <3> QED
      BY <1>1, <1>2, <3>1, <3>2, ContinueLocals
  <2>2. /\ FreshRow(u, e, r) \in Row /\ FreshRow(u, e, r).userId = u
        /\ FreshRow(u, e, r).newEmail = e /\ FreshRow(u, e, r).by = r
    BY <1>2 DEF FreshRow, Row
  <2>3. /\ emailTokens' \in [ChangeHashes -> Row] /\ emailTokens'[h] = FreshRow(u, e, r)
        /\ \A g \in ChangeHashes \ {h} : emailTokens'[g] = emailTokens[g]
    BY <1>1, <1>2, <1>4, <2>2 DEF TypeOK, CreateToken
  <2>4. ChangeRows(r)
    <3>1. \A g \in ChangeHashes :
            emailTokens[g].state # "none" => Kept(emailTokens[g], emailTokens[g])
      BY DEF Kept
    <3>2. h = HashEmailChangeCode(req'[r].user, req'[r].email, req'[r].code)
      BY <2>1 DEF h
    <3> QED
      BY <1>1, <2>1, <2>2, <2>3, <3>1, <3>2 DEF ChangeRows, Inserts
  <2>5. Locals(r) /\ LocalOK(r)' /\ Prunes(r)
    BY <1>1, <1>2, <2>1 DEF Locals, Others, Mine, Hits, LocalOK, Prunes, PastPrune
  <2> QED
    BY <1>1, <2>3, <2>4, <2>5, TableStep, TablesAlone DEF RequestInsert, TypeOK
<1> QED
  BY <1>3, <1>4 DEF RequestInsert

LEMMA VerifyConsumeInv ==
  ASSUME IInv, NEW r \in Requests, VerifyConsume(r)
  PROVE  IInv'
<1> DEFINE h == HashCode(req[r].user, req[r].code)
           missed == OpenCodes(authTokens, req[r].user)
<1>1. /\ req[r].pc = "consume" /\ req[r].op = "verify" /\ LocalOK(r) /\ HitOK(r) /\ TypeOK
      /\ req \in [Requests -> Request] /\ req[r] \in Request
  BY DEF VerifyConsume, At, IInv, TypeOK
<1>2. /\ req[r].user \in UserIds /\ req[r].code \in Codes /\ req[r].hit = None
      /\ req[r].outcome = "none"
  BY <1>1 DEF LocalOK
<1>3. h \in LoginHashes
  BY <1>2 DEF LoginHashes, HashCode
<1> HIDE DEF h
<1>4. CASE /\ authTokens[h].state = "live"
           /\ authTokens' = ConsumeToken(authTokens, h)
           /\ sessions' = sessions \cup {authTokens[h].userId}
           /\ Respond(r, [req[r] EXCEPT !.hit = authTokens[h].by], "ok")
  <2>1. PICK t \in Requests : /\ t = authTokens[h].by /\ authTokens[h].userId = req[t].user
                              /\ h = HashCode(req[t].user, req[t].code)
    BY <1>3, <1>4 DEF IInv, LoginRowsOK
  <2>2. sessions' \subseteq UserIds
    BY <1>1, <1>2, <1>4, <2>1 DEF h, HashCode, TypeOK
  <2>3. /\ authTokens' \in [LoginHashes -> Row] /\ LoginRows(r)
        /\ authTokens'[h].state = "used"
    BY <1>1, <1>3, <1>4, Consumes DEF TypeOK, LoginRows
  <2>4. /\ req' \in [Requests -> Request] /\ \A s \in Requests \ {r} : req'[s] = req[s]
        /\ req'[r].pc = "done" /\ req'[r].op = "verify" /\ SameNames(r)
        /\ req'[r].after = req[r].after /\ req'[r].hit = t
    <3>1. /\ [req[r] EXCEPT !.hit = t] \in Request
          /\ [req[r] EXCEPT !.hit = t].hit = t
          /\ [req[r] EXCEPT !.hit = t].op = req[r].op
          /\ [req[r] EXCEPT !.hit = t].user = req[r].user
          /\ [req[r] EXCEPT !.hit = t].email = req[r].email
          /\ [req[r] EXCEPT !.hit = t].code = req[r].code
          /\ [req[r] EXCEPT !.hit = t].after = req[r].after
      BY <1>1 DEF Request
    <3> QED
      BY <1>1, <1>4, <2>1, <3>1, RespondLocals DEF Outcomes, SameNames
  <2>5. LoginHit(r)
    BY <1>3, <1>4, <2>1, <2>3, <2>4 DEF LoginHit, SameNames, h
  <2>6. Locals(r) /\ LocalOK(r)' /\ Prunes(r)
    BY <1>1, <2>4, <2>5 DEF Locals, Others, Mine, Hits, LocalOK, Prunes
  <2> QED
    BY <1>1, <2>2, <2>3, <2>6, TableStep, TablesAlone DEF VerifyConsume, TypeOK
<1>5. CASE /\ Continue(r, [req[r] EXCEPT !.missed = missed], "bump")
           /\ UNCHANGED <<authTokens, sessions>>
  <2>1. missed \in SUBSET (Requests \cup {None})
    BY <1>1 DEF OpenCodes, TypeOK, Row
  <2> HIDE DEF missed
  <2>2. /\ req' \in [Requests -> Request] /\ \A s \in Requests \ {r} : req'[s] = req[s]
        /\ req'[r].pc = "bump" /\ req'[r].op = "verify" /\ SameNames(r)
        /\ req'[r].after = req[r].after /\ req'[r].hit = None /\ req'[r].outcome = "none"
    <3> DEFINE more == [req[r] EXCEPT !.missed = missed]
    <3>1. /\ more \in Request /\ more.op = req[r].op /\ more.user = req[r].user
          /\ more.email = req[r].email /\ more.code = req[r].code
          /\ more.outcome = req[r].outcome
          /\ more.after = req[r].after /\ more.hit = req[r].hit
      BY <1>1, <2>1, WithMissed
    <3>2. Continue(r, more, "bump") /\ "bump" \in Pcs
      BY <1>5 DEF Pcs
    <3> HIDE DEF more
    <3> QED
      BY <1>1, <1>2, <3>1, <3>2, ContinueLocals DEF SameNames
  <2>3. Locals(r) /\ LocalOK(r)' /\ Prunes(r)
    BY <1>1, <1>2, <2>2 DEF Locals, Others, Mine, Hits, LocalOK, Prunes, PastPrune, SameNames
  <2> QED
    BY <1>1, <1>5, <2>3, QuietStep DEF VerifyConsume, TypeOK
<1> QED
  BY <1>4, <1>5 DEF VerifyConsume, Redeemable, h

LEMMA ConfirmConsumeInv ==
  ASSUME IInv, NEW r \in Requests, NEW u \in UserIds, NEW e \in Emails, NEW c \in Codes,
         ConfirmConsume(r, u, e, c)
  PROVE  IInv'
<1> DEFINE h == HashEmailChangeCode(u, e, c)
           missed == OpenCodes(emailTokens, u)
           locals == Start(r, "confirm", u, e, c)
<1>1. req[r].pc = "idle" /\ TypeOK /\ req \in [Requests -> Request] /\ h \in ChangeHashes
  BY DEF ConfirmConsume, CanStart, IInv, TypeOK, ChangeHashes, HashEmailChangeCode
<1>2. /\ locals \in Request /\ locals.op = "confirm" /\ locals.user = u /\ locals.email = e
      /\ locals.code = c /\ locals.outcome = "none" /\ locals.hit = None
      /\ locals.after = Answered
  BY <1>1, StartLocals DEF AllOps
<1> HIDE DEF h, locals
<1>3. CASE /\ emailTokens[h].state = "live"
           /\ emailTokens' = ConsumeToken(emailTokens, h)
           /\ Continue(r, [locals EXCEPT !.hit = emailTokens[h].by,
                                         !.email = emailTokens[h].newEmail], "recheck")
  <2>1. PICK t \in Requests : /\ t = emailTokens[h].by /\ emailTokens[h].newEmail = req[t].email
                              /\ h = HashEmailChangeCode(req[t].user, req[t].email, req[t].code)
    BY <1>1, <1>3 DEF IInv, ChangeRowsOK
  <2>2. emailTokens[h].newEmail = e
    BY <2>1 DEF h, HashEmailChangeCode
  <2>3. /\ emailTokens' \in [ChangeHashes -> Row] /\ ChangeRows(r)
        /\ emailTokens'[h].state = "used"
    BY <1>1, <1>3, Consumes DEF TypeOK, ChangeRows
  <2>4. /\ req' \in [Requests -> Request] /\ \A s \in Requests \ {r} : req'[s] = req[s]
        /\ req'[r].pc = "recheck" /\ req'[r].op = "confirm" /\ req'[r].outcome = "none"
        /\ req'[r].user = u /\ req'[r].email = e /\ req'[r].code = c
        /\ req'[r].after = Answered /\ req'[r].hit = t
    <3> DEFINE more == [locals EXCEPT !.hit = t, !.email = e]
    <3>1. /\ more \in Request /\ more.op = locals.op /\ more.user = locals.user
          /\ more.email = e /\ more.code = locals.code
          /\ more.outcome = locals.outcome
          /\ more.after = locals.after /\ more.hit = t
      BY <1>2 DEF Request
    <3>2. Continue(r, more, "recheck") /\ "recheck" \in Pcs
      BY <1>3, <2>1, <2>2 DEF Pcs
    <3> HIDE DEF more
    <3> QED
      BY <1>1, <1>2, <3>1, <3>2, ContinueLocals
  <2>5. ChangeHit(r)
    BY <1>1, <1>3, <2>1, <2>3, <2>4 DEF ChangeHit, h
  <2>6. Locals(r) /\ LocalOK(r)' /\ Prunes(r)
    BY <1>1, <2>4, <2>5 DEF Locals, Others, Mine, Hits, LocalOK, Prunes, PastPrune
  <2> QED
    BY <1>1, <2>3, <2>6, TableStep, TablesAlone DEF ConfirmConsume, TypeOK
<1>4. CASE /\ Continue(r, [locals EXCEPT !.missed = missed], "bump")
           /\ UNCHANGED emailTokens
  <2>1. missed \in SUBSET (Requests \cup {None})
    BY <1>1 DEF OpenCodes, TypeOK, Row
  <2> HIDE DEF missed
  <2>2. /\ req' \in [Requests -> Request] /\ \A s \in Requests \ {r} : req'[s] = req[s]
        /\ req'[r].pc = "bump" /\ req'[r].op = "confirm" /\ req'[r].outcome = "none"
        /\ req'[r].user = u /\ req'[r].email = e /\ req'[r].after = Answered
        /\ req'[r].hit = None
    <3> DEFINE more == [locals EXCEPT !.missed = missed]
    <3>1. /\ more \in Request /\ more.op = locals.op /\ more.user = locals.user
          /\ more.email = locals.email /\ more.code = locals.code
          /\ more.outcome = locals.outcome
          /\ more.after = locals.after /\ more.hit = locals.hit
      BY <1>2, <2>1, WithMissed
    <3>2. Continue(r, more, "bump") /\ "bump" \in Pcs
      BY <1>4 DEF Pcs
    <3> HIDE DEF more
    <3> QED
      BY <1>1, <1>2, <3>1, <3>2, ContinueLocals
  <2>3. Locals(r) /\ LocalOK(r)' /\ Prunes(r)
    BY <1>1, <2>2 DEF Locals, Others, Mine, Hits, LocalOK, Prunes, PastPrune
  <2> QED
    BY <1>1, <1>4, <2>3, QuietStep DEF ConfirmConsume, TypeOK
<1> QED
  BY <1>3, <1>4 DEF ConfirmConsume, Redeemable, h, locals

-----------------------------------------------------------------------------
(* Time passes for a code: the requests are where they were. *)

LEMMA StillPreserves ==
  ASSUME IInv, UNCHANGED req, TypeOK',
         \A h \in LoginHashes :
           authTokens'[h].state # "none" => Kept(authTokens[h], authTokens'[h]),
         \A h \in ChangeHashes :
           emailTokens'[h].state # "none" => Kept(emailTokens[h], emailTokens'[h])
  PROVE  IInv'
<1>1. LoginRowsOK' /\ ChangeRowsOK'
  <2>1. ASSUME NEW h \in LoginHashes, authTokens'[h].state # "none"
        PROVE  \E t \in Requests :
                 /\ authTokens'[h].by = t
                 /\ req[t].op = "login" /\ req[t].pc \in {"mail", "done"}
                 /\ authTokens'[h].userId = req[t].user
                 /\ h = HashCode(req[t].user, req[t].code)
    BY <2>1, Creators DEF IInv, LoginRowsOK, Issued, Kept
  <2>2. ASSUME NEW h \in ChangeHashes, emailTokens'[h].state # "none"
        PROVE  \E t \in Requests :
                 /\ emailTokens'[h].by = t
                 /\ req[t].op = "request" /\ req[t].pc \in {"mail", "done"}
                 /\ emailTokens'[h].userId = req[t].user
                 /\ emailTokens'[h].newEmail = req[t].email
                 /\ h = HashEmailChangeCode(req[t].user, req[t].email, req[t].code)
    BY <2>2, Creators DEF IInv, ChangeRowsOK, Issued, Kept
  <2> QED
    BY <2>1, <2>2 DEF LoginRowsOK, ChangeRowsOK, Issued
<1>2. \A r \in Requests : LocalOK(r)' /\ AfterOK(r)'
  BY DEF IInv, LocalOK, AfterOK
<1>3. ASSUME NEW r \in Requests PROVE HitOK(r)'
  <2>1. HitOK(r)
    BY DEF IInv
  <2>2. \A h \in LoginHashes :
          authTokens'[h].state = "live" =>
            authTokens[h].state = "live" /\ authTokens[h].by = authTokens'[h].by
    BY DEF Kept
  <2>3. \A h \in ChangeHashes :
          emailTokens'[h].state = "live" =>
            emailTokens[h].state = "live" /\ emailTokens[h].by = emailTokens'[h].by
    BY DEF Kept
  <2> QED
    BY <2>1, <2>2, <2>3 DEF HitOK, Issued
<1>4. SingleUse' /\ RedeemsOwnCode'
  BY DEF IInv, SingleUse, RedeemsOwnCode
<1>5. /\ DOMAIN authTokens = LoginHashes /\ DOMAIN emailTokens = ChangeHashes
      /\ DOMAIN authTokens' = LoginHashes /\ DOMAIN emailTokens' = ChangeHashes
  BY DEF IInv, TypeOK
<1>6. SupersededCodeIsDead' /\ EarlierCodesDieWithOldEmail'
  BY <1>5 DEF IInv, SupersededCodeIsDead, EarlierCodesDieWithOldEmail, Supersedes, PastPrune,
              Live, Kept
<1>7. SupersededTargetIsDead'
  BY <1>5 DEF IInv, SupersededTargetIsDead, Supersedes, PastPrune, Live, Kept
<1> QED
  BY <1>1, <1>2, <1>3, <1>4, <1>6, <1>7 DEF IInv

LEMMA StutterInv ==
  ASSUME IInv, UNCHANGED vars
  PROVE  IInv'
<1>1. TypeOK /\ TypeOK'
  BY DEF IInv, TypeOK, vars
<1> QED
  BY <1>1, StillPreserves, Unchanged DEF vars, TypeOK

LEMMA ExpireInv ==
  ASSUME IInv, Expire
  PROVE  IInv'
<1>1. authTokens \in [LoginHashes -> Row] /\ emailTokens \in [ChangeHashes -> Row] /\ TypeOK
  BY DEF IInv, TypeOK
<1>2. ASSUME NEW g \in LoginHashes, ExpireLogin(g) PROVE IInv'
  <2>1. authTokens' = ExpireToken(authTokens, g)
    BY <1>2 DEF ExpireLogin
  <2>2. /\ authTokens' \in [LoginHashes -> Row]
        /\ \A h \in LoginHashes :
             authTokens'[h].state # "none" => Kept(authTokens[h], authTokens'[h])
    BY <1>1, <2>1, Expires
  <2> QED
    BY <1>1, <1>2, <2>2, StillPreserves, Unchanged DEF ExpireLogin, TypeOK
<1>3. ASSUME NEW g \in ChangeHashes, ExpireChange(g) PROVE IInv'
  <2>1. emailTokens' = ExpireToken(emailTokens, g)
    BY <1>3 DEF ExpireChange
  <2>2. /\ emailTokens' \in [ChangeHashes -> Row]
        /\ \A h \in ChangeHashes :
             emailTokens'[h].state # "none" => Kept(emailTokens[h], emailTokens'[h])
    BY <1>1, <2>1, Expires
  <2> QED
    BY <1>1, <1>3, <2>2, StillPreserves, Unchanged DEF ExpireChange, TypeOK
<1> QED
  BY <1>2, <1>3 DEF Expire

-----------------------------------------------------------------------------
(* The invariant of the specification. *)

LEMMA InitInv ==
  ASSUME Init
  PROVE  IInv
<1>1. TypeOK
  <2>1. Idle \in Request
    BY DEF Idle, Request, Pcs, Outcomes
  <2> QED
    BY <2>1, SeedAssumption, NoRowType DEF Init, TypeOK
<1>2. /\ \A h \in LoginHashes : authTokens[h].state = "none"
      /\ \A h \in ChangeHashes : emailTokens[h].state = "none"
  BY DEF Init, NoRow
<1>3. \A r \in Requests : /\ req[r].op = "none" /\ req[r].pc = "idle" /\ req[r].after = {}
                          /\ req[r].outcome = "none" /\ req[r].hit = None
  BY DEF Init, Idle
<1>4. LoginRowsOK /\ ChangeRowsOK
  BY <1>2 DEF LoginRowsOK, ChangeRowsOK
<1>5. \A r \in Requests : LocalOK(r) /\ AfterOK(r) /\ HitOK(r)
  BY <1>3 DEF LocalOK, AfterOK, HitOK
<1>6. SingleUse /\ RedeemsOwnCode
  BY <1>3 DEF SingleUse, RedeemsOwnCode
<1>7. SupersededCodeIsDead /\ SupersededTargetIsDead /\ EarlierCodesDieWithOldEmail
  BY <1>3 DEF SupersededCodeIsDead, SupersededTargetIsDead, EarlierCodesDieWithOldEmail,
              Supersedes
<1> QED
  BY <1>1, <1>4, <1>5, <1>6, <1>7 DEF IInv

LEMMA NextInv ==
  ASSUME IInv, [Next]_vars
  PROVE  IInv'
<1>1. ASSUME NEW r \in Requests, Login(r) PROVE IInv'
  <2>1. ASSUME LoginMail(r) PROVE IInv'
    BY <2>1, AnswersInv DEF LoginMail, At, Outcomes
  <2> QED
    BY <1>1, <2>1, LoginUpsertInv, LoginPruneInv, LoginInsertInv DEF Login
<1>2. ASSUME NEW r \in Requests, Verify(r) PROVE IInv'
  BY <1>2, VerifyFindInv, VerifyConsumeInv, BumpInv DEF Verify
<1>3. ASSUME NEW r \in Requests, RequestChange(r) PROVE IInv'
  <2>1. ASSUME RequestMail(r) PROVE IInv'
    BY <2>1, AnswersInv DEF RequestMail, At, Outcomes
  <2>2. ASSUME RequestTaken(r) PROVE IInv'
    BY <2>2, CheckInv DEF RequestTaken
  <2> QED
    BY <1>3, <2>1, <2>2, RequestLoadInv, RequestPruneInv, RequestInsertInv DEF RequestChange
<1>4. ASSUME NEW r \in Requests, ConfirmChange(r) PROVE IInv'
  <2>1. ASSUME ConfirmRecheck(r) PROVE IInv'
    BY <2>1, CheckInv DEF ConfirmRecheck
  <2> QED
    BY <1>4, <2>1, ConfirmConsumeInv, BumpInv, ConfirmSwapInv, ConfirmWipeInv
       DEF ConfirmChange
<1>5. ASSUME NEW r \in Requests, Account(r) PROVE IInv'
  BY <1>5, DeleteAccountInv, GetCurrentUserInv DEF Account
<1>6. ASSUME NEW r \in Requests, Crash(r) PROVE IInv'
  BY <1>6, AnswersInv DEF Crash, Outcomes
<1> QED
  BY <1>1, <1>2, <1>3, <1>4, <1>5, <1>6, ExpireInv, StutterInv DEF Next

\* Whatever requests overlap, crash or race, every row carries the digest its
\* creator computed, a redeemed code is never live again, and the tables and
\* the handlers' locals have their types (the handlers of auth.service.ts).
THEOREM InvariantHolds == Spec => []IInv
<1>1. Init => IInv
  BY InitInv
<1>2. IInv /\ [Next]_vars => IInv'
  BY NextInv
<1> QED
  BY <1>1, <1>2, PTL DEF Spec

\* The tables and the handlers' locals always have their types.
THEOREM TypeCorrect == Spec => []TypeOK
<1>1. IInv => TypeOK
  BY DEF IInv
<1> QED
  BY <1>1, InvariantHolds, PTL

\* However many answers race for a code (consumeToken,
\* consumeEmailChangeToken), at most one request ever redeems it.
THEOREM CodesAreSingleUse == Spec => []SingleUse
<1>1. IInv => SingleUse
  BY DEF IInv
<1> QED
  BY <1>1, InvariantHolds, PTL

\* A session or a change of address is only obtained with a code generated
\* for that account, by that flow and for that address (hashCode,
\* hashEmailChangeCode).
THEOREM CodesAreBound == Spec => []RedeemsOwnCode
<1>1. IInv => RedeemsOwnCode
  BY DEF IInv
<1> QED
  BY <1>1, InvariantHolds, PTL

\* A new login request kills every code of an earlier, answered one, whatever
\* runs beside them (deleteLiveTokensForUser).
THEOREM NewCodesSupersede == Spec => []SupersededCodeIsDead
<1>1. IInv => SupersededCodeIsDead
  BY DEF IInv
<1> QED
  BY <1>1, InvariantHolds, PTL

\* A new email-change request kills every earlier pending target of the
\* account (deleteLiveEmailChangeTokensForUser).
THEOREM NewTargetsSupersede == Spec => []SupersededTargetIsDead
<1>1. IInv => SupersededTargetIsDead
  BY DEF IInv
<1> QED
  BY <1>1, InvariantHolds, PTL

\* A confirmed change of address kills the login codes requested before it
\* (the wipe at the end of confirmEmailChange).
THEOREM ConfirmationKillsEarlierCodes == Spec => []EarlierCodesDieWithOldEmail
<1>1. IInv => EarlierCodesDieWithOldEmail
  BY DEF IInv
<1> QED
  BY <1>1, InvariantHolds, PTL

-----------------------------------------------------------------------------
(* Part 2: AuthService implements OneTimeCode. *)

(***************************************************************************)
(* What the invariant does not say and the mapping needs: a request that   *)
(* has not come to its INSERT has issued nothing.                          *)
(***************************************************************************)
Early == {"taken", "prune", "insert"}
Unissued(r) ==
  /\ req[r].pc = "idle" => req[r].op = "none" /\ req[r].hit = None
  /\ req[r].pc \in Early => req[r].code = None
  /\ req[r].op \in {"login", "request"} => req[r].user \in UserIds
NothingEarly == \A r \in Requests : Unissued(r)

CInv == IInv /\ NothingEarly

-----------------------------------------------------------------------------
(* The steps of OneTimeCode, code by code. *)

LEMMA LoginIssues ==
  ASSUME NEW i \in Requests, NEW g \in UserIds,
         LoginCode(i) = NoCode("unissued"),
         LoginCode(i)' = [state |-> "live", for |-> g, tries |-> 0],
         \A j \in Requests \ {i} : LoginCode(j)' = LoginCode(j),
         UNCHANGED sessions
  PROVE  LoginFlow!Next
<1>1. LoginCode(i).state = "unissued"
  BY DEF NoCode
<1>2. LoginFlow!Issue(i, g)
  BY <1>1 DEF LoginFlow!Issue
<1> QED
  BY <1>2 DEF LoginFlow!Next

LEMMA LoginRedeems ==
  ASSUME NEW i \in Requests, NEW g, LoginCode(i).state = "live",
         LoginCode(i).tries < MaxAttempts, LoginCode(i).for = g,
         LoginCode(i)' = NoCode("redeemed"),
         \A j \in Requests \ {i} : LoginCode(j)' = LoginCode(j),
         sessions' = sessions \cup {g}
  PROVE  LoginFlow!Next
<1>1. LoginFlow!Redeem(i)
  BY DEF LoginFlow!Redeem, LoginFlow!NoCode, NoCode
<1> QED
  BY <1>1 DEF LoginFlow!Next

LEMMA LoginMisses ==
  ASSUME NEW S \in SUBSET Requests, \A i \in S : LoginCode(i).state = "live",
         \A i \in S : LoginCode(i)' = [LoginCode(i) EXCEPT !.tries = LoginCode(i).tries + 1],
         \A j \in Requests \ S : LoginCode(j)' = LoginCode(j),
         UNCHANGED sessions
  PROVE  LoginFlow!Next
<1>1. LoginFlow!Miss(S)
  BY DEF LoginFlow!Miss
<1>2. S \in SUBSET LoginFlow!Live
  BY DEF LoginFlow!Live
<1> QED
  BY <1>1, <1>2 DEF LoginFlow!Next

LEMMA LoginDiscards ==
  ASSUME NEW S \in SUBSET Requests, \A i \in S : LoginCode(i).state = "live",
         \A i \in S : LoginCode(i)' = NoCode("dead"),
         \A j \in Requests \ S : LoginCode(j)' = LoginCode(j),
         UNCHANGED sessions
  PROVE  LoginFlow!Next
<1>1. LoginFlow!Discard(S)
  BY DEF LoginFlow!Discard, LoginFlow!NoCode, NoCode
<1>2. S \in SUBSET LoginFlow!Live
  BY DEF LoginFlow!Live
<1> QED
  BY <1>1, <1>2 DEF LoginFlow!Next

-----------------------------------------------------------------------------
(***************************************************************************)
(* A step that issues nothing of flow "issue" and redeems nothing by       *)
(* "redeem", as far as the locals of the requests go.                      *)
(***************************************************************************)
Calm(issue, redeem) ==
  /\ \A i \in Requests :
       \/ SameNames(i)
       \/ /\ req[i].op # issue \/ req[i].code = None
          /\ req'[i].op # issue \/ req'[i].code = None
  /\ \A s \in Requests :
       \/ SameNames(s) /\ req'[s].hit = req[s].hit
       \/ /\ req[s].op # redeem \/ req[s].hit = None
          /\ req'[s].op # redeem \/ req'[s].hit = None

\* Two ways in which a step of r is calm: its locals stay, or it begins.
Alone(r) == \A s \in Requests \ {r} : req'[s] = req[s]
Keeps(r) ==
  /\ Alone(r) /\ SameNames(r) /\ req'[r].hit = req[r].hit
  /\ req'[r].pc # "idle" /\ (req'[r].pc \in Early => req[r].pc \in Early)
Begins(r) ==
  /\ req[r].pc = "idle" /\ Alone(r)
  /\ req'[r].pc # "idle" /\ req'[r].hit = None
  /\ req'[r].op \in {"login", "request"} => req'[r].code = None /\ req'[r].user \in UserIds
  /\ req'[r].pc \in Early => req'[r].op \in {"login", "request"}

LEMMA CalmSteps ==
  ASSUME CInv, NEW r \in Requests, Keeps(r) \/ Begins(r)
  PROVE  Calm("login", "verify") /\ Calm("request", "confirm") /\ NothingEarly'
<1>1. Unissued(r) /\ \A s \in Requests : Unissued(s)
  BY DEF CInv, NothingEarly
<1>2. CASE Keeps(r)
  <2>1. \A s \in Requests : SameNames(s) /\ req'[s].hit = req[s].hit
    BY <1>2 DEF Keeps, Alone, SameNames
  <2>2. Unissued(r)'
    BY <1>1, <1>2 DEF Keeps, SameNames, Unissued
  <2> QED
    BY <1>1, <1>2, <2>1, <2>2 DEF Calm, NothingEarly, Unissued, Keeps, Alone
<1>3. CASE Begins(r)
  <2>1. \A s \in Requests \ {r} : SameNames(s) /\ req'[s].hit = req[s].hit
    BY <1>3 DEF Begins, Alone, SameNames
  <2>2. Unissued(r)'
    BY <1>1, <1>3 DEF Begins, Unissued
  <2>3. req[r].op = "none" /\ req[r].hit = None
    BY <1>1, <1>3 DEF Begins, Unissued
  <2> QED
    BY <1>1, <1>3, <2>1, <2>2, <2>3 DEF Calm, NothingEarly, Unissued, Begins, Alone
<1> QED
  BY <1>2, <1>3

\* Such a step changes a login code only through its row.
LEMMA LoginCodeThroughRow ==
  ASSUME CInv, Calm("login", "verify"), NEW i \in Requests
  PROVE  \/ LoginCode(i)' = LoginCode(i)
         \/ \E h \in LoginHashes :
              /\ LoginCode(i) = CodeOfRow(authTokens[h], i, req[i].user)
              /\ LoginCode(i)' = CodeOfRow(authTokens'[h], i, req[i].user)
<1>1. CASE req[i].op # "login" \/ req[i].code = None
  BY <1>1 DEF Calm, SameNames, LoginCode
<1>2. CASE req[i].op = "login" /\ req[i].code # None
  <2>1. SameNames(i)
    BY <1>2 DEF Calm
  <2>2. RedeemedBy("verify", i)' <=> RedeemedBy("verify", i)
    BY NoneAssumption DEF Calm, RedeemedBy, SameNames
  <2>3. CASE RedeemedBy("verify", i)
    BY <1>2, <2>1, <2>2, <2>3 DEF LoginCode, SameNames
  <2>4. CASE ~RedeemedBy("verify", i)
    <3>1. HashCode(req[i].user, req[i].code) \in LoginHashes
      BY <1>2 DEF CInv, IInv, TypeOK, Request, NothingEarly, Unissued, LoginHashes, HashCode
    <3> DEFINE h == HashCode(req[i].user, req[i].code)
    <3>2. LoginCode(i) = CodeOfRow(authTokens[h], i, req[i].user)
      BY <1>2, <2>4 DEF LoginCode
    <3>3. LoginCode(i)' = CodeOfRow(authTokens'[h], i, req[i].user)
      BY <1>2, <2>1, <2>2, <2>4 DEF LoginCode, SameNames, HashCode, CodeOfRow
    <3> HIDE DEF h
    <3> QED
      BY <3>1, <3>2, <3>3 DEF h
  <2> QED
    BY <2>3, <2>4
<1> QED
  BY <1>1, <1>2

\* A row that is open: its code is live.
OpenRow(row) == row.state = "live" /\ ~row.expired

LEMMA LoginQuiet ==
  ASSUME CInv, Calm("login", "verify"), UNCHANGED sessions,
         \A h \in LoginHashes : authTokens'[h] = authTokens[h] \/ ~OpenRow(authTokens'[h])
  PROVE  LoginFlow!Next
<1> DEFINE S == {i \in Requests : LoginCode(i)' # LoginCode(i)}
<1>1. ASSUME NEW i \in S
      PROVE  LoginCode(i).state = "live" /\ LoginCode(i)' = NoCode("dead")
  <2>1. PICK h \in LoginHashes :
              /\ LoginCode(i) = CodeOfRow(authTokens[h], i, req[i].user)
              /\ LoginCode(i)' = CodeOfRow(authTokens'[h], i, req[i].user)
    BY LoginCodeThroughRow
  <2>2. LoginCode(i)' # LoginCode(i)
    OBVIOUS
  <2>3. authTokens'[h] # authTokens[h]
    BY <2>1, <2>2
  <2>4. LoginCode(i)' = NoCode("dead")
    BY <2>1, <2>3 DEF CodeOfRow, OpenRow
  <2>5. LoginCode(i).state = "live"
    BY <2>1, <2>2, <2>4 DEF CodeOfRow
  <2> QED
    BY <2>4, <2>5
<1>2. \A j \in Requests \ S : LoginCode(j)' = LoginCode(j)
  OBVIOUS
<1>3. S \in SUBSET Requests
  OBVIOUS
<1> HIDE DEF S
<1> QED
  BY <1>1, <1>2, <1>3, LoginDiscards
\* A wrong answer is counted against the open codes of one account.
LEMMA LoginCounts ==
  ASSUME CInv, Calm("login", "verify"), UNCHANGED sessions, NEW u,
         authTokens' = IncrementLiveAttempts(authTokens, u)
  PROVE  LoginFlow!Next
<1> DEFINE S == {i \in Requests : LoginCode(i)' # LoginCode(i)}
<1>1. ASSUME NEW i \in S
      PROVE  /\ LoginCode(i).state = "live"
             /\ LoginCode(i)' = [LoginCode(i) EXCEPT !.tries = LoginCode(i).tries + 1]
  <2>1. PICK h \in LoginHashes :
              /\ LoginCode(i) = CodeOfRow(authTokens[h], i, req[i].user)
              /\ LoginCode(i)' = CodeOfRow(authTokens'[h], i, req[i].user)
    BY LoginCodeThroughRow
  <2>2. LoginCode(i)' # LoginCode(i)
    OBVIOUS
  <2>3. authTokens[h] \in Row /\ authTokens' [h] =
          IF Open(authTokens[h], u)
          THEN [authTokens[h] EXCEPT !.attempts = authTokens[h].attempts + 1] ELSE authTokens[h]
    BY DEF CInv, IInv, TypeOK, IncrementLiveAttempts
  <2>4. Open(authTokens[h], u) /\ authTokens[h].state = "live" /\ ~authTokens[h].expired
    BY <2>1, <2>2, <2>3 DEF Open, Live
  <2>5. /\ authTokens'[h].by = authTokens[h].by /\ authTokens'[h].state = "live"
        /\ authTokens'[h].expired = authTokens[h].expired
        /\ authTokens'[h].attempts = authTokens[h].attempts + 1
    BY <2>3, <2>4 DEF Row
  <2>6. authTokens[h].by = i
    BY <2>1, <2>2, <2>5 DEF CodeOfRow
  <2>7. LoginCode(i) = [state |-> "live", for |-> req[i].user, tries |-> authTokens[h].attempts]
    BY <2>1, <2>4, <2>6 DEF CodeOfRow
  <2>8. LoginCode(i)' =
          [state |-> "live", for |-> req[i].user, tries |-> authTokens[h].attempts + 1]
    BY <2>1, <2>4, <2>5, <2>6 DEF CodeOfRow
  <2> QED
    BY <2>7, <2>8
<1>2. \A j \in Requests \ S : LoginCode(j)' = LoginCode(j)
  OBVIOUS
<1>3. S \in SUBSET Requests
  OBVIOUS
<1> HIDE DEF S
<1> QED
  BY <1>1, <1>2, <1>3, LoginMisses

\* The INSERT of a login code issues it.
LEMMA LoginInsertIssues ==
  ASSUME CInv, NEW r \in Requests, NEW c \in Codes, At(r, "login", "insert"),
         authTokens[HashCode(req[r].user, c)].state = "none",
         authTokens' =
           CreateToken(authTokens, HashCode(req[r].user, c), FreshRow(req[r].user, None, r)),
         Continue(r, [req[r] EXCEPT !.code = c], "mail"), UNCHANGED sessions
  PROVE  LoginFlow!Next
<1> DEFINE u == req[r].user
           h == HashCode(u, c)
<1>1. /\ req \in [Requests -> Request] /\ authTokens \in [LoginHashes -> Row]
      /\ req[r].op = "login" /\ req[r].pc = "insert" /\ req[r].code = None
      /\ u \in UserIds /\ h \in LoginHashes /\ Unissued(r) /\ HitOK(r) /\ LocalOK(r)
  BY DEF CInv, IInv, TypeOK, NothingEarly, Unissued, Early, At, LoginHashes, HashCode
<1>2. /\ req' \in [Requests -> Request] /\ Alone(r) /\ req'[r].op = "login"
      /\ req'[r].user = u /\ req'[r].code = c /\ req'[r].hit = req[r].hit
  <2> DEFINE more == [req[r] EXCEPT !.code = c]
  <2>1. /\ more \in Request /\ more.op = req[r].op /\ more.user = u /\ more.code = c
        /\ more.hit = req[r].hit
    BY <1>1, WithCode
  <2>2. Continue(r, more, "mail") /\ "mail" \in Pcs
    BY DEF Pcs
  <2> HIDE DEF more
  <2> QED
    BY <1>1, <2>1, <2>2, ContinueLocals DEF Alone
<1>3. /\ authTokens'[h] = FreshRow(u, None, r)
      /\ \A g \in LoginHashes \ {h} : authTokens'[g] = authTokens[g]
  BY <1>1 DEF CreateToken
<1>4. \A i \in Requests : RedeemedBy("verify", i)' <=> RedeemedBy("verify", i)
  BY <1>1, <1>2 DEF RedeemedBy, Alone
<1>5. ~RedeemedBy("verify", r)
  <2> SUFFICES ASSUME NEW s \in Requests, req[s].op = "verify", req[s].hit = r PROVE FALSE
    BY DEF RedeemedBy
  <2>1. HitOK(s) /\ r # None
    BY NoneAssumption DEF CInv, IInv
  <2>2. Issued(r, "login")
    BY <2>1 DEF HitOK
  <2> QED
    BY <1>1, <2>2 DEF Issued
<1>6. LoginCode(r) = NoCode("unissued")
  BY <1>1 DEF LoginCode
<1>7. LoginCode(r)' = [state |-> "live", for |-> u, tries |-> 0]
  <2>1. ~RedeemedBy("verify", r)' /\ c # None /\ HashCode(req'[r].user, req'[r].code) = h
    BY <1>2, <1>4, <1>5, NoneAssumption
  <2>2. LoginCode(r)' = CodeOfRow(authTokens'[h], r, u)
    BY <1>2, <2>1 DEF LoginCode, HashCode, CodeOfRow
  <2> QED
    BY <1>3, <2>2 DEF CodeOfRow, FreshRow
<1>8. ASSUME NEW j \in Requests \ {r} PROVE LoginCode(j)' = LoginCode(j)
  <2>1. SameNames(j) /\ req'[j] = req[j]
    BY <1>2 DEF Alone, SameNames
  <2>2. CASE req[j].op # "login" \/ req[j].code = None \/ RedeemedBy("verify", j)
    BY <1>4, <2>1, <2>2 DEF LoginCode
  <2>3. CASE req[j].op = "login" /\ req[j].code # None /\ ~RedeemedBy("verify", j)
    <3> DEFINE g == HashCode(req[j].user, req[j].code)
    <3>1. g \in LoginHashes
      BY <2>3 DEF CInv, IInv, TypeOK, Request, NothingEarly, Unissued, LoginHashes, HashCode
    <3>2. /\ LoginCode(j) = CodeOfRow(authTokens[g], j, req[j].user)
          /\ LoginCode(j)' = CodeOfRow(authTokens'[g], j, req[j].user)
      BY <1>4, <2>1, <2>3 DEF LoginCode, HashCode, CodeOfRow
    <3>3. CASE g = h
      BY <1>3, <3>2, <3>3 DEF CodeOfRow, FreshRow
    <3>4. CASE g # h
      BY <1>3, <3>1, <3>2, <3>4
    <3> QED
      BY <3>3, <3>4
  <2> QED
    BY <2>2, <2>3
<1> HIDE DEF u, h
<1> QED
  BY <1>1, <1>6, <1>7, <1>8, LoginIssues

\* The UPDATE that finds a login code redeems it.
LEMMA VerifyConsumeRedeems ==
  ASSUME CInv, NEW r \in Requests, At(r, "verify", "consume"), NEW h \in LoginHashes,
         h = HashCode(req[r].user, req[r].code), Redeemable(authTokens[h], MaxAttempts),
         authTokens' = ConsumeToken(authTokens, h),
         sessions' = sessions \cup {authTokens[h].userId},
         Respond(r, [req[r] EXCEPT !.hit = authTokens[h].by], "ok")
  PROVE  LoginFlow!Next
<1>1. /\ req \in [Requests -> Request] /\ authTokens \in [LoginHashes -> Row]
      /\ authTokens[h].state = "live" /\ ~authTokens[h].expired
      /\ authTokens[h].attempts < MaxAttempts
      /\ req[r].op = "verify" /\ req[r].pc = "consume" /\ req[r].hit = None
  BY DEF CInv, IInv, TypeOK, LocalOK, At, Redeemable
<1>2. PICK t \in Requests : /\ t = authTokens[h].by /\ Issued(t, "login")
                            /\ authTokens[h].userId = req[t].user
                            /\ h = HashCode(req[t].user, req[t].code)
  BY <1>1 DEF CInv, IInv, LoginRowsOK
<1>3. /\ Alone(r) /\ req'[r].op = "verify" /\ req'[r].hit = t
  <2>1. /\ [req[r] EXCEPT !.hit = t] \in Request
        /\ [req[r] EXCEPT !.hit = t].hit = t /\ [req[r] EXCEPT !.hit = t].op = req[r].op
    BY <1>1 DEF Request
  <2> QED
    BY <1>1, <1>2, <2>1, RespondLocals DEF Outcomes, Alone
<1>4. /\ authTokens'[h].by = t /\ authTokens'[h].state = "used"
      /\ \A g \in LoginHashes \ {h} : authTokens'[g] = authTokens[g]
  BY <1>1, <1>2 DEF ConsumeToken, Row
<1>5. /\ RedeemedBy("verify", t)'
      /\ \A i \in Requests \ {t} : RedeemedBy("verify", i)' <=> RedeemedBy("verify", i)
  BY <1>1, <1>3, NoneAssumption DEF RedeemedBy, Alone
<1>6. ~RedeemedBy("verify", t)
  <2> SUFFICES ASSUME NEW s \in Requests, req[s].op = "verify", req[s].hit = t PROVE FALSE
    BY DEF RedeemedBy
  <2>1. HitOK(s) /\ t # None
    BY NoneAssumption DEF CInv, IInv
  <2> QED
    BY <1>1, <1>2, <2>1 DEF HitOK
<1>7. req[t].op = "login" /\ req[t].code # None /\ t # r /\ req'[t] = req[t]
  <2>1. req[t].code \in Codes
    BY <1>2 DEF LoginHashes, HashCode
  <2> QED
    BY <1>1, <1>2, <1>3, <2>1, NoneAssumption DEF Issued, Alone
<1>8. LoginCode(t) = [state |-> "live", for |-> req[t].user, tries |-> authTokens[h].attempts]
  BY <1>1, <1>2, <1>6, <1>7 DEF LoginCode, CodeOfRow
<1>9. LoginCode(t)' = NoCode("redeemed")
  BY <1>5, <1>7 DEF LoginCode, NoCode
<1>10. ASSUME NEW j \in Requests \ {t} PROVE LoginCode(j)' = LoginCode(j)
  <2>1. CASE req[j].op # "login"
    BY <1>1, <1>3, <2>1 DEF LoginCode, Alone
  <2>2. CASE req[j].op = "login" /\ (req[j].code = None \/ RedeemedBy("verify", j))
    BY <1>1, <1>3, <1>5, <2>2 DEF LoginCode, Alone
  <2>3. CASE req[j].op = "login" /\ req[j].code # None /\ ~RedeemedBy("verify", j)
    <3> DEFINE g == HashCode(req[j].user, req[j].code)
    <3>1. g \in LoginHashes
      BY <2>3 DEF CInv, IInv, TypeOK, Request, NothingEarly, Unissued, LoginHashes, HashCode
    <3>2. req'[j] = req[j]
      BY <1>1, <1>3, <2>3 DEF Alone
    <3>3. /\ LoginCode(j) = CodeOfRow(authTokens[g], j, req[j].user)
          /\ LoginCode(j)' = CodeOfRow(authTokens'[g], j, req[j].user)
      BY <1>5, <2>3, <3>2 DEF LoginCode, HashCode, CodeOfRow
    <3>4. CASE g = h
      BY <1>2, <1>4, <3>3, <3>4 DEF CodeOfRow
    <3>5. CASE g # h
      BY <1>4, <3>1, <3>3, <3>5
    <3> QED
      BY <3>4, <3>5
  <2> QED
    BY <2>1, <2>2, <2>3
<1>11. LoginCode(t).state = "live" /\ LoginCode(t).tries < MaxAttempts
       /\ LoginCode(t).for = authTokens[h].userId
  <2>1. LoginCode(t).state = "live" /\ LoginCode(t).for = req[t].user
    BY <1>8
  <2>2. LoginCode(t).tries = authTokens[h].attempts
    BY <1>8
  <2> QED
    BY <1>1, <1>2, <2>1, <2>2
<1> QED
  BY <1>9, <1>10, <1>11, LoginRedeems

-----------------------------------------------------------------------------
(***************************************************************************)
(* The same for the codes of a change of address. What they grant is read  *)
(* off the confirmations: a calm step clears no address.                   *)
(***************************************************************************)
LEMMA ClearedStays ==
  ASSUME Calm("request", "confirm")
  PROVE  Cleared' = Cleared
  BY DEF Calm, Cleared, SameNames

LEMMA ChangeIssues ==
  ASSUME NEW i \in Requests, NEW g \in UserIds \X Emails,
         ChangeCode(i) = NoCode("unissued"),
         ChangeCode(i)' = [state |-> "live", for |-> g, tries |-> 0],
         \A j \in Requests \ {i} : ChangeCode(j)' = ChangeCode(j),
         Cleared' = Cleared
  PROVE  ChangeFlow!Next
<1>1. ChangeCode(i).state = "unissued"
  BY DEF NoCode
<1>2. ChangeFlow!Issue(i, g)
  BY <1>1 DEF ChangeFlow!Issue
<1> QED
  BY <1>2 DEF ChangeFlow!Next

LEMMA ChangeRedeems ==
  ASSUME NEW i \in Requests, NEW g, ChangeCode(i).state = "live",
         ChangeCode(i).tries < MaxAttempts, ChangeCode(i).for = g,
         ChangeCode(i)' = NoCode("redeemed"),
         \A j \in Requests \ {i} : ChangeCode(j)' = ChangeCode(j),
         Cleared' = Cleared \cup {g}
  PROVE  ChangeFlow!Next
<1>1. ChangeFlow!Redeem(i)
  BY DEF ChangeFlow!Redeem, ChangeFlow!NoCode, NoCode
<1> QED
  BY <1>1 DEF ChangeFlow!Next

LEMMA ChangeMisses ==
  ASSUME NEW S \in SUBSET Requests, \A i \in S : ChangeCode(i).state = "live",
         \A i \in S : ChangeCode(i)' = [ChangeCode(i) EXCEPT !.tries = ChangeCode(i).tries + 1],
         \A j \in Requests \ S : ChangeCode(j)' = ChangeCode(j),
         Cleared' = Cleared
  PROVE  ChangeFlow!Next
<1>1. ChangeFlow!Miss(S)
  BY DEF ChangeFlow!Miss
<1>2. S \in SUBSET ChangeFlow!Live
  BY DEF ChangeFlow!Live
<1> QED
  BY <1>1, <1>2 DEF ChangeFlow!Next

LEMMA ChangeDiscards ==
  ASSUME NEW S \in SUBSET Requests, \A i \in S : ChangeCode(i).state = "live",
         \A i \in S : ChangeCode(i)' = NoCode("dead"),
         \A j \in Requests \ S : ChangeCode(j)' = ChangeCode(j),
         Cleared' = Cleared
  PROVE  ChangeFlow!Next
<1>1. ChangeFlow!Discard(S)
  BY DEF ChangeFlow!Discard, ChangeFlow!NoCode, NoCode
<1>2. S \in SUBSET ChangeFlow!Live
  BY DEF ChangeFlow!Live
<1> QED
  BY <1>1, <1>2 DEF ChangeFlow!Next

LEMMA ChangeCodeThroughRow ==
  ASSUME CInv, Calm("request", "confirm"), NEW i \in Requests
  PROVE  \/ ChangeCode(i)' = ChangeCode(i)
         \/ \E h \in ChangeHashes :
              /\ ChangeCode(i) = CodeOfRow(emailTokens[h], i, <<req[i].user, req[i].email>>)
              /\ ChangeCode(i)' = CodeOfRow(emailTokens'[h], i, <<req[i].user, req[i].email>>)
<1>1. CASE req[i].op # "request" \/ req[i].code = None
  BY <1>1 DEF Calm, SameNames, ChangeCode
<1>2. CASE req[i].op = "request" /\ req[i].code # None
  <2>1. SameNames(i)
    BY <1>2 DEF Calm
  <2>2. RedeemedBy("confirm", i)' <=> RedeemedBy("confirm", i)
    BY NoneAssumption DEF Calm, RedeemedBy, SameNames
  <2>3. CASE RedeemedBy("confirm", i)
    BY <1>2, <2>1, <2>2, <2>3 DEF ChangeCode, SameNames
  <2>4. CASE ~RedeemedBy("confirm", i)
    <3>1. HashEmailChangeCode(req[i].user, req[i].email, req[i].code) \in ChangeHashes
      BY <1>2 DEF CInv, IInv, TypeOK, Request, NothingEarly, Unissued, LocalOK,
                    ChangeHashes, HashEmailChangeCode
    <3> DEFINE h == HashEmailChangeCode(req[i].user, req[i].email, req[i].code)
    <3>2. ChangeCode(i) = CodeOfRow(emailTokens[h], i, <<req[i].user, req[i].email>>)
      BY <1>2, <2>4 DEF ChangeCode
    <3>3. ChangeCode(i)' = CodeOfRow(emailTokens'[h], i, <<req[i].user, req[i].email>>)
      BY <1>2, <2>1, <2>2, <2>4 DEF ChangeCode, SameNames, HashEmailChangeCode, CodeOfRow
    <3> HIDE DEF h
    <3> QED
      BY <3>1, <3>2, <3>3 DEF h
  <2> QED
    BY <2>3, <2>4
<1> QED
  BY <1>1, <1>2

LEMMA ChangeQuiet ==
  ASSUME CInv, Calm("request", "confirm"), Cleared' = Cleared,
         \A h \in ChangeHashes : emailTokens'[h] = emailTokens[h] \/ ~OpenRow(emailTokens'[h])
  PROVE  ChangeFlow!Next
<1> DEFINE S == {i \in Requests : ChangeCode(i)' # ChangeCode(i)}
<1>1. ASSUME NEW i \in S
      PROVE  ChangeCode(i).state = "live" /\ ChangeCode(i)' = NoCode("dead")
  <2>1. PICK h \in ChangeHashes :
              /\ ChangeCode(i) = CodeOfRow(emailTokens[h], i, <<req[i].user, req[i].email>>)
              /\ ChangeCode(i)' = CodeOfRow(emailTokens'[h], i, <<req[i].user, req[i].email>>)
    BY ChangeCodeThroughRow
  <2>2. ChangeCode(i)' # ChangeCode(i)
    OBVIOUS
  <2>3. emailTokens'[h] # emailTokens[h]
    BY <2>1, <2>2
  <2>4. ChangeCode(i)' = NoCode("dead")
    BY <2>1, <2>3 DEF CodeOfRow, OpenRow
  <2>5. ChangeCode(i).state = "live"
    BY <2>1, <2>2, <2>4 DEF CodeOfRow
  <2> QED
    BY <2>4, <2>5
<1>2. \A j \in Requests \ S : ChangeCode(j)' = ChangeCode(j)
  OBVIOUS
<1>3. S \in SUBSET Requests
  OBVIOUS
<1> HIDE DEF S
<1> QED
  BY <1>1, <1>2, <1>3, ChangeDiscards

LEMMA ChangeCounts ==
  ASSUME CInv, Calm("request", "confirm"), Cleared' = Cleared, NEW u,
         emailTokens' = IncrementLiveAttempts(emailTokens, u)
  PROVE  ChangeFlow!Next
<1> DEFINE S == {i \in Requests : ChangeCode(i)' # ChangeCode(i)}
<1>1. ASSUME NEW i \in S
      PROVE  /\ ChangeCode(i).state = "live"
             /\ ChangeCode(i)' = [ChangeCode(i) EXCEPT !.tries = ChangeCode(i).tries + 1]
  <2>1. PICK h \in ChangeHashes :
              /\ ChangeCode(i) = CodeOfRow(emailTokens[h], i, <<req[i].user, req[i].email>>)
              /\ ChangeCode(i)' = CodeOfRow(emailTokens'[h], i, <<req[i].user, req[i].email>>)
    BY ChangeCodeThroughRow
  <2>2. ChangeCode(i)' # ChangeCode(i)
    OBVIOUS
  <2>3. emailTokens[h] \in Row /\ emailTokens' [h] =
          IF Open(emailTokens[h], u)
          THEN [emailTokens[h] EXCEPT !.attempts = emailTokens[h].attempts + 1] ELSE emailTokens[h]
    BY DEF CInv, IInv, TypeOK, IncrementLiveAttempts
  <2>4. Open(emailTokens[h], u) /\ emailTokens[h].state = "live" /\ ~emailTokens[h].expired
    BY <2>1, <2>2, <2>3 DEF Open, Live
  <2>5. /\ emailTokens'[h].by = emailTokens[h].by /\ emailTokens'[h].state = "live"
        /\ emailTokens'[h].expired = emailTokens[h].expired
        /\ emailTokens'[h].attempts = emailTokens[h].attempts + 1
    BY <2>3, <2>4 DEF Row
  <2>6. emailTokens[h].by = i
    BY <2>1, <2>2, <2>5 DEF CodeOfRow
  <2> DEFINE g == <<req[i].user, req[i].email>>
  <2>7. ChangeCode(i) = [state |-> "live", for |-> g, tries |-> emailTokens[h].attempts]
    BY <2>1, <2>4, <2>6 DEF CodeOfRow
  <2>8. ChangeCode(i)' =
          [state |-> "live", for |-> g, tries |-> emailTokens[h].attempts + 1]
    BY <2>1, <2>4, <2>5, <2>6 DEF CodeOfRow
  <2> QED
    BY <2>7, <2>8
<1>2. \A j \in Requests \ S : ChangeCode(j)' = ChangeCode(j)
  OBVIOUS
<1>3. S \in SUBSET Requests
  OBVIOUS
<1> HIDE DEF S
<1> QED
  BY <1>1, <1>2, <1>3, ChangeMisses

LEMMA ChangeInsertIssues ==
  ASSUME CInv, NEW r \in Requests, NEW c \in Codes, At(r, "request", "insert"),
         NEW h \in ChangeHashes, h = HashEmailChangeCode(req[r].user, req[r].email, c),
         emailTokens[h].state = "none",
         emailTokens' = CreateToken(emailTokens, h, FreshRow(req[r].user, req[r].email, r)),
         Continue(r, [req[r] EXCEPT !.code = c], "mail"), Cleared' = Cleared
  PROVE  ChangeFlow!Next
<1> DEFINE u == req[r].user
           e == req[r].email
<1>1. /\ req \in [Requests -> Request] /\ emailTokens \in [ChangeHashes -> Row]
      /\ req[r].op = "request" /\ req[r].pc = "insert" /\ req[r].code = None
      /\ u \in UserIds /\ e \in Emails
  BY DEF CInv, IInv, TypeOK, NothingEarly, Unissued, Early, At, LocalOK
<1>2. /\ req' \in [Requests -> Request] /\ Alone(r) /\ req'[r].op = "request"
      /\ req'[r].user = u /\ req'[r].email = e /\ req'[r].code = c /\ req'[r].hit = req[r].hit
  <2> DEFINE more == [req[r] EXCEPT !.code = c]
  <2>1. /\ more \in Request /\ more.op = req[r].op /\ more.user = u /\ more.email = e
        /\ more.code = c /\ more.hit = req[r].hit
    BY <1>1, WithCode
  <2>2. Continue(r, more, "mail") /\ "mail" \in Pcs
    BY DEF Pcs
  <2> HIDE DEF more
  <2> QED
    BY <1>1, <2>1, <2>2, ContinueLocals DEF Alone
<1>3. /\ emailTokens'[h] = FreshRow(u, e, r)
      /\ \A g \in ChangeHashes \ {h} : emailTokens'[g] = emailTokens[g]
  BY <1>1 DEF CreateToken
<1>4. \A i \in Requests : RedeemedBy("confirm", i)' <=> RedeemedBy("confirm", i)
  BY <1>1, <1>2 DEF RedeemedBy, Alone
<1>5. ~RedeemedBy("confirm", r)
  <2> SUFFICES ASSUME NEW s \in Requests, req[s].op = "confirm", req[s].hit = r PROVE FALSE
    BY DEF RedeemedBy
  <2>1. HitOK(s) /\ r # None
    BY NoneAssumption DEF CInv, IInv
  <2>2. Issued(r, "request")
    BY <2>1 DEF HitOK
  <2> QED
    BY <1>1, <2>2 DEF Issued
<1>6. ChangeCode(r) = NoCode("unissued")
  BY <1>1 DEF ChangeCode
<1>7. ChangeCode(r)' = [state |-> "live", for |-> <<u, e>>, tries |-> 0]
  <2>1. ~RedeemedBy("confirm", r)' /\ c # None
        /\ HashEmailChangeCode(req'[r].user, req'[r].email, req'[r].code) = h
    BY <1>2, <1>4, <1>5, NoneAssumption
  <2>2. ChangeCode(r)' = CodeOfRow(emailTokens'[h], r, <<u, e>>)
    BY <1>2, <2>1 DEF ChangeCode, HashEmailChangeCode, CodeOfRow
  <2> QED
    BY <1>3, <2>2 DEF CodeOfRow, FreshRow
<1>8. ASSUME NEW j \in Requests \ {r} PROVE ChangeCode(j)' = ChangeCode(j)
  <2>1. SameNames(j) /\ req'[j] = req[j]
    BY <1>2 DEF Alone, SameNames
  <2>2. CASE req[j].op # "request" \/ req[j].code = None \/ RedeemedBy("confirm", j)
    BY <1>4, <2>1, <2>2 DEF ChangeCode
  <2>3. CASE req[j].op = "request" /\ req[j].code # None /\ ~RedeemedBy("confirm", j)
    <3> DEFINE g == HashEmailChangeCode(req[j].user, req[j].email, req[j].code)
    <3>1. g \in ChangeHashes
      BY <2>3 DEF CInv, IInv, TypeOK, Request, NothingEarly, Unissued, LocalOK,
                    ChangeHashes, HashEmailChangeCode
    <3>2. /\ ChangeCode(j) = CodeOfRow(emailTokens[g], j, <<req[j].user, req[j].email>>)
          /\ ChangeCode(j)' = CodeOfRow(emailTokens'[g], j, <<req[j].user, req[j].email>>)
      BY <1>4, <2>1, <2>3 DEF ChangeCode, HashEmailChangeCode, CodeOfRow
    <3>3. CASE g = h
      BY <1>3, <3>2, <3>3 DEF CodeOfRow, FreshRow
    <3>4. CASE g # h
      BY <1>3, <3>1, <3>2, <3>4
    <3> QED
      BY <3>3, <3>4
  <2> QED
    BY <2>2, <2>3
<1> HIDE DEF u, e
<1> QED
  BY <1>1, <1>6, <1>7, <1>8, ChangeIssues

\* The UPDATE that finds the code of a change redeems it, and clears its address.
LEMMA ConfirmConsumeRedeems ==
  ASSUME CInv, NEW r \in Requests, req[r].pc = "idle", Alone(r), NEW h \in ChangeHashes,
         Redeemable(emailTokens[h], MaxAttempts),
         emailTokens' = ConsumeToken(emailTokens, h), req'[r].op = "confirm",
         req'[r].user = emailTokens[h].userId, req'[r].email = emailTokens[h].newEmail,
         req'[r].hit = emailTokens[h].by
  PROVE  ChangeFlow!Next
<1>1. /\ emailTokens \in [ChangeHashes -> Row]
      /\ emailTokens[h].state = "live" /\ ~emailTokens[h].expired
      /\ emailTokens[h].attempts < MaxAttempts
      /\ req[r].op = "none" /\ req[r].hit = None
  BY DEF CInv, IInv, TypeOK, NothingEarly, Unissued, Redeemable
<1>2. PICK t \in Requests :
        /\ t = emailTokens[h].by /\ Issued(t, "request")
        /\ emailTokens[h].userId = req[t].user /\ emailTokens[h].newEmail = req[t].email
        /\ h = HashEmailChangeCode(req[t].user, req[t].email, req[t].code)
  BY <1>1 DEF CInv, IInv, ChangeRowsOK
<1>3. /\ emailTokens'[h].by = t /\ emailTokens'[h].state = "used"
      /\ \A g \in ChangeHashes \ {h} : emailTokens'[g] = emailTokens[g]
  BY <1>1, <1>2 DEF ConsumeToken, Row
<1>4. /\ RedeemedBy("confirm", t)'
      /\ \A i \in Requests \ {t} : RedeemedBy("confirm", i)' <=> RedeemedBy("confirm", i)
  BY <1>1, <1>2, NoneAssumption DEF RedeemedBy, Alone
<1>5. ~RedeemedBy("confirm", t)
  <2> SUFFICES ASSUME NEW s \in Requests, req[s].op = "confirm", req[s].hit = t PROVE FALSE
    BY DEF RedeemedBy
  <2>1. HitOK(s) /\ t # None
    BY NoneAssumption DEF CInv, IInv
  <2> QED
    BY <1>1, <1>2, <2>1 DEF HitOK
<1>6. req[t].op = "request" /\ req[t].code # None /\ t # r /\ req'[t] = req[t]
  <2>1. req[t].code \in Codes
    <3>1. h \in UserIds \X Emails \X Codes /\ h = <<req[t].user, req[t].email, req[t].code>>
      BY <1>2 DEF ChangeHashes, HashEmailChangeCode
    <3>2. h[3] \in Codes
      BY <3>1
    <3> QED
      BY <3>1, <3>2
  <2> QED
    BY <1>1, <1>2, <2>1, NoneAssumption DEF Issued, Alone
<1> DEFINE g == <<req[t].user, req[t].email>>
<1>7. ChangeCode(t) = [state |-> "live", for |-> g, tries |-> emailTokens[h].attempts]
  BY <1>1, <1>2, <1>5, <1>6 DEF ChangeCode, CodeOfRow
<1>8. ChangeCode(t)' = NoCode("redeemed")
  BY <1>4, <1>6 DEF ChangeCode, NoCode
<1>9. ASSUME NEW j \in Requests \ {t} PROVE ChangeCode(j)' = ChangeCode(j)
  <2>1. CASE req[j].op # "request"
    BY <1>1, <2>1 DEF ChangeCode, Alone
  <2>2. CASE req[j].op = "request" /\ (req[j].code = None \/ RedeemedBy("confirm", j))
    BY <1>1, <1>4, <2>2 DEF ChangeCode, Alone
  <2>3. CASE req[j].op = "request" /\ req[j].code # None /\ ~RedeemedBy("confirm", j)
    <3> DEFINE k == HashEmailChangeCode(req[j].user, req[j].email, req[j].code)
    <3>1. k \in ChangeHashes
      BY <2>3 DEF CInv, IInv, TypeOK, Request, NothingEarly, Unissued, LocalOK,
                  ChangeHashes, HashEmailChangeCode
    <3>2. req'[j] = req[j]
      BY <1>1, <2>3 DEF Alone
    <3>3. /\ ChangeCode(j) = CodeOfRow(emailTokens[k], j, <<req[j].user, req[j].email>>)
          /\ ChangeCode(j)' = CodeOfRow(emailTokens'[k], j, <<req[j].user, req[j].email>>)
      BY <1>4, <2>3, <3>2 DEF ChangeCode, HashEmailChangeCode, CodeOfRow
    <3>4. CASE k = h
      BY <1>2, <1>3, <3>3, <3>4 DEF CodeOfRow
    <3>5. CASE k # h
      BY <1>3, <3>1, <3>3, <3>5
    <3> QED
      BY <3>4, <3>5
  <2> QED
    BY <2>1, <2>2, <2>3
<1>10. ChangeCode(t).state = "live" /\ ChangeCode(t).tries < MaxAttempts
       /\ ChangeCode(t).for = g
  <2>1. ChangeCode(t).state = "live" /\ ChangeCode(t).for = g
    BY <1>7
  <2>2. ChangeCode(t).tries = emailTokens[h].attempts
    BY <1>7
  <2> QED
    BY <1>1, <2>1, <2>2
<1>11. Cleared' = Cleared \cup {g}
  <2>1. <<req'[r].user, req'[r].email>> = g
    BY <1>2
  <2>2. r \in {s \in Requests : req'[s].op = "confirm" /\ req'[s].hit # None}
    BY <1>2, NoneAssumption
  <2>3. r \notin {s \in Requests : req[s].op = "confirm" /\ req[s].hit # None}
    BY <1>1
  <2> HIDE DEF g
  <2> QED
    BY <2>1, <2>2, <2>3 DEF Cleared, Alone
<1> QED
  BY <1>8, <1>9, <1>10, <1>11, ChangeRedeems
-----------------------------------------------------------------------------
(* Every step of the service is a step of both flows. *)

FlowStep == LoginFlow!Next /\ ChangeFlow!Next /\ NothingEarly'

LoginTrimmed == \A h \in LoginHashes : authTokens'[h] = authTokens[h] \/ ~OpenRow(authTokens'[h])
ChangeTrimmed == \A h \in ChangeHashes : emailTokens'[h] = emailTokens[h] \/ ~OpenRow(emailTokens'[h])

LEMMA Trims ==
  ASSUME NEW H, NEW t \in [H -> Row], NEW u, NEW g \in H
  PROVE  /\ \A h \in H : DeleteLiveTokens(t, u)[h] = t[h] \/ ~OpenRow(DeleteLiveTokens(t, u)[h])
         /\ \A h \in H : CascadeUser(t, u)[h] = t[h] \/ ~OpenRow(CascadeUser(t, u)[h])
         /\ \A h \in H : ExpireToken(t, g)[h] = t[h] \/ ~OpenRow(ExpireToken(t, g)[h])
<1>1. ~OpenRow(NoRow)
  BY DEF OpenRow, NoRow
<1>2. ~OpenRow([t[g] EXCEPT !.expired = TRUE])
  BY DEF OpenRow, Row
<1>3. \A h \in H : ExpireToken(t, g)[h] = IF h = g THEN [t[g] EXCEPT !.expired = TRUE] ELSE t[h]
  BY DEF ExpireToken
<1> QED
  BY <1>1, <1>2, <1>3 DEF DeleteLiveTokens, CascadeUser

LEMMA QuietSteps ==
  ASSUME CInv, NEW r \in Requests, Keeps(r) \/ Begins(r), UNCHANGED sessions,
         LoginTrimmed, ChangeTrimmed
  PROVE  FlowStep
<1>1. Calm("login", "verify") /\ Calm("request", "confirm") /\ NothingEarly'
  BY CalmSteps
<1>2. LoginFlow!Next
  BY <1>1, LoginQuiet DEF LoginTrimmed
<1>3. ChangeFlow!Next
  BY <1>1, ChangeQuiet, ClearedStays DEF ChangeTrimmed
<1> QED
  BY <1>1, <1>2, <1>3 DEF FlowStep

LEMMA Continues ==
  ASSUME CInv, NEW r \in Requests, req[r].pc # "idle", NEW pc \in Pcs \ {"idle"},
         pc \in Early => req[r].pc \in Early, Continue(r, req[r], pc)
  PROVE  Keeps(r)
<1>1. req \in [Requests -> Request] /\ req[r] \in Request /\ pc \in Pcs
  BY DEF CInv, IInv, TypeOK
<1>2. /\ Alone(r) /\ req'[r].pc = pc /\ req'[r].hit = req[r].hit
      /\ req'[r].op = req[r].op /\ req'[r].user = req[r].user
      /\ req'[r].email = req[r].email /\ req'[r].code = req[r].code
  BY <1>1, ContinueLocals DEF Alone
<1> QED
  BY <1>2 DEF Keeps, SameNames

LEMMA Responds ==
  ASSUME CInv, NEW r \in Requests, NEW outcome \in Outcomes, Respond(r, req[r], outcome)
  PROVE  Keeps(r)
<1>1. req \in [Requests -> Request] /\ req[r] \in Request
  BY DEF CInv, IInv, TypeOK
<1> QED
  BY <1>1, RespondLocals DEF Keeps, Alone, SameNames, Early

LEMMA Starts ==
  ASSUME CInv, NEW r \in Requests, req[r].pc = "idle", NEW op \in AllOps,
         NEW u \in UserIds \cup {None}, NEW e \in Emails \cup {None}, NEW c \in Codes \cup {None},
         op \in {"login", "request"} => c = None /\ u \in UserIds,
         \/ \E outcome \in Outcomes : Respond(r, Start(r, op, u, e, c), outcome)
         \/ \E pc \in Pcs \ {"idle"} : /\ pc \in Early => op \in {"login", "request"}
                                       /\ Continue(r, Start(r, op, u, e, c), pc)
  PROVE  Begins(r)
<1>1. req \in [Requests -> Request] /\ TypeOK
  BY DEF CInv, IInv, TypeOK
<1> DEFINE l == Start(r, op, u, e, c)
<1>2. l \in Request /\ l.op = op /\ l.user = u /\ l.code = c /\ l.hit = None
  <2>1. l \in Request
    BY <1>1, StartLocals
  <2>2. l.op = op
    BY <1>1, StartLocals
  <2>3. l.user = u
    BY <1>1, StartLocals
  <2>4. l.code = c
    BY <1>1, StartLocals
  <2>5. l.hit = None
    BY <1>1, StartLocals
  <2> QED
    BY <2>1, <2>2, <2>3, <2>4, <2>5
<1> HIDE DEF l
<1>3. CASE \E outcome \in Outcomes : Respond(r, l, outcome)
  <2>1. /\ Alone(r) /\ req'[r].pc = "done" /\ req'[r].op = op /\ req'[r].user = u
        /\ req'[r].code = c /\ req'[r].hit = None
    BY <1>1, <1>2, <1>3, RespondLocals DEF Alone
  <2>2. "done" # "idle" /\ "done" \notin Early
    BY DEF Early
  <2> QED
    BY <2>1, <2>2 DEF Begins
<1>4. CASE \E pc \in Pcs \ {"idle"} : (pc \in Early => op \in {"login", "request"}) /\ Continue(r, l, pc)
  BY <1>1, <1>2, <1>4, ContinueLocals DEF Begins, Alone
<1> QED
  BY <1>3, <1>4 DEF l

LEMMA LoginSteps ==
  ASSUME CInv, NEW r \in Requests, Login(r)
  PROVE  FlowStep
<1>1. ASSUME NEW e \in Emails, NEW u \in UserIds, LoginUpsert(r, e, u) PROVE FlowStep
  <2>1. /\ req[r].pc = "idle" /\ "login" \in AllOps /\ None \in Codes \cup {None}
        /\ "prune" \in Pcs \ {"idle"}
        /\ Continue(r, Start(r, "login", u, e, None), "prune")
    BY <1>1 DEF LoginUpsert, CanStart, AllOps, Pcs
  <2>2. Begins(r)
    BY <2>1, Starts
  <2>3. LoginTrimmed /\ ChangeTrimmed /\ UNCHANGED sessions
    BY <1>1 DEF LoginUpsert, LoginTrimmed, ChangeTrimmed
  <2> QED
    BY <2>2, <2>3, QuietSteps
<1>2. ASSUME LoginPrune(r) PROVE FlowStep
  <2>1. Keeps(r)
    BY <1>2, Continues DEF LoginPrune, At, Pcs, Early
  <2>2. LoginTrimmed /\ ChangeTrimmed /\ UNCHANGED sessions
    BY <1>2, Trims DEF LoginPrune, LoginTrimmed, ChangeTrimmed, CInv, IInv, TypeOK
  <2> QED
    BY <2>1, <2>2, QuietSteps
<1>3. ASSUME NEW c \in Codes, LoginInsert(r, c) PROVE FlowStep
  <2> DEFINE u == req[r].user
             h == HashCode(u, c)
  <2>1. At(r, "login", "insert") /\ UNCHANGED <<emailTokens, sessions>>
    BY <1>3 DEF LoginInsert
  <2>2. CASE /\ authTokens[h].state = "none"
             /\ authTokens' = CreateToken(authTokens, h, FreshRow(u, None, r))
             /\ Continue(r, [req[r] EXCEPT !.code = c], "mail")
    <3>1. LoginFlow!Next
      BY <2>1, <2>2, LoginInsertIssues
    <3>2. /\ Alone(r) /\ req'[r].op = "login" /\ req'[r].hit = req[r].hit /\ req'[r].pc = "mail"
          /\ req'[r].user = req[r].user
      <4> DEFINE more == [req[r] EXCEPT !.code = c]
      <4>1. /\ req \in [Requests -> Request] /\ req[r] \in Request /\ req[r].op = "login"
        BY <2>1 DEF CInv, IInv, TypeOK, At
      <4>2. more \in Request /\ more.op = "login" /\ more.user = u /\ more.hit = req[r].hit
        BY <4>1, WithCode
      <4>3. Continue(r, more, "mail") /\ "mail" \in Pcs
        BY <2>2 DEF Pcs
      <4> HIDE DEF more
      <4> QED
        BY <4>1, <4>2, <4>3, ContinueLocals DEF Alone
    <3>3. Calm("request", "confirm") /\ NothingEarly'
      BY <2>1, <3>2 DEF Calm, Alone, SameNames, At, CInv, NothingEarly, Unissued, Early
    <3>4. ChangeFlow!Next
      BY <2>1, <3>3, ChangeQuiet, ClearedStays
    <3> QED
      BY <3>1, <3>3, <3>4 DEF FlowStep
  <2>3. CASE Respond(r, req[r], "error") /\ UNCHANGED authTokens
    <3>1. Keeps(r)
      BY <2>3, Responds DEF Outcomes
    <3> QED
      BY <2>1, <2>3, <3>1, QuietSteps DEF LoginTrimmed, ChangeTrimmed
  <2> QED
    BY <1>3, <2>2, <2>3 DEF LoginInsert, CanCreate
<1>4. ASSUME LoginMail(r) PROVE FlowStep
  <2>1. Keeps(r)
    BY <1>4, Responds DEF LoginMail, Outcomes
  <2> QED
    BY <1>4, <2>1, QuietSteps DEF LoginMail, tables, LoginTrimmed, ChangeTrimmed
<1> QED
  BY <1>1, <1>2, <1>3, <1>4 DEF Login

LEMMA VerifySteps ==
  ASSUME CInv, NEW r \in Requests, Verify(r)
  PROVE  FlowStep
<1>1. ASSUME NEW e \in Emails, NEW c \in Codes, VerifyFind(r, e, c) PROVE FlowStep
  <2>1. UNCHANGED tables /\ req[r].pc = "idle" /\ "verify" \in AllOps
    BY <1>1 DEF VerifyFind, CanStart, AllOps
  <2>2. \E u \in UserIds \cup {None} :
          \/ \E outcome \in Outcomes : Respond(r, Start(r, "verify", u, e, c), outcome)
          \/ \E pc \in Pcs \ {"idle"} : /\ pc \in Early => "verify" \in {"login", "request"}
                                        /\ Continue(r, Start(r, "verify", u, e, c), pc)
    <3>1. "consume" \in Pcs \ {"idle"} /\ "consume" \notin Early /\ "invalid" \in Outcomes
      BY DEF Pcs, Early, Outcomes
    <3> QED
      BY <1>1, <3>1 DEF VerifyFind
  <2>3. Begins(r)
    BY <2>1, <2>2, Starts
  <2> QED
    BY <2>1, <2>3, QuietSteps DEF tables, LoginTrimmed, ChangeTrimmed
<1>2. ASSUME VerifyConsume(r) PROVE FlowStep
  <2> DEFINE h == HashCode(req[r].user, req[r].code)
             missed == OpenCodes(authTokens, req[r].user)
  <2>1. /\ At(r, "verify", "consume") /\ UNCHANGED emailTokens /\ h \in LoginHashes
        /\ req \in [Requests -> Request] /\ req[r] \in Request
        /\ authTokens \in [LoginHashes -> Row] /\ req[r].hit = None
    BY <1>2 DEF VerifyConsume, At, CInv, IInv, LocalOK, TypeOK, LoginHashes, HashCode
  <2>2. CASE /\ Redeemable(authTokens[h], MaxAttempts)
             /\ authTokens' = ConsumeToken(authTokens, h)
             /\ sessions' = sessions \cup {authTokens[h].userId}
             /\ Respond(r, [req[r] EXCEPT !.hit = authTokens[h].by], "ok")
    <3>1. LoginFlow!Next
      BY <2>1, <2>2, VerifyConsumeRedeems
    <3>2. /\ Alone(r) /\ req'[r].op = "verify" /\ req'[r].pc = "done"
      <4> DEFINE more == [req[r] EXCEPT !.hit = authTokens[h].by]
      <4>1. more \in Request /\ more.op = "verify"
        BY <2>1 DEF At, Request, Row
      <4>2. Respond(r, more, "ok") /\ "ok" \in Outcomes
        BY <2>2 DEF Outcomes
      <4> HIDE DEF more
      <4> QED
        BY <2>1, <4>1, <4>2, RespondLocals DEF Alone
    <3>3. Calm("request", "confirm") /\ NothingEarly'
      BY <2>1, <3>2 DEF Calm, Alone, SameNames, At, CInv, NothingEarly, Unissued, Early
    <3>4. ChangeFlow!Next
      BY <2>1, <3>3, ChangeQuiet, ClearedStays
    <3> QED
      BY <3>1, <3>3, <3>4 DEF FlowStep
  <2>3. CASE /\ Continue(r, [req[r] EXCEPT !.missed = missed], "bump")
             /\ UNCHANGED <<authTokens, sessions>>
    <3>1. missed \in SUBSET (Requests \cup {None})
      BY <2>1 DEF OpenCodes, Row
    <3> HIDE DEF missed
    <3>2. Keeps(r)
      <4> DEFINE more == [req[r] EXCEPT !.missed = missed]
      <4>1. /\ more \in Request /\ more.op = req[r].op /\ more.user = req[r].user
            /\ more.email = req[r].email /\ more.code = req[r].code /\ more.hit = req[r].hit
        BY <2>1, <3>1, WithMissed
      <4>2. Continue(r, more, "bump") /\ "bump" \in Pcs
        BY <2>3 DEF Pcs
      <4> HIDE DEF more
      <4>3. /\ Alone(r) /\ req'[r].pc = "bump" /\ req'[r].hit = req[r].hit
            /\ req'[r].op = req[r].op /\ req'[r].user = req[r].user
            /\ req'[r].email = req[r].email /\ req'[r].code = req[r].code
        BY <2>1, <4>1, <4>2, ContinueLocals DEF Alone
      <4> QED
        BY <4>3 DEF Keeps, SameNames, Early
    <3> QED
      BY <2>1, <2>3, <3>2, QuietSteps DEF LoginTrimmed, ChangeTrimmed
  <2> QED
    BY <1>2, <2>2, <2>3 DEF VerifyConsume
<1>3. ASSUME VerifyBump(r) PROVE FlowStep
  <2>1. Keeps(r) /\ UNCHANGED <<emailTokens, sessions>>
    BY <1>3, Responds DEF VerifyBump, Outcomes
  <2>2. Calm("login", "verify") /\ Calm("request", "confirm") /\ NothingEarly'
    BY <2>1, CalmSteps
  <2>3. LoginFlow!Next
    BY <1>3, <2>1, <2>2, LoginCounts DEF VerifyBump
  <2>4. ChangeFlow!Next
    BY <2>1, <2>2, ChangeQuiet, ClearedStays
  <2> QED
    BY <2>2, <2>3, <2>4 DEF FlowStep
<1> QED
  BY <1>1, <1>2, <1>3 DEF Verify

LEMMA RequestSteps ==
  ASSUME CInv, NEW r \in Requests, RequestChange(r)
  PROVE  FlowStep
<1>1. ASSUME NEW u \in UserIds, NEW e \in Emails, RequestLoad(r, u, e) PROVE FlowStep
  <2>1. UNCHANGED tables /\ req[r].pc = "idle" /\ "request" \in AllOps
    BY <1>1 DEF RequestLoad, CanStart, AllOps
  <2>2. \/ \E outcome \in Outcomes : Respond(r, Start(r, "request", u, e, None), outcome)
        \/ \E pc \in Pcs \ {"idle"} : /\ pc \in Early => "request" \in {"login", "request"}
                                      /\ Continue(r, Start(r, "request", u, e, None), pc)
    <3>1. "taken" \in Pcs \ {"idle"} /\ "unauthorized" \in Outcomes /\ "bad" \in Outcomes
      BY DEF Pcs, Outcomes
    <3> QED
      BY <1>1, <3>1 DEF RequestLoad
  <2>3. Begins(r)
    BY <2>1, <2>2, Starts
  <2> QED
    BY <2>1, <2>3, QuietSteps DEF tables, LoginTrimmed, ChangeTrimmed
<1>2. ASSUME RequestTaken(r) PROVE FlowStep
  <2>1. Keeps(r)
    BY <1>2, Responds, Continues DEF RequestTaken, At, Outcomes, Pcs, Early
  <2> QED
    BY <1>2, <2>1, QuietSteps DEF RequestTaken, tables, LoginTrimmed, ChangeTrimmed
<1>3. ASSUME RequestPrune(r) PROVE FlowStep
  <2>1. Keeps(r)
    BY <1>3, Continues DEF RequestPrune, At, Pcs, Early
  <2>2. LoginTrimmed /\ ChangeTrimmed /\ UNCHANGED sessions
    BY <1>3, Trims DEF RequestPrune, LoginTrimmed, ChangeTrimmed, CInv, IInv, TypeOK
  <2> QED
    BY <2>1, <2>2, QuietSteps
<1>4. ASSUME NEW c \in Codes, RequestInsert(r, c) PROVE FlowStep
  <2> DEFINE u == req[r].user
             e == req[r].email
             h == HashEmailChangeCode(u, e, c)
  <2>1. /\ At(r, "request", "insert") /\ UNCHANGED <<authTokens, sessions>> /\ h \in ChangeHashes
        /\ req \in [Requests -> Request] /\ req[r] \in Request /\ req[r].op = "request"
    BY <1>4 DEF RequestInsert, At, CInv, IInv, TypeOK, LocalOK, ChangeHashes, HashEmailChangeCode
  <2>2. CASE /\ emailTokens[h].state = "none"
             /\ emailTokens' = CreateToken(emailTokens, h, FreshRow(u, e, r))
             /\ Continue(r, [req[r] EXCEPT !.code = c], "mail")
    <3>1. /\ Alone(r) /\ req'[r].op = "request" /\ req'[r].hit = req[r].hit
          /\ req'[r].pc = "mail" /\ req'[r].user = u
      <4> DEFINE more == [req[r] EXCEPT !.code = c]
      <4>1. more \in Request /\ more.op = "request" /\ more.user = u /\ more.hit = req[r].hit
        BY <2>1, WithCode
      <4>2. Continue(r, more, "mail") /\ "mail" \in Pcs
        BY <2>2 DEF Pcs
      <4> HIDE DEF more
      <4> QED
        BY <2>1, <4>1, <4>2, ContinueLocals DEF Alone
    <3>2. Calm("login", "verify") /\ NothingEarly'
      BY <2>1, <3>1 DEF Calm, Alone, SameNames, At, CInv, NothingEarly, Unissued, Early
    <3>3. LoginFlow!Next
      BY <2>1, <3>2, LoginQuiet
    <3>4. Cleared' = Cleared
      BY <2>1, <3>1 DEF Cleared, Alone
    <3>5. ChangeFlow!Next
      BY <2>1, <2>2, <3>4, ChangeInsertIssues
    <3> QED
      BY <3>2, <3>3, <3>5 DEF FlowStep
  <2>3. CASE Respond(r, req[r], "error") /\ UNCHANGED emailTokens
    <3>1. Keeps(r)
      BY <2>3, Responds DEF Outcomes
    <3> QED
      BY <2>1, <2>3, <3>1, QuietSteps DEF LoginTrimmed, ChangeTrimmed
  <2> QED
    BY <1>4, <2>2, <2>3 DEF RequestInsert, CanCreate
<1>5. ASSUME RequestMail(r) PROVE FlowStep
  <2>1. Keeps(r)
    BY <1>5, Responds DEF RequestMail, Outcomes
  <2> QED
    BY <1>5, <2>1, QuietSteps DEF RequestMail, tables, LoginTrimmed, ChangeTrimmed
<1> QED
  BY <1>1, <1>2, <1>3, <1>4, <1>5 DEF RequestChange

LEMMA ConfirmConsumeSteps ==
  ASSUME CInv, NEW r \in Requests, NEW u \in UserIds, NEW e \in Emails, NEW c \in Codes,
         ConfirmConsume(r, u, e, c)
  PROVE  FlowStep
<1> DEFINE h == HashEmailChangeCode(u, e, c)
           missed == OpenCodes(emailTokens, u)
           locals == Start(r, "confirm", u, e, c)
<1>1. /\ req[r].pc = "idle" /\ UNCHANGED <<authTokens, sessions>> /\ h \in ChangeHashes
      /\ req \in [Requests -> Request] /\ TypeOK /\ emailTokens \in [ChangeHashes -> Row]
      /\ "confirm" \in AllOps
  BY DEF ConfirmConsume, CanStart, CInv, IInv, TypeOK, ChangeHashes, HashEmailChangeCode, AllOps
<1>2. locals \in Request /\ locals.op = "confirm" /\ locals.user = u /\ locals.hit = None
  BY <1>1, StartLocals
<1> HIDE DEF h, locals
<1>3. CASE /\ Redeemable(emailTokens[h], MaxAttempts) /\ emailTokens[h].userId = u
           /\ emailTokens' = ConsumeToken(emailTokens, h)
           /\ Continue(r, [locals EXCEPT !.hit = emailTokens[h].by,
                                         !.email = emailTokens[h].newEmail], "recheck")
  <2>1. /\ Alone(r) /\ req'[r].op = "confirm" /\ req'[r].pc = "recheck"
        /\ req'[r].user = emailTokens[h].userId /\ req'[r].email = emailTokens[h].newEmail
        /\ req'[r].hit = emailTokens[h].by
    <3> DEFINE more == [locals EXCEPT !.hit = emailTokens[h].by,
                                      !.email = emailTokens[h].newEmail]
    <3>1. emailTokens[h].by \in Requests \cup {None} /\ emailTokens[h].newEmail \in Emails \cup {None}
      BY <1>1 DEF Row
    <3>2. /\ more \in Request /\ more.op = "confirm" /\ more.user = u
          /\ more.hit = emailTokens[h].by /\ more.email = emailTokens[h].newEmail
      BY <1>2, <3>1 DEF Request
    <3>3. Continue(r, more, "recheck") /\ "recheck" \in Pcs
      BY <1>3 DEF Pcs
    <3> HIDE DEF more
    <3> QED
      BY <1>1, <1>3, <3>2, <3>3, ContinueLocals DEF Alone
  <2>2. ChangeFlow!Next
    BY <1>1, <1>3, <2>1, ConfirmConsumeRedeems
  <2>3. Calm("login", "verify") /\ NothingEarly'
    BY <1>1, <2>1 DEF Calm, Alone, SameNames, CInv, NothingEarly, Unissued, Early
  <2>4. LoginFlow!Next
    BY <1>1, <2>3, LoginQuiet
  <2> QED
    BY <2>2, <2>3, <2>4 DEF FlowStep
<1>4. CASE /\ Continue(r, [locals EXCEPT !.missed = missed], "bump")
           /\ UNCHANGED emailTokens
  <2>1. missed \in SUBSET (Requests \cup {None})
    BY <1>1 DEF OpenCodes, Row
  <2> HIDE DEF missed
  <2>2. Begins(r)
    <3> DEFINE more == [locals EXCEPT !.missed = missed]
    <3>1. more \in Request /\ more.op = "confirm" /\ more.hit = None
      BY <1>2, <2>1, WithMissed
    <3>2. Continue(r, more, "bump") /\ "bump" \in Pcs
      BY <1>4 DEF Pcs
    <3> HIDE DEF more
    <3>3. Alone(r) /\ req'[r].pc = "bump" /\ req'[r].op = "confirm" /\ req'[r].hit = None
      BY <1>1, <3>1, <3>2, ContinueLocals DEF Alone
    <3> QED
      BY <1>1, <3>3 DEF Begins, Early
  <2> QED
    BY <1>1, <1>4, <2>2, QuietSteps DEF LoginTrimmed, ChangeTrimmed
<1> QED
  BY <1>3, <1>4 DEF ConfirmConsume, h, locals

LEMMA ConfirmSteps ==
  ASSUME CInv, NEW r \in Requests, ConfirmChange(r)
  PROVE  FlowStep
<1>1. ASSUME ConfirmBump(r) PROVE FlowStep
  <2>1. Keeps(r) /\ UNCHANGED <<authTokens, sessions>>
    BY <1>1, Responds DEF ConfirmBump, Outcomes
  <2>2. Calm("login", "verify") /\ Calm("request", "confirm") /\ NothingEarly'
    BY <2>1, CalmSteps
  <2>3. ChangeFlow!Next
    BY <1>1, <2>2, ChangeCounts, ClearedStays DEF ConfirmBump
  <2>4. LoginFlow!Next
    BY <2>1, <2>2, LoginQuiet
  <2> QED
    BY <2>2, <2>3, <2>4 DEF FlowStep
<1>2. ASSUME ConfirmRecheck(r) PROVE FlowStep
  <2>1. Keeps(r)
    BY <1>2, Responds, Continues DEF ConfirmRecheck, At, Outcomes, Pcs, Early
  <2> QED
    BY <1>2, <2>1, QuietSteps DEF ConfirmRecheck, tables, LoginTrimmed, ChangeTrimmed
<1>3. ASSUME ConfirmSwap(r) PROVE FlowStep
  <2>1. Keeps(r)
    BY <1>3, Responds, Continues DEF ConfirmSwap, At, Outcomes, Pcs, Early
  <2> QED
    BY <1>3, <2>1, QuietSteps DEF ConfirmSwap, LoginTrimmed, ChangeTrimmed
<1>4. ASSUME ConfirmWipe(r) PROVE FlowStep
  <2>1. Keeps(r)
    BY <1>4, Responds DEF ConfirmWipe, Outcomes
  <2>2. LoginTrimmed /\ ChangeTrimmed /\ UNCHANGED sessions
    BY <1>4, Trims DEF ConfirmWipe, LoginTrimmed, ChangeTrimmed, CInv, IInv, TypeOK
  <2> QED
    BY <2>1, <2>2, QuietSteps
<1> QED
  BY <1>1, <1>2, <1>3, <1>4, ConfirmConsumeSteps DEF ConfirmChange

LEMMA AccountSteps ==
  ASSUME CInv, NEW r \in Requests, Account(r)
  PROVE  FlowStep
<1>1. ASSUME NEW u \in UserIds, DeleteAccount(r, u) PROVE FlowStep
  <2>1. /\ req[r].pc = "idle" /\ "delete" \in AllOps /\ "ok" \in Outcomes
        /\ Respond(r, Start(r, "delete", u, None, None), "ok")
    BY <1>1 DEF DeleteAccount, CanStart, AllOps, Outcomes
  <2>2. Begins(r)
    BY <2>1, Starts
  <2>3. LoginTrimmed /\ ChangeTrimmed /\ UNCHANGED sessions
    BY <1>1, Trims DEF DeleteAccount, LoginTrimmed, ChangeTrimmed, CInv, IInv, TypeOK
  <2> QED
    BY <2>2, <2>3, QuietSteps
<1>2. ASSUME NEW u \in UserIds, GetCurrentUser(r, u) PROVE FlowStep
  <2>1. /\ req[r].pc = "idle" /\ "me" \in AllOps
        /\ \E outcome \in Outcomes : Respond(r, Start(r, "me", u, None, None), outcome)
    BY <1>2 DEF GetCurrentUser, CanStart, AllOps, Outcomes
  <2>2. Begins(r)
    BY <2>1, Starts
  <2> QED
    BY <1>2, <2>2, QuietSteps DEF GetCurrentUser, tables, LoginTrimmed, ChangeTrimmed
<1> QED
  BY <1>1, <1>2 DEF Account

LEMMA ExpireSteps ==
  ASSUME CInv, Expire
  PROVE  FlowStep
<1>1. UNCHANGED <<req, sessions>>
  BY DEF Expire, ExpireLogin, ExpireChange
<1>2. Calm("login", "verify") /\ Calm("request", "confirm") /\ NothingEarly'
  BY <1>1 DEF Calm, SameNames, CInv, NothingEarly, Unissued
<1>3. LoginTrimmed /\ ChangeTrimmed
  BY Trims DEF Expire, ExpireLogin, ExpireChange, LoginTrimmed, ChangeTrimmed, CInv, IInv, TypeOK
<1> QED
  BY <1>1, <1>2, <1>3, LoginQuiet, ChangeQuiet, ClearedStays
     DEF FlowStep, LoginTrimmed, ChangeTrimmed

LEMMA NextSteps ==
  ASSUME CInv, Next
  PROVE  FlowStep
<1>1. ASSUME NEW r \in Requests, Crash(r) PROVE FlowStep
  <2>1. Keeps(r)
    BY <1>1, Responds DEF Crash, Outcomes
  <2> QED
    BY <1>1, <2>1, QuietSteps DEF Crash, tables, LoginTrimmed, ChangeTrimmed
<1> QED
  BY <1>1, LoginSteps, VerifySteps, RequestSteps, ConfirmSteps, AccountSteps, ExpireSteps DEF Next

-----------------------------------------------------------------------------
(* The refinement. *)

LEMMA InitFlows ==
  ASSUME Init
  PROVE  CInv /\ LoginFlow!Init /\ ChangeFlow!Init
<1>1. \A r \in Requests : /\ req[r].op = "none" /\ req[r].pc = "idle"
                          /\ req[r].hit = None /\ req[r].code = None
  BY DEF Init, Idle
<1>2. CInv
  BY <1>1, InitInv DEF CInv, NothingEarly, Unissued
<1>3. \A i \in Requests : LoginCode(i) = NoCode("unissued") /\ ChangeCode(i) = NoCode("unissued")
  BY <1>1 DEF LoginCode, ChangeCode
<1>4. sessions \subseteq UserIds
  BY <1>2 DEF CInv, IInv, TypeOK
<1>5. Cleared \subseteq UserIds \X Emails
  BY <1>1 DEF Cleared
<1> QED
  BY <1>2, <1>3, <1>4, <1>5
     DEF LoginFlow!Init, ChangeFlow!Init, LoginFlow!NoCode, ChangeFlow!NoCode, NoCode

\* However logins, answers, changes of address and deletions overlap, die or
\* are repeated, the service is a pair of one-time-code flows: each session and
\* each address about to be set comes from one live code made for it, redeemed
\* once and before the cap, and no code comes back (auth.service.ts).
THEOREM RefinesOneTimeCode == Spec => CodesAreOneTime
<1>1. Init => CInv /\ LoginFlow!Init /\ ChangeFlow!Init
  BY InitFlows
<1>2. CInv /\ [Next]_vars => CInv'
  <2>1. ASSUME CInv, [Next]_vars PROVE NothingEarly'
    <3>1. CASE Next
      BY <2>1, <3>1, NextSteps DEF FlowStep
    <3>2. CASE UNCHANGED vars
      BY <2>1, <3>2 DEF CInv, NothingEarly, Unissued, vars
    <3> QED
      BY <2>1, <3>1, <3>2
  <2> QED
    BY <2>1, NextInv DEF CInv
<1>3. CInv /\ [Next]_vars => [LoginFlow!Next]_<<[i \in Requests |-> LoginCode(i)], sessions>>
  <2>1. ASSUME UNCHANGED vars
        PROVE  UNCHANGED <<[i \in Requests |-> LoginCode(i)], sessions>>
    <3>1. \A i \in Requests : LoginCode(i)' = LoginCode(i)
      BY <2>1 DEF vars, LoginCode, RedeemedBy
    <3> QED
      BY <2>1, <3>1 DEF vars
  <2> QED
    BY <2>1, NextSteps DEF FlowStep
<1>4. CInv /\ [Next]_vars => [ChangeFlow!Next]_<<[i \in Requests |-> ChangeCode(i)], Cleared>>
  <2>1. ASSUME UNCHANGED vars
        PROVE  UNCHANGED <<[i \in Requests |-> ChangeCode(i)], Cleared>>
    <3>1. \A i \in Requests : ChangeCode(i)' = ChangeCode(i)
      BY <2>1 DEF vars, ChangeCode, RedeemedBy
    <3>2. Cleared' = Cleared
      BY <2>1 DEF vars, Cleared
    <3> QED
      BY <3>1, <3>2
  <2> QED
    BY <2>1, NextSteps DEF FlowStep
<1> QED
  BY <1>1, <1>2, <1>3, <1>4, PTL DEF Spec, CodesAreOneTime, LoginFlow!Spec, ChangeFlow!Spec

-----------------------------------------------------------------------------
(* Part 3: the counts. *)

\* The requests that were answered "invalid" and may have been meant for code t.
MissedBy(t) == {s \in Requests : t \in req[s].missed /\ req[s].outcome = "invalid"}
FlowOf(op) == IF op = "verify" THEN "login" ELSE "request"

\* What a handler counts its wrong answer against was issued, by the flow that
\* the handler belongs to and for its account.
MissOK(s) ==
  /\ req[s].missed # {} => /\ req[s].pc \in {"bump", "done"}
                           /\ req[s].op \in {"verify", "confirm"}
  /\ \A t \in req[s].missed : /\ t \in Requests /\ Issued(t, FlowOf(req[s].op))
                              /\ req[t].user = req[s].user

\* No open row is behind the wrong answers given.
LoginCounted ==
  \A h \in LoginHashes, t \in Requests : OpenRow(authTokens[h]) /\ authTokens[h].by = t =>
    Cardinality(MissedBy(t)) <= authTokens[h].attempts
ChangeCounted ==
  \A h \in ChangeHashes, t \in Requests : OpenRow(emailTokens[h]) /\ emailTokens[h].by = t =>
    Cardinality(MissedBy(t)) <= emailTokens[h].attempts

\* Even of infinitely many requests only finitely many have begun.
Begun == {s \in Requests : req[s].pc # "idle"}

Below(r) == req[r].hit # None => Cardinality(Misses(r, req[r].hit)) < MaxAttempts

CountInv ==
  /\ IsFiniteSet(Begun) /\ (\A s \in Requests : MissOK(s))
  /\ LoginCounted /\ ChangeCounted
  /\ \A r \in Requests : Below(r)

\* A login that has its row keeps it while nobody comes to destroy it.
Sent(l) == req[l].op = "login" /\ (req[l].pc = "mail" \/ req[l].outcome = "ok")
HasRow(l) ==
  LET row == authTokens[HashCode(req[l].user, req[l].code)] IN row.by = l /\ row.state # "none"
SentInv == \A l \in Requests : Sent(l) =>
  req[l].code \in Codes /\ (Destroyers(l) = {} => HasRow(l))

LInv == CInv /\ CountInv /\ SentInv

-----------------------------------------------------------------------------
(* Counting wrong answers. *)

LEMMA MissesAreFinite ==
  ASSUME LInv, NEW t
  PROVE  IsFiniteSet(MissedBy(t)) /\ Cardinality(MissedBy(t)) \in Nat
<1>1. MissedBy(t) \in SUBSET Begun
  <2> SUFFICES ASSUME NEW s \in Requests, req[s].outcome = "invalid" PROVE req[s].pc # "idle"
    BY DEF MissedBy, Begun
  <2> QED
    BY DEF LInv, CInv, IInv, LocalOK
<1>2. IsFiniteSet(Begun)
  BY DEF LInv, CountInv
<1> HIDE DEF LInv
<1> QED
  BY <1>1, <1>2, FS_Subset, FS_CardinalityType

\* A step of request r, which was not answered yet.
Steps(r) ==
  /\ req[r].pc # "done" /\ Alone(r) /\ req'[r].pc # "idle"
  /\ req[r].pc = "mail" => req'[r].pc = "done" /\ SameNames(r)

LEMMA BegunStays ==
  ASSUME IsFiniteSet(Begun), NEW r \in Requests, Alone(r)
  PROVE  IsFiniteSet(Begun)'
<1> DEFINE B == Begun
           C == Begun'
<1>1. C \in SUBSET (B \cup {r})
  BY DEF Begun, Alone
<1>2. IsFiniteSet(B \cup {r})
  BY FS_AddElement
<1>3. IsFiniteSet(C)
  <2> HIDE DEF B, C
  <2> QED
    BY <1>1, <1>2, FS_Subset
<1> QED
  BY <1>3

\* Answers are only counted when they are given.
LEMMA MissedStays ==
  ASSUME LInv, NEW r \in Requests, Steps(r), req'[r].outcome = "invalid" => req'[r].missed = {},
         NEW t
  PROVE  MissedBy(t)' = MissedBy(t)
<1>1. req[r].outcome = "none"
  BY DEF LInv, CInv, IInv, LocalOK, Steps
<1> QED
  BY <1>1 DEF MissedBy, Steps, Alone

LEMMA MissedGrows ==
  ASSUME LInv, NEW r \in Requests, Steps(r), req'[r].missed = req[r].missed,
         req'[r].outcome = "invalid", NEW t
  PROVE  /\ t \notin req[r].missed => MissedBy(t)' = MissedBy(t)
         /\ IsFiniteSet(MissedBy(t)') /\ Cardinality(MissedBy(t)') \in Nat
         /\ Cardinality(MissedBy(t)') <= Cardinality(MissedBy(t)) + 1
<1> DEFINE M == MissedBy(t)
           N == MissedBy(t)'
<1>1. req[r].outcome = "none" /\ r \notin M
  BY DEF LInv, CInv, IInv, LocalOK, Steps, MissedBy
<1>2. t \notin req[r].missed => N = M
  BY <1>1 DEF MissedBy, Steps, Alone
<1>3. t \in req[r].missed => N = M \cup {r}
  BY <1>1 DEF MissedBy, Steps, Alone
<1>4. IsFiniteSet(M) /\ Cardinality(M) \in Nat
  BY MissesAreFinite
<1> HIDE DEF M, N
<1>5. IsFiniteSet(N) /\ Cardinality(N) \in Nat /\ Cardinality(N) <= Cardinality(M) + 1
  <2>1. CASE N = M
    BY <1>4, <2>1
  <2>2. CASE N = M \cup {r}
    <3>1. IsFiniteSet(N) /\ Cardinality(N) = IF r \in M THEN Cardinality(M) ELSE Cardinality(M) + 1
      BY <1>4, <2>2, FS_AddElement
    <3> QED
      BY <1>4, <3>1
  <2> QED
    BY <1>2, <1>3, <2>1, <2>2
<1> QED
  BY <1>2, <1>5 DEF M, N

\* What was issued keeps its flow and its account.
LEMMA IssuedKept ==
  ASSUME NEW r \in Requests, Steps(r), NEW t \in Requests, NEW op, Issued(t, op)
  PROVE  req'[t].op = op /\ req'[t].pc \in {"mail", "done"} /\ req'[t].user = req[t].user
<1>1. CASE t = r
  BY <1>1 DEF Steps, Issued, SameNames
<1>2. CASE t # r
  BY <1>2 DEF Steps, Issued, Alone
<1> QED
  BY <1>1, <1>2

\* What r holds after its step: nothing to count against, or what it held.
Holds(r) ==
  \/ req'[r].missed = {}
  \/ /\ SameNames(r) /\ req'[r].missed = req[r].missed /\ req'[r].pc \in {"bump", "done"}

LEMMA MissStays ==
  ASSUME LInv, NEW r \in Requests, Steps(r), Holds(r)
  PROVE  \A s \in Requests : MissOK(s)'
<1>1. \A s \in Requests : MissOK(s)
  BY DEF LInv, CountInv
<1>2. ASSUME NEW s \in Requests, req'[s].missed = req[s].missed, req'[s].op = req[s].op,
             req'[s].user = req[s].user, req'[s].missed # {} => req'[s].pc \in {"bump", "done"}
      PROVE  MissOK(s)'
  <2>1. MissOK(s)
    BY <1>1
  <2>2. ASSUME NEW t \in req[s].missed
        PROVE  t \in Requests /\ Issued(t, FlowOf(req[s].op))' /\ req'[t].user = req'[s].user
    <3>1. t \in Requests /\ Issued(t, FlowOf(req[s].op)) /\ req[t].user = req[s].user
      BY <2>1 DEF MissOK
    <3>2. req'[t].op = FlowOf(req[s].op) /\ req'[t].pc \in {"mail", "done"} /\ req'[t].user = req[t].user
      BY <3>1, IssuedKept
    <3> QED
      BY <1>2, <3>1, <3>2 DEF Issued, FlowOf
  <2> QED
    BY <1>2, <2>1, <2>2 DEF MissOK, FlowOf
<1>3. ASSUME NEW s \in Requests PROVE MissOK(s)'
  <2>1. CASE s # r
    <3>1. req'[s] = req[s] /\ (req[s].missed # {} => req[s].pc \in {"bump", "done"})
      BY <1>1, <2>1 DEF Steps, Alone, MissOK
    <3> QED
      BY <1>2, <3>1
  <2>2. CASE s = r /\ req'[r].missed = {}
    BY <2>2 DEF MissOK
  <2>3. CASE s = r /\ req'[r].missed # {}
    BY <1>2, <2>3 DEF Holds, SameNames
  <2> QED
    BY <2>1, <2>2, <2>3
<1> QED
  BY <1>3

\* What was redeemed below the cap stays so: the answers counted were given
\* before the request began.
LEMMA BelowStays ==
  ASSUME LInv, NEW r \in Requests, Steps(r), NEW q \in Requests,
         req'[q].hit = req[q].hit, req'[q].after = req[q].after
  PROVE  Below(q)'
<1>1. Below(q) /\ \A s \in req[q].after : s \in Requests \ {r} /\ req'[s] = req[s]
  BY DEF LInv, CountInv, CInv, IInv, AfterOK, TypeOK, Request, Steps, Alone
<1>2. \A t : Misses(q, t)' = Misses(q, t)
  BY <1>1 DEF Misses
<1>3. \A t : t = req[q].hit => Misses(q, req[q].hit)' = Misses(q, t)
  BY <1>2
<1> QED
  BY <1>1, <1>2 DEF Below, Misses

\* The rows that are open after a step of r: as they were, or just inserted.
LoginsAsBefore(r) ==
  \A h \in LoginHashes : OpenRow(authTokens'[h]) =>
    \/ authTokens'[h] = authTokens[h]
    \/ authTokens'[h].by = r /\ req[r].pc = "insert" /\ authTokens'[h].attempts \in Nat
ChangesAsBefore(r) ==
  \A h \in ChangeHashes : OpenRow(emailTokens'[h]) =>
    \/ emailTokens'[h] = emailTokens[h]
    \/ emailTokens'[h].by = r /\ req[r].pc = "insert" /\ emailTokens'[h].attempts \in Nat

LEMMA NothingMissedYet ==
  ASSUME LInv, NEW r \in Requests, req[r].pc = "insert"
  PROVE  MissedBy(r) = {} /\ Cardinality(MissedBy(r)) = 0
<1>1. \A s \in Requests : MissOK(s)
  BY DEF LInv, CountInv
<1>2. MissedBy(r) = {}
  BY <1>1 DEF MissedBy, MissOK, Issued
<1> QED
  BY <1>2, FS_EmptySet

LEMMA LoginsCount ==
  ASSUME LInv, NEW r \in Requests, LoginsAsBefore(r), \A t : MissedBy(t)' = MissedBy(t)
  PROVE  LoginCounted'
<1>1. LoginCounted
  BY DEF LInv, CountInv
<1>2. ASSUME NEW h \in LoginHashes, NEW t \in Requests, OpenRow(authTokens'[h]), authTokens'[h].by = t
      PROVE  Cardinality(MissedBy(t)') <= authTokens'[h].attempts
  <2>1. MissedBy(t)' = MissedBy(t)
    OBVIOUS
  <2>2. CASE authTokens'[h] = authTokens[h]
    BY <1>1, <1>2, <2>1, <2>2 DEF LoginCounted
  <2>3. CASE t = r /\ req[r].pc = "insert" /\ authTokens'[h].attempts \in Nat
    BY <2>1, <2>3, NothingMissedYet
  <2> QED
    BY <1>2, <2>2, <2>3 DEF LoginsAsBefore
<1> QED
  BY <1>2 DEF LoginCounted

LEMMA ChangesCount ==
  ASSUME LInv, NEW r \in Requests, ChangesAsBefore(r), \A t : MissedBy(t)' = MissedBy(t)
  PROVE  ChangeCounted'
<1>1. ChangeCounted
  BY DEF LInv, CountInv
<1>2. ASSUME NEW h \in ChangeHashes, NEW t \in Requests, OpenRow(emailTokens'[h]), emailTokens'[h].by = t
      PROVE  Cardinality(MissedBy(t)') <= emailTokens'[h].attempts
  <2>1. MissedBy(t)' = MissedBy(t)
    OBVIOUS
  <2>2. CASE emailTokens'[h] = emailTokens[h]
    BY <1>1, <1>2, <2>1, <2>2 DEF ChangeCounted
  <2>3. CASE t = r /\ req[r].pc = "insert" /\ emailTokens'[h].attempts \in Nat
    BY <2>1, <2>3, NothingMissedYet
  <2> QED
    BY <1>2, <2>2, <2>3 DEF ChangesAsBefore
<1> QED
  BY <1>2 DEF ChangeCounted

\* A step in which no wrong answer is counted.
LEMMA UncountedStep ==
  ASSUME LInv, NEW r \in Requests, Steps(r), Holds(r), Below(r)',
         req'[r].outcome = "invalid" => req'[r].missed = {},
         LoginsAsBefore(r), ChangesAsBefore(r)
  PROVE  CountInv'
<1>1. \A t : MissedBy(t)' = MissedBy(t)
  BY MissedStays
<1>2. LoginCounted' /\ ChangeCounted'
  BY <1>1, LoginsCount, ChangesCount
<1>3. IsFiniteSet(Begun)'
  BY BegunStays DEF LInv, CountInv, Steps
<1>4. \A q \in Requests : Below(q)'
  BY BelowStays DEF Steps, Alone
<1> QED
  BY <1>2, <1>3, <1>4, MissStays DEF CountInv

\* A wrong answer is counted: in every open row it may have been meant for.
Counted(old, new, u) ==
  new = IF Open(old, u) THEN [old EXCEPT !.attempts = old.attempts + 1] ELSE old

LEMMA CountedRow ==
  ASSUME NEW old \in Row, NEW new, NEW u, Counted(old, new, u), OpenRow(new)
  PROVE  /\ OpenRow(old) /\ new.by = old.by /\ new.userId = old.userId
         /\ old.userId = u => new.attempts = old.attempts + 1
         /\ old.userId # u => new.attempts = old.attempts
         /\ old.attempts \in Nat
<1>1. CASE Open(old, u)
  <2>1. new = [old EXCEPT !.attempts = old.attempts + 1]
    BY <1>1 DEF Counted
  <2> QED
    BY <1>1, <2>1 DEF Open, Live, OpenRow, Row
<1>2. CASE ~Open(old, u)
  BY <1>2 DEF Counted, Open, Live, OpenRow, Row
<1> QED
  BY <1>1, <1>2

\* The locals of r when its wrong answer is counted.
Counts(r) ==
  /\ Steps(r) /\ SameNames(r) /\ req'[r].missed = req[r].missed
  /\ req'[r].hit = req[r].hit /\ req'[r].after = req[r].after
  /\ req'[r].outcome = "invalid" /\ req'[r].pc = "done"

LEMMA CountedAll ==
  ASSUME LInv, NEW r \in Requests, Counts(r), LoginCounted', ChangeCounted'
  PROVE  CountInv'
<1>1. IsFiniteSet(Begun)'
  BY BegunStays DEF LInv, CountInv, Steps, Counts
<1>2. \A q \in Requests : Below(q)'
  BY BelowStays DEF Steps, Alone, Counts
<1>3. \A s \in Requests : MissOK(s)'
  BY MissStays DEF Counts, Holds
<1> QED
  BY <1>1, <1>2, <1>3 DEF CountInv

LEMMA VerifyCounts ==
  ASSUME LInv, NEW r \in Requests, Counts(r), req[r].op = "verify",
         authTokens' = IncrementLiveAttempts(authTokens, req[r].user), UNCHANGED emailTokens
  PROVE  CountInv'
<1>1. /\ authTokens \in [LoginHashes -> Row] /\ LoginRowsOK /\ ChangeRowsOK
      /\ LoginCounted /\ ChangeCounted /\ MissOK(r)
      /\ emailTokens \in [ChangeHashes -> Row]
  BY DEF LInv, CInv, IInv, TypeOK, CountInv
<1>2. ASSUME NEW h \in LoginHashes, NEW t \in Requests, OpenRow(authTokens'[h]), authTokens'[h].by = t
      PROVE  Cardinality(MissedBy(t)') <= authTokens'[h].attempts
  <2>1. authTokens[h] \in Row /\ Counted(authTokens[h], authTokens'[h], req[r].user)
    BY <1>1 DEF IncrementLiveAttempts, Counted
  <2>2. /\ OpenRow(authTokens[h]) /\ authTokens[h].by = t /\ authTokens[h].attempts \in Nat
        /\ authTokens[h].userId = req[r].user => authTokens'[h].attempts = authTokens[h].attempts + 1
        /\ authTokens[h].userId # req[r].user => authTokens'[h].attempts = authTokens[h].attempts
    BY <1>2, <2>1, CountedRow
  <2>3. Cardinality(MissedBy(t)) <= authTokens[h].attempts
    BY <1>1, <2>2 DEF LoginCounted
  <2>4. authTokens[h].userId = req[t].user
    BY <1>1, <2>2 DEF LoginRowsOK, OpenRow
  <2>5. /\ t \notin req[r].missed => MissedBy(t)' = MissedBy(t)
        /\ Cardinality(MissedBy(t)') \in Nat /\ Cardinality(MissedBy(t)) \in Nat
        /\ Cardinality(MissedBy(t)') <= Cardinality(MissedBy(t)) + 1
    BY MissedGrows, MissesAreFinite DEF Counts
  <2>6. CASE authTokens[h].userId = req[r].user
    BY <2>2, <2>3, <2>5, <2>6
  <2>7. CASE authTokens[h].userId # req[r].user
    <3>1. t \notin req[r].missed
      BY <1>1, <2>4, <2>7 DEF MissOK
    <3> QED
      BY <2>2, <2>3, <2>5, <2>7, <3>1
  <2> QED
    BY <2>6, <2>7
<1>3. ASSUME NEW h \in ChangeHashes, NEW t \in Requests, OpenRow(emailTokens'[h]), emailTokens'[h].by = t
      PROVE  Cardinality(MissedBy(t)') <= emailTokens'[h].attempts
  <2>1. req[t].op = "request"
    BY <1>1, <1>3 DEF ChangeRowsOK, OpenRow, Issued
  <2>2. t \notin req[r].missed
    BY <1>1, <2>1 DEF MissOK, Issued, FlowOf
  <2>3. MissedBy(t)' = MissedBy(t)
    BY <2>2, MissedGrows DEF Counts
  <2> QED
    BY <1>1, <1>3, <2>3 DEF ChangeCounted
<1> QED
  BY <1>2, <1>3, CountedAll DEF LoginCounted, ChangeCounted

LEMMA ConfirmCounts ==
  ASSUME LInv, NEW r \in Requests, Counts(r), req[r].op = "confirm",
         emailTokens' = IncrementLiveAttempts(emailTokens, req[r].user), UNCHANGED authTokens
  PROVE  CountInv'
<1>1. /\ authTokens \in [LoginHashes -> Row] /\ LoginRowsOK /\ ChangeRowsOK
      /\ LoginCounted /\ ChangeCounted /\ MissOK(r)
      /\ emailTokens \in [ChangeHashes -> Row]
  BY DEF LInv, CInv, IInv, TypeOK, CountInv
<1>2. ASSUME NEW h \in ChangeHashes, NEW t \in Requests, OpenRow(emailTokens'[h]), emailTokens'[h].by = t
      PROVE  Cardinality(MissedBy(t)') <= emailTokens'[h].attempts
  <2>1. emailTokens[h] \in Row /\ Counted(emailTokens[h], emailTokens'[h], req[r].user)
    BY <1>1 DEF IncrementLiveAttempts, Counted
  <2>2. /\ OpenRow(emailTokens[h]) /\ emailTokens[h].by = t /\ emailTokens[h].attempts \in Nat
        /\ emailTokens[h].userId = req[r].user => emailTokens'[h].attempts = emailTokens[h].attempts + 1
        /\ emailTokens[h].userId # req[r].user => emailTokens'[h].attempts = emailTokens[h].attempts
    BY <1>2, <2>1, CountedRow
  <2>3. Cardinality(MissedBy(t)) <= emailTokens[h].attempts
    BY <1>1, <2>2 DEF ChangeCounted
  <2>4. emailTokens[h].userId = req[t].user
    BY <1>1, <2>2 DEF ChangeRowsOK, OpenRow
  <2>5. /\ t \notin req[r].missed => MissedBy(t)' = MissedBy(t)
        /\ Cardinality(MissedBy(t)') \in Nat /\ Cardinality(MissedBy(t)) \in Nat
        /\ Cardinality(MissedBy(t)') <= Cardinality(MissedBy(t)) + 1
    BY MissedGrows, MissesAreFinite DEF Counts
  <2>6. CASE emailTokens[h].userId = req[r].user
    BY <2>2, <2>3, <2>5, <2>6
  <2>7. CASE emailTokens[h].userId # req[r].user
    <3>1. t \notin req[r].missed
      BY <1>1, <2>4, <2>7 DEF MissOK
    <3> QED
      BY <2>2, <2>3, <2>5, <2>7, <3>1
  <2> QED
    BY <2>6, <2>7
<1>3. ASSUME NEW h \in LoginHashes, NEW t \in Requests, OpenRow(authTokens'[h]), authTokens'[h].by = t
      PROVE  Cardinality(MissedBy(t)') <= authTokens'[h].attempts
  <2>1. req[t].op = "login"
    BY <1>1, <1>3 DEF LoginRowsOK, OpenRow, Issued
  <2>2. t \notin req[r].missed
    BY <1>1, <2>1 DEF MissOK, Issued, FlowOf
  <2>3. MissedBy(t)' = MissedBy(t)
    BY <2>2, MissedGrows DEF Counts
  <2> QED
    BY <1>1, <1>3, <2>3 DEF LoginCounted
<1> QED
  BY <1>2, <1>3, CountedAll DEF LoginCounted, ChangeCounted

-----------------------------------------------------------------------------
(* The code that was sent. *)

\* A step of r takes away rows of its own account only, and only if it is a
\* login, a confirmation or the deletion.
TakesOwn(r) ==
  \A h \in LoginHashes : authTokens[h].state # "none" =>
    \/ authTokens'[h].state # "none" /\ authTokens'[h].by = authTokens[h].by
    \/ authTokens[h].userId = req'[r].user /\ req'[r].op \in {"login", "confirm", "delete"}

\* A request that has begun keeps its flow, its account and what came before it.
Stays(r) ==
  req[r].pc # "idle" =>
    req'[r].op = req[r].op /\ req'[r].user = req[r].user /\ req'[r].after = req[r].after

LEMMA SentStays ==
  ASSUME LInv, NEW r \in Requests, Steps(r), Stays(r), TakesOwn(r),
         Sent(r)' => (Sent(r) /\ SameNames(r) /\ UNCHANGED authTokens) \/ (HasRow(r) /\ req[r].code \in Codes)'
  PROVE  SentInv'
<1>1. /\ SentInv /\ LoginRowsOK /\ req \in [Requests -> Request]
      /\ \A s \in Requests : LocalOK(s) /\ AfterOK(s) /\ Unissued(s)
  BY DEF LInv, CInv, IInv, NothingEarly, TypeOK
<1>2. ASSUME NEW l \in Requests, Sent(l)', Destroyers(l)' = {}, Sent(l), SameNames(l),
             req'[l].after = req[l].after
      PROVE  HasRow(l)
  <2>1. ASSUME NEW s \in Destroyers(l) PROVE FALSE
    <3>1. s \in Requests \ {l} /\ s \notin req[l].after /\ req[s].user = req[l].user
          /\ req[s].op \in {"login", "confirm", "delete"}
      BY DEF Destroyers
    <3>2. req[s].pc # "idle"
      BY <1>1, <3>1 DEF Unissued
    <3>3. req'[s].user = req[s].user /\ req'[s].op = req[s].op
      BY <3>1, <3>2 DEF Steps, Alone, Stays
    <3>4. s \in Destroyers(l)'
      BY <1>2, <3>1, <3>3 DEF Destroyers, SameNames
    <3> QED
      BY <1>2, <3>4
  <2> QED
    BY <1>1, <1>2, <2>1 DEF SentInv
<1>3. ASSUME NEW l \in Requests, l # r, Sent(l)', Destroyers(l)' = {} PROVE HasRow(l)'
  <2>1. req'[l] = req[l]
    BY <1>3 DEF Steps, Alone
  <2>2. HasRow(l)
    BY <1>2, <1>3, <2>1 DEF Sent, SameNames
  <2> DEFINE h == HashCode(req[l].user, req[l].code)
  <2>3. h \in LoginHashes /\ authTokens[h].userId = req[l].user
    <3>1. req[l].user \in UserIds
      BY <1>1, <1>3, <2>1 DEF Sent, Unissued
    <3>2. req[l].code \in Codes
      BY <1>1, <1>3, <2>1 DEF SentInv, Sent
    <3> QED
      BY <1>1, <2>2, <3>1, <3>2 DEF HasRow, LoginRowsOK, LoginHashes, HashCode
  <2>4. authTokens[h].by = l /\ authTokens[h].state # "none"
    BY <2>2 DEF HasRow
  <2>5. authTokens'[h].state # "none" /\ authTokens'[h].by = l
    <3>1. CASE authTokens'[h].state # "none" /\ authTokens'[h].by = authTokens[h].by
      BY <2>4, <3>1
    <3>2. CASE req[l].user = req'[r].user /\ req'[r].op \in {"login", "confirm", "delete"}
      <4>1. r \notin req'[l].after
        BY <1>1, <2>1 DEF AfterOK, Steps
      <4>2. r \in Destroyers(l)'
        BY <1>3, <2>1, <3>2, <4>1 DEF Destroyers
      <4> QED
        BY <1>3, <4>2
    <3> HIDE DEF h
    <3> QED
      BY <2>3, <2>4, <3>1, <3>2 DEF TakesOwn
  <2>6. HashCode(req'[l].user, req'[l].code) = h
    BY <2>1
  <2> QED
    BY <2>5, <2>6 DEF HasRow, HashCode
<1>4. ASSUME Sent(r)', Destroyers(r)' = {} PROVE HasRow(r)'
  <2>1. CASE Sent(r) /\ SameNames(r) /\ UNCHANGED authTokens
    <3>1. req'[r].after = req[r].after
      BY <2>1 DEF Sent, Stays, LInv, CInv, IInv, LocalOK
    <3>2. HasRow(r)
      BY <1>2, <1>4, <2>1, <3>1
    <3> QED
      BY <2>1, <3>2 DEF HasRow, SameNames, HashCode
  <2> QED
    BY <1>4, <2>1
<1>5. ASSUME NEW l \in Requests, Sent(l)' PROVE req'[l].code \in Codes
  <2>1. CASE l # r
    BY <1>1, <1>5, <2>1 DEF Steps, Alone, Sent, SentInv
  <2>2. CASE l = r
    BY <1>1, <1>5, <2>2 DEF SameNames, SentInv
  <2> QED
    BY <2>1, <2>2
<1> QED
  BY <1>3, <1>4, <1>5 DEF SentInv

-----------------------------------------------------------------------------
(* The actions. *)

Limits == CountInv /\ SentInv

\* The locals of r in a step that counts no wrong answer and inserts no row.
Plain(r) ==
  /\ Steps(r) /\ Stays(r) /\ Holds(r) /\ Below(r)'
  /\ req'[r].outcome = "invalid" => req'[r].missed = {}
  /\ Sent(r)' => Sent(r) /\ SameNames(r) /\ req[r].pc = "mail"

LEMMA PlainStep ==
  ASSUME LInv, NEW r \in Requests, Plain(r), LoginTrimmed, ChangeTrimmed, TakesOwn(r),
         req[r].pc = "mail" => UNCHANGED authTokens
  PROVE  Limits'
<1>1. LoginsAsBefore(r) /\ ChangesAsBefore(r)
  BY DEF LoginTrimmed, ChangeTrimmed, LoginsAsBefore, ChangesAsBefore
<1>2. CountInv'
  BY <1>1, UncountedStep DEF Plain
<1>3. SentInv'
  BY SentStays DEF Plain
<1> QED
  BY <1>2, <1>3 DEF Limits

\* Nothing is inserted, deleted or counted.
LEMMA PlainAlone ==
  ASSUME LInv, NEW r \in Requests, Plain(r), UNCHANGED <<authTokens, emailTokens>>
  PROVE  Limits'
<1>1. LoginTrimmed /\ ChangeTrimmed /\ TakesOwn(r)
  BY DEF LoginTrimmed, ChangeTrimmed, TakesOwn
<1> QED
  BY <1>1, PlainStep

\* All of the locals: those that the lemmas above leave out, too.
AllSame(r) ==
  SameNames(r) /\ req'[r].missed = req[r].missed /\ req'[r].hit = req[r].hit
               /\ req'[r].after = req[r].after

LEMMA RespondAll ==
  ASSUME LInv, NEW r \in Requests, req[r].pc \notin {"idle", "done"},
         NEW outcome \in Outcomes, Respond(r, req[r], outcome)
  PROVE  Steps(r) /\ AllSame(r) /\ req'[r].pc = "done" /\ req'[r].outcome = outcome
<1>1. req \in [Requests -> Request] /\ req[r] \in Request
  BY DEF LInv, CInv, IInv, TypeOK
<1>2. req'[r].missed = req[r].missed
  BY <1>1 DEF Respond, Request
<1> QED
  BY <1>1, <1>2, RespondLocals DEF Steps, AllSame, SameNames, Alone

LEMMA ContinueAll ==
  ASSUME LInv, NEW r \in Requests, req[r].pc \notin {"idle", "done", "mail"},
         NEW pc \in Pcs \ {"idle"}, Continue(r, req[r], pc)
  PROVE  Steps(r) /\ AllSame(r) /\ req'[r].pc = pc /\ req'[r].outcome = req[r].outcome
<1>1. req \in [Requests -> Request] /\ req[r] \in Request /\ pc \in Pcs
  BY DEF LInv, CInv, IInv, TypeOK
<1>2. req'[r].missed = req[r].missed
  BY <1>1 DEF Continue, Request
<1> QED
  BY <1>1, <1>2, ContinueLocals DEF Steps, AllSame, SameNames, Alone

LEMMA StartAll ==
  ASSUME LInv, NEW r \in Requests, req[r].pc = "idle", NEW op \in AllOps,
         NEW u \in UserIds \cup {None}, NEW e \in Emails \cup {None}, NEW c \in Codes \cup {None}
  PROVE  /\ \A outcome \in Outcomes : Respond(r, Start(r, op, u, e, c), outcome) =>
              /\ Steps(r) /\ req'[r].pc = "done" /\ req'[r].outcome = outcome /\ req'[r].op = op
              /\ req'[r].user = u /\ req'[r].missed = {} /\ req'[r].hit = None
         /\ \A pc \in Pcs \ {"idle"} : Continue(r, Start(r, op, u, e, c), pc) =>
              /\ Steps(r) /\ req'[r].pc = pc /\ req'[r].outcome = "none" /\ req'[r].op = op
              /\ req'[r].user = u /\ req'[r].missed = {} /\ req'[r].hit = None
<1> DEFINE locals == Start(r, op, u, e, c)
<1>1. req \in [Requests -> Request] /\ TypeOK
  BY DEF LInv, CInv, IInv, TypeOK
<1>2. /\ locals \in Request /\ locals.op = op /\ locals.user = u /\ locals.hit = None
      /\ locals.outcome = "none"
  BY <1>1, StartLocals
<1>3. locals.missed = {}
  BY DEF Start, Idle
<1> HIDE DEF locals
<1>4. ASSUME NEW outcome \in Outcomes, Respond(r, locals, outcome)
      PROVE  /\ Steps(r) /\ req'[r].pc = "done" /\ req'[r].outcome = outcome /\ req'[r].op = op
             /\ req'[r].user = u /\ req'[r].missed = {} /\ req'[r].hit = None
  <2>1. req'[r].missed = locals.missed
    BY <1>1, <1>2, <1>4 DEF Respond, Request
  <2> QED
    BY <1>1, <1>2, <1>3, <1>4, <2>1, RespondLocals DEF Steps, Alone
<1>5. ASSUME NEW pc \in Pcs \ {"idle"}, Continue(r, locals, pc)
      PROVE  /\ Steps(r) /\ req'[r].pc = pc /\ req'[r].outcome = "none" /\ req'[r].op = op
             /\ req'[r].user = u /\ req'[r].missed = {} /\ req'[r].hit = None
  <2>1. req'[r].missed = locals.missed
    BY <1>1, <1>2, <1>5 DEF Continue, Request
  <2> QED
    BY <1>1, <1>2, <1>3, <1>5, <2>1, ContinueLocals DEF Steps, Alone
<1> QED
  BY <1>4, <1>5 DEF locals

LEMMA RespondPlain ==
  ASSUME LInv, NEW r \in Requests, req[r].pc \notin {"idle", "done"},
         NEW outcome \in Outcomes \ {"invalid"}, Respond(r, req[r], outcome),
         outcome = "ok" => req[r].pc = "mail" \/ req[r].op # "login"
  PROVE  Plain(r) /\ SameNames(r)
<1>1. Steps(r) /\ AllSame(r) /\ req'[r].pc = "done" /\ req'[r].outcome = outcome
  BY RespondAll
<1>2. Below(r)'
  BY <1>1, BelowStays DEF AllSame
<1> QED
  BY <1>1, <1>2 DEF Plain, AllSame, Holds, Stays, Sent, SameNames

LEMMA ContinuePlain ==
  ASSUME LInv, NEW r \in Requests, req[r].pc \notin {"idle", "done", "mail", "bump"},
         NEW pc \in Pcs \ {"idle", "mail"}, Continue(r, req[r], pc)
  PROVE  Plain(r) /\ SameNames(r)
<1>1. Steps(r) /\ AllSame(r) /\ req'[r].pc = pc /\ req'[r].outcome = req[r].outcome
  BY ContinueAll
<1>2. Below(r)'
  BY <1>1, BelowStays DEF AllSame
<1>3. req[r].missed = {} /\ req[r].outcome = "none"
  BY DEF LInv, CountInv, MissOK, CInv, IInv, LocalOK
<1> QED
  BY <1>1, <1>2, <1>3 DEF Plain, AllSame, Holds, Stays, Sent, SameNames

LEMMA StartPlain ==
  ASSUME LInv, NEW r \in Requests, req[r].pc = "idle", NEW op \in AllOps,
         NEW u \in UserIds \cup {None}, NEW e \in Emails \cup {None}, NEW c \in Codes \cup {None},
         \/ op # "login" /\ \E outcome \in Outcomes : Respond(r, Start(r, op, u, e, c), outcome)
         \/ \E pc \in Pcs \ {"idle", "mail"} : Continue(r, Start(r, op, u, e, c), pc)
  PROVE  Plain(r) /\ req'[r].op = op /\ req'[r].user = u
<1>1. /\ Steps(r) /\ req'[r].op = op /\ req'[r].user = u
      /\ req'[r].missed = {} /\ req'[r].hit = None /\ req'[r].pc # "mail"
      /\ op = "login" => req'[r].outcome = "none"
  BY StartAll
<1>2. Below(r)'
  BY <1>1 DEF Below
<1> QED
  BY <1>1, <1>2 DEF Plain, Holds, Stays, Sent

\* The INSERT of a code: its request has been counted no wrong answer yet.
LEMMA InsertLocals ==
  ASSUME LInv, NEW r \in Requests, NEW c \in Codes, req[r].pc = "insert",
         Continue(r, [req[r] EXCEPT !.code = c], "mail")
  PROVE  /\ Steps(r) /\ Stays(r) /\ req'[r].missed = {} /\ req'[r].hit = None
         /\ req'[r].outcome = "none" /\ req'[r].op = req[r].op /\ req'[r].user = req[r].user
         /\ req'[r].code = c
<1>1. /\ req \in [Requests -> Request] /\ req[r] \in Request /\ LocalOK(r) /\ HitOK(r) /\ MissOK(r)
  BY DEF LInv, CInv, IInv, TypeOK, CountInv
<1>2. req[r].missed = {} /\ req[r].outcome = "none" /\ req[r].hit = None
  BY <1>1 DEF MissOK, LocalOK, HitOK
<1> DEFINE more == [req[r] EXCEPT !.code = c]
<1>3. /\ more \in Request /\ more.op = req[r].op /\ more.user = req[r].user /\ more.code = c
      /\ more.hit = req[r].hit /\ more.after = req[r].after /\ more.outcome = req[r].outcome
  BY <1>1, WithCode
<1>4. more.missed = req[r].missed
  BY <1>1 DEF Request
<1>5. Continue(r, more, "mail") /\ "mail" \in Pcs
  BY DEF Pcs
<1> HIDE DEF more
<1>6. req'[r].missed = more.missed
  BY <1>1, <1>3, <1>5 DEF Continue, Request
<1>7. /\ Alone(r) /\ req'[r].pc = "mail" /\ req'[r].op = more.op /\ req'[r].user = more.user
      /\ req'[r].code = more.code /\ req'[r].hit = more.hit /\ req'[r].after = more.after
      /\ req'[r].outcome = more.outcome
  BY <1>1, <1>3, <1>5, ContinueLocals DEF Alone
<1> QED
  BY <1>2, <1>3, <1>4, <1>6, <1>7 DEF Steps, Stays

LEMMA LoginLimits ==
  ASSUME LInv, NEW r \in Requests, Login(r)
  PROVE  Limits'
<1>1. ASSUME NEW e \in Emails, NEW u \in UserIds, LoginUpsert(r, e, u) PROVE Limits'
  <2>1. /\ req[r].pc = "idle" /\ "login" \in AllOps /\ None \in Codes \cup {None}
        /\ "prune" \in Pcs \ {"idle", "mail"}
        /\ Continue(r, Start(r, "login", u, e, None), "prune")
    BY <1>1 DEF LoginUpsert, CanStart, AllOps, Pcs
  <2>2. Plain(r)
    BY <2>1, StartPlain
  <2> QED
    BY <1>1, <2>2, PlainAlone DEF LoginUpsert
<1>2. ASSUME LoginPrune(r) PROVE Limits'
  <2>1. Plain(r) /\ SameNames(r)
    BY <1>2, ContinuePlain DEF LoginPrune, At, Pcs
  <2>2. LoginTrimmed /\ ChangeTrimmed
    BY <1>2, Trims DEF LoginPrune, LoginTrimmed, ChangeTrimmed, LInv, CInv, IInv, TypeOK
  <2>3. TakesOwn(r)
    BY <1>2, <2>1 DEF LoginPrune, At, DeleteLiveTokens, Live, TakesOwn, SameNames, LInv, CInv, IInv, TypeOK
  <2> QED
    BY <1>2, <2>1, <2>2, <2>3, PlainStep DEF LoginPrune, At
<1>3. ASSUME NEW c \in Codes, LoginInsert(r, c) PROVE Limits'
  <2> DEFINE u == req[r].user
             h == HashCode(u, c)
  <2>1. /\ req[r].op = "login" /\ req[r].pc = "insert" /\ UNCHANGED emailTokens
        /\ h \in LoginHashes /\ authTokens \in [LoginHashes -> Row]
    BY <1>3 DEF LoginInsert, At, LInv, CInv, IInv, LocalOK, TypeOK, LoginHashes, HashCode
  <2>2. CASE /\ authTokens[h].state = "none"
             /\ authTokens' = CreateToken(authTokens, h, FreshRow(u, None, r))
             /\ Continue(r, [req[r] EXCEPT !.code = c], "mail")
    <3>1. /\ Steps(r) /\ Stays(r) /\ req'[r].missed = {} /\ req'[r].hit = None
          /\ req'[r].outcome = "none" /\ req'[r].op = "login" /\ req'[r].user = u
          /\ req'[r].code = c
      BY <2>1, <2>2, InsertLocals
    <3>2. /\ authTokens'[h].by = r /\ authTokens'[h].state = "live" /\ authTokens'[h].attempts = 0
          /\ \A g \in LoginHashes \ {h} : authTokens'[g] = authTokens[g]
      BY <2>1, <2>2 DEF CreateToken, FreshRow
    <3>3. HasRow(r)' /\ req'[r].code \in Codes
      <4>1. HashCode(req'[r].user, req'[r].code) = h
        BY <3>1
      <4> QED
        BY <3>1, <3>2, <4>1 DEF HasRow, HashCode
    <3> HIDE DEF h
    <3>4. LoginsAsBefore(r) /\ ChangesAsBefore(r) /\ TakesOwn(r)
      BY <2>1, <2>2, <3>2 DEF LoginsAsBefore, ChangesAsBefore, TakesOwn
    <3>5. Holds(r) /\ Below(r)'
      BY <3>1 DEF Holds, Below
    <3>6. CountInv'
      BY <3>1, <3>4, <3>5, UncountedStep
    <3>7. SentInv'
      BY <3>1, <3>3, <3>4, SentStays
    <3> QED
      BY <3>6, <3>7 DEF Limits
  <2>3. CASE Respond(r, req[r], "error") /\ UNCHANGED authTokens
    <3>1. Plain(r)
      BY <2>1, <2>3, RespondPlain DEF Outcomes
    <3> QED
      BY <2>1, <2>3, <3>1, PlainAlone
  <2> QED
    BY <1>3, <2>2, <2>3 DEF LoginInsert, CanCreate
<1>4. ASSUME LoginMail(r) PROVE Limits'
  <2>1. Plain(r)
    BY <1>4, RespondPlain DEF LoginMail, At, Outcomes
  <2> QED
    BY <1>4, <2>1, PlainAlone DEF LoginMail, tables
<1> QED
  BY <1>1, <1>2, <1>3, <1>4 DEF Login

\* The row that a wrong answer may have been meant for was issued for u.
LEMMA MeantFor ==
  ASSUME LInv, NEW u
  PROVE  /\ \A t \in OpenCodes(authTokens, u) :
              t \in Requests /\ Issued(t, "login") /\ req[t].user = u
         /\ \A t \in OpenCodes(emailTokens, u) :
              t \in Requests /\ Issued(t, "request") /\ req[t].user = u
<1>1. LoginRowsOK /\ ChangeRowsOK /\ TypeOK
  BY DEF LInv, CInv, IInv
<1>2. DOMAIN authTokens = LoginHashes /\ DOMAIN emailTokens = ChangeHashes
  BY <1>1 DEF TypeOK
<1> QED
  BY <1>1, <1>2 DEF OpenCodes, Open, Live, LoginRowsOK, ChangeRowsOK

\* A wrong answer is noted; it is counted in the next statement.
LEMMA NotedStep ==
  ASSUME LInv, NEW r \in Requests, Steps(r), Stays(r), req'[r].hit = None,
         req'[r].pc = "bump", req'[r].outcome = "none",
         \/ req'[r].op = "verify" /\ req'[r].missed = OpenCodes(authTokens, req'[r].user)
         \/ req'[r].op = "confirm" /\ req'[r].missed = OpenCodes(emailTokens, req'[r].user),
         UNCHANGED <<authTokens, emailTokens>>
  PROVE  Limits'
<1>1. \A s \in Requests \ {r} : MissOK(s)'
  <2> SUFFICES ASSUME NEW s \in Requests \ {r} PROVE MissOK(s)'
    OBVIOUS
  <2>1. MissOK(s) /\ req'[s] = req[s]
    BY DEF LInv, CountInv, Steps, Alone
  <2>2. ASSUME NEW t \in req[s].missed
        PROVE  t \in Requests /\ Issued(t, FlowOf(req[s].op))' /\ req'[t].user = req[s].user
    <3>1. t \in Requests /\ Issued(t, FlowOf(req[s].op)) /\ req[t].user = req[s].user
      BY <2>1 DEF MissOK
    <3>2. req'[t].op = FlowOf(req[s].op) /\ req'[t].pc \in {"mail", "done"} /\ req'[t].user = req[t].user
      BY <3>1, IssuedKept
    <3> QED
      BY <2>1, <3>1, <3>2 DEF Issued, FlowOf
  <2> QED
    BY <2>1, <2>2 DEF MissOK, FlowOf
<1>2. MissOK(r)'
  <2>1. ASSUME NEW t \in req'[r].missed
        PROVE  t \in Requests /\ req[t].op = FlowOf(req'[r].op) /\ req[t].pc \in {"mail", "done"}
                 /\ req[t].user = req'[r].user
    BY <2>1, MeantFor DEF FlowOf, Issued
  <2>2. ASSUME NEW t \in req'[r].missed
        PROVE  /\ req'[t].op = FlowOf(req'[r].op) /\ req'[t].pc \in {"mail", "done"}
               /\ req'[t].user = req'[r].user /\ t \in Requests
    <3> DEFINE op == req[t].op
    <3>1. t \in Requests /\ Issued(t, op)
      BY <2>1 DEF Issued
    <3>2. req'[t].op = op /\ req'[t].pc \in {"mail", "done"} /\ req'[t].user = req[t].user
      <4> HIDE DEF op
      <4> QED
        BY <3>1, IssuedKept
    <3> QED
      BY <2>1, <3>1, <3>2
  <2> QED
    BY <2>2 DEF MissOK, Issued, FlowOf
<1>3. \A t : MissedBy(t)' = MissedBy(t)
  BY MissedStays
<1>4. LoginsAsBefore(r) /\ ChangesAsBefore(r) /\ TakesOwn(r)
  BY DEF LoginsAsBefore, ChangesAsBefore, TakesOwn
<1>5. LoginCounted' /\ ChangeCounted'
  BY <1>3, <1>4, LoginsCount, ChangesCount
<1>6. IsFiniteSet(Begun)'
  BY BegunStays DEF LInv, CountInv, Steps
<1>7. \A q \in Requests : Below(q)'
  BY BelowStays DEF Steps, Alone, Below
<1>8. CountInv'
  BY <1>1, <1>2, <1>5, <1>6, <1>7 DEF CountInv
<1>9. SentInv'
  BY <1>4, SentStays DEF Sent
<1> QED
  BY <1>8, <1>9 DEF Limits

\* A row that may be redeemed has been counted fewer wrong answers than the cap.
LEMMA FewerThanCap ==
  ASSUME LInv, NEW r \in Requests, Steps(r), req'[r].outcome # "invalid", NEW t \in Requests,
         req'[r].after \subseteq Requests,
         \/ \E h \in LoginHashes : Redeemable(authTokens[h], MaxAttempts) /\ authTokens[h].by = t
         \/ \E h \in ChangeHashes : Redeemable(emailTokens[h], MaxAttempts) /\ emailTokens[h].by = t,
         req'[r].hit = t
  PROVE  Below(r)'
<1>1. Cardinality(MissedBy(t)) < MaxAttempts
  <2>1. PICK n \in Nat : n < MaxAttempts /\ Cardinality(MissedBy(t)) <= n
    <3>1. /\ authTokens \in [LoginHashes -> Row] /\ emailTokens \in [ChangeHashes -> Row]
          /\ LoginCounted /\ ChangeCounted
      BY DEF LInv, CInv, IInv, TypeOK, CountInv
    <3> QED
      BY <3>1 DEF LoginCounted, ChangeCounted, Redeemable, OpenRow, Row
  <2> QED
    BY <2>1, MissesAreFinite, MaxAttemptsAssumption
<1>2. MissedBy(t)' = MissedBy(t)
  BY MissedStays
<1> DEFINE M == MissedBy(t)
           N == Misses(r, t)'
<1>3. N \in SUBSET M
  <2>1. N \subseteq MissedBy(t)'
    BY DEF Misses, MissedBy
  <2> QED
    BY <1>2, <2>1
<1>4. IsFiniteSet(M) /\ Cardinality(M) \in Nat
  BY MissesAreFinite
<1> HIDE DEF M, N
<1>5. IsFiniteSet(N) /\ Cardinality(N) <= Cardinality(M) /\ Cardinality(N) \in Nat
  BY <1>3, <1>4, FS_Subset, FS_CardinalityType
<1>6. Cardinality(N) < MaxAttempts
  BY <1>1, <1>4, <1>5, MaxAttemptsAssumption DEF M
<1> QED
  BY <1>6 DEF N, Below, Misses

LEMMA BumpStep ==
  ASSUME LInv, NEW r \in Requests, VerifyBump(r) \/ ConfirmBump(r)
  PROVE  Limits'
<1>1. Counts(r)
  <2>1. req[r].pc = "bump" /\ Respond(r, req[r], "invalid") /\ "invalid" \in Outcomes
    BY DEF VerifyBump, ConfirmBump, At, Outcomes
  <2> QED
    BY <2>1, RespondAll DEF Counts, AllSame
<1>2. CountInv'
  BY <1>1, VerifyCounts, ConfirmCounts DEF VerifyBump, ConfirmBump, At
<1>3. TakesOwn(r)
  <2>1. CASE ConfirmBump(r)
    BY <2>1 DEF ConfirmBump, TakesOwn
  <2>2. CASE VerifyBump(r)
    <3>1. authTokens \in [LoginHashes -> Row]
      BY DEF LInv, CInv, IInv, TypeOK
    <3>2. ASSUME NEW h \in LoginHashes
          PROVE  authTokens'[h].state = authTokens[h].state /\ authTokens'[h].by = authTokens[h].by
      <4>1. authTokens[h] \in Row /\ Counted(authTokens[h], authTokens'[h], req[r].user)
        BY <2>2, <3>1 DEF VerifyBump, IncrementLiveAttempts, Counted
      <4> QED
        BY <4>1 DEF Counted, Row
    <3> QED
      BY <3>2 DEF TakesOwn
  <2> QED
    BY <2>1, <2>2
<1>4. Stays(r) /\ ~Sent(r)'
  BY <1>1 DEF Counts, Stays, SameNames, Sent, VerifyBump, ConfirmBump, At
<1>5. SentInv'
  BY <1>1, <1>3, <1>4, SentStays DEF Counts
<1> QED
  BY <1>2, <1>5 DEF Limits

LEMMA VerifyLimits ==
  ASSUME LInv, NEW r \in Requests, Verify(r)
  PROVE  Limits'
<1>1. ASSUME NEW e \in Emails, NEW c \in Codes, VerifyFind(r, e, c) PROVE Limits'
  <2>1. UNCHANGED tables /\ req[r].pc = "idle" /\ "verify" \in AllOps
    BY <1>1 DEF VerifyFind, CanStart, AllOps
  <2>2. \E u \in UserIds \cup {None} :
          \/ \E outcome \in Outcomes : Respond(r, Start(r, "verify", u, e, c), outcome)
          \/ \E pc \in Pcs \ {"idle", "mail"} : Continue(r, Start(r, "verify", u, e, c), pc)
    <3>1. "consume" \in Pcs \ {"idle", "mail"} /\ "invalid" \in Outcomes
      BY DEF Pcs, Outcomes
    <3> QED
      BY <1>1, <3>1 DEF VerifyFind
  <2>3. Plain(r)
    BY <2>1, <2>2, StartPlain
  <2> QED
    BY <2>1, <2>3, PlainAlone DEF tables
<1>2. ASSUME VerifyConsume(r) PROVE Limits'
  <2> DEFINE h == HashCode(req[r].user, req[r].code)
             missed == OpenCodes(authTokens, req[r].user)
  <2>1. /\ req[r].op = "verify" /\ req[r].pc = "consume" /\ UNCHANGED emailTokens /\ h \in LoginHashes
        /\ req \in [Requests -> Request] /\ req[r] \in Request
        /\ authTokens \in [LoginHashes -> Row] /\ req[r].hit = None /\ req[r].outcome = "none"
        /\ req[r].missed = {} /\ req[r].after \subseteq Requests /\ LoginRowsOK
    BY <1>2 DEF VerifyConsume, At, LInv, CInv, IInv, LocalOK, TypeOK, LoginHashes, HashCode,
                Request, CountInv, MissOK
  <2> HIDE DEF h
  <2>2. CASE /\ Redeemable(authTokens[h], MaxAttempts)
             /\ authTokens' = ConsumeToken(authTokens, h)
             /\ Respond(r, [req[r] EXCEPT !.hit = authTokens[h].by], "ok")
    <3>1. PICK t \in Requests : t = authTokens[h].by
      BY <2>1, <2>2 DEF LoginRowsOK, Redeemable
    <3>2. /\ Alone(r) /\ req'[r].op = "verify" /\ req'[r].pc = "done" /\ req'[r].user = req[r].user
          /\ req'[r].outcome = "ok" /\ req'[r].missed = {} /\ req'[r].after = req[r].after
          /\ req'[r].hit = t
      <4> DEFINE more == [req[r] EXCEPT !.hit = t]
      <4>1. /\ more \in Request /\ more.op = "verify" /\ more.user = req[r].user
            /\ more.missed = {} /\ more.after = req[r].after /\ more.hit = t
        BY <2>1 DEF Request
      <4>2. Respond(r, more, "ok") /\ "ok" \in Outcomes
        BY <2>2, <3>1 DEF Outcomes
      <4> HIDE DEF more
      <4>3. req'[r].missed = more.missed
        BY <2>1, <4>1, <4>2 DEF Respond, Request
      <4> QED
        BY <2>1, <4>1, <4>2, <4>3, RespondLocals DEF Alone
    <3>3. Steps(r) /\ Stays(r) /\ Holds(r) /\ ~Sent(r)'
      BY <2>1, <3>2 DEF Steps, Stays, Holds, Sent
    <3>4. Below(r)'
      BY <2>1, <2>2, <3>1, <3>2, <3>3, FewerThanCap
    <3>5. /\ authTokens'[h].state = "used" /\ authTokens'[h].by = authTokens[h].by
          /\ \A g \in LoginHashes \ {h} : authTokens'[g] = authTokens[g]
      BY <2>1, <2>2 DEF ConsumeToken, Row
    <3>6. LoginsAsBefore(r) /\ ChangesAsBefore(r) /\ TakesOwn(r)
      BY <2>1, <3>5 DEF LoginsAsBefore, ChangesAsBefore, TakesOwn, OpenRow
    <3>7. CountInv'
      BY <3>2, <3>3, <3>4, <3>6, UncountedStep
    <3>8. SentInv'
      BY <3>3, <3>6, SentStays
    <3> QED
      BY <3>7, <3>8 DEF Limits
  <2>3. CASE /\ Continue(r, [req[r] EXCEPT !.missed = missed], "bump")
             /\ UNCHANGED authTokens
    <3>1. missed \in SUBSET (Requests \cup {None})
      BY <2>1 DEF OpenCodes, Row
    <3>2. missed = OpenCodes(authTokens, req[r].user)
      OBVIOUS
    <3> HIDE DEF missed
    <3>3. /\ Alone(r) /\ req'[r].pc = "bump" /\ req'[r].hit = None /\ req'[r].outcome = "none"
          /\ req'[r].op = "verify" /\ req'[r].user = req[r].user /\ req'[r].after = req[r].after
          /\ req'[r].missed = missed
      <4> DEFINE more == [req[r] EXCEPT !.missed = missed]
      <4>1. /\ more \in Request /\ more.op = req[r].op /\ more.user = req[r].user
            /\ more.hit = req[r].hit /\ more.after = req[r].after
            /\ more.outcome = req[r].outcome
        BY <2>1, <3>1, WithMissed
      <4>2. more.missed = missed
        BY <2>1 DEF Request
      <4>3. Continue(r, more, "bump") /\ "bump" \in Pcs
        BY <2>3 DEF Pcs
      <4> HIDE DEF more
      <4>4. req'[r].missed = more.missed
        BY <2>1, <4>1, <4>3 DEF Continue, Request
      <4> QED
        BY <2>1, <4>1, <4>2, <4>3, <4>4, ContinueLocals DEF Alone
    <3>4. Steps(r) /\ Stays(r)
      BY <2>1, <3>3 DEF Steps, Stays
    <3> QED
      BY <2>1, <2>3, <3>2, <3>3, <3>4, NotedStep
  <2> QED
    BY <1>2, <2>2, <2>3 DEF VerifyConsume, h
<1> QED
  BY <1>1, <1>2, BumpStep DEF Verify

LEMMA RequestLimits ==
  ASSUME LInv, NEW r \in Requests, RequestChange(r)
  PROVE  Limits'
<1>1. ASSUME NEW u \in UserIds, NEW e \in Emails, RequestLoad(r, u, e) PROVE Limits'
  <2>1. UNCHANGED tables /\ req[r].pc = "idle" /\ "request" \in AllOps
    BY <1>1 DEF RequestLoad, CanStart, AllOps
  <2>2. \/ \E outcome \in Outcomes : Respond(r, Start(r, "request", u, e, None), outcome)
        \/ \E pc \in Pcs \ {"idle", "mail"} : Continue(r, Start(r, "request", u, e, None), pc)
    <3>1. "taken" \in Pcs \ {"idle", "mail"} /\ "unauthorized" \in Outcomes /\ "bad" \in Outcomes
      BY DEF Pcs, Outcomes
    <3> QED
      BY <1>1, <3>1 DEF RequestLoad
  <2>3. Plain(r)
    BY <2>1, <2>2, StartPlain
  <2> QED
    BY <2>1, <2>3, PlainAlone DEF tables
<1>2. ASSUME RequestTaken(r) PROVE Limits'
  <2>1. Plain(r)
    BY <1>2, RespondPlain, ContinuePlain DEF RequestTaken, At, Outcomes, Pcs
  <2> QED
    BY <1>2, <2>1, PlainAlone DEF RequestTaken, tables
<1>3. ASSUME RequestPrune(r) PROVE Limits'
  <2>1. Plain(r)
    BY <1>3, ContinuePlain DEF RequestPrune, At, Pcs
  <2>2. LoginTrimmed /\ ChangeTrimmed /\ TakesOwn(r)
    BY <1>3, Trims DEF RequestPrune, LoginTrimmed, ChangeTrimmed, TakesOwn, LInv, CInv, IInv, TypeOK
  <2> QED
    BY <1>3, <2>1, <2>2, PlainStep DEF RequestPrune, At
<1>4. ASSUME NEW c \in Codes, RequestInsert(r, c) PROVE Limits'
  <2> DEFINE u == req[r].user
             e == req[r].email
             h == HashEmailChangeCode(u, e, c)
  <2>1. /\ req[r].op = "request" /\ req[r].pc = "insert" /\ UNCHANGED authTokens
        /\ h \in ChangeHashes /\ emailTokens \in [ChangeHashes -> Row]
    BY <1>4 DEF RequestInsert, At, LInv, CInv, IInv, LocalOK, TypeOK, ChangeHashes, HashEmailChangeCode
  <2> HIDE DEF h
  <2>2. CASE /\ emailTokens' = CreateToken(emailTokens, h, FreshRow(u, e, r))
             /\ Continue(r, [req[r] EXCEPT !.code = c], "mail")
    <3>1. /\ Steps(r) /\ Stays(r) /\ req'[r].missed = {} /\ req'[r].hit = None
          /\ req'[r].outcome = "none" /\ req'[r].op = "request"
      BY <2>1, <2>2, InsertLocals
    <3>2. /\ emailTokens'[h].by = r /\ emailTokens'[h].attempts = 0
          /\ \A g \in ChangeHashes \ {h} : emailTokens'[g] = emailTokens[g]
      BY <2>1, <2>2 DEF CreateToken, FreshRow
    <3>3. LoginsAsBefore(r) /\ ChangesAsBefore(r) /\ TakesOwn(r)
      BY <2>1, <3>2 DEF LoginsAsBefore, ChangesAsBefore, TakesOwn
    <3>4. Holds(r) /\ Below(r)' /\ ~Sent(r)'
      BY <3>1 DEF Holds, Below, Sent
    <3>5. CountInv'
      BY <3>1, <3>3, <3>4, UncountedStep
    <3>6. SentInv'
      BY <3>1, <3>3, <3>4, SentStays
    <3> QED
      BY <3>5, <3>6 DEF Limits
  <2>3. CASE Respond(r, req[r], "error") /\ UNCHANGED emailTokens
    <3>1. Plain(r)
      BY <2>1, <2>3, RespondPlain DEF Outcomes
    <3> QED
      BY <2>1, <2>3, <3>1, PlainAlone
  <2> QED
    BY <1>4, <2>2, <2>3 DEF RequestInsert, h
<1>5. ASSUME RequestMail(r) PROVE Limits'
  <2>1. Plain(r)
    BY <1>5, RespondPlain DEF RequestMail, At, Outcomes
  <2> QED
    BY <1>5, <2>1, PlainAlone DEF RequestMail, tables
<1> QED
  BY <1>1, <1>2, <1>3, <1>4, <1>5 DEF RequestChange

LEMMA ConfirmConsumeLimits ==
  ASSUME LInv, NEW r \in Requests, NEW u \in UserIds, NEW e \in Emails, NEW c \in Codes,
         ConfirmConsume(r, u, e, c)
  PROVE  Limits'
<1> DEFINE h == HashEmailChangeCode(u, e, c)
           missed == OpenCodes(emailTokens, u)
           locals == Start(r, "confirm", u, e, c)
<1>1. /\ req[r].pc = "idle" /\ UNCHANGED authTokens /\ h \in ChangeHashes
      /\ req \in [Requests -> Request] /\ TypeOK /\ emailTokens \in [ChangeHashes -> Row]
      /\ "confirm" \in AllOps /\ ChangeRowsOK
  BY DEF ConfirmConsume, CanStart, LInv, CInv, IInv, TypeOK, ChangeHashes, HashEmailChangeCode, AllOps
<1>2. /\ locals \in Request /\ locals.op = "confirm" /\ locals.user = u /\ locals.hit = None
      /\ locals.after = Answered /\ locals.outcome = "none"
  BY <1>1, StartLocals
<1>3. locals.missed = {}
  BY DEF Start, Idle
<1> HIDE DEF h, locals
<1>4. CASE /\ Redeemable(emailTokens[h], MaxAttempts)
           /\ emailTokens' = ConsumeToken(emailTokens, h)
           /\ Continue(r, [locals EXCEPT !.hit = emailTokens[h].by,
                                         !.email = emailTokens[h].newEmail], "recheck")
  <2>1. PICK t \in Requests : t = emailTokens[h].by
    BY <1>1, <1>4 DEF ChangeRowsOK, Redeemable
  <2>2. /\ Alone(r) /\ req'[r].op = "confirm" /\ req'[r].pc = "recheck" /\ req'[r].missed = {}
        /\ req'[r].outcome = "none" /\ req'[r].hit = t /\ req'[r].after = Answered
    <3> DEFINE more == [locals EXCEPT !.hit = t, !.email = emailTokens[h].newEmail]
    <3>1. emailTokens[h].newEmail \in Emails \cup {None}
      BY <1>1 DEF Row
    <3>2. /\ more \in Request /\ more.op = "confirm" /\ more.missed = {} /\ more.hit = t
          /\ more.after = Answered /\ more.outcome = "none"
      BY <1>2, <1>3, <3>1 DEF Request
    <3>3. Continue(r, more, "recheck") /\ "recheck" \in Pcs
      BY <1>4, <2>1 DEF Pcs
    <3> HIDE DEF more
    <3>4. req'[r].missed = more.missed
      BY <1>1, <3>2, <3>3 DEF Continue, Request
    <3> QED
      BY <1>1, <3>2, <3>3, <3>4, ContinueLocals DEF Alone
  <2>3. Steps(r) /\ Stays(r) /\ Holds(r) /\ ~Sent(r)' /\ req'[r].after \subseteq Requests
    BY <1>1, <2>2 DEF Steps, Stays, Holds, Sent, Answered
  <2>4. Below(r)'
    BY <1>1, <1>4, <2>1, <2>2, <2>3, FewerThanCap
  <2>5. /\ emailTokens'[h].state = "used"
        /\ \A g \in ChangeHashes \ {h} : emailTokens'[g] = emailTokens[g]
    BY <1>1, <1>4 DEF ConsumeToken, Row
  <2>6. LoginsAsBefore(r) /\ ChangesAsBefore(r) /\ TakesOwn(r)
    BY <1>1, <2>5 DEF LoginsAsBefore, ChangesAsBefore, TakesOwn, OpenRow
  <2>7. CountInv'
    BY <2>2, <2>3, <2>4, <2>6, UncountedStep
  <2>8. SentInv'
    BY <2>3, <2>6, SentStays
  <2> QED
    BY <2>7, <2>8 DEF Limits
<1>5. CASE /\ Continue(r, [locals EXCEPT !.missed = missed], "bump")
           /\ UNCHANGED emailTokens
  <2>1. missed \in SUBSET (Requests \cup {None})
    BY <1>1 DEF OpenCodes, Row
  <2>2. missed = OpenCodes(emailTokens, u)
    OBVIOUS
  <2> HIDE DEF missed
  <2>3. /\ Alone(r) /\ req'[r].pc = "bump" /\ req'[r].hit = None /\ req'[r].outcome = "none"
        /\ req'[r].op = "confirm" /\ req'[r].user = u /\ req'[r].missed = missed
    <3> DEFINE more == [locals EXCEPT !.missed = missed]
    <3>1. /\ more \in Request /\ more.op = "confirm" /\ more.user = u /\ more.hit = None
          /\ more.outcome = "none"
      BY <1>2, <2>1, WithMissed
    <3>2. more.missed = missed
      BY <1>2 DEF Request
    <3>3. Continue(r, more, "bump") /\ "bump" \in Pcs
      BY <1>5 DEF Pcs
    <3> HIDE DEF more
    <3>4. req'[r].missed = more.missed
      BY <1>1, <3>1, <3>3 DEF Continue, Request
    <3> QED
      BY <1>1, <3>1, <3>2, <3>3, <3>4, ContinueLocals DEF Alone
  <2>4. Steps(r) /\ Stays(r)
    BY <1>1, <2>3 DEF Steps, Stays
  <2> QED
    BY <1>1, <1>5, <2>2, <2>3, <2>4, NotedStep
<1> QED
  BY <1>4, <1>5 DEF ConfirmConsume, h, locals

LEMMA ConfirmLimits ==
  ASSUME LInv, NEW r \in Requests, ConfirmChange(r)
  PROVE  Limits'
<1>1. ASSUME ConfirmRecheck(r) PROVE Limits'
  <2>1. Plain(r)
    BY <1>1, RespondPlain, ContinuePlain DEF ConfirmRecheck, At, Outcomes, Pcs
  <2> QED
    BY <1>1, <2>1, PlainAlone DEF ConfirmRecheck, tables
<1>2. ASSUME ConfirmSwap(r) PROVE Limits'
  <2>1. Plain(r)
    BY <1>2, RespondPlain, ContinuePlain DEF ConfirmSwap, At, Outcomes, Pcs
  <2> QED
    BY <1>2, <2>1, PlainAlone DEF ConfirmSwap
<1>3. ASSUME ConfirmWipe(r) PROVE Limits'
  <2>1. Plain(r) /\ SameNames(r)
    BY <1>3, RespondPlain DEF ConfirmWipe, At, Outcomes
  <2>2. LoginTrimmed /\ ChangeTrimmed
    BY <1>3, Trims DEF ConfirmWipe, LoginTrimmed, ChangeTrimmed, LInv, CInv, IInv, TypeOK
  <2>3. TakesOwn(r)
    BY <1>3, <2>1 DEF ConfirmWipe, At, DeleteLiveTokens, Live, TakesOwn, SameNames, LInv, CInv, IInv, TypeOK
  <2> QED
    BY <1>3, <2>1, <2>2, <2>3, PlainStep DEF ConfirmWipe, At
<1> QED
  BY <1>1, <1>2, <1>3, BumpStep, ConfirmConsumeLimits DEF ConfirmChange

LEMMA AccountLimits ==
  ASSUME LInv, NEW r \in Requests, Account(r)
  PROVE  Limits'
<1>1. ASSUME NEW u \in UserIds, DeleteAccount(r, u) PROVE Limits'
  <2>1. /\ req[r].pc = "idle" /\ "delete" \in AllOps /\ "ok" \in Outcomes
        /\ Respond(r, Start(r, "delete", u, None, None), "ok")
    BY <1>1 DEF DeleteAccount, CanStart, AllOps, Outcomes
  <2>2. Plain(r) /\ req'[r].op = "delete" /\ req'[r].user = u
    BY <2>1, StartPlain
  <2>3. LoginTrimmed /\ ChangeTrimmed
    BY <1>1, Trims DEF DeleteAccount, LoginTrimmed, ChangeTrimmed, LInv, CInv, IInv, TypeOK
  <2>4. TakesOwn(r)
    BY <1>1, <2>2 DEF DeleteAccount, CascadeUser, TakesOwn, LInv, CInv, IInv, TypeOK
  <2> QED
    BY <2>1, <2>2, <2>3, <2>4, PlainStep
<1>2. ASSUME NEW u \in UserIds, GetCurrentUser(r, u) PROVE Limits'
  <2>1. /\ req[r].pc = "idle" /\ "me" \in AllOps
        /\ \E outcome \in Outcomes : Respond(r, Start(r, "me", u, None, None), outcome)
    BY <1>2 DEF GetCurrentUser, CanStart, AllOps, Outcomes
  <2>2. Plain(r)
    BY <2>1, StartPlain
  <2> QED
    BY <1>2, <2>2, PlainAlone DEF GetCurrentUser, tables
<1> QED
  BY <1>1, <1>2 DEF Account

\* The requests are where they were: time passes, or nothing happens.
LEMMA StillLimits ==
  ASSUME LInv, UNCHANGED req, LoginTrimmed, ChangeTrimmed,
         \A h \in LoginHashes : /\ authTokens'[h].state = authTokens[h].state
                                /\ authTokens'[h].by = authTokens[h].by
  PROVE  Limits'
<1>1. CountInv /\ SentInv /\ LoginRowsOK /\ \A l \in Requests : Unissued(l)
  BY DEF LInv, CInv, NothingEarly, IInv
<1>2. \A t : MissedBy(t)' = MissedBy(t)
  BY DEF MissedBy
<1>3. Begun' = Begun /\ (\A s \in Requests : MissOK(s)' /\ Below(s)')
  BY <1>1 DEF Begun, CountInv, MissOK, Issued, Below, Misses
<1>4. LoginCounted' /\ ChangeCounted'
  BY <1>1, <1>2 DEF CountInv, LoginCounted, ChangeCounted, LoginTrimmed, ChangeTrimmed
<1>5. CountInv'
  BY <1>1, <1>3, <1>4 DEF CountInv
<1>6. ASSUME NEW l \in Requests, Sent(l)
      PROVE  req'[l].code \in Codes /\ (Destroyers(l)' = {} => HasRow(l)')
  <2> DEFINE h == HashCode(req[l].user, req[l].code)
  <2>1. req[l].code \in Codes /\ req[l].user \in UserIds
    BY <1>1, <1>6 DEF SentInv, Sent, Unissued
  <2>2. h \in LoginHashes
    BY <2>1 DEF LoginHashes, HashCode
  <2>3. Destroyers(l)' = Destroyers(l)
    BY DEF Destroyers
  <2>4. Destroyers(l) = {} => HasRow(l)
    BY <1>1, <1>6 DEF SentInv
  <2>5. HasRow(l) => HasRow(l)'
    BY <2>2 DEF HasRow, HashCode
  <2> QED
    BY <2>1, <2>3, <2>4, <2>5
<1>7. SentInv'
  BY <1>6 DEF SentInv, Sent
<1> QED
  BY <1>5, <1>7 DEF Limits

LEMMA ExpireLimits ==
  ASSUME LInv, Expire
  PROVE  Limits'
<1>1. /\ authTokens \in [LoginHashes -> Row] /\ emailTokens \in [ChangeHashes -> Row]
      /\ UNCHANGED req
  BY DEF LInv, CInv, IInv, TypeOK, Expire, ExpireLogin, ExpireChange
<1>2. LoginTrimmed /\ ChangeTrimmed
  BY <1>1, Trims DEF Expire, ExpireLogin, ExpireChange, LoginTrimmed, ChangeTrimmed
<1>3. ASSUME NEW h \in LoginHashes
      PROVE  authTokens'[h].state = authTokens[h].state /\ authTokens'[h].by = authTokens[h].by
  <2>1. CASE UNCHANGED authTokens
    BY <2>1
  <2>2. ASSUME NEW g \in LoginHashes, authTokens' = ExpireToken(authTokens, g)
        PROVE  authTokens'[h].state = authTokens[h].state /\ authTokens'[h].by = authTokens[h].by
    BY <1>1, <2>2 DEF ExpireToken, Row
  <2> QED
    BY <2>1, <2>2 DEF Expire, ExpireLogin, ExpireChange
<1> QED
  BY <1>1, <1>2, <1>3, StillLimits

-----------------------------------------------------------------------------
(* The invariant of the specification. *)

LEMMA InitLimits ==
  ASSUME Init
  PROVE  LInv
<1>1. \A r \in Requests : /\ req[r].op = "none" /\ req[r].pc = "idle" /\ req[r].missed = {}
                          /\ req[r].hit = None
  BY DEF Init, Idle
<1>2. CInv
  BY InitFlows
<1>3. Begun = {}
  BY <1>1 DEF Begun
<1>4. LoginCounted /\ ChangeCounted
  BY DEF Init, NoRow, OpenRow, LoginCounted, ChangeCounted
<1>5. CountInv
  BY <1>1, <1>3, <1>4, FS_EmptySet DEF CountInv, MissOK, Below
<1>6. SentInv
  BY <1>1 DEF SentInv, Sent
<1> QED
  BY <1>2, <1>5, <1>6 DEF LInv

LEMMA NextLimits ==
  ASSUME LInv, [Next]_vars
  PROVE  LInv'
<1>1. CInv'
  <2>1. CASE Next
    <3>1. IInv' /\ NothingEarly'
      BY <2>1, NextInv, NextSteps DEF LInv, CInv, FlowStep
    <3> QED
      BY <3>1 DEF CInv
  <2>2. CASE UNCHANGED vars
    <3>1. IInv' /\ UNCHANGED req
      BY <2>2, StutterInv DEF LInv, CInv, vars
    <3> QED
      BY <3>1 DEF LInv, CInv, NothingEarly, Unissued
  <2> QED
    BY <2>1, <2>2
<1>2. Limits'
  <2>1. CASE UNCHANGED vars
    BY <2>1, StillLimits DEF vars, LoginTrimmed, ChangeTrimmed
  <2>2. ASSUME NEW r \in Requests, Crash(r) PROVE Limits'
    <3>1. Plain(r)
      BY <2>2, RespondPlain DEF Crash, Outcomes
    <3> QED
      BY <2>2, <3>1, PlainAlone DEF Crash, tables
  <2> QED
    BY <2>1, <2>2, LoginLimits, VerifyLimits, RequestLimits, ConfirmLimits, AccountLimits, ExpireLimits
    DEF Next
<1> QED
  BY <1>1, <1>2 DEF LInv, Limits

\* However the wrong answers race with each other, with new codes and with the
\* right one, no open code has been counted fewer wrong answers than were given,
\* and a login code that was sent is where it was put (the atomic UPDATEs of
\* auth.repository.ts).
THEOREM CountsAreRight == Spec => []LInv
<1>1. Init => LInv
  BY InitLimits
<1>2. LInv /\ [Next]_vars => LInv'
  BY NextLimits
<1> QED
  BY <1>1, <1>2, PTL DEF Spec

\* For any number of requests, codes and any MAX_ATTEMPTS: a code that was
\* answered wrongly that often is not redeemed by a request that comes later
\* (consumeToken, incrementLiveAttempts and their email-change twins).
THEOREM AttemptsAreCapped == Spec => []AttemptCap
<1>1. LInv => AttemptCap
  BY DEF LInv, CountInv, Below, AttemptCap
<1> QED
  BY <1>1, CountsAreRight, PTL

\* A login code that was sent is lost only to a later or overlapping login, a
\* confirmed change of address or the deletion of its own account
\* (deleteLiveTokens, deleteUser).
THEOREM SentCodesSurvive == Spec => []SentCodeSurvives
<1>1. LInv => SentCodeSurvives
  BY DEF LInv, SentInv, Sent, HasRow, SentCodeSurvives
<1> QED
  BY <1>1, CountsAreRight, PTL
=============================================================================
