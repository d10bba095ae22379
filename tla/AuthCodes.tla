------------------------------ MODULE AuthCodes ------------------------------
(***************************************************************************)
(* AuthService implements OneTimeCode twice: login codes, redeemed for a   *)
(* session of their account, and email-change codes, redeemed for an       *)
(* address of theirs. A code is named by the request that issued it.       *)
(***************************************************************************)
EXTENDS AuthService

NoCode(state) == [state |-> state, for |-> None, tries |-> 0]

\* What an open row is to the flow: its grant and its wrong answers. An expired
\* row is as good as none.
CodeOfRow(row, i, grant) ==
  IF row.by = i /\ row.state = "live" /\ ~row.expired
  THEN [state |-> "live", for |-> grant, tries |-> row.attempts]
  ELSE NoCode("dead")

RedeemedBy(op, i) == \E r \in Requests : req[r].op = op /\ req[r].hit = i

LoginCode(i) ==
  IF req[i].op # "login" \/ req[i].code = None THEN NoCode("unissued")
  ELSE IF RedeemedBy("verify", i) THEN NoCode("redeemed")
  ELSE CodeOfRow(authTokens[HashCode(req[i].user, req[i].code)], i, req[i].user)

ChangeCode(i) ==
  IF req[i].op # "request" \/ req[i].code = None THEN NoCode("unissued")
  ELSE IF RedeemedBy("confirm", i) THEN NoCode("redeemed")
  ELSE CodeOfRow(emailTokens[HashEmailChangeCode(req[i].user, req[i].email, req[i].code)], i,
                 <<req[i].user, req[i].email>>)

\* The addresses that requests have been cleared to set.
Cleared == {<<req[r].user, req[r].email>> : r \in {s \in Requests : req[s].op = "confirm" /\ req[s].hit # None}}

LoginFlow == INSTANCE OneTimeCode WITH
  Ids <- Requests, Grants <- UserIds, MaxTries <- MaxAttempts,
  code <- [i \in Requests |-> LoginCode(i)], granted <- sessions

ChangeFlow == INSTANCE OneTimeCode WITH
  Ids <- Requests, Grants <- UserIds \X Emails, MaxTries <- MaxAttempts,
  code <- [i \in Requests |-> ChangeCode(i)], granted <- Cleared

\* However logins, answers, changes of address and deletions overlap, and
\* wherever they die: a session comes from a login code of that account that
\* was live, not redeemed before and below the cap, and no code comes back. The
\* same holds of an address that a confirmation is about to set.
CodesAreOneTime == LoginFlow!Spec /\ ChangeFlow!Spec
=============================================================================
