--------------------------- MODULE AuthRepository ---------------------------
(***************************************************************************)
(* The single SQL statements of apps/api/src/repositories/auth.repository. *)
(* Every operator is one autocommit statement on one table: the service    *)
(* runs no transaction, so a statement is the unit of atomicity of         *)
(* everything built on this module.                                        *)
(*                                                                         *)
(* auth_tokens and email_change_tokens have the same life cycle (create -> *)
(* consume / increment attempts -> expire) and share the operators; a      *)
(* table is a function from its primary key, the token hash, to a row.     *)
(***************************************************************************)
EXTENDS Naturals, FiniteSets

CONSTANTS
  UserIds,      \* the UUIDs users.id can draw in this behaviour
  Emails,       \* normalised addresses (trim + lower case; the column is citext)
  Codes,        \* the 6-digit codes that matter
  Requests,     \* one id per HTTP request; also names the row a request created
  MaxAttempts,  \* MAX_ATTEMPTS
  None          \* "no value" of every optional field

ASSUME NoneAssumption == None \notin UserIds \cup Emails \cup Codes \cup Requests
ASSUME MaxAttemptsAssumption == MaxAttempts \in Nat \ {0}

(***************************************************************************)
(* The digest is injective in what is hashed, so it is that tuple. The two *)
(* prefixes keep the digests of the two tables apart.                      *)
(***************************************************************************)
\* Defect for the mutation runs: the digest does not bind the user.
HashCodeUnbound(u, c) == <<CHOOSE v \in UserIds : TRUE, c>>

HashCode(u, c) == <<u, c>>
HashEmailChangeCode(u, e, c) == <<u, e, c>>

LoginHashes == UserIds \X Codes
ChangeHashes == UserIds \X Emails \X Codes

(***************************************************************************)
(* A row. state "none": no row has this key; "live": consumed_at is NULL;  *)
(* "used": consumed_at is set. expired says that now() passed expires_at.  *)
(* by is the request that inserted the row: no code reads it, the          *)
(* properties use it to name the row.                                      *)
(***************************************************************************)
Row == [state    : {"none", "live", "used"},
        userId   : UserIds \cup {None},
        newEmail : Emails \cup {None},
        expired  : BOOLEAN,
        attempts : Nat,
        by       : Requests \cup {None}]

NoRow == [state |-> "none", userId |-> None, newEmail |-> None,
          expired |-> FALSE, attempts |-> 0, by |-> None]

FreshRow(u, e, r) == [state |-> "live", userId |-> u, newEmail |-> e,
                      expired |-> FALSE, attempts |-> 0, by |-> r]

(***************************************************************************)
(* The three where-clauses of the repository.                              *)
(***************************************************************************)
Live(row, u) == row.state = "live" /\ row.userId = u
Open(row, u) == Live(row, u) /\ ~row.expired
\* Defects: consumed_at is not looked at; the cap is off by one.
RedeemableTwice(row, maxAttempts) ==
  row.state # "none" /\ ~row.expired /\ row.attempts < maxAttempts
RedeemablePastCap(row, maxAttempts) ==
  row.state = "live" /\ ~row.expired /\ row.attempts <= maxAttempts

Redeemable(row, maxAttempts) ==
  row.state = "live" /\ ~row.expired /\ row.attempts < maxAttempts

\* Defect: only expired codes are pruned.
DeleteExpiredTokens(t, u) ==
  [h \in DOMAIN t |-> IF Live(t[h], u) /\ t[h].expired THEN NoRow ELSE t[h]]

DeleteLiveTokens(t, u) ==
  [h \in DOMAIN t |-> IF Live(t[h], u) THEN NoRow ELSE t[h]]

\* INSERT fails on a missing parent row (foreign key) and on a taken hash
\* (primary key: consumed rows are never pruned).
CanCreate(t, users, u, h) == users[u] # None /\ t[h].state = "none"
CreateToken(t, h, row) == [t EXCEPT ![h] = row]

ConsumeToken(t, h) == [t EXCEPT ![h].state = "used"]

\* Defect: a wrong answer discards the code.
DiscardOnMiss(t, u) == [h \in DOMAIN t |-> IF Open(t[h], u) THEN NoRow ELSE t[h]]

IncrementLiveAttempts(t, u) ==
  [h \in DOMAIN t |->
     IF Open(t[h], u) THEN [t[h] EXCEPT !.attempts = @ + 1] ELSE t[h]]

\* now() passes expires_at of one row.
ExpireToken(t, h) == [t EXCEPT ![h].expired = TRUE]

\* ON DELETE CASCADE of users.id.
CascadeUser(t, u) ==
  [h \in DOMAIN t |-> IF t[h].userId = u THEN NoRow ELSE t[h]]

(***************************************************************************)
(* The users table: users[u] is the address of row u, or None.             *)
(***************************************************************************)
EmailTakenByOther(users, e, u) == \E v \in UserIds \ {u} : users[v] = e

\* The creators of the open rows of u: what a wrong answer is counted against.
OpenCodes(t, u) == {t[h].by : h \in {g \in DOMAIN t : Open(t[g], u)}}
=============================================================================
