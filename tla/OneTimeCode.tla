----------------------------- MODULE OneTimeCode -----------------------------
(***************************************************************************)
(* What a flow with mailed codes promises, whatever it keeps in which      *)
(* table and however its requests overlap. A code is issued for one grant: *)
(* a session of an account, or an address for an account. It may be        *)
(* guessed at, discarded at any time, and redeemed once, before it was     *)
(* counted MaxTries wrong answers; and no grant is given but for a code    *)
(* redeemed.                                                               *)
(***************************************************************************)
EXTENDS Naturals

CONSTANTS
  Ids,       \* one for every code that can be issued
  Grants,    \* what codes are issued for
  MaxTries,
  None

VARIABLES code, granted

Code == [state : {"unissued", "live", "redeemed", "dead"}, for : Grants \cup {None}, tries : Nat]
NoCode(state) == [state |-> state, for |-> None, tries |-> 0]

Live == {i \in Ids : code[i].state = "live"}

Init ==
  /\ code = [i \in Ids |-> NoCode("unissued")]
  /\ granted \subseteq Grants

Issue(i, g) ==
  /\ code[i].state = "unissued"
  /\ code' = [code EXCEPT ![i] = [state |-> "live", for |-> g, tries |-> 0]]
  /\ UNCHANGED granted

\* A wrong answer is counted against every code it may have been meant for.
Miss(S) ==
  /\ code' = [i \in Ids |-> IF i \in S THEN [code[i] EXCEPT !.tries = @ + 1] ELSE code[i]]
  /\ UNCHANGED granted

\* A code is superseded, expires, or goes with its account.
Discard(S) ==
  /\ code' = [i \in Ids |-> IF i \in S THEN NoCode("dead") ELSE code[i]]
  /\ UNCHANGED granted

Redeem(i) ==
  /\ code[i].state = "live" /\ code[i].tries < MaxTries
  /\ code' = [code EXCEPT ![i] = NoCode("redeemed")]
  /\ granted' = granted \cup {code[i].for}

Next ==
  \/ \E i \in Ids : Redeem(i) \/ \E g \in Grants : Issue(i, g)
  \/ \E S \in SUBSET Live : Miss(S) \/ Discard(S)

Spec == Init /\ [][Next]_<<code, granted>>
=============================================================================
