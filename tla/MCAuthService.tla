---------------------------- MODULE MCAuthService ----------------------------
(* Instances of AuthService for TLC. *)
EXTENDS AuthCodes, TLC

CONSTANTS u1, u2, e1, e2, c1, c2, r1, r2, r3

\* u1 signed in earlier with address e1 (the code it used is not in Codes).
OneUser == [u \in UserIds |-> IF u = u1 THEN e1 ELSE None]

RequestSymmetry == Permutations(Requests)
=============================================================================
