------------------------------ MODULE MCSession ------------------------------
(* Instances of Session for TLC. *)
EXTENDS Session, TLC

CONSTANTS ann, bob

Symmetry == Permutations(Users)
=============================================================================
