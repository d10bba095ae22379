----------------------------- MODULE MCDeployment -----------------------------
(* Instances of Deployment for TLC. *)
EXTENDS Deployment

CONSTANTS r1, r2, q1, q2, q3
=============================================================================
