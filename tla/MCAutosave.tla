------------------------------ MODULE MCAutosave ------------------------------
(* Instances of Autosave for TLC. *)
EXTENDS Autosave

CONSTANTS a, b, i1, i2
=============================================================================
