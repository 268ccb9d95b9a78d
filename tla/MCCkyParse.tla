----------------------------- MODULE MCCkyParse -----------------------------
(* Instances of CkyParse for TLC. *)
EXTENDS CkyParse
=============================================================================
