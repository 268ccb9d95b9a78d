------------------------------ MODULE MCMpiServ ------------------------------
(* Instances of MpiServ for TLC. *)
EXTENDS MpiServ
=============================================================================
