----------------------------- MODULE MCTrainer ------------------------------
(* Instances of Trainer for TLC. *)
EXTENDS Trainer

MCDelta(k) == 2 * k - 1
=============================================================================
