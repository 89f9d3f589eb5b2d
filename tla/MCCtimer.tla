------------------------------ MODULE MCCtimer ------------------------------
(* Ctimer for TLC: see MCCtimer.cfg. *)
EXTENDS Ctimer
=============================================================================
