---------------------------- MODULE MCSicslowpan ----------------------------
(* Sicslowpan for TLC: see MCSicslowpan.cfg. *)
EXTENDS Sicslowpan, TLC

SenderSymmetry == Permutations(Sender)
=============================================================================
