------------------------------ MODULE MCEtimer ------------------------------
(* Etimer for TLC: see the MCEtimer*.cfg files. *)
EXTENDS Etimer, TLC

\* Differences for etimer_adjust: one tick earlier or later.
OneTick == {-1, 1}

\* Neither the timers nor the processes differ in anything but their names.
Symmetry == Permutations(Timer) \cup Permutations(Proc)
=============================================================================
