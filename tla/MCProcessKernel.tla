-------------------------- MODULE MCProcessKernel --------------------------
(* ProcessKernel for TLC: see the MCKernel*.cfg files. *)
EXTENDS ProcessKernel, TLC

\* The processes are interchangeable but for the interrupts that poll them:
\* nothing else orders them but the list.
Symmetry == Permutations(Proc \ Drivers)
=============================================================================
