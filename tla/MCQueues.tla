------------------------------ MODULE MCQueues ------------------------------
(* The two queues of the system, RingBuf between interrupt handlers and    *)
(* processes and EventQueue between processes, for TLC: see MCQueues.cfg.  *)
(* They share nothing; a step is one of either.                            *)
EXTENDS RingBuf, EventQueue, TLC

QueuesInit == ringbuf_init /\ process_init

QueuesNext ==
    \/ Next /\ UNCHANGED queueVars
    \/ QueueNext /\ UNCHANGED vars

QueuesSpec == QueuesInit /\ [][QueuesNext]_<<vars, queueVars>>

\* What is queued is only carried.
Symmetry == Permutations(Byte) \cup Permutations(Event)
=============================================================================
