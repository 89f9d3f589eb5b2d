---------------------------- MODULE BoundedFifo ----------------------------
(***************************************************************************)
(* What a bounded queue promises to the code that uses it: values come out *)
(* in the order in which they went in, a put is refused exactly when the   *)
(* queue holds Capacity values, and a get is refused exactly when it holds *)
(* none.  RingBuf (os/lib/ringbuf.c) and EventQueue (the event queue of    *)
(* os/sys/process.c) are shown to implement it.                            *)
(***************************************************************************)
EXTENDS Naturals, Sequences

CONSTANTS Value,     \* what the queue carries
          Capacity   \* how many values it can hold

\* The return codes of an operation, and "none" before the first one.
Result == {"none", "ok", "refused"}

VARIABLES queue,     \* the values held, oldest first
          putResult, \* what the latest put returned
          getResult, \* what the latest get returned
          got        \* the value that the latest successful get returned

fifoVars == <<queue, putResult, getResult, got>>

FifoInit ==
    /\ queue = <<>>
    /\ putResult = "none"
    /\ getResult = "none"
    /\ got \in Value

Put(v) ==
    /\ Len(queue) < Capacity
    /\ queue' = Append(queue, v)
    /\ putResult' = "ok"
    /\ UNCHANGED <<getResult, got>>

PutRefused ==
    /\ Len(queue) = Capacity
    /\ putResult' = "refused"
    /\ UNCHANGED <<queue, getResult, got>>

Get ==
    /\ queue # <<>>
    /\ got' = Head(queue)
    /\ queue' = Tail(queue)
    /\ getResult' = "ok"
    /\ UNCHANGED putResult

GetRefused ==
    /\ queue = <<>>
    /\ getResult' = "refused"
    /\ UNCHANGED <<queue, putResult, got>>

FifoNext ==
    \/ \E v \in Value : Put(v)
    \/ PutRefused
    \/ Get
    \/ GetRefused

FifoSpec == FifoInit /\ [][FifoNext]_fifoVars
=============================================================================
