------------------------------ MODULE RingBuf ------------------------------
(***************************************************************************)
(* The byte ring buffer of os/lib/ringbuf.c, shared without a lock by one  *)
(* producer (usually an interrupt handler, through ringbuf_put) and one    *)
(* consumer (a process, through ringbuf_get).  Every access to a shared    *)
(* field is a step of its own, so that the two functions interleave at     *)
(* each of their reads and writes.                                         *)
(***************************************************************************)
EXTENDS Integers, Sequences

CONSTANTS Byte,      \* the values of type uint8_t that are told apart
          Size       \* the "size" argument of ringbuf_init

\* "The size must be a power of two": only then is "& mask" the same as
\* "% Size".  uint8_t size cannot hold 256.
ASSUME SizeAssumption == Size \in {1, 2, 4, 8, 16, 32, 64, 128}

VARIABLES data,      \* r->data
          put_ptr,   \* r->put_ptr, written by the producer only
          get_ptr,   \* r->get_ptr, written by the consumer only
          putPc,     \* where the producer is inside ringbuf_put
          putArg,    \* its argument c
          putResult, \* what the latest ringbuf_put returned
          getPc,     \* where the consumer is inside ringbuf_get
          getLocal,  \* its local variable c
          getResult, \* what the latest ringbuf_get returned: an element or -1
          got        \* the latest element returned

producerVars == <<put_ptr, putPc, putArg, putResult>>
consumerVars == <<get_ptr, getPc, getLocal, getResult, got>>
vars == <<data, producerVars, consumerVars>>

Index == 0 .. Size - 1
mask == Size - 1

\* x & r->mask, for the int that the uint8_t operands are promoted to.
Mask(x) == x % Size

ringbuf_elements == Mask(put_ptr - get_ptr)

TypeOK ==
    /\ data \in [Index -> Byte]
    /\ put_ptr \in Index
    /\ get_ptr \in Index
    /\ putPc \in {"idle", "store", "advance"}
    /\ putArg \in Byte
    /\ putResult \in {"none", "ok", "refused"}
    /\ getPc \in {"idle", "load", "advance"}
    /\ getLocal \in Byte
    /\ getResult \in {"none", "ok", "refused"}
    /\ got \in Byte

(***************************************************************************)
(* ringbuf_init.  The array and the locals hold whatever was there before. *)
(***************************************************************************)
ringbuf_init ==
    /\ data \in [Index -> Byte]
    /\ put_ptr = 0
    /\ get_ptr = 0
    /\ putPc = "idle"
    /\ putArg \in Byte
    /\ putResult = "none"
    /\ getPc = "idle"
    /\ getLocal \in Byte
    /\ getResult = "none"
    /\ got \in Byte

\* The test for a full buffer without the slot that must stay free.
PutCheckNoSpareSlot(c) ==
    /\ putPc = "idle"
    /\ putArg' = c
    /\ putPc' = "store"
    /\ UNCHANGED <<data, put_ptr, putResult, consumerVars>>

(***************************************************************************)
(* ringbuf_put(r, c): the test for a full buffer, which reads get_ptr ...  *)
(***************************************************************************)
PutCheck(c) ==
    /\ putPc = "idle"
    /\ putArg' = c
    /\ IF ringbuf_elements = mask
       THEN putResult' = "refused" /\ UNCHANGED putPc
       ELSE putPc' = "store" /\ UNCHANGED putResult
    /\ UNCHANGED <<data, put_ptr, consumerVars>>

(***************************************************************************)
(* ... the write of the element ...                                        *)
(***************************************************************************)
PutStore ==
    /\ putPc = "store"
    /\ data' = [data EXCEPT ![put_ptr] = putArg]
    /\ putPc' = "advance"
    /\ UNCHANGED <<put_ptr, putArg, putResult, consumerVars>>

(***************************************************************************)
(* ... and the write of put_ptr, which makes the element visible.          *)
(***************************************************************************)
PutAdvance ==
    /\ putPc = "advance"
    /\ put_ptr' = Mask(put_ptr + 1)
    /\ putResult' = "ok"
    /\ putPc' = "idle"
    /\ UNCHANGED <<data, putArg, consumerVars>>

(***************************************************************************)
(* ringbuf_get(r): the test for an empty buffer, which reads put_ptr ...   *)
(***************************************************************************)
GetCheck ==
    /\ getPc = "idle"
    /\ IF ringbuf_elements > 0
       THEN getPc' = "load" /\ UNCHANGED getResult
       ELSE getResult' = "refused" /\ UNCHANGED getPc
    /\ UNCHANGED <<data, get_ptr, getLocal, got, producerVars>>

(***************************************************************************)
(* ... the read of the element ...                                         *)
(***************************************************************************)
GetLoad ==
    /\ getPc = "load"
    /\ getLocal' = data[get_ptr]
    /\ getPc' = "advance"
    /\ UNCHANGED <<data, get_ptr, getResult, got, producerVars>>

(***************************************************************************)
(* ... and the write of get_ptr, which gives the slot back.                *)
(***************************************************************************)
GetAdvance ==
    /\ getPc = "advance"
    /\ get_ptr' = Mask(get_ptr + 1)
    /\ got' = getLocal
    /\ getResult' = "ok"
    /\ getPc' = "idle"
    /\ UNCHANGED <<data, getLocal, producerVars>>

Next ==
    \/ \E c \in Byte : PutCheck(c)
    \/ PutStore
    \/ PutAdvance
    \/ GetCheck
    \/ GetLoad
    \/ GetAdvance

Spec == ringbuf_init /\ [][Next]_vars

-----------------------------------------------------------------------------
(***************************************************************************)
(* The abstract queue: the elements between get_ptr and put_ptr.           *)
(***************************************************************************)
Contents == [i \in 1 .. ringbuf_elements |-> data[Mask(get_ptr + i - 1)]]

Fifo == INSTANCE BoundedFifo WITH Value <- Byte, Capacity <- mask,
                                  queue <- Contents

\* The producer and the consumer together behave as a bounded queue whose put
\* takes effect at the write of put_ptr and whose get takes effect at the write
\* of get_ptr; -1 and 0 are returned only when the queue really is empty or full
\* at the moment of the test (ringbuf_put, ringbuf_get).
ImplementsFifo == Fifo!FifoSpec

\* The slot that ringbuf_put is about to write, or has written and not yet
\* published, is never the slot that ringbuf_get is reading: the two functions
\* need no lock.
SlotsDisjoint ==
    putPc # "idle" /\ getPc # "idle" => put_ptr # get_ptr

\* What ringbuf_get holds in c between its read of the array and its write of
\* get_ptr is still what the slot contains: no concurrent ringbuf_put overwrites
\* an element that is being taken out.
TakenValueStable == getPc = "advance" => getLocal = data[get_ptr]

\* The facts that the tests of the two functions establish and that the other
\* function's steps preserve; with TypeOK it is inductive.
Inv ==
    /\ TypeOK
    /\ putPc # "idle" => ringbuf_elements < mask
    /\ putPc = "advance" => data[put_ptr] = putArg
    /\ getPc # "idle" => ringbuf_elements > 0
    /\ TakenValueStable
=============================================================================
