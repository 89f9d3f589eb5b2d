----------------------------- MODULE EventQueue -----------------------------
(***************************************************************************)
(* The event queue of the process kernel (os/sys/process.c): a circular    *)
(* array indexed with two counters of type process_num_events_t.  Only     *)
(* code that runs to completion uses it (interrupt handlers call           *)
(* process_poll, never process_post), so each operation is one step.       *)
(***************************************************************************)
EXTENDS Integers, Sequences

CONSTANTS Event,        \* the (event, data, process) triples
          NumEvents,    \* PROCESS_CONF_NUMEVENTS
          CounterRange  \* the number of values of process_num_events_t: 256

\* process_post casts fevent + nevents to process_num_events_t BEFORE it takes
\* the remainder, so the largest sum, 2 * NumEvents - 2, must still fit; for the
\* 8-bit counters of process.h that is NumEvents <= 128.
ASSUME CounterAssumption ==
    /\ NumEvents \in Nat \ {0}
    /\ CounterRange \in Nat
    /\ NumEvents < CounterRange
    /\ 2 * NumEvents - 2 < CounterRange

VARIABLES events,     \* the array
          fevent,     \* the index of the first event
          nevents,    \* the number of events
          postResult, \* what the latest process_post returned
          takeResult, \* whether the latest do_event found an event
          taken       \* the latest event that do_event took

queueVars == <<events, fevent, nevents, postResult, takeResult, taken>>

Slot == 0 .. NumEvents - 1
Uint(x) == x % CounterRange

QueueTypeOK ==
    /\ events \in [Slot -> Event]
    /\ fevent \in Slot
    /\ nevents \in 0 .. NumEvents
    /\ postResult \in {"none", "ok", "refused"}
    /\ takeResult \in {"none", "ok", "refused"}
    /\ taken \in Event

process_init ==
    /\ events \in [Slot -> Event]
    /\ fevent = 0
    /\ nevents = 0
    /\ postResult = "none"
    /\ takeResult = "none"
    /\ taken \in Event

\* A bug: an event is stored one slot behind the first free one.
snumOffByOne == Uint(fevent + nevents + 1) % NumEvents

\* The slot in which process_post stores an event.
snum == Uint(fevent + nevents) % NumEvents

\* A bug: a full queue is not noticed.
process_postOverfull(e) ==
    /\ events' = [events EXCEPT ![snum] = e]
    /\ nevents' = Uint(nevents + 1)
    /\ postResult' = "ok"
    /\ UNCHANGED <<fevent, takeResult, taken>>

\* process_post: PROCESS_ERR_FULL, or the event behind the last one.
process_post(e) ==
    /\ IF nevents = NumEvents
       THEN postResult' = "refused" /\ UNCHANGED <<events, nevents>>
       ELSE /\ events' = [events EXCEPT ![snum] = e]
            /\ nevents' = Uint(nevents + 1)
            /\ postResult' = "ok"
    /\ UNCHANGED <<fevent, takeResult, taken>>

\* do_event up to the delivery: take the first event, if there is one.
TakeEvent ==
    /\ IF nevents > 0
       THEN /\ taken' = events[fevent]
            /\ fevent' = Uint((fevent + 1) % NumEvents)
            /\ nevents' = Uint(nevents - 1)
            /\ takeResult' = "ok"
       ELSE takeResult' = "refused" /\ UNCHANGED <<taken, fevent, nevents>>
    /\ UNCHANGED <<events, postResult>>

QueueNext == TakeEvent \/ \E e \in Event : process_post(e)

QueueSpec == process_init /\ [][QueueNext]_queueVars

-----------------------------------------------------------------------------
\* The events that wait, oldest first.
Pending == [i \in 1 .. nevents |-> events[(fevent + i - 1) % NumEvents]]

QueueFifo == INSTANCE BoundedFifo
             WITH Value <- Event, Capacity <- NumEvents, queue <- Pending,
                  putResult <- postResult, getResult <- takeResult, got <- taken

\* Events are delivered in the order in which they were posted, none is lost or
\* delivered twice, and process_post fails only with all NumEvents slots taken.
QueueImplementsFifo == QueueFifo!FifoSpec
=============================================================================
