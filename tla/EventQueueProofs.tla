-------------------------- MODULE EventQueueProofs --------------------------
(***************************************************************************)
(* For every queue length that the counters can index, the event queue of  *)
(* os/sys/process.c implements the bounded queue of BoundedFifo.           *)
(***************************************************************************)
EXTENDS EventQueue, TLAPS

\* The cast of process_post loses nothing, and the slots of the pending events
\* follow each other around the array.
LEMMA SlotArithmetic ==
    ASSUME QueueTypeOK
    PROVE  /\ nevents < NumEvents =>
                /\ snum = (fevent + (nevents + 1) - 1) % NumEvents
                /\ snum \in Slot
                /\ Uint(nevents + 1) = nevents + 1
           /\ nevents > 0 => Uint(nevents - 1) = nevents - 1
           /\ Uint((fevent + 1) % NumEvents) = (fevent + 1) % NumEvents
           /\ (fevent + 1) % NumEvents \in Slot
           /\ (fevent + 1 - 1) % NumEvents = fevent
<1> USE CounterAssumption DEF QueueTypeOK, Slot
<1>1. nevents < NumEvents => fevent + nevents \in 0 .. CounterRange - 1
  OBVIOUS
<1>2. nevents < NumEvents => Uint(fevent + nevents) = fevent + nevents
  BY <1>1 DEF Uint
<1>3. nevents < NumEvents =>
        /\ snum = (fevent + (nevents + 1) - 1) % NumEvents
        /\ snum \in Slot
  BY <1>2 DEF snum
<1>4. /\ nevents < NumEvents => Uint(nevents + 1) = nevents + 1
      /\ nevents > 0 => Uint(nevents - 1) = nevents - 1
  BY DEF Uint
<1>5. (fevent + 1) % NumEvents \in 0 .. NumEvents - 1
  OBVIOUS
<1>6. Uint((fevent + 1) % NumEvents) = (fevent + 1) % NumEvents
  BY <1>5 DEF Uint
<1>7. (fevent + 1 - 1) % NumEvents = fevent
  OBVIOUS
<1> QED
  BY <1>3, <1>4, <1>5, <1>6, <1>7

\* The slot of the i-th pending event.
LEMMA PendingSlot ==
    ASSUME QueueTypeOK, NEW i \in 1 .. NumEvents
    PROVE  /\ (fevent + i - 1) % NumEvents =
                IF fevent + i - 1 < NumEvents THEN fevent + i - 1
                                              ELSE fevent + i - 1 - NumEvents
           /\ (fevent + i - 1) % NumEvents \in Slot
BY CounterAssumption DEF QueueTypeOK, Slot

\* Different pending events lie in different slots, and removing the first one
\* shifts the numbering by one.
LEMMA PendingSlotsDiffer ==
    ASSUME QueueTypeOK
    PROVE  /\ nevents < NumEvents =>
                \A i \in 1 .. nevents : (fevent + i - 1) % NumEvents # snum
           /\ \A i \in 1 .. nevents - 1 :
                (((fevent + 1) % NumEvents) + i - 1) % NumEvents
                   = (fevent + (i + 1) - 1) % NumEvents
<1> USE CounterAssumption DEF QueueTypeOK, Slot
<1>1. ASSUME nevents < NumEvents, NEW i \in 1 .. nevents
      PROVE  (fevent + i - 1) % NumEvents # snum
  <2> DEFINE n == nevents + 1
  <2>1. n \in 1 .. NumEvents /\ i \in 1 .. NumEvents /\ i < n
    BY <1>1
  <2>2. snum = (fevent + n - 1) % NumEvents
    BY <1>1, SlotArithmetic
  <2>3. (fevent + n - 1) % NumEvents =
                IF fevent + n - 1 < NumEvents THEN fevent + n - 1
                                              ELSE fevent + n - 1 - NumEvents
    <3> HIDE DEF n
    <3> QED
      BY <2>1, PendingSlot
  <2>4. (fevent + i - 1) % NumEvents =
                IF fevent + i - 1 < NumEvents THEN fevent + i - 1
                                              ELSE fevent + i - 1 - NumEvents
    BY <2>1, PendingSlot
  <2> QED
    BY <2>1, <2>2, <2>3, <2>4
<1>2. ASSUME NEW i \in 1 .. nevents - 1
      PROVE  (((fevent + 1) % NumEvents) + i - 1) % NumEvents
                = (fevent + (i + 1) - 1) % NumEvents
  <2>1. (fevent + 1) % NumEvents = IF fevent + 1 = NumEvents THEN 0 ELSE fevent + 1
    OBVIOUS
  <2>2. CASE fevent + 1 = NumEvents
    BY <2>1, <2>2
  <2>3. CASE fevent + 1 # NumEvents
    BY <2>1, <2>3
  <2> QED
    BY <2>2, <2>3
<1> QED
  BY <1>1, <1>2

\* A sequence is the function of its elements.
LEMMA SeqIsFunction ==
    ASSUME NEW S, NEW s \in Seq(S)
    PROVE  s = [i \in 1 .. Len(s) |-> s[i]]
OBVIOUS

\* Pending is a sequence of nevents events.
LEMMA PendingSeq ==
    ASSUME QueueTypeOK
    PROVE  /\ Pending \in Seq(Event)
           /\ Len(Pending) = nevents
           /\ \A i \in 1 .. nevents :
                 Pending[i] = events[(fevent + i - 1) % NumEvents]
<1>1. nevents \in 0 .. NumEvents /\ NumEvents \in Nat
  BY CounterAssumption DEF QueueTypeOK
<1>2. \A i \in 1 .. nevents : (fevent + i - 1) % NumEvents \in Slot
  BY <1>1, PendingSlot
<1>3. Pending \in [1 .. nevents -> Event]
  BY <1>2 DEF Pending, QueueTypeOK
<1> QED
  BY <1>1, <1>3 DEF Pending

-----------------------------------------------------------------------------
\* fevent stays inside the array and nevents never exceeds its length
\* (process_post, do_event).
THEOREM EventQueueTypeOK == QueueSpec => []QueueTypeOK
<1>1. process_init => QueueTypeOK
  BY CounterAssumption DEF process_init, QueueTypeOK, Slot
<1>2. QueueTypeOK /\ [QueueNext]_queueVars => QueueTypeOK'
  <2> SUFFICES ASSUME QueueTypeOK, [QueueNext]_queueVars PROVE QueueTypeOK'
    OBVIOUS
  <2>1. ASSUME NEW e \in Event, process_post(e) PROVE QueueTypeOK'
    BY <2>1, SlotArithmetic, CounterAssumption DEF process_post, QueueTypeOK
  <2>2. CASE TakeEvent
    BY <2>2, SlotArithmetic, CounterAssumption DEF TakeEvent, QueueTypeOK
  <2>3. CASE UNCHANGED queueVars
    BY <2>3 DEF QueueTypeOK, queueVars
  <2> QED
    BY <2>1, <2>2, <2>3 DEF QueueNext
<1> QED
  BY <1>1, <1>2, PTL DEF QueueSpec

\* process_post and do_event behave as a bounded queue of NumEvents events.
THEOREM EventQueueRefinesFifo == QueueSpec => QueueImplementsFifo
<1>1. process_init => QueueFifo!FifoInit
  <2> SUFFICES ASSUME process_init PROVE Pending = <<>>
    BY DEF process_init, QueueFifo!FifoInit
  <2>1. QueueTypeOK
    BY CounterAssumption DEF process_init, QueueTypeOK, Slot
  <2> QED
    BY <2>1, PendingSeq DEF process_init
<1>2. QueueTypeOK /\ [QueueNext]_queueVars => [QueueFifo!FifoNext]_(QueueFifo!fifoVars)
  <2> SUFFICES ASSUME QueueTypeOK, [QueueNext]_queueVars
               PROVE  QueueFifo!FifoNext \/ UNCHANGED <<Pending, postResult, takeResult, taken>>
    BY DEF QueueFifo!fifoVars
  <2>t. nevents \in 0 .. NumEvents /\ NumEvents \in Nat
    BY CounterAssumption DEF QueueTypeOK
  <2>p. /\ Pending \in Seq(Event)
        /\ Len(Pending) = nevents
        /\ \A i \in 1 .. nevents :
              Pending[i] = events[(fevent + i - 1) % NumEvents]
    BY PendingSeq
  <2>1. ASSUME NEW e \in Event, process_post(e) PROVE QueueFifo!FifoNext
    <3>1. CASE nevents = NumEvents
      <4>1. UNCHANGED Pending
        BY <2>1, <3>1 DEF process_post, Pending
      <4> QED
        BY <2>1, <3>1, <4>1, <2>p
        DEF process_post, QueueFifo!FifoNext, QueueFifo!PutRefused
    <3>2. CASE nevents # NumEvents
      <4>1. /\ nevents < NumEvents
            /\ nevents' = nevents + 1
            /\ snum = (fevent + (nevents + 1) - 1) % NumEvents
            /\ snum \in Slot
            /\ fevent' = fevent
            /\ events' = [events EXCEPT ![snum] = e]
        BY <2>1, <3>2, <2>t, SlotArithmetic DEF process_post
      <4>2. \A i \in 1 .. nevents :
               events'[(fevent + i - 1) % NumEvents]
                  = events[(fevent + i - 1) % NumEvents]
        <5>1. \A i \in 1 .. nevents : /\ (fevent + i - 1) % NumEvents \in Slot
                                      /\ (fevent + i - 1) % NumEvents # snum
          BY <2>t, <4>1, PendingSlot, PendingSlotsDiffer
        <5> QED
          BY <4>1, <5>1 DEF QueueTypeOK
      <4>3. events'[(fevent + (nevents + 1) - 1) % NumEvents] = e
        BY <4>1 DEF QueueTypeOK
      <4>4. Pending' = [i \in 1 .. nevents + 1 |->
                           events'[(fevent + i - 1) % NumEvents]]
        BY <4>1 DEF Pending
      <4>5. Pending' = Append(Pending, e)
        <5> DEFINE s == Append(Pending, e)
        <5>1. /\ s \in Seq(Event)
              /\ Len(s) = nevents + 1
              /\ \A i \in 1 .. nevents : s[i] = Pending[i]
              /\ s[nevents + 1] = e
          BY <2>t, <2>p
        <5>2. \A i \in 1 .. nevents + 1 :
                 s[i] = events'[(fevent + i - 1) % NumEvents]
          BY <2>t, <2>p, <4>2, <4>3, <5>1
        <5> HIDE DEF s
        <5>3. s = [i \in 1 .. nevents + 1 |-> s[i]]
          BY <5>1, SeqIsFunction
        <5>4. Pending' = s
          BY <4>4, <5>2, <5>3
        <5> QED
          BY <5>4 DEF s
      <4>6. QueueFifo!Put(e)
        BY <2>1, <3>2, <2>p, <4>1, <4>5 DEF process_post, QueueFifo!Put
      <4> QED
        BY <4>6 DEF QueueFifo!FifoNext
    <3> QED
      BY <3>1, <3>2
  <2>2. CASE TakeEvent
    <3>1. CASE nevents > 0
      <4>1. /\ nevents' = nevents - 1
            /\ fevent' = (fevent + 1) % NumEvents
            /\ events' = events
            /\ taken' = events[fevent]
            /\ (fevent + 1 - 1) % NumEvents = fevent
        BY <2>2, <3>1, SlotArithmetic DEF TakeEvent
      <4>2. Pending' = [i \in 1 .. nevents - 1 |->
                   events[(((fevent + 1) % NumEvents) + i - 1) % NumEvents]]
        BY <4>1 DEF Pending
      <4>3. /\ Tail(Pending) \in Seq(Event)
            /\ Len(Tail(Pending)) = nevents - 1
            /\ \A i \in 1 .. nevents - 1 : Tail(Pending)[i] = Pending[i + 1]
        BY <2>t, <2>p, <3>1
      <4>4. \A i \in 1 .. nevents - 1 :
               Pending[i + 1] = events[(((fevent + 1) % NumEvents) + i - 1) % NumEvents]
        BY <2>t, <2>p, PendingSlotsDiffer
      <4>5. Tail(Pending) = [i \in 1 .. Len(Tail(Pending)) |-> Tail(Pending)[i]]
        BY <4>3, SeqIsFunction
      <4>6. Pending' = Tail(Pending)
        BY <4>2, <4>3, <4>4, <4>5
      <4>7. Head(Pending) = events[fevent] /\ Pending # <<>>
        BY <2>t, <2>p, <3>1, <4>1
      <4> QED
        BY <2>2, <3>1, <4>1, <4>6, <4>7 DEF TakeEvent, QueueFifo!FifoNext, QueueFifo!Get
    <3>2. CASE ~(nevents > 0)
      <4>1. Pending = <<>>
        BY <2>t, <2>p, <3>2
      <4>2. UNCHANGED Pending
        BY <2>2, <3>2 DEF TakeEvent, Pending
      <4> QED
        BY <2>2, <3>2, <4>1, <4>2 DEF TakeEvent, QueueFifo!FifoNext, QueueFifo!GetRefused
    <3> QED
      BY <3>1, <3>2
  <2>3. CASE UNCHANGED queueVars
    BY <2>3 DEF queueVars, Pending
  <2> QED
    BY <2>1, <2>2, <2>3 DEF QueueNext
<1> QED
  BY <1>1, <1>2, EventQueueTypeOK, PTL DEF QueueSpec, QueueImplementsFifo, QueueFifo!FifoSpec
=============================================================================
