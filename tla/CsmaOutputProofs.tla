-------------------------- MODULE CsmaOutputProofs --------------------------
(***************************************************************************)
(* Safety of CSMA.  First the four invariants of the sender, for every set *)
(* of addresses and packets, every size of the pools and all limits.  Each *)
(* part adds to the inductive invariant of the one before it:              *)
(*                                                                         *)
(*   QueueInv   a timer expires only for an address with a packet, and     *)
(*              then the queue keeps that packet and the timer is set      *)
(*              again, or the queue loses it and timer and entry go        *)
(*              exactly if nothing is left;                                *)
(*   PacketInv  every packet has at most one place, at its address, and    *)
(*              has been reported exactly if it was handed over and has    *)
(*              left the queue;                                            *)
(*   CountInv   the counters of a neighbour are those of the head of its   *)
(*              queue, and what is behind it has not been tried;           *)
(*   PoolInv    every place of a queue is paid for by a block of each      *)
(*              pool.                                                      *)
(*                                                                         *)
(* A step is first brought to one of a few shapes (a packet is accepted,   *)
(* refused, kept or done), and each shape is shown to keep the invariant.  *)
(*                                                                         *)
(* Then the three invariants of the link (CsmaLink), with the receivers    *)
(* and their histories of sequence numbers: LinkInv and RepeatInv.         *)
(***************************************************************************)
EXTENDS CsmaLink, FiniteSetTheorems, SequenceTheorems, TLAPS

QueueType ==
    /\ neighbor_list \in SUBSET Addr
    /\ packet_queue \in [Addr -> Seq(Packet)]
    /\ transmit_timer \in SUBSET Addr

QueueInv == QueueType /\ TimerMatchesQueue

queueVars == <<neighbor_list, packet_queue, transmit_timer>>

\* The three shapes that a step gives to the queues: a packet is added, ...
Added(a) ==
    \E p \in Packet :
        /\ neighbor_list' = neighbor_list \union {a}
        /\ packet_queue' = [packet_queue EXCEPT ![a] = Append(@, p)]
        /\ transmit_timer' = IF packet_queue[a] = <<>>
                             THEN transmit_timer \union {a}
                             ELSE transmit_timer

\* ... the head leaves, ...
Removed(a) ==
    /\ packet_queue[a] # <<>>
    /\ packet_queue' = [packet_queue EXCEPT ![a] = Tail(@)]
    /\ IF Tail(packet_queue[a]) # <<>>
       THEN /\ transmit_timer' = transmit_timer \union {a}
            /\ neighbor_list' = neighbor_list
       ELSE /\ transmit_timer' = transmit_timer \ {a}
            /\ neighbor_list' = neighbor_list \ {a}

\* ... or the timer is set again.
Scheduled(a) ==
    /\ packet_queue[a] # <<>>
    /\ transmit_timer' = transmit_timer \union {a}
    /\ UNCHANGED <<neighbor_list, packet_queue>>

\* Appending never yields the empty sequence.
LEMMA AppendNotEmpty ==
    ASSUME NEW S, NEW s \in Seq(S), NEW e \in S
    PROVE  Append(s, e) \in Seq(S) /\ Append(s, e) # <<>>
<1>1. Append(s, e) \in Seq(S) /\ Len(Append(s, e)) = Len(s) + 1
  OBVIOUS
<1>2. Len(s) \in Nat /\ Len(<<>>) = 0
  OBVIOUS
<1>3. Len(Append(s, e)) # Len(<<>>)
  BY <1>1, <1>2
<1> QED
  BY <1>1, <1>3

\* The tail of a sequence that is not empty is a sequence.
LEMMA TailIsSeq ==
    ASSUME NEW S, NEW s \in Seq(S), s # <<>>
    PROVE  Tail(s) \in Seq(S)
  OBVIOUS

\* Each of the three shapes preserves the invariant.
LEMMA AddedKeeps ==
    ASSUME QueueInv, NEW a \in Addr, Added(a)
    PROVE  QueueInv'
<1>1. PICK p \in Packet :
        /\ neighbor_list' = neighbor_list \union {a}
        /\ packet_queue' = [packet_queue EXCEPT ![a] = Append(@, p)]
        /\ transmit_timer' = IF packet_queue[a] = <<>>
                             THEN transmit_timer \union {a}
                             ELSE transmit_timer
  BY DEF Added
<1>2. packet_queue[a] \in Seq(Packet)
  BY DEF QueueInv, QueueType
<1>3. Append(packet_queue[a], p) \in Seq(Packet) /\ Append(packet_queue[a], p) # <<>>
  BY <1>2, AppendNotEmpty
<1>4. packet_queue' \in [Addr -> Seq(Packet)]
  BY <1>1, <1>3 DEF QueueInv, QueueType
<1>5. packet_queue'[a] # <<>> /\ \A b \in Addr \ {a} : packet_queue'[b] = packet_queue[b]
  BY <1>1, <1>3 DEF QueueInv, QueueType
<1>6. a \in transmit_timer'
  BY <1>1 DEF QueueInv, TimerMatchesQueue
<1>7. \A b \in Addr \ {a} : b \in transmit_timer' <=> b \in transmit_timer
  BY <1>1
<1>8. TimerMatchesQueue'
  BY <1>1, <1>5, <1>6, <1>7 DEF QueueInv, TimerMatchesQueue
<1> QED
  BY <1>1, <1>4, <1>8 DEF QueueInv, QueueType

LEMMA RemovedKeeps ==
    ASSUME QueueInv, NEW a \in Addr, Removed(a)
    PROVE  QueueInv'
<1>1. packet_queue[a] \in Seq(Packet) /\ packet_queue[a] # <<>>
  BY DEF QueueInv, QueueType, Removed
<1>2. Tail(packet_queue[a]) \in Seq(Packet)
  BY <1>1, TailIsSeq
<1>3. packet_queue' \in [Addr -> Seq(Packet)]
  BY <1>2 DEF QueueInv, QueueType, Removed
<1>4. /\ packet_queue'[a] = Tail(packet_queue[a])
      /\ \A b \in Addr \ {a} : packet_queue'[b] = packet_queue[b]
  BY <1>2 DEF QueueInv, QueueType, Removed
<1>5. a \in neighbor_list
  BY <1>1 DEF QueueInv, TimerMatchesQueue
<1>6. TimerMatchesQueue'
  BY <1>4, <1>5 DEF QueueInv, TimerMatchesQueue, Removed
<1> QED
  BY <1>3, <1>6 DEF QueueInv, QueueType, Removed

LEMMA ScheduledKeeps ==
    ASSUME QueueInv, NEW a \in Addr, Scheduled(a)
    PROVE  QueueInv'
  BY DEF QueueInv, QueueType, TimerMatchesQueue, Scheduled

\* tx_done takes the head out of its queue.
LEMMA TxDoneRemoves ==
    ASSUME NEW a \in Addr, packet_queue[a] # <<>>, NEW status, NEW tx,
           tx_done(a, status, tx)
    PROVE  Removed(a)
  BY DEF tx_done, free_packet, NextPacket, FreeNeighbor, Removed

\* rexmit sets the timer again.
LEMMA RexmitSchedules ==
    ASSUME NEW a \in Addr, packet_queue[a] # <<>>, NEW tx, NEW coll,
           rexmit(a, tx, coll)
    PROVE  Scheduled(a)
  BY DEF rexmit, Scheduled

\* Whatever the result of a transmission, the packet leaves or is scheduled.
LEMMA PacketSentShape ==
    ASSUME NEW a \in Addr, packet_queue[a] # <<>>, NEW status \in Status,
           packet_sent(a, status)
    PROVE  Removed(a) \/ Scheduled(a)
<1>1. CASE status = "OK"
  BY <1>1, TxDoneRemoves DEF packet_sent, tx_ok
<1>2. CASE status = "NOACK"
  <2>1. noack(a)
    BY <1>2 DEF packet_sent
  <2> DEFINE tx == transmissions[a] + 1
  <2>2. tx_done(a, "NOACK", tx) \/ rexmit(a, tx, 0)
    BY <2>1 DEF noack
  <2> QED
    BY <2>2, TxDoneRemoves, RexmitSchedules
<1>3. CASE status = "COLLISION"
  <2>1. collision(a)
    BY <1>3 DEF packet_sent
  <2>2. \E tx, coll : tx_done(a, "COLLISION", tx) \/ rexmit(a, tx, coll)
    BY <2>1 DEF collision
  <2> QED
    BY <2>2, TxDoneRemoves, RexmitSchedules
<1>4. CASE status \in {"ERR", "ERR_FATAL"}
  <2>1. tx_done(a, status, transmissions[a])
    BY <1>4 DEF packet_sent
  <2> QED
    BY <2>1, TxDoneRemoves
<1> QED
  BY <1>1, <1>2, <1>3, <1>4 DEF Status

\* A transmit timer that expires keeps the invariant.
LEMMA TransmitKeeps ==
    ASSUME QueueInv, NEW a \in Addr, NEW status \in Status,
           transmit_from_queue(a, status)
    PROVE  QueueInv'
<1>1. packet_queue[a] # <<>>
  BY DEF QueueInv, TimerMatchesQueue, transmit_from_queue
<1>2. packet_sent(a, status)
  BY <1>1 DEF transmit_from_queue
<1>3. Removed(a) \/ Scheduled(a)
  BY <1>1, <1>2, PacketSentShape
<1> QED
  BY <1>3, RemovedKeeps, ScheduledKeeps

\* A packet that is handed over is added, or refused without a trace.
LEMMA OutputKeeps ==
    ASSUME QueueInv, NEW p \in Packet, NEW a \in Addr, NEW limit, NEW held,
           csma_output_packet(p, a, limit, held)
    PROVE  QueueInv'
<1>1. ~(a \in neighbor_list /\ packet_queue[a] = <<>>)
  BY DEF QueueInv, TimerMatchesQueue
<1>2. Added(a) \/ UNCHANGED queueVars
  BY <1>1 DEF csma_output_packet, Added, queueVars
<1>3. CASE Added(a)
  BY <1>3, AddedKeeps
<1>4. CASE UNCHANGED queueVars
  BY <1>4 DEF queueVars, QueueInv, QueueType, TimerMatchesQueue
<1> QED
  BY <1>2, <1>3, <1>4

\* Every step of the sender keeps the invariant.
LEMMA NextKeeps ==
    ASSUME QueueInv, [CsmaNext]_csmaVars
    PROVE  QueueInv'
<1>1. CASE Output
  <2>1. PICK p \in Packet, a \in Addr, limit \in TxLimits :
          SendWhole(p, a, limit) \/ SendFragment(p, a, limit)
    BY <1>1 DEF Output
  <2>2. csma_output_packet(p, a, limit, 0) \/ csma_output_packet(p, a, limit, 1)
    BY <2>1 DEF SendWhole, SendFragment
  <2> QED
    BY <2>2, OutputKeeps
<1>2. CASE \E a \in Addr : TimerExpires(a)
  <2>1. PICK a \in Addr, status \in Status : transmit_from_queue(a, status)
    BY <1>2 DEF TimerExpires
  <2> QED
    BY <2>1, TransmitKeeps
<1>3. CASE UNCHANGED csmaVars
  BY <1>3 DEF csmaVars, queues, QueueInv, QueueType, TimerMatchesQueue
<1> QED
  BY <1>1, <1>2, <1>3 DEF CsmaNext

\* In every behaviour of the CSMA sender a neighbour has an entry and a running
\* transmit timer exactly while packets are queued for it: csma_output_packet,
\* free_packet and the retransmissions never leave a queue without a timer nor a
\* timer that points to a freed entry.
THEOREM CsmaTimerMatchesQueue == CsmaSpec => []TimerMatchesQueue
<1>1. csma_output_init => QueueInv
  BY DEF csma_output_init, QueueInv, QueueType, TimerMatchesQueue
<1>2. QueueInv /\ [CsmaNext]_csmaVars => QueueInv'
  BY NextKeeps
<1>3. QueueInv => TimerMatchesQueue
  BY DEF QueueInv
<1> QED
  BY <1>1, <1>2, <1>3, PTL DEF CsmaSpec

-----------------------------------------------------------------------------
(***************************************************************************)
(* The packets.  Each is in at most one place of the queues, in the queue  *)
(* of its address; and a packet that was handed over is in a queue or has  *)
(* been reported, once.                                                    *)
(***************************************************************************)
Meta == [addr : Addr, seqno : Nat, max : Nat]
Report == [status : Status, tx : Nat]

PacketType ==
    /\ transmissions \in [Addr -> Nat]
    /\ collisions \in [Addr -> 0 .. MaxBackoff]
    /\ seqno \in Nat
    /\ meta \in [Packet -> Meta]
    /\ attempts \in [Packet -> Nat]
    /\ reports \in [Packet -> Seq(Report)]

Queued(p) == \E a \in Addr : \E i \in 1 .. Len(packet_queue[a]) : packet_queue[a][i] = p

OnePlace ==
    \A a, b \in Addr : \A i \in 1 .. Len(packet_queue[a]), j \in 1 .. Len(packet_queue[b]) :
        packet_queue[a][i] = packet_queue[b][j] => a = b /\ i = j

AtItsAddress ==
    \A a \in Addr : \A i \in 1 .. Len(packet_queue[a]) :
        Handed(packet_queue[a][i]) /\ meta[packet_queue[a][i]].addr = a

ReportedOnce ==
    \A p \in Packet : Len(reports[p]) = IF Handed(p) /\ ~Queued(p) THEN 1 ELSE 0

PacketInv == QueueInv /\ PacketType /\ OnePlace /\ AtItsAddress /\ ReportedOnce

\* What csma_output_packet does to a packet: it gets its metadata, and is queued or
\* reported at once.
HandedOver(p, a) ==
    /\ meta[p] = Unsent
    /\ UNCHANGED attempts
    /\ \E m \in Meta : /\ m # Unsent /\ m.addr = a /\ m.max > 0
                       /\ meta' = [meta EXCEPT ![p] = m]

Accepted(p, a) ==
    /\ HandedOver(p, a)
    /\ packet_queue' = [packet_queue EXCEPT ![a] = Append(@, p)]
    /\ a \in neighbor_list => UNCHANGED <<transmissions, collisions>>
    /\ a \notin neighbor_list => /\ transmissions' = [transmissions EXCEPT ![a] = 0]
                                /\ collisions' = [collisions EXCEPT ![a] = 0]
    /\ UNCHANGED reports

Refused(p, a) ==
    /\ HandedOver(p, a)
    /\ reports' = [reports EXCEPT ![p] = Append(@, [status |-> "ERR", tx |-> 1])]
    /\ UNCHANGED <<packet_queue, transmissions, collisions>>

\* What a transmission does to the head of a queue: it is tried once more, and stays or
\* leaves.
Tried(a) ==
    /\ packet_queue[a] # <<>>
    /\ attempts' = [attempts EXCEPT ![Head(packet_queue[a])] = @ + 1]
    /\ UNCHANGED <<seqno, meta>>

Kept(a) ==
    /\ Tried(a)
    /\ UNCHANGED <<packet_queue, reports>>
    /\ \E tx \in Nat, coll \in 0 .. MaxBackoff :
          /\ tx < meta[Head(packet_queue[a])].max
          /\ \/ tx = transmissions[a] + 1 /\ coll = 0
             \/ tx = transmissions[a] /\ coll = collisions[a] + 1
          /\ transmissions' = [transmissions EXCEPT ![a] = tx]
          /\ collisions' = [collisions EXCEPT ![a] = coll]

Done(a) ==
    /\ Tried(a)
    /\ packet_queue' = [packet_queue EXCEPT ![a] = Tail(@)]
    /\ transmissions' = [transmissions EXCEPT ![a] = 0]
    /\ collisions' = [collisions EXCEPT ![a] = 0]
    /\ \E r \in Report :
          /\ r.tx \in {transmissions[a], transmissions[a] + 1}
          /\ reports' = [reports EXCEPT ![Head(packet_queue[a])] = Append(@, r)]

\* Every call of csma_output_packet has one of the first two shapes ...
LEMMA OutputShape ==
    ASSUME QueueInv, PacketType, NEW p \in Packet, NEW a \in Addr, NEW limit \in TxLimits, NEW held,
           csma_output_packet(p, a, limit, held)
    PROVE  seqno' \in Nat /\ (Accepted(p, a) \/ Refused(p, a))
<1> DEFINE n == IF seqno = 0 THEN 1 ELSE seqno
           m == [addr |-> a, seqno |-> n, max |-> IF limit = 0 THEN MaxRetries + 1 ELSE limit]
<1>1. n \in Nat /\ n > 0 /\ limit \in Nat
  BY CsmaAssumption DEF PacketType
<1>2. m \in Meta /\ m.addr = a /\ m.max > 0 /\ m.seqno > 0
  BY <1>1, CsmaAssumption DEF Meta
<1>3. m # Unsent
  BY <1>2 DEF Unsent
<1>4. HandedOver(p, a)
  BY <1>2, <1>3 DEF HandedOver, csma_output_packet
<1>5. seqno' = (n + 1) % SeqRange
  BY DEF csma_output_packet
<1>6. seqno' \in Nat
  BY <1>1, <1>5, CsmaAssumption
<1>7. Accepted(p, a) \/ Refused(p, a)
  BY <1>4 DEF csma_output_packet, Accepted, Refused, mac_call_sent_callback
<1> QED
  BY <1>6, <1>7

\* ... and every transmission one of the last two.
LEMMA TransmitShape ==
    ASSUME QueueInv, PacketType, NEW a \in Addr, NEW status \in Status,
           transmit_from_queue(a, status)
    PROVE  Kept(a) \/ Done(a)
<1> DEFINE h == Head(packet_queue[a])
           t == transmissions[a]
<1>1. packet_queue[a] # <<>>
  BY DEF QueueInv, TimerMatchesQueue, transmit_from_queue
<1>2. packet_sent(a, status) /\ Tried(a)
  BY <1>1 DEF transmit_from_queue, Tried
<1>3. t \in Nat /\ collisions[a] \in 0 .. MaxBackoff /\ MaxBackoff \in Nat
  BY CsmaAssumption DEF PacketType
<1>4. h \in Packet /\ meta[h].max \in Nat
  <2>1. packet_queue[a] \in Seq(Packet)
    BY DEF QueueInv, QueueType
  <2>2. h \in Packet
    BY <1>1, <2>1
  <2> QED
    BY <2>2 DEF PacketType, Meta
<1>5. ASSUME NEW st \in Status, NEW tx \in {t, t + 1}, tx_done(a, st, tx)
      PROVE  Done(a)
  <2> DEFINE r == [status |-> st, tx |-> tx]
  <2>1. r \in Report /\ r.tx = tx
    BY <1>3 DEF Report
  <2>2. reports' = [reports EXCEPT ![h] = Append(@, r)]
    BY <1>5 DEF tx_done, mac_call_sent_callback
  <2> HIDE DEF r
  <2>3. /\ packet_queue' = [packet_queue EXCEPT ![a] = Tail(@)]
        /\ transmissions' = [transmissions EXCEPT ![a] = 0]
        /\ collisions' = [collisions EXCEPT ![a] = 0]
    BY <1>5 DEF tx_done, free_packet, NextPacket, FreeNeighbor
  <2> QED
    BY <1>2, <2>1, <2>2, <2>3 DEF Done
<1>6. ASSUME NEW tx \in Nat, NEW coll \in 0 .. MaxBackoff, rexmit(a, tx, coll),
             tx < meta[h].max,
             \/ tx = t + 1 /\ coll = 0
             \/ tx = t /\ coll = collisions[a] + 1
      PROVE  Kept(a)
  BY <1>2, <1>6 DEF rexmit, Kept
<1>7. CASE status = "OK"
  BY <1>2, <1>5, <1>7 DEF packet_sent, tx_ok
<1>8. CASE status = "NOACK"
  <2>1. \/ tx_done(a, "NOACK", t + 1)
        \/ rexmit(a, t + 1, 0) /\ ~(t + 1 >= meta[h].max)
    BY <1>2, <1>8 DEF packet_sent, noack
  <2> QED
    BY <1>3, <1>4, <1>5, <1>6, <1>8, <2>1
<1>9. CASE status = "COLLISION"
  <2> DEFINE over == collisions[a] + 1 > MaxBackoff
             coll == IF over THEN 0 ELSE collisions[a] + 1
             tx == IF over THEN t + 1 ELSE t
  <2>1. \/ tx_done(a, "COLLISION", tx)
        \/ rexmit(a, tx, coll) /\ ~(tx >= meta[h].max)
    BY <1>2, <1>9 DEF packet_sent, collision
  <2>2. /\ tx \in Nat /\ coll \in 0 .. MaxBackoff /\ tx \in {t, t + 1}
        /\ \/ tx = t + 1 /\ coll = 0
           \/ tx = t /\ coll = collisions[a] + 1
    BY <1>3
  <2> HIDE DEF tx, coll, over
  <2> QED
    BY <1>4, <1>5, <1>6, <1>9, <2>1, <2>2
<1>10. CASE status \in {"ERR", "ERR_FATAL"}
  BY <1>2, <1>5, <1>10 DEF packet_sent
<1> QED
  BY <1>7, <1>8, <1>9, <1>10 DEF Status

\* A packet that is accepted was in no queue, and its new place is its only one.
LEMMA AcceptedKeeps ==
    ASSUME PacketInv, QueueInv', seqno' \in Nat, NEW p \in Packet, NEW a \in Addr, Accepted(p, a)
    PROVE  PacketInv'
<1> DEFINE q == packet_queue
           k == Len(q[a]) + 1
<1>1. PICK m \in Meta : m # Unsent /\ m.addr = a /\ meta' = [meta EXCEPT ![p] = m]
  BY DEF Accepted, HandedOver
<1>2. /\ PacketType' /\ ~Handed(p)
      /\ \A r \in Packet : meta'[r] = IF r = p THEN m ELSE meta[r]
  <2>1. transmissions' \in [Addr -> Nat] /\ collisions' \in [Addr -> 0 .. MaxBackoff]
    <3>1. CASE a \in neighbor_list
      <4>1. transmissions' = transmissions /\ collisions' = collisions
        BY <3>1 DEF Accepted
      <4> QED
        BY <4>1 DEF PacketInv, PacketType
    <3>2. CASE a \notin neighbor_list
      <4>1. /\ transmissions' = [transmissions EXCEPT ![a] = 0]
            /\ collisions' = [collisions EXCEPT ![a] = 0]
        BY <3>2 DEF Accepted
      <4>2. 0 \in Nat /\ 0 \in 0 .. MaxBackoff
        BY CsmaAssumption
      <4> QED
        BY <4>1, <4>2 DEF PacketInv, PacketType
    <3> QED
      BY <3>1, <3>2
  <2> QED
    BY <1>1, <2>1 DEF PacketInv, PacketType, Accepted, HandedOver, Handed
<1>3. q \in [Addr -> Seq(Packet)] /\ q[a] \in Seq(Packet) /\ k \in Nat /\ k > 0
  BY DEF PacketInv, QueueInv, QueueType
<1>4. /\ Len(q'[a]) = k /\ q'[a][k] = p
      /\ \A i \in 1 .. Len(q[a]) : q'[a][i] = q[a][i]
      /\ \A b \in Addr \ {a} : q'[b] = q[b]
  BY <1>3 DEF Accepted
<1>5. \A b \in Addr : \A i \in 1 .. Len(q[b]) : q[b][i] # p
  BY <1>2 DEF PacketInv, AtItsAddress
<1>6. \A b \in Addr : \A i \in 1 .. Len(q'[b]) :
        \/ i \in 1 .. Len(q[b]) /\ q'[b][i] = q[b][i] /\ q[b][i] # p
        \/ b = a /\ i = k /\ q'[b][i] = p
  BY <1>3, <1>4, <1>5
<1>7. OnePlace'
  BY <1>6 DEF PacketInv, OnePlace
<1>8. AtItsAddress'
  <2> SUFFICES ASSUME NEW b \in Addr, NEW i \in 1 .. Len(q'[b])
               PROVE  (Handed(packet_queue[b][i]) /\ meta[packet_queue[b][i]].addr = b)'
    BY DEF AtItsAddress
  <2>1. q'[b][i] \in Packet
    <3>1. q[b] \in Seq(Packet) /\ \A j \in 1 .. Len(q[b]) : q[b][j] \in Packet
      BY <1>3, ElementOfSeq
    <3> QED
      BY <1>6, <3>1
  <2> QED
    BY <1>1, <1>2, <1>6, <2>1 DEF PacketInv, AtItsAddress, Handed
<1>9. \A r \in Packet : Queued(r)' <=> Queued(r) \/ r = p
  <2>1. \A r \in Packet : Queued(r)' => Queued(r) \/ r = p
    BY <1>6 DEF Queued
  <2>2. Queued(p)'
    BY <1>3, <1>4 DEF Queued
  <2>3. \A b \in Addr : \A i \in 1 .. Len(q[b]) : i \in 1 .. Len(q'[b]) /\ q'[b][i] = q[b][i]
    BY <1>3, <1>4
  <2>4. \A r \in Packet : Queued(r) => Queued(r)'
    BY <2>3 DEF Queued
  <2> QED
    BY <2>1, <2>2, <2>4
<1>10. ReportedOnce'
  <2> SUFFICES ASSUME NEW r \in Packet
               PROVE  (Len(reports[r]) = IF Handed(r) /\ ~Queued(r) THEN 1 ELSE 0)'
    BY DEF ReportedOnce
  <2>1. reports' = reports /\ (r # p => (Handed(r)' <=> Handed(r)))
    BY <1>2 DEF Accepted, Handed
  <2> QED
    BY <1>2, <1>9, <2>1 DEF PacketInv, ReportedOnce
<1> QED
  BY <1>2, <1>7, <1>8, <1>10 DEF PacketInv

\* A packet that is refused is reported and not queued.
LEMMA RefusedKeeps ==
    ASSUME PacketInv, QueueInv', seqno' \in Nat, NEW p \in Packet, NEW a \in Addr, Refused(p, a)
    PROVE  PacketInv'
<1>1. PICK m \in Meta : m # Unsent /\ m.addr = a /\ meta' = [meta EXCEPT ![p] = m]
  BY DEF Refused, HandedOver
<1> DEFINE r == [status |-> "ERR", tx |-> 1]
<1>2. r \in Report /\ reports' = [reports EXCEPT ![p] = Append(@, r)]
  BY DEF Refused, Report, Status
<1> HIDE DEF r
<1>3. reports' \in [Packet -> Seq(Report)]
  BY <1>2 DEF PacketInv, PacketType
<1>4. /\ PacketType' /\ ~Handed(p)
      /\ \A x \in Packet : meta'[x] = IF x = p THEN m ELSE meta[x]
  BY <1>1, <1>3 DEF PacketInv, PacketType, Refused, HandedOver, Handed
<1>5. packet_queue' = packet_queue
  BY DEF Refused
<1>6. \A x : Queued(x)' <=> Queued(x)
  BY <1>5 DEF Queued
<1>7. ~Queued(p)
  BY <1>4 DEF PacketInv, AtItsAddress, Queued
<1>8. AtItsAddress'
  <2> SUFFICES ASSUME NEW b \in Addr, NEW i \in 1 .. Len(packet_queue[b])
               PROVE  meta'[packet_queue[b][i]] # Unsent /\ meta'[packet_queue[b][i]].addr = b
    BY <1>5 DEF AtItsAddress, Handed
  <2>1. packet_queue[b][i] \in Packet /\ packet_queue[b][i] # p
    BY <1>7 DEF PacketInv, QueueInv, QueueType, Queued
  <2> QED
    BY <1>4, <2>1 DEF PacketInv, AtItsAddress, Handed
<1>9. ReportedOnce'
  <2> SUFFICES ASSUME NEW x \in Packet
               PROVE  (Len(reports[x]) = IF Handed(x) /\ ~Queued(x) THEN 1 ELSE 0)'
    BY DEF ReportedOnce
  <2>1. x # p => (Handed(x)' <=> Handed(x)) /\ reports'[x] = reports[x]
    BY <1>2, <1>4 DEF Handed, PacketInv, PacketType
  <2>2. Handed(p)' /\ Len(reports'[p]) = Len(reports[p]) + 1
    BY <1>1, <1>2, <1>4 DEF Handed, PacketInv, PacketType
  <2>3. Len(reports[p]) = 0
    BY <1>4 DEF PacketInv, ReportedOnce
  <2>4. CASE x = p
    <3>1. ~Queued(p)'
      BY <1>6, <1>7
    <3>2. Len(reports'[p]) = 1
      BY <2>2, <2>3
    <3>3. (Len(reports[p]) = IF Handed(p) /\ ~Queued(p) THEN 1 ELSE 0)'
      BY <2>2, <3>1, <3>2
    <3> QED
      BY <2>4, <3>3
  <2>5. CASE x # p
    <3>1. Len(reports[x]) = IF Handed(x) /\ ~Queued(x) THEN 1 ELSE 0
      BY DEF PacketInv, ReportedOnce
    <3> QED
      BY <1>6, <2>1, <2>5, <3>1
  <2> QED
    BY <2>4, <2>5
<1>10. OnePlace'
  BY <1>5 DEF PacketInv, OnePlace
<1> QED
  BY <1>4, <1>8, <1>9, <1>10 DEF PacketInv

\* What is known of the head of a queue.
LEMMA HeadFacts ==
    ASSUME PacketInv, NEW a \in Addr, packet_queue[a] # <<>>
    PROVE  LET q == packet_queue[a]  h == Head(q)
           IN  /\ q \in Seq(Packet) /\ Len(q) \in Nat \ {0}
               /\ h = q[1] /\ h \in Packet /\ Queued(h) /\ Handed(h)
               /\ Tail(q) \in Seq(Packet) /\ Len(Tail(q)) = Len(q) - 1
               /\ \A i \in 1 .. Len(q) - 1 : Tail(q)[i] = q[i + 1]
<1> DEFINE q == packet_queue[a]
           h == Head(q)
<1>1. q \in Seq(Packet)
  BY DEF PacketInv, QueueInv, QueueType
<1>2. Len(q) \in Nat \ {0} /\ h = q[1] /\ h \in Packet
  BY <1>1
<1>3. Queued(h)
  BY <1>2 DEF Queued
<1>4. Handed(h)
  BY <1>2 DEF PacketInv, AtItsAddress
<1>5. Tail(q) \in Seq(Packet) /\ Len(Tail(q)) = Len(q) - 1
  BY <1>1, <1>2
<1>6. \A i \in 1 .. Len(q) - 1 : Tail(q)[i] = q[i + 1]
  BY <1>1, <1>2
<1> QED
  BY <1>1, <1>2, <1>3, <1>4, <1>5, <1>6

\* The head of a queue is tried and stays.
LEMMA KeptKeeps ==
    ASSUME PacketInv, QueueInv', NEW a \in Addr, Kept(a)
    PROVE  PacketInv'
<1>1. PICK tx \in Nat, coll \in 0 .. MaxBackoff :
        /\ transmissions' = [transmissions EXCEPT ![a] = tx]
        /\ collisions' = [collisions EXCEPT ![a] = coll]
  BY DEF Kept
<1>2. Head(packet_queue[a]) \in Packet
  BY HeadFacts DEF Kept, Tried
<1>3. /\ packet_queue' = packet_queue /\ reports' = reports /\ meta' = meta /\ seqno' = seqno
      /\ attempts' = [attempts EXCEPT ![Head(packet_queue[a])] = @ + 1]
  BY DEF Kept, Tried
<1>4. attempts' \in [Packet -> Nat]
  BY <1>2, <1>3 DEF PacketInv, PacketType
<1>5. PacketType'
  BY <1>1, <1>3, <1>4 DEF PacketInv, PacketType
<1> QED
  BY <1>3, <1>5 DEF PacketInv, OnePlace, AtItsAddress, ReportedOnce, Queued, Handed

\* When the head of a queue leaves, the others move up and all other packets stay.
LEMMA DoneMoves ==
    ASSUME PacketInv, NEW a \in Addr, Done(a), NEW h \in Packet, h = Head(packet_queue[a])
    PROVE  /\ packet_queue[a] # <<>> /\ Queued(h) /\ Handed(h) /\ ~Queued(h)'
           /\ h = packet_queue[a][1] /\ 1 \in 1 .. Len(packet_queue[a])
           /\ \A b \in Addr : \A i \in 1 .. Len(packet_queue'[b]) :
                 \E j \in 1 .. Len(packet_queue[b]) :
                     /\ packet_queue'[b][i] = packet_queue[b][j]
                     /\ j = IF b = a THEN i + 1 ELSE i
           /\ \A x \in Packet \ {h} : Queued(x)' <=> Queued(x)
<1> DEFINE q == packet_queue
<1>2. q[a] # <<>>
  BY DEF Done, Tried
<1>3. /\ q[a] \in Seq(Packet) /\ Len(q[a]) \in Nat \ {0}
      /\ h = q[a][1] /\ h \in Packet /\ Queued(h) /\ Handed(h)
      /\ Len(Tail(q[a])) = Len(q[a]) - 1
      /\ \A i \in 1 .. Len(q[a]) - 1 : Tail(q[a])[i] = q[a][i + 1]
  BY <1>2, HeadFacts
<1>4. q \in [Addr -> Seq(Packet)]
  BY DEF PacketInv, QueueInv, QueueType
<1>5. /\ q'[a] = Tail(q[a])
      /\ \A b \in Addr \ {a} : q'[b] = q[b]
  BY <1>4 DEF Done
<1>a. /\ Len(q'[a]) = Len(q[a]) - 1
      /\ \A i \in 1 .. Len(q[a]) - 1 : q'[a][i] = q[a][i + 1]
  BY <1>3, <1>5
<1>6. \A b \in Addr : \A i \in 1 .. Len(q'[b]) :
        \E j \in 1 .. Len(q[b]) : /\ q'[b][i] = q[b][j]
                                  /\ j = IF b = a THEN i + 1 ELSE i
  <2> SUFFICES ASSUME NEW b \in Addr, NEW i \in 1 .. Len(q'[b])
               PROVE  \E j \in 1 .. Len(q[b]) : /\ q'[b][i] = q[b][j]
                                                 /\ j = IF b = a THEN i + 1 ELSE i
    OBVIOUS
  <2>1. CASE b = a
    <3>1. i \in 1 .. Len(q[a]) - 1
      BY <1>a, <2>1
    <3>2. i + 1 \in 1 .. Len(q[a]) /\ q'[a][i] = q[a][i + 1]
      BY <1>3, <1>a, <3>1
    <3> QED
      BY <2>1, <3>2
  <2>2. CASE b # a
    BY <1>5, <2>2
  <2> QED
    BY <2>1, <2>2
<1>7. \A b \in Addr : \A j \in 1 .. Len(q[b]) :
        \/ b = a /\ j = 1
        \/ \E i \in 1 .. Len(q'[b]) : q'[b][i] = q[b][j]
  <2> SUFFICES ASSUME NEW b \in Addr, NEW j \in 1 .. Len(q[b]), ~(b = a /\ j = 1)
               PROVE  \E i \in 1 .. Len(q'[b]) : q'[b][i] = q[b][j]
    OBVIOUS
  <2>1. CASE b = a
    <3>1. j - 1 \in 1 .. Len(q'[a]) /\ q'[a][j - 1] = q[a][j]
      BY <1>3, <1>a, <2>1
    <3> QED
      BY <2>1, <3>1
  <2>2. CASE b # a
    BY <1>5, <2>2
  <2> QED
    BY <2>1, <2>2
<1>14. ~Queued(h)'
  <2> SUFFICES ASSUME NEW b \in Addr, NEW i \in 1 .. Len(q'[b]), q'[b][i] = h
               PROVE  FALSE
    BY DEF Queued
  <2>1. PICK j \in 1 .. Len(q[b]) : q'[b][i] = q[b][j] /\ j = IF b = a THEN i + 1 ELSE i
    BY <1>6
  <2>2. b = a /\ j = 1
    <3>1. q[b][j] = q[a][1] /\ 1 \in 1 .. Len(q[a])
      BY <1>3, <2>1
    <3> QED
      BY <3>1 DEF PacketInv, OnePlace
  <2> QED
    BY <2>1, <2>2
<1>15. \A x \in Packet \ {h} : Queued(x)' <=> Queued(x)
  <2>1. \A x \in Packet \ {h} : Queued(x)' => Queued(x)
    BY <1>6 DEF Queued
  <2>2. ASSUME NEW x \in Packet \ {h}, Queued(x)
        PROVE  Queued(x)'
    <3>1. PICK b \in Addr : \E j \in 1 .. Len(q[b]) : q[b][j] = x
      BY <2>2 DEF Queued
    <3>2. PICK j \in 1 .. Len(q[b]) : q[b][j] = x
      BY <3>1
    <3>3. ~(b = a /\ j = 1)
      BY <1>3, <3>2
    <3> QED
      BY <1>7, <3>2, <3>3 DEF Queued
  <2> QED
    BY <2>1, <2>2
<1> QED
  BY <1>2, <1>3, <1>6, <1>14, <1>15

\* The head of a queue is tried, reported and leaves; the others move up.
LEMMA DoneKeeps ==
    ASSUME PacketInv, QueueInv', NEW a \in Addr, Done(a)
    PROVE  PacketInv'
<1> DEFINE q == packet_queue
<1>1. PICK h \in Packet, r \in Report :
        h = Head(q[a]) /\ reports' = [reports EXCEPT ![h] = Append(@, r)]
  BY HeadFacts DEF Done, Tried
<1>2. /\ Queued(h) /\ Handed(h) /\ ~Queued(h)'
      /\ \A b \in Addr : \A i \in 1 .. Len(q'[b]) :
            \E j \in 1 .. Len(q[b]) : /\ q'[b][i] = q[b][j]
                                      /\ j = IF b = a THEN i + 1 ELSE i
      /\ \A x \in Packet \ {h} : Queued(x)' <=> Queued(x)
  BY <1>1, DoneMoves
<1>8. /\ meta' = meta /\ seqno' = seqno
      /\ attempts' = [attempts EXCEPT ![h] = @ + 1]
      /\ transmissions' = [transmissions EXCEPT ![a] = 0]
      /\ collisions' = [collisions EXCEPT ![a] = 0]
  BY <1>1 DEF Done, Tried
<1>9. /\ reports' \in [Packet -> Seq(Report)] /\ attempts' \in [Packet -> Nat]
      /\ Len(reports'[h]) = Len(reports[h]) + 1
      /\ \A x \in Packet \ {h} : reports'[x] = reports[x]
  BY <1>1, <1>2, <1>8 DEF PacketInv, PacketType
<1>10. transmissions' \in [Addr -> Nat] /\ collisions' \in [Addr -> 0 .. MaxBackoff]
  <2>1. 0 \in Nat /\ 0 \in 0 .. MaxBackoff
    BY CsmaAssumption
  <2> QED
    BY <1>8, <2>1 DEF PacketInv, PacketType
<1>11. PacketType'
  BY <1>8, <1>9, <1>10 DEF PacketInv, PacketType
<1>12. OnePlace'
  <2> SUFFICES ASSUME NEW b \in Addr, NEW c \in Addr,
                      NEW i \in 1 .. Len(q'[b]), NEW j \in 1 .. Len(q'[c]),
                      q'[b][i] = q'[c][j]
               PROVE  b = c /\ i = j
    BY DEF OnePlace
  <2>1. PICK k \in 1 .. Len(q[b]) : q'[b][i] = q[b][k] /\ k = IF b = a THEN i + 1 ELSE i
    BY <1>2
  <2>2. PICK l \in 1 .. Len(q[c]) : q'[c][j] = q[c][l] /\ l = IF c = a THEN j + 1 ELSE j
    BY <1>2
  <2>3. b = c /\ k = l
    <3>1. q[b][k] = q[c][l]
      BY <2>1, <2>2
    <3> QED
      BY <3>1 DEF PacketInv, OnePlace
  <2>4. i \in Int /\ j \in Int
    OBVIOUS
  <2> QED
    BY <2>1, <2>2, <2>3, <2>4
<1>13. AtItsAddress'
  BY <1>2, <1>8 DEF PacketInv, AtItsAddress, Handed
<1>16. ReportedOnce'
  <2>1. (Len(reports[h]) = 1)' /\ Handed(h)'
    BY <1>2, <1>8, <1>9 DEF PacketInv, ReportedOnce, Handed
  <2>2. \A x \in Packet \ {h} : (Len(reports[x]) = IF Handed(x) /\ ~Queued(x) THEN 1 ELSE 0)'
    BY <1>2, <1>8, <1>9 DEF PacketInv, ReportedOnce, Handed
  <2>3. (Len(reports[h]) = IF Handed(h) /\ ~Queued(h) THEN 1 ELSE 0)'
    BY <1>2, <2>1
  <2> QED
    BY <2>2, <2>3 DEF ReportedOnce
<1> QED
  BY <1>11, <1>12, <1>13, <1>16 DEF PacketInv

\* Every step of the sender keeps the packets in order.
LEMMA PacketStep ==
    ASSUME PacketInv, [CsmaNext]_csmaVars
    PROVE  PacketInv'
<1>1. QueueInv /\ PacketType /\ QueueInv'
  BY NextKeeps DEF PacketInv
<1>2. CASE Output
  <2>1. PICK p \in Packet, a \in Addr, limit \in TxLimits :
          SendWhole(p, a, limit) \/ SendFragment(p, a, limit)
    BY <1>2 DEF Output
  <2>2. csma_output_packet(p, a, limit, 0) \/ csma_output_packet(p, a, limit, 1)
    BY <2>1 DEF SendWhole, SendFragment
  <2>3. seqno' \in Nat /\ (Accepted(p, a) \/ Refused(p, a))
    BY <1>1, <2>2, OutputShape
  <2> QED
    BY <1>1, <2>3, AcceptedKeeps, RefusedKeeps
<1>3. CASE \E a \in Addr : TimerExpires(a)
  <2>1. PICK a \in Addr, status \in Status : transmit_from_queue(a, status)
    BY <1>3 DEF TimerExpires
  <2>2. Kept(a) \/ Done(a)
    BY <1>1, <2>1, TransmitShape
  <2> QED
    BY <1>1, <2>2, KeptKeeps, DoneKeeps
<1>4. CASE UNCHANGED csmaVars
  BY <1>1, <1>4 DEF csmaVars, queues, PacketInv, PacketType, OnePlace, AtItsAddress,
                    ReportedOnce, Queued, Handed
<1> QED
  BY <1>2, <1>3, <1>4 DEF CsmaNext

\* PacketInv is SentCallbackOnce without cardinalities.
LEMMA PacketInvImplies ==
    ASSUME PacketInv
    PROVE  SentCallbackOnce
<1> SUFFICES ASSUME NEW p \in Packet
             PROVE  /\ Len(reports[p]) + Cardinality(Places(p)) = IF Handed(p) THEN 1 ELSE 0
                    /\ \A place \in Places(p) : place[1] = meta[p].addr
  BY DEF SentCallbackOnce
<1>1. \A a \in Addr : DOMAIN packet_queue[a] = 1 .. Len(packet_queue[a])
  BY DEF PacketInv, QueueInv, QueueType
<1>2. \A x : x \in Places(p) <=>
             \E a \in Addr : \E i \in 1 .. Len(packet_queue[a]) :
                 x = <<a, i>> /\ packet_queue[a][i] = p
  BY <1>1 DEF Places, QueuedPlaces
<1>3. \A place \in Places(p) : place[1] = meta[p].addr
  BY <1>2 DEF PacketInv, AtItsAddress
<1>4. CASE Queued(p)
  <2>1. PICK a \in Addr : \E i \in 1 .. Len(packet_queue[a]) : packet_queue[a][i] = p
    BY <1>4 DEF Queued
  <2>2. PICK i \in 1 .. Len(packet_queue[a]) : packet_queue[a][i] = p
    BY <2>1
  <2>3. Places(p) = {<<a, i>>}
    <3>1. \A x \in Places(p) : x = <<a, i>>
      BY <1>2, <2>2 DEF PacketInv, OnePlace
    <3>2. <<a, i>> \in Places(p)
      BY <1>2, <2>2
    <3> QED
      BY <3>1, <3>2
  <2>4. Cardinality(Places(p)) = 1
    BY <2>3, FS_Singleton
  <2>5. Handed(p) /\ Len(reports[p]) = 0
    BY <1>4, <2>2 DEF PacketInv, AtItsAddress, ReportedOnce
  <2> QED
    BY <1>3, <2>4, <2>5
<1>5. CASE ~Queued(p)
  <2>1. Places(p) = {}
    BY <1>2, <1>5 DEF Queued
  <2>2. Cardinality(Places(p)) = 0
    BY <2>1, FS_EmptySet
  <2>3. Len(reports[p]) = IF Handed(p) THEN 1 ELSE 0
    BY <1>5 DEF PacketInv, ReportedOnce
  <2> QED
    BY <1>3, <2>2, <2>3
<1> QED
  BY <1>4, <1>5

\* The sender starts with no packet handed over.
LEMMA PacketInit ==
    ASSUME csma_output_init
    PROVE  PacketInv
<1>1. QueueInv
  BY DEF csma_output_init, QueueInv, QueueType, TimerMatchesQueue
<1>2. 0 \in 0 .. MaxBackoff /\ SeqRange \in Nat
  BY CsmaAssumption
<1>3. Unsent \in Meta
  BY CsmaAssumption DEF Unsent, Meta
<1>4. PacketType
  BY <1>2, <1>3 DEF csma_output_init, PacketType
<1>5. \A a \in Addr : Len(packet_queue[a]) = 0
  BY DEF csma_output_init
<1>6. \A p \in Packet : ~Handed(p) /\ Len(reports[p]) = 0
  BY DEF csma_output_init, Handed
<1> QED
  BY <1>1, <1>4, <1>5, <1>6 DEF PacketInv, OnePlace, AtItsAddress, ReportedOnce

\* Every packet that was handed to csma_output_packet waits at one place of the queue of
\* its address or its sent callback has been called once, never both, for any number of
\* destinations, packets and blocks and whatever allocation fails.
THEOREM CsmaSentCallbackOnce == CsmaSpec => []SentCallbackOnce
<1>1. csma_output_init => PacketInv
  BY PacketInit
<1>2. PacketInv /\ [CsmaNext]_csmaVars => PacketInv'
  BY PacketStep
<1>3. PacketInv => SentCallbackOnce
  BY PacketInvImplies
<1> QED
  BY <1>1, <1>2, <1>3, PTL DEF CsmaSpec

-----------------------------------------------------------------------------
(***************************************************************************)
(* The counters of a neighbour are those of the head of its queue, and the *)
(* packets behind it have not been tried.                                  *)
(***************************************************************************)
Budget(n) == n * (MaxBackoff + 1)

IdleCounters ==
    \A a \in Addr : packet_queue[a] = <<>> => transmissions[a] = 0 /\ collisions[a] = 0

HeadCounters ==
    \A a \in Addr : packet_queue[a] # <<>> =>
        /\ transmissions[a] < meta[Head(packet_queue[a])].max
        /\ transmissions[a] <= attempts[Head(packet_queue[a])]
        /\ attempts[Head(packet_queue[a])] <= Budget(transmissions[a]) + collisions[a]

OthersUntried ==
    /\ \A a \in Addr : \A i \in 2 .. Len(packet_queue[a]) : attempts[packet_queue[a][i]] = 0
    /\ \A p \in Packet : ~Handed(p) => attempts[p] = 0

Limited ==
    \A p \in Packet :
        /\ Handed(p) => meta[p].max > 0
        /\ ~Queued(p) => attempts[p] <= Budget(meta[p].max)
        /\ \A i \in 1 .. Len(reports[p]) :
              /\ attempts[p] > 0 => reports[p][i].tx <= attempts[p]
              /\ reports[p][i].tx <= meta[p].max

CountInv == PacketInv /\ IdleCounters /\ HeadCounters /\ OthersUntried /\ Limited

\* The tries that n transmissions may take grow by MaxBackoff + 1 with n.
LEMMA BudgetGrows ==
    ASSUME NEW n \in Nat
    PROVE  /\ Budget(n) \in Nat /\ Budget(0) = 0
           /\ Budget(n + 1) = Budget(n) + MaxBackoff + 1
           /\ \A m \in Nat : n <= m => Budget(n) <= Budget(m)
<1>1. MaxBackoff \in Nat
  BY CsmaAssumption
<1>2. Budget(n) \in Nat /\ Budget(0) = 0
  BY <1>1 DEF Budget
<1>3. Budget(n + 1) = Budget(n) + MaxBackoff + 1
  BY <1>1 DEF Budget
<1>4. ASSUME NEW m \in Nat, n <= m
      PROVE  Budget(n) <= Budget(m)
  <2>1. m - n \in Nat /\ m = n + (m - n)
    BY <1>4
  <2>2. (n + (m - n)) * (MaxBackoff + 1) = n * (MaxBackoff + 1) + (m - n) * (MaxBackoff + 1)
    BY <1>1
  <2>3. (m - n) * (MaxBackoff + 1) >= 0
    BY <1>1, <2>1
  <2>4. Budget(m) = Budget(n) + (m - n) * (MaxBackoff + 1)
    BY <2>1, <2>2 DEF Budget
  <2>5. Budget(n) \in Int /\ (m - n) * (MaxBackoff + 1) \in Int
    BY <1>1, <1>2
  <2> QED
    BY <2>3, <2>4, <2>5
<1> QED
  BY <1>2, <1>3, <1>4

\* The metadata and the queue of a packet that is not the one handed over stay.
LEMMA HandedOverFacts ==
    ASSUME PacketInv, NEW p \in Packet, NEW a \in Addr, HandedOver(p, a)
    PROVE  /\ ~Handed(p) /\ Handed(p)' /\ meta'[p].max \in Nat /\ meta'[p].max > 0
           /\ \A r \in Packet \ {p} : meta'[r] = meta[r]
           /\ \A b \in Addr : \A i \in 1 .. Len(packet_queue[b]) :
                  packet_queue[b][i] \in Packet \ {p}
           /\ Len(reports[p]) = 0 /\ ~Queued(p)
<1>1. PICK m \in Meta : m # Unsent /\ m.max > 0 /\ meta' = [meta EXCEPT ![p] = m]
  BY DEF HandedOver
<1>2. ~Handed(p) /\ Handed(p)' /\ \A r \in Packet \ {p} : meta'[r] = meta[r]
  BY <1>1 DEF HandedOver, Handed, PacketInv, PacketType
<1>3. meta'[p].max \in Nat /\ meta'[p].max > 0
  BY <1>1 DEF PacketInv, PacketType, Meta
<1>4. \A b \in Addr : \A i \in 1 .. Len(packet_queue[b]) : packet_queue[b][i] \in Packet
  BY DEF PacketInv, QueueInv, QueueType
<1>5. \A b \in Addr : \A i \in 1 .. Len(packet_queue[b]) : packet_queue[b][i] # p
  BY <1>2 DEF PacketInv, AtItsAddress
<1>6. Len(reports[p]) = 0 /\ ~Queued(p)
  BY <1>2, <1>5 DEF PacketInv, ReportedOnce, Queued
<1> QED
  BY <1>2, <1>3, <1>4, <1>5, <1>6

\* A packet that is accepted finds counters of its own, or waits behind another one.
LEMMA AcceptedCounts ==
    ASSUME CountInv, PacketInv', NEW p \in Packet, NEW a \in Addr, Accepted(p, a)
    PROVE  CountInv'
<1> DEFINE q == packet_queue
<1>1. PacketInv /\ HandedOver(p, a)
  BY DEF CountInv, Accepted
<1>2. /\ ~Handed(p) /\ Handed(p)' /\ meta'[p].max \in Nat /\ meta'[p].max > 0
      /\ \A r \in Packet \ {p} : meta'[r] = meta[r]
      /\ \A b \in Addr : \A i \in 1 .. Len(q[b]) : q[b][i] \in Packet \ {p}
      /\ Len(reports[p]) = 0
  BY <1>1, HandedOverFacts
<1>3. q \in [Addr -> Seq(Packet)] /\ q[a] \in Seq(Packet)
  BY <1>1 DEF PacketInv, QueueInv, QueueType
<1>4. /\ q'[a] = Append(q[a], p)
      /\ \A b \in Addr \ {a} : q'[b] = q[b]
      /\ reports' = reports /\ attempts' = attempts
  BY <1>3 DEF Accepted, HandedOver
<1>5. /\ Len(q'[a]) = Len(q[a]) + 1 /\ q'[a][Len(q[a]) + 1] = p
      /\ \A i \in 1 .. Len(q[a]) : q'[a][i] = q[a][i]
      /\ q'[a] # <<>>
  BY <1>3, <1>4
<1>6. \A b \in Addr \ {a} : transmissions'[b] = transmissions[b] /\ collisions'[b] = collisions[b]
  BY DEF Accepted, CountInv, PacketInv, PacketType
<1>7. IdleCounters'
  BY <1>4, <1>5, <1>6 DEF CountInv, IdleCounters
<1>8. HeadCounters'
  <2> SUFFICES ASSUME NEW b \in Addr, q'[b] # <<>>
               PROVE  (/\ transmissions[b] < meta[Head(packet_queue[b])].max
                       /\ transmissions[b] <= attempts[Head(packet_queue[b])]
                       /\ attempts[Head(packet_queue[b])] <= Budget(transmissions[b]) + collisions[b])'
    BY DEF HeadCounters
  <2>1. CASE q[b] # <<>>
    <3>1. Head(q[b]) \in Packet \ {p}
      BY <1>1, <1>2, <2>1, HeadFacts
    <3>2. Head(q'[b]) = Head(q[b])
      <4>1. CASE b = a
        <5>1. Len(q[a]) \in Nat \ {0}
          BY <1>3, <2>1, <4>1
        <5>2. q'[a] \in Seq(Packet) /\ Head(q'[a]) = q'[a][1] /\ Head(q[a]) = q[a][1]
          BY <1>3, <1>4, <1>5, <2>1, <4>1
        <5> QED
          BY <1>5, <4>1, <5>1, <5>2
      <4>2. CASE b # a
        BY <1>4, <4>2
      <4> QED
        BY <4>1, <4>2
    <3>3. b = a => a \in neighbor_list
      BY <1>1, <2>1 DEF PacketInv, QueueInv, TimerMatchesQueue
    <3>4. transmissions'[b] = transmissions[b] /\ collisions'[b] = collisions[b]
      BY <1>6, <3>3 DEF Accepted
    <3>5. meta'[Head(q[b])] = meta[Head(q[b])]
      BY <1>2, <3>1
    <3>6. /\ transmissions[b] < meta[Head(q[b])].max
          /\ transmissions[b] <= attempts[Head(q[b])]
          /\ attempts[Head(q[b])] <= Budget(transmissions[b]) + collisions[b]
      BY <2>1 DEF CountInv, HeadCounters
    <3> QED
      BY <1>4, <3>2, <3>4, <3>5, <3>6 DEF Budget
  <2>2. CASE q[b] = <<>>
    <3>1. b = a
      BY <1>4, <2>2
    <3>2. Head(q'[a]) = p
      BY <1>4, <2>2, <3>1
    <3>3. a \notin neighbor_list
      BY <1>1, <2>2, <3>1 DEF PacketInv, QueueInv, TimerMatchesQueue
    <3>4. transmissions'[a] = 0 /\ collisions'[a] = 0
      BY <3>3 DEF Accepted, CountInv, PacketInv, PacketType
    <3>5. attempts'[p] = 0
      BY <1>2, <1>4 DEF CountInv, OthersUntried
    <3>6. (Budget(0) = 0)'
      BY CsmaAssumption DEF Budget
    <3> QED
      BY <1>2, <3>1, <3>2, <3>4, <3>5, <3>6
  <2> QED
    BY <2>1, <2>2
<1>9. OthersUntried'
  <2>1. ASSUME NEW b \in Addr, NEW i \in 2 .. Len(q'[b])
        PROVE  attempts'[q'[b][i]] = 0
    <3>1. CASE b # a
      BY <1>4, <2>1, <3>1 DEF CountInv, OthersUntried
    <3>2. CASE b = a /\ i <= Len(q[a])
      <4>1. i \in 2 .. Len(q[a]) /\ i \in 1 .. Len(q[a])
        BY <1>3, <2>1, <3>2
      <4> QED
        BY <1>4, <1>5, <3>2, <4>1 DEF CountInv, OthersUntried
    <3>3. CASE b = a /\ ~(i <= Len(q[a]))
      <4>1. i = Len(q[a]) + 1
        BY <1>3, <1>5, <2>1, <3>3
      <4> QED
        BY <1>2, <1>4, <1>5, <3>3, <4>1 DEF CountInv, OthersUntried
    <3> QED
      BY <3>1, <3>2, <3>3
  <2>2. \A r \in Packet : meta'[r] = Unsent => attempts'[r] = 0
    BY <1>2, <1>4 DEF CountInv, OthersUntried, Handed
  <2> QED
    BY <2>1, <2>2 DEF OthersUntried, Handed
<1>10. Limited'
  <2>1. ASSUME NEW r \in Packet \ {p}
        PROVE  ~Queued(r)' => ~Queued(r)
    <3>1. \A b \in Addr : \A i \in 1 .. Len(q[b]) : i \in 1 .. Len(q'[b]) /\ q'[b][i] = q[b][i]
      BY <1>3, <1>4, <1>5
    <3> QED
      BY <3>1 DEF Queued
  <2>2. Queued(p)'
    <3>1. Len(q[a]) + 1 \in 1 .. Len(q'[a])
      BY <1>3, <1>5
    <3> QED
      BY <1>5, <3>1 DEF Queued
  <2>3. ASSUME NEW r \in Packet
        PROVE  (/\ Handed(r) => meta[r].max > 0
                /\ ~Queued(r) => attempts[r] <= Budget(meta[r].max)
                /\ \A i \in 1 .. Len(reports[r]) :
                      /\ attempts[r] > 0 => reports[r][i].tx <= attempts[r]
                      /\ reports[r][i].tx <= meta[r].max)'
    <3>1. CASE r = p
      BY <1>2, <1>4, <2>2, <3>1 DEF Queued, Handed
    <3>2. CASE r # p
      BY <1>2, <1>4, <2>1, <3>2 DEF CountInv, Limited, Handed, Budget
    <3> QED
      BY <3>1, <3>2
  <2> QED
    BY <2>3 DEF Limited
<1> QED
  BY <1>7, <1>8, <1>9, <1>10 DEF CountInv

\* A packet that is refused is reported as transmitted once and was never tried.
LEMMA RefusedCounts ==
    ASSUME CountInv, PacketInv', NEW p \in Packet, NEW a \in Addr, Refused(p, a)
    PROVE  CountInv'
<1> DEFINE q == packet_queue
           err == [status |-> "ERR", tx |-> 1]
<1>1. PacketInv /\ HandedOver(p, a)
  BY DEF CountInv, Refused
<1>2. /\ ~Handed(p) /\ Handed(p)' /\ meta'[p].max \in Nat /\ meta'[p].max > 0
      /\ \A r \in Packet \ {p} : meta'[r] = meta[r]
      /\ \A b \in Addr : \A i \in 1 .. Len(q[b]) : q[b][i] \in Packet \ {p}
      /\ Len(reports[p]) = 0
  BY <1>1, HandedOverFacts
<1>3. /\ q' = q /\ transmissions' = transmissions /\ collisions' = collisions
      /\ attempts' = attempts
      /\ reports' = [reports EXCEPT ![p] = Append(@, err)]
  BY DEF Refused, HandedOver
<1>4. attempts[p] = 0
  BY <1>2 DEF CountInv, OthersUntried
<1>5. IdleCounters'
  BY <1>3 DEF CountInv, IdleCounters
<1>6. HeadCounters'
  <2>1. ASSUME NEW b \in Addr, q[b] # <<>>
        PROVE  meta'[Head(q[b])] = meta[Head(q[b])]
    <3>1. Head(q[b]) = q[b][1] /\ 1 \in 1 .. Len(q[b])
      BY <1>1, <2>1, HeadFacts
    <3> QED
      BY <1>2, <3>1
  <2> QED
    BY <1>3, <2>1 DEF CountInv, HeadCounters, Budget
<1>7. OthersUntried'
  BY <1>2, <1>3 DEF CountInv, OthersUntried, Handed
<1>8. Limited'
  <2>1. reports[p] \in Seq(Report) /\ err \in Report
    BY <1>1 DEF PacketInv, PacketType, Report, Status
  <2>2. reports'[p] = Append(reports[p], err) /\ \A r \in Packet \ {p} : reports'[r] = reports[r]
    BY <1>1, <1>3 DEF PacketInv, PacketType
  <2>3. Len(reports'[p]) = 1 /\ reports'[p][1] = err
    <3> HIDE DEF err
    <3> QED  BY <1>2, <2>1, <2>2
  <2>4. \A i \in 1 .. Len(reports'[p]) : i = 1
    BY <2>3
  <2>5. meta'[p].max * (MaxBackoff + 1) >= 0
    <3>1. \A n \in Nat : Budget(n) \in Nat
      BY BudgetGrows
    <3> QED
      BY <1>2, <3>1 DEF Budget
  <2>6. ASSUME NEW r \in Packet
        PROVE  (/\ Handed(r) => meta[r].max > 0
                /\ ~Queued(r) => attempts[r] <= Budget(meta[r].max)
                /\ \A i \in 1 .. Len(reports[r]) :
                      /\ attempts[r] > 0 => reports[r][i].tx <= attempts[r]
                      /\ reports[r][i].tx <= meta[r].max)'
    <3>1. CASE r = p
      <4>1. \A i \in 1 .. Len(reports'[p]) : reports'[p][i].tx = 1
        BY <2>3, <2>4
      <4>2. attempts'[p] = 0
        BY <1>3, <1>4
      <4> QED
        BY <1>2, <2>5, <3>1, <4>1, <4>2 DEF Budget
    <3>2. CASE r # p
      BY <1>2, <1>3, <2>2, <3>2 DEF CountInv, Limited, Handed, Queued, Budget
    <3> QED
      BY <3>1, <3>2
  <2> QED
    BY <2>6 DEF Limited
<1> QED
  BY <1>5, <1>6, <1>7, <1>8 DEF CountInv

\* One more try of a packet that stays: either its back-offs begin anew with one more
\* transmission, or there is one more back-off.
LEMMA KeptCounts ==
    ASSUME CountInv, PacketInv', NEW a \in Addr, Kept(a)
    PROVE  CountInv'
<1> DEFINE q == packet_queue
<1>1. PacketInv /\ q[a] # <<>>
  BY DEF CountInv, Kept, Tried
<1>2. PICK h \in Packet : h = Head(q[a])
  BY <1>1, HeadFacts
<1>3. h = q[a][1] /\ Queued(h) /\ Handed(h) /\ 1 \in 1 .. Len(q[a])
  BY <1>1, <1>2, HeadFacts
<1>4. PICK tx \in Nat, coll \in 0 .. MaxBackoff :
        /\ tx < meta[h].max
        /\ \/ tx = transmissions[a] + 1 /\ coll = 0
           \/ tx = transmissions[a] /\ coll = collisions[a] + 1
        /\ transmissions' = [transmissions EXCEPT ![a] = tx]
        /\ collisions' = [collisions EXCEPT ![a] = coll]
  BY <1>2 DEF Kept
<1>5. /\ q' = q /\ reports' = reports /\ meta' = meta
      /\ attempts' = [attempts EXCEPT ![h] = @ + 1]
  BY <1>2 DEF Kept, Tried
<1>6. /\ attempts[h] \in Nat /\ attempts'[h] = attempts[h] + 1
      /\ \A r \in Packet \ {h} : attempts'[r] = attempts[r]
  BY <1>1, <1>5 DEF PacketInv, PacketType
<1>7. /\ transmissions[a] \in Nat /\ collisions[a] \in 0 .. MaxBackoff /\ MaxBackoff \in Nat
      /\ transmissions'[a] = tx /\ collisions'[a] = coll
      /\ \A b \in Addr \ {a} : transmissions'[b] = transmissions[b] /\ collisions'[b] = collisions[b]
  BY <1>1, <1>4, CsmaAssumption DEF PacketInv, PacketType
<1>8. \A b \in Addr : \A i \in 1 .. Len(q[b]) :
        q[b][i] \in Packet /\ (q[b][i] = h => b = a /\ i = 1)
  BY <1>1, <1>3 DEF PacketInv, QueueInv, QueueType, OnePlace
<1>9. IdleCounters'
  BY <1>1, <1>5, <1>7 DEF CountInv, IdleCounters
<1>10. HeadCounters'
  <2>1. ASSUME NEW b \in Addr \ {a}, q[b] # <<>>
        PROVE  attempts'[Head(q[b])] = attempts[Head(q[b])]
    <3>1. Head(q[b]) = q[b][1] /\ 1 \in 1 .. Len(q[b])
      BY <1>1, <2>1, HeadFacts
    <3> QED
      BY <1>6, <1>8, <3>1
  <2>2. /\ transmissions[a] <= attempts[h]
        /\ attempts[h] <= Budget(transmissions[a]) + collisions[a]
    BY <1>1, <1>2 DEF CountInv, HeadCounters
  <2>3. /\ Budget(transmissions[a]) \in Nat
        /\ Budget(transmissions[a] + 1) = Budget(transmissions[a]) + MaxBackoff + 1
    BY <1>7, BudgetGrows
  <2>4. tx <= attempts'[h] /\ attempts'[h] <= Budget(tx) + coll
    BY <1>4, <1>6, <1>7, <2>2, <2>3
  <2>5. ASSUME NEW b \in Addr, q[b] # <<>>
        PROVE  /\ transmissions'[b] < meta'[Head(q[b])].max
               /\ transmissions'[b] <= attempts'[Head(q[b])]
               /\ attempts'[Head(q[b])] <= Budget(transmissions'[b]) + collisions'[b]
    <3>1. CASE b = a
      BY <1>2, <1>4, <1>5, <1>7, <2>4, <3>1
    <3>2. CASE b # a
      <4>1. /\ transmissions[b] < meta[Head(q[b])].max
            /\ transmissions[b] <= attempts[Head(q[b])]
            /\ attempts[Head(q[b])] <= Budget(transmissions[b]) + collisions[b]
        BY <2>5 DEF CountInv, HeadCounters
      <4> QED
        BY <1>5, <1>7, <2>1, <2>5, <3>2, <4>1
    <3> QED
      BY <3>1, <3>2
  <2> QED
    BY <1>5, <2>5 DEF HeadCounters, Budget
<1>11. OthersUntried'
  <2>1. \A b \in Addr : \A i \in 2 .. Len(q[b]) : attempts'[q[b][i]] = 0
    <3> SUFFICES ASSUME NEW b \in Addr, NEW i \in 2 .. Len(q[b])
                 PROVE  attempts'[q[b][i]] = 0
      OBVIOUS
    <3>1. i \in 1 .. Len(q[b]) /\ i # 1
      OBVIOUS
    <3>2. q[b][i] \in Packet \ {h}
      BY <1>8, <3>1
    <3> QED
      BY <1>6, <3>2 DEF CountInv, OthersUntried
  <2>2. \A r \in Packet : ~Handed(r) => attempts'[r] = 0
    BY <1>3, <1>6 DEF CountInv, OthersUntried
  <2> QED
    BY <1>5, <2>1, <2>2 DEF OthersUntried, Handed
<1>12. Limited'
  <2>1. Len(reports[h]) = 0
    BY <1>1, <1>3 DEF PacketInv, ReportedOnce
  <2>2. \A r \in Packet :
          /\ Handed(r) => meta[r].max > 0
          /\ ~Queued(r) => attempts'[r] <= Budget(meta[r].max)
          /\ \A i \in 1 .. Len(reports[r]) :
                /\ attempts'[r] > 0 => reports[r][i].tx <= attempts'[r]
                /\ reports[r][i].tx <= meta[r].max
    BY <1>3, <1>6, <2>1 DEF CountInv, Limited
  <2> QED
    BY <1>5, <2>2 DEF Limited, Handed, Queued, Budget
<1> QED
  BY <1>9, <1>10, <1>11, <1>12 DEF CountInv

\* A packet that leaves has used at most its limit, and the next one starts afresh.
LEMMA DoneCounts ==
    ASSUME CountInv, PacketInv', NEW a \in Addr, Done(a)
    PROVE  CountInv'
<1> DEFINE q == packet_queue
<1>1. PacketInv /\ PacketInv'
  BY DEF CountInv
<1>2. PICK h \in Packet, r \in Report :
        /\ h = Head(q[a]) /\ r.tx \in {transmissions[a], transmissions[a] + 1}
        /\ reports' = [reports EXCEPT ![h] = Append(@, r)]
  BY <1>1, HeadFacts DEF Done, Tried
<1>3. /\ q[a] # <<>> /\ Queued(h) /\ Handed(h) /\ ~Queued(h)'
      /\ h = q[a][1] /\ 1 \in 1 .. Len(q[a])
      /\ \A b \in Addr : \A i \in 1 .. Len(q'[b]) :
            \E j \in 1 .. Len(q[b]) : /\ q'[b][i] = q[b][j]
                                      /\ j = IF b = a THEN i + 1 ELSE i
      /\ \A x \in Packet \ {h} : Queued(x)' <=> Queued(x)
  BY <1>1, <1>2, DoneMoves
<1>4. /\ meta' = meta
      /\ attempts' = [attempts EXCEPT ![h] = @ + 1]
      /\ transmissions' = [transmissions EXCEPT ![a] = 0]
      /\ collisions' = [collisions EXCEPT ![a] = 0]
  BY <1>2 DEF Done, Tried
<1>5. /\ attempts[h] \in Nat /\ attempts'[h] = attempts[h] + 1
      /\ \A x \in Packet \ {h} : attempts'[x] = attempts[x]
  BY <1>1, <1>4 DEF PacketInv, PacketType
<1>6. /\ transmissions[a] \in Nat /\ collisions[a] \in 0 .. MaxBackoff /\ MaxBackoff \in Nat
      /\ transmissions'[a] = 0 /\ collisions'[a] = 0
      /\ \A b \in Addr \ {a} : transmissions'[b] = transmissions[b] /\ collisions'[b] = collisions[b]
  BY <1>1, <1>4, CsmaAssumption DEF PacketInv, PacketType
<1>7. \A b \in Addr \ {a} : q'[b] = q[b]
  BY <1>1 DEF Done, PacketInv, QueueInv, QueueType
<1>8. \A b \in Addr : \A i \in 1 .. Len(q[b]) :
        q[b][i] \in Packet /\ (q[b][i] = h => b = a /\ i = 1)
  BY <1>1, <1>3 DEF PacketInv, QueueInv, QueueType, OnePlace
<1>9. \A b \in Addr : \A i \in 2 .. Len(q[b]) : q[b][i] \in Packet \ {h}
  BY <1>8
<1>10. \A b \in Addr : \A i \in 2 .. Len(q[b]) : attempts'[q[b][i]] = 0
  BY <1>5, <1>9 DEF CountInv, OthersUntried
<1>11. \A i \in 1 .. Len(q'[a]) :
         q'[a][i] \in Packet /\ attempts'[q'[a][i]] = 0 /\ meta[q'[a][i]].max > 0
  <2> SUFFICES ASSUME NEW i \in 1 .. Len(q'[a])
               PROVE  q'[a][i] \in Packet /\ attempts'[q'[a][i]] = 0 /\ meta[q'[a][i]].max > 0
    OBVIOUS
  <2>1. PICK j \in 1 .. Len(q[a]) : q'[a][i] = q[a][j] /\ j = i + 1
    BY <1>3
  <2>2. j \in 2 .. Len(q[a])
    BY <2>1
  <2>3. Handed(q[a][j]) /\ q[a][j] \in Packet
    BY <1>1, <1>8 DEF PacketInv, AtItsAddress
  <2> QED
    BY <1>10, <2>1, <2>2, <2>3 DEF CountInv, Limited
<1>12. IdleCounters'
  BY <1>6, <1>7 DEF CountInv, IdleCounters
<1>13. HeadCounters'
  <2>1. ASSUME NEW b \in Addr, q'[b] # <<>>
        PROVE  /\ transmissions'[b] < meta'[Head(q'[b])].max
               /\ transmissions'[b] <= attempts'[Head(q'[b])]
               /\ attempts'[Head(q'[b])] <= Budget(transmissions'[b]) + collisions'[b]
    <3>1. CASE b = a
      <4>1. Head(q'[a]) = q'[a][1] /\ 1 \in 1 .. Len(q'[a])
        <5>1. q'[a] \in Seq(Packet)
          BY <1>1 DEF PacketInv, QueueInv, QueueType
        <5> QED
          BY <2>1, <3>1, <5>1
      <4>2. attempts'[Head(q'[a])] = 0 /\ meta[Head(q'[a])].max > 0
        BY <1>11, <4>1
      <4>3. Budget(0) = 0
        BY BudgetGrows
      <4> QED
        BY <1>4, <1>6, <3>1, <4>2, <4>3
    <3>2. CASE b # a
      <4>1. q[b] # <<>> /\ q'[b] = q[b]
        BY <1>7, <2>1, <3>2
      <4>2. Head(q[b]) = q[b][1] /\ 1 \in 1 .. Len(q[b])
        BY <1>1, <4>1, HeadFacts
      <4>3. Head(q[b]) \in Packet \ {h}
        BY <1>8, <3>2, <4>2
      <4>4. /\ transmissions[b] < meta[Head(q[b])].max
            /\ transmissions[b] <= attempts[Head(q[b])]
            /\ attempts[Head(q[b])] <= Budget(transmissions[b]) + collisions[b]
        BY <4>1 DEF CountInv, HeadCounters
      <4> QED
        BY <1>4, <1>5, <1>6, <3>2, <4>1, <4>3, <4>4
    <3> QED
      BY <3>1, <3>2
  <2> QED
    BY <2>1 DEF HeadCounters, Budget
<1>14. OthersUntried'
  <2>1. ASSUME NEW b \in Addr, NEW i \in 2 .. Len(q'[b])
        PROVE  attempts'[q'[b][i]] = 0
    <3>1. CASE b = a
      <4>1. i \in 1 .. Len(q'[a])
        BY <2>1, <3>1
      <4> QED
        BY <1>11, <3>1, <4>1
    <3>2. CASE b # a
      BY <1>7, <1>10, <2>1, <3>2
    <3> QED
      BY <3>1, <3>2
  <2>2. \A x \in Packet : ~Handed(x) => attempts'[x] = 0
    BY <1>3, <1>5 DEF CountInv, OthersUntried
  <2> QED
    BY <1>4, <2>1, <2>2 DEF OthersUntried, Handed
<1>15. Limited'
  <2> DEFINE m == meta[h].max
             t == transmissions[a]
  <2>1. m \in Nat
    BY <1>1 DEF PacketInv, PacketType, Meta
  <2>2. t < m /\ t <= attempts[h] /\ attempts[h] <= Budget(t) + collisions[a]
    BY <1>2, <1>3 DEF CountInv, HeadCounters
  <2>3. Budget(t) \in Nat /\ Budget(t + 1) = Budget(t) + MaxBackoff + 1
    BY <1>6, BudgetGrows
  <2>4. Budget(t + 1) <= Budget(m) /\ Budget(m) \in Nat
    <3>1. t + 1 \in Nat /\ t + 1 <= m
      BY <1>6, <2>1, <2>2
    <3> QED
      BY <2>1, <3>1, BudgetGrows
  <2>5. attempts'[h] <= Budget(m)
    <3>1. Budget(t + 1) \in Nat
      BY <1>6, <2>3
    <3> HIDE DEF m, t
    <3> QED
      BY <1>5, <1>6, <2>2, <2>3, <2>4, <3>1
  <2>6. /\ reports[h] \in Seq(Report) /\ Len(reports[h]) = 0
        /\ reports'[h] = Append(reports[h], r)
        /\ \A x \in Packet \ {h} : reports'[x] = reports[x]
    BY <1>1, <1>2, <1>3 DEF PacketInv, PacketType, ReportedOnce
  <2>7. \A i \in 1 .. Len(reports'[h]) : reports'[h][i] = r
    BY <2>6
  <2>8. r.tx <= attempts'[h] /\ r.tx <= m
    BY <1>2, <1>5, <1>6, <2>1, <2>2
  <2>9. Handed(h) => m > 0
    BY DEF CountInv, Limited
  <2>10. ASSUME NEW x \in Packet
         PROVE  /\ Handed(x) => meta[x].max > 0
                /\ ~Queued(x)' => attempts'[x] <= Budget(meta[x].max)
                /\ \A i \in 1 .. Len(reports'[x]) :
                      /\ attempts'[x] > 0 => reports'[x][i].tx <= attempts'[x]
                      /\ reports'[x][i].tx <= meta[x].max
    <3>1. CASE x = h
      BY <2>5, <2>7, <2>8, <2>9, <3>1
    <3>2. CASE x # h
      BY <1>3, <1>5, <2>6, <3>2 DEF CountInv, Limited
    <3> QED
      BY <3>1, <3>2
  <2> QED
    BY <1>4, <2>10 DEF Limited, Handed, Budget
<1> QED
  BY <1>1, <1>12, <1>13, <1>14, <1>15 DEF CountInv

\* Every step of the sender keeps the counters with their packets.
LEMMA CountStep ==
    ASSUME CountInv, [CsmaNext]_csmaVars
    PROVE  CountInv'
<1>1. PacketInv /\ PacketInv' /\ QueueInv /\ PacketType
  BY PacketStep DEF CountInv, PacketInv
<1>2. CASE Output
  <2>1. PICK p \in Packet, a \in Addr, limit \in TxLimits :
          SendWhole(p, a, limit) \/ SendFragment(p, a, limit)
    BY <1>2 DEF Output
  <2>2. csma_output_packet(p, a, limit, 0) \/ csma_output_packet(p, a, limit, 1)
    BY <2>1 DEF SendWhole, SendFragment
  <2>3. Accepted(p, a) \/ Refused(p, a)
    BY <1>1, <2>2, OutputShape
  <2> QED
    BY <1>1, <2>3, AcceptedCounts, RefusedCounts
<1>3. CASE \E a \in Addr : TimerExpires(a)
  <2>1. PICK a \in Addr, status \in Status : transmit_from_queue(a, status)
    BY <1>3 DEF TimerExpires
  <2>2. Kept(a) \/ Done(a)
    BY <1>1, <2>1, TransmitShape
  <2> QED
    BY <1>1, <2>2, KeptCounts, DoneCounts
<1>4. CASE UNCHANGED csmaVars
  <2>1. /\ packet_queue' = packet_queue /\ meta' = meta /\ attempts' = attempts
        /\ transmissions' = transmissions /\ collisions' = collisions /\ reports' = reports
    BY <1>4 DEF csmaVars, queues
  <2> QED
    BY <1>1, <2>1 DEF CountInv, IdleCounters, HeadCounters, OthersUntried, Limited, Queued,
                      Handed, Budget
<1> QED
  BY <1>2, <1>3, <1>4 DEF CsmaNext

\* The sender starts with no packet tried.
LEMMA CountInit ==
    ASSUME csma_output_init
    PROVE  CountInv
<1>1. PacketInv
  BY PacketInit
<1>2. \A a \in Addr : packet_queue[a] = <<>> /\ transmissions[a] = 0 /\ collisions[a] = 0
  BY DEF csma_output_init
<1>3. \A p \in Packet : ~Handed(p) /\ attempts[p] = 0 /\ Len(reports[p]) = 0 /\ meta[p].max = 0
  BY DEF csma_output_init, Handed, Unsent
<1>4. Budget(0) = 0
  BY BudgetGrows
<1>5. Limited
  BY <1>3, <1>4 DEF Limited
<1> QED
  BY <1>1, <1>2, <1>3, <1>5 DEF CountInv, IdleCounters, HeadCounters, OthersUntried

\* CountInv bounds the tries of every packet, in a queue or out of it.
LEMMA CountInvImplies ==
    ASSUME CountInv
    PROVE  CountsAreOwn
<1> SUFFICES ASSUME NEW p \in Packet
             PROVE  attempts[p] <= Budget(meta[p].max)
  BY DEF CountsAreOwn, CountInv, Limited, Budget
<1>1. /\ attempts[p] \in Nat /\ meta[p].max \in Nat /\ MaxBackoff \in Nat
      /\ transmissions \in [Addr -> Nat] /\ collisions \in [Addr -> 0 .. MaxBackoff]
  BY CsmaAssumption DEF CountInv, PacketInv, PacketType, Meta
<1>2. CASE ~Queued(p)
  BY <1>2 DEF CountInv, Limited
<1>3. CASE Queued(p)
  <2>1. PICK a \in Addr : \E i \in 1 .. Len(packet_queue[a]) : packet_queue[a][i] = p
    BY <1>3 DEF Queued
  <2>2. PICK i \in 1 .. Len(packet_queue[a]) : packet_queue[a][i] = p
    BY <2>1
  <2>3. Budget(meta[p].max) \in Nat
    BY <1>1, BudgetGrows
  <2>4. CASE i # 1
    <3>1. i \in 2 .. Len(packet_queue[a])
      BY <2>4
    <3> QED
      BY <1>1, <2>2, <2>3, <3>1 DEF CountInv, OthersUntried
  <2>5. CASE i = 1
    <3>1. packet_queue[a] \in Seq(Packet) /\ packet_queue[a] # <<>> /\ Head(packet_queue[a]) = p
      BY <2>2, <2>5 DEF CountInv, PacketInv, QueueInv, QueueType
    <3> DEFINE t == transmissions[a]
               m == meta[p].max
    <3>2. t < m /\ attempts[p] <= Budget(t) + collisions[a]
      BY <3>1 DEF CountInv, HeadCounters
    <3>3. t \in Nat /\ collisions[a] \in 0 .. MaxBackoff /\ t + 1 \in Nat /\ t + 1 <= m
      BY <1>1, <3>2
    <3>4. Budget(t) \in Nat /\ Budget(t + 1) = Budget(t) + MaxBackoff + 1
      BY <3>3, BudgetGrows
    <3>5. Budget(t + 1) <= Budget(m)
      BY <1>1, <3>3, BudgetGrows
    <3> HIDE DEF t, m
    <3> QED
      <4>1. attempts[p] <= Budget(m)
        BY <1>1, <2>3, <3>2, <3>3, <3>4, <3>5 DEF m
      <4> QED
        BY <4>1 DEF m
  <2> QED
    BY <2>4, <2>5
<1> QED
  BY <1>2, <1>3

\* The transmissions that a sent callback reports are those of its own packet, and no
\* packet is tried more often than its limit allows, for every limit and back-off.
THEOREM CsmaCountsAreOwn == CsmaSpec => []CountsAreOwn
<1>1. csma_output_init => CountInv
  BY CountInit
<1>2. CountInv /\ [CsmaNext]_csmaVars => CountInv'
  BY CountStep
<1>3. CountInv => CountsAreOwn
  BY CountInvImplies
<1> QED
  BY <1>1, <1>2, <1>3, PTL DEF CsmaSpec

-----------------------------------------------------------------------------
(***************************************************************************)
(* The pools.  Every step that takes blocks adds one place to the queues,  *)
(* and every step that gives blocks back takes one place away.             *)
(***************************************************************************)
PlacesIn(q) == UNION {{a} \X DOMAIN q[a] : a \in Addr}

PoolInv ==
    /\ PacketInv
    /\ IsFiniteSet(neighbor_list) /\ IsFiniteSet(QueuedPlaces)
    /\ {neighbor_memb, packet_memb, metadata_memb, bufmem} \subseteq Int
    /\ PoolsConserved

\* A place is an address and a position in its queue.
LEMMA PlacesAre ==
    ASSUME NEW q \in [Addr -> Seq(Packet)]
    PROVE  \A x : x \in PlacesIn(q) <=>
                  \E a \in Addr : \E i \in 1 .. Len(q[a]) : x = <<a, i>>
<1>1. \A a \in Addr : DOMAIN q[a] = 1 .. Len(q[a])
  OBVIOUS
<1> QED
  BY <1>1 DEF PlacesIn

\* A packet that is appended makes one place more, ...
LEMMA AppendAddsPlace ==
    ASSUME NEW q \in [Addr -> Seq(Packet)], NEW a \in Addr, NEW p \in Packet, NEW r,
           r = [q EXCEPT ![a] = Append(@, p)]
    PROVE  LET new == <<a, Len(q[a]) + 1>>
           IN  PlacesIn(r) = PlacesIn(q) \union {new} /\ new \notin PlacesIn(q)
<1> DEFINE new == <<a, Len(q[a]) + 1>>
<1>1. /\ r[a] = Append(q[a], p) /\ q[a] \in Seq(Packet) /\ Len(q[a]) \in Nat
      /\ \A b \in Addr \ {a} : r[b] = q[b]
  OBVIOUS
<1>2. Append(q[a], p) \in Seq(Packet) /\ Len(r[a]) = Len(q[a]) + 1
  BY <1>1
<1>3. r \in [Addr -> Seq(Packet)]
  BY <1>2
<1>4. \A i : i \in 1 .. Len(r[a]) <=> i \in 1 .. Len(q[a]) \/ i = Len(q[a]) + 1
  BY <1>1, <1>2
<1>5. \A x : x \in PlacesIn(r) <=> x \in PlacesIn(q) \/ x = new
  <2>1. ASSUME NEW x, x \in PlacesIn(r)
        PROVE  x \in PlacesIn(q) \/ x = new
    <3>1. PICK b \in Addr : \E i \in 1 .. Len(r[b]) : x = <<b, i>>
      BY <1>3, <2>1, PlacesAre
    <3> QED
      BY <1>1, <1>4, <3>1, PlacesAre
  <2>2. ASSUME NEW x, x \in PlacesIn(q)
        PROVE  x \in PlacesIn(r)
    <3>1. PICK b \in Addr : \E i \in 1 .. Len(q[b]) : x = <<b, i>>
      BY <2>2, PlacesAre
    <3> QED
      BY <1>1, <1>3, <1>4, <3>1, PlacesAre
  <2>3. new \in PlacesIn(r)
    BY <1>3, <1>4, PlacesAre
  <2> QED
    BY <2>1, <2>2, <2>3
<1>6. new \notin PlacesIn(q)
  <2>1. Len(q[a]) + 1 \notin 1 .. Len(q[a])
    BY <1>1
  <2> QED
    BY <2>1, PlacesAre
<1> QED
  BY <1>5, <1>6

\* ... and one that leaves makes one place less.
LEMMA TailRemovesPlace ==
    ASSUME NEW q \in [Addr -> Seq(Packet)], NEW a \in Addr, q[a] # <<>>, NEW r,
           r = [q EXCEPT ![a] = Tail(@)]
    PROVE  LET last == <<a, Len(q[a])>>
           IN  PlacesIn(r) = PlacesIn(q) \ {last} /\ last \in PlacesIn(q)
<1> DEFINE last == <<a, Len(q[a])>>
<1>1. /\ r[a] = Tail(q[a]) /\ q[a] \in Seq(Packet) /\ Len(q[a]) \in Nat \ {0}
      /\ \A b \in Addr \ {a} : r[b] = q[b]
  OBVIOUS
<1>2. Tail(q[a]) \in Seq(Packet) /\ Len(r[a]) = Len(q[a]) - 1
  BY <1>1
<1>3. r \in [Addr -> Seq(Packet)]
  BY <1>2
<1>4. \A i : i \in 1 .. Len(r[a]) <=> i \in 1 .. Len(q[a]) /\ i # Len(q[a])
  BY <1>1, <1>2
<1>5. \A x : x \in PlacesIn(r) <=> x \in PlacesIn(q) /\ x # last
  <2>1. ASSUME NEW x, x \in PlacesIn(r)
        PROVE  x \in PlacesIn(q) /\ x # last
    <3>1. PICK b \in Addr : \E i \in 1 .. Len(r[b]) : x = <<b, i>>
      BY <1>3, <2>1, PlacesAre
    <3>2. PICK i \in 1 .. Len(r[b]) : x = <<b, i>>
      BY <3>1
    <3>3. i \in 1 .. Len(q[b]) /\ ~(b = a /\ i = Len(q[a]))
      BY <1>1, <1>4, <3>2
    <3> QED
      BY <3>2, <3>3, PlacesAre
  <2>2. ASSUME NEW x, x \in PlacesIn(q), x # last
        PROVE  x \in PlacesIn(r)
    <3>1. PICK b \in Addr : \E i \in 1 .. Len(q[b]) : x = <<b, i>>
      BY <2>2, PlacesAre
    <3> QED
      BY <1>1, <1>3, <1>4, <2>2, <3>1, PlacesAre
  <2> QED
    BY <2>1, <2>2
<1>6. last \in PlacesIn(q)
  BY <1>1, PlacesAre
<1> QED
  BY <1>5, <1>6

\* A packet that is accepted takes a block of each pool, and an entry if its address has
\* none.
LEMMA AcceptedPools ==
    ASSUME PoolInv, NEW p \in Packet, NEW a \in Addr,
           packet_queue' = [packet_queue EXCEPT ![a] = Append(@, p)],
           neighbor_list' = neighbor_list \union {a},
           neighbor_memb' = IF a \in neighbor_list THEN neighbor_memb ELSE neighbor_memb - 1,
           packet_memb' = packet_memb - 1, metadata_memb' = metadata_memb - 1,
           bufmem' = bufmem - 1
    PROVE  /\ IsFiniteSet(neighbor_list') /\ IsFiniteSet(QueuedPlaces')
           /\ {neighbor_memb, packet_memb, metadata_memb, bufmem}' \subseteq Int
           /\ PoolsConserved'
<1> DEFINE new == <<a, Len(packet_queue[a]) + 1>>
<1>1. QueuedPlaces' = QueuedPlaces \union {new} /\ new \notin QueuedPlaces
  <2>1. packet_queue \in [Addr -> Seq(Packet)]
    BY DEF PoolInv, PacketInv, QueueInv, QueueType
  <2>2. QueuedPlaces = PlacesIn(packet_queue) /\ QueuedPlaces' = PlacesIn(packet_queue')
    BY DEF QueuedPlaces, PlacesIn
  <2> QED
    BY <2>1, <2>2, AppendAddsPlace
<1> HIDE DEF new
<1>2. IsFiniteSet(neighbor_list) /\ IsFiniteSet(QueuedPlaces)
  BY DEF PoolInv
<1>3. IsFiniteSet(QueuedPlaces') /\ QueuedTotal' = QueuedTotal + 1 /\ QueuedTotal \in Nat
  BY <1>1, <1>2, FS_AddElement, FS_CardinalityType DEF QueuedTotal
<1>4. /\ IsFiniteSet(neighbor_list') /\ Cardinality(neighbor_list) \in Nat
      /\ Cardinality(neighbor_list') = IF a \in neighbor_list THEN Cardinality(neighbor_list)
                                       ELSE Cardinality(neighbor_list) + 1
  BY <1>2, FS_AddElement, FS_CardinalityType
<1>5. /\ neighbor_memb \in Int /\ packet_memb \in Int /\ metadata_memb \in Int /\ bufmem \in Int
      /\ PoolsConserved
  BY DEF PoolInv
<1>6. PoolsConserved'
  BY <1>3, <1>4, <1>5 DEF PoolsConserved
<1> QED
  BY <1>3, <1>4, <1>5, <1>6

\* A packet that leaves gives a block to each pool, and its entry if it was the last.
LEMMA DonePools ==
    ASSUME PoolInv, NEW a \in Addr, packet_queue[a] # <<>>, free_packet(a)
    PROVE  /\ IsFiniteSet(neighbor_list') /\ IsFiniteSet(QueuedPlaces')
           /\ {neighbor_memb, packet_memb, metadata_memb, bufmem}' \subseteq Int
           /\ PoolsConserved'
<1> DEFINE last == <<a, Len(packet_queue[a])>>
<1>1. QueuedPlaces' = QueuedPlaces \ {last} /\ last \in QueuedPlaces
  <2>1. packet_queue \in [Addr -> Seq(Packet)]
    BY DEF PoolInv, PacketInv, QueueInv, QueueType
  <2>2. QueuedPlaces = PlacesIn(packet_queue) /\ QueuedPlaces' = PlacesIn(packet_queue')
    BY DEF QueuedPlaces, PlacesIn
  <2>3. packet_queue' = [packet_queue EXCEPT ![a] = Tail(@)]
    BY DEF free_packet
  <2> QED
    BY <2>1, <2>2, <2>3, TailRemovesPlace
<1> HIDE DEF last
<1>2. IsFiniteSet(neighbor_list) /\ IsFiniteSet(QueuedPlaces)
  BY DEF PoolInv
<1>3. IsFiniteSet(QueuedPlaces') /\ QueuedTotal' = QueuedTotal - 1 /\ QueuedTotal \in Nat
  BY <1>1, <1>2, FS_RemoveElement, FS_CardinalityType DEF QueuedTotal
<1>4. a \in neighbor_list
  BY DEF PoolInv, PacketInv, QueueInv, TimerMatchesQueue
<1>5. /\ neighbor_memb \in Int /\ packet_memb \in Int /\ metadata_memb \in Int /\ bufmem \in Int
      /\ PoolsConserved
  BY DEF PoolInv
<1>6. /\ packet_memb' = packet_memb + 1 /\ metadata_memb' = metadata_memb + 1
      /\ bufmem' = bufmem + 1
  BY DEF free_packet, FreeBlocks
<1>7. \/ neighbor_list' = neighbor_list /\ neighbor_memb' = neighbor_memb
      \/ neighbor_list' = neighbor_list \ {a} /\ neighbor_memb' = neighbor_memb + 1
  BY DEF free_packet, NextPacket, FreeNeighbor
<1>8. Cardinality(neighbor_list) \in Nat
  BY <1>2, FS_CardinalityType
<1>9. /\ IsFiniteSet(neighbor_list') /\ neighbor_memb' \in Int
      /\ neighbor_memb' + Cardinality(neighbor_list') = MaxNeighbors
  <2>1. CASE neighbor_list' = neighbor_list /\ neighbor_memb' = neighbor_memb
    BY <1>2, <1>5, <2>1 DEF PoolsConserved
  <2>2. CASE neighbor_list' = neighbor_list \ {a} /\ neighbor_memb' = neighbor_memb + 1
    <3>1. /\ IsFiniteSet(neighbor_list')
          /\ Cardinality(neighbor_list') = Cardinality(neighbor_list) - 1
      BY <1>2, <1>4, <2>2, FS_RemoveElement
    <3> QED
      BY <1>5, <1>8, <2>2, <3>1 DEF PoolsConserved
  <2> QED
    BY <1>7, <2>1, <2>2
<1>10. PoolsConserved'
  BY <1>3, <1>5, <1>6, <1>9 DEF PoolsConserved
<1> QED
  BY <1>3, <1>5, <1>6, <1>9, <1>10

\* A step that leaves the queues, the entries and the pools alone.
LEMMA PoolsStay ==
    ASSUME PoolInv, packet_queue' = packet_queue, neighbor_list' = neighbor_list,
           neighbor_memb' = neighbor_memb, packet_memb' = packet_memb,
           metadata_memb' = metadata_memb, bufmem' = bufmem
    PROVE  /\ IsFiniteSet(neighbor_list') /\ IsFiniteSet(QueuedPlaces')
           /\ {neighbor_memb, packet_memb, metadata_memb, bufmem}' \subseteq Int
           /\ PoolsConserved'
<1>1. QueuedPlaces' = QueuedPlaces
  BY DEF QueuedPlaces
<1> QED
  BY <1>1 DEF PoolInv, PoolsConserved, QueuedTotal

\* A transmission keeps the pools, or ends in free_packet.
LEMMA TransmitPools ==
    ASSUME NEW a \in Addr, NEW status \in Status, packet_queue[a] # <<>>, packet_sent(a, status)
    PROVE  free_packet(a) \/ UNCHANGED <<packet_queue, neighbor_list, pools>>
<1>1. \A st, tx : tx_done(a, st, tx) => free_packet(a)
  BY DEF tx_done
<1>2. \A tx, coll : rexmit(a, tx, coll) => UNCHANGED <<packet_queue, neighbor_list, pools>>
  BY DEF rexmit
<1>3. CASE status = "OK"
  BY <1>1, <1>3 DEF packet_sent, tx_ok
<1>4. CASE status = "NOACK"
  BY <1>1, <1>2, <1>4 DEF packet_sent, noack
<1>5. CASE status = "COLLISION"
  BY <1>1, <1>2, <1>5 DEF packet_sent, collision
<1>6. CASE status \in {"ERR", "ERR_FATAL"}
  BY <1>1, <1>6 DEF packet_sent
<1> QED
  BY <1>3, <1>4, <1>5, <1>6 DEF Status

\* Every step of the sender keeps account of the blocks.
LEMMA PoolStep ==
    ASSUME PoolInv, [CsmaNext]_csmaVars
    PROVE  PoolInv'
<1>1. PacketInv'
  BY PacketStep DEF PoolInv
<1> SUFFICES /\ IsFiniteSet(neighbor_list') /\ IsFiniteSet(QueuedPlaces')
             /\ {neighbor_memb, packet_memb, metadata_memb, bufmem}' \subseteq Int
             /\ PoolsConserved'
  BY <1>1 DEF PoolInv
<1>2. CASE Output
  <2>1. PICK p \in Packet, a \in Addr, limit \in TxLimits :
          SendWhole(p, a, limit) \/ SendFragment(p, a, limit)
    BY <1>2 DEF Output
  <2>2. csma_output_packet(p, a, limit, 0) \/ csma_output_packet(p, a, limit, 1)
    BY <2>1 DEF SendWhole, SendFragment
  <2>3. ~(a \in neighbor_list /\ packet_queue[a] = <<>>)
    BY DEF PoolInv, PacketInv, QueueInv, TimerMatchesQueue
  <2>4. \/ /\ packet_queue' = [packet_queue EXCEPT ![a] = Append(@, p)]
           /\ neighbor_list' = neighbor_list \union {a}
           /\ neighbor_memb' = IF a \in neighbor_list THEN neighbor_memb ELSE neighbor_memb - 1
           /\ packet_memb' = packet_memb - 1 /\ metadata_memb' = metadata_memb - 1
           /\ bufmem' = bufmem - 1
        \/ /\ packet_queue' = packet_queue /\ neighbor_list' = neighbor_list
           /\ neighbor_memb' = neighbor_memb /\ packet_memb' = packet_memb
           /\ metadata_memb' = metadata_memb /\ bufmem' = bufmem
    BY <2>2, <2>3 DEF csma_output_packet
  <2> QED
    BY <2>4, AcceptedPools, PoolsStay
<1>3. CASE \E a \in Addr : TimerExpires(a)
  <2>1. PICK a \in Addr, status \in Status : transmit_from_queue(a, status)
    BY <1>3 DEF TimerExpires
  <2>2. packet_queue[a] # <<>>
    BY <2>1 DEF PoolInv, PacketInv, QueueInv, TimerMatchesQueue, transmit_from_queue
  <2>3. packet_sent(a, status)
    BY <2>1, <2>2 DEF transmit_from_queue
  <2>4. free_packet(a) \/ UNCHANGED <<packet_queue, neighbor_list, pools>>
    BY <2>2, <2>3, TransmitPools
  <2> QED
    BY <2>2, <2>4, DonePools, PoolsStay DEF pools
<1>4. CASE UNCHANGED csmaVars
  BY <1>4, PoolsStay DEF csmaVars, queues, pools
<1> QED
  BY <1>2, <1>3, <1>4 DEF CsmaNext

\* In the beginning every block is free.
LEMMA PoolInit ==
    ASSUME csma_output_init
    PROVE  PoolInv
<1>1. PacketInv
  BY PacketInit
<1>2. QueuedPlaces = {} /\ neighbor_list = {}
  <2>1. QueuedPlaces = PlacesIn(packet_queue)
    BY DEF QueuedPlaces, PlacesIn
  <2>2. packet_queue \in [Addr -> Seq(Packet)]
    BY <1>1 DEF PacketInv, QueueInv, QueueType
  <2>3. \A a \in Addr : 1 .. Len(packet_queue[a]) = {}
    BY DEF csma_output_init
  <2>4. \A x : x \notin PlacesIn(packet_queue)
    BY <2>2, <2>3, PlacesAre
  <2> QED
    BY <2>1, <2>4 DEF csma_output_init
<1>3. IsFiniteSet({}) /\ Cardinality({}) = 0
  BY FS_EmptySet
<1>4. MaxNeighbors \in Nat /\ MaxQueued \in Nat
  BY CsmaAssumption
<1>5. QueuedTotal = 0 /\ Cardinality(neighbor_list) = 0
  BY <1>2, <1>3 DEF QueuedTotal
<1>6. /\ neighbor_memb = MaxNeighbors /\ packet_memb = MaxQueued /\ metadata_memb = MaxQueued
      /\ bufmem = MaxQueued
  BY DEF csma_output_init
<1>7. PoolsConserved
  BY <1>4, <1>5, <1>6 DEF PoolsConserved
<1> QED
  BY <1>1, <1>2, <1>3, <1>4, <1>6, <1>7 DEF PoolInv

\* No block of the four pools leaks or is given back twice, for every size of the pools and
\* whichever allocation fails: the free blocks and the queued packets add up to the pool.
THEOREM CsmaPoolsConserved == CsmaSpec => []PoolsConserved
<1>1. csma_output_init => PoolInv
  BY PoolInit
<1>2. PoolInv /\ [CsmaNext]_csmaVars => PoolInv'
  BY PoolStep
<1>3. PoolInv => PoolsConserved
  BY DEF PoolInv
<1> QED
  BY <1>1, <1>2, <1>3, PTL DEF CsmaSpec

-----------------------------------------------------------------------------
(***************************************************************************)
(* Both ends of the link.  Back is how many packets ago the number of a    *)
(* packet was given out.  As long as there are no more packets than        *)
(* numbers it tells the packets apart and orders them:                     *)
(*                                                                         *)
(*   Numbered   no two packets have the same number;                       *)
(*   InTurn     a queue holds its packets in that order, and what a        *)
(*              receiver has delivered is not younger than what is queued; *)
(*   Recorded   a number in a history is that of a delivered packet;       *)
(*   Newest     the history has the number of the last delivered packet,   *)
(*              and it only ages when the packet has left its queue.       *)
(***************************************************************************)
Front == IF seqno = 0 THEN 1 ELSE seqno
Numbers == SeqRange - 1
BackFrom(n, m) == IF m < n THEN n - m ELSE n - m + Numbers
Back(p) == BackFrom(Front, meta[p].seqno)
HandedSet == {p \in Packet : Handed(p)}

Numbered ==
    /\ seqno \in 0 .. SeqRange - 1
    /\ \A p \in HandedSet : meta[p].seqno \in 1 .. Numbers /\ Back(p) <= Cardinality(HandedSet)
    /\ \A p, q \in HandedSet : Back(p) = Back(q) => p = q

EnoughNumbers == IsFiniteSet(Packet) /\ Cardinality(Packet) <= Numbers

\* Every step of the link is one of the sender.
LEMMA LinkIsCsma == LinkSpec => []CountInv
<1>1. LinkInit => csma_output_init
  BY DEF LinkInit
<1>2. [LinkNext]_linkVars => [CsmaNext]_csmaVars
  <2>1. ASSUME NEW a \in Addr, NEW status \in Status, transmit_from_queue(a, status)
        PROVE  CsmaNext
    BY <2>1 DEF CsmaNext, TimerExpires
  <2>2. ASSUME NEW a \in Addr, NoFrame(a) PROVE CsmaNext
    BY <2>1, <2>2 DEF NoFrame, Status
  <2>3. ASSUME NEW a \in Addr, NEW heard, NEW acked, Frame(a, heard, acked) PROVE CsmaNext
    BY <2>1, <2>3 DEF Frame, Status
  <2> QED
    BY <2>2, <2>3 DEF LinkNext, Send, CsmaNext, OtherFrame, Age, linkVars
<1>3. CountInv /\ [CsmaNext]_csmaVars => CountInv'
  BY CountStep
<1>4. csma_output_init => CountInv
  BY CountInit
<1> QED
  BY <1>1, <1>2, <1>3, <1>4, PTL DEF LinkSpec

\* What a transmission does to the queues and reports.
Served(a, status) ==
    /\ a \in Addr /\ packet_queue[a] # <<>>
    /\ attempts' = [attempts EXCEPT ![Head(packet_queue[a])] = @ + 1]
    /\ UNCHANGED <<seqno, meta>>
    /\ packet_queue' = packet_queue \/ packet_queue' = [packet_queue EXCEPT ![a] = Tail(@)]
    /\ \/ reports' = reports
       \/ \E r \in Report : /\ r.status = status
                            /\ reports' = [reports EXCEPT ![Head(packet_queue[a])] = Append(@, r)]

LEMMA ServedIs ==
    ASSUME CountInv, NEW a \in Addr, NEW status \in Status, transmit_from_queue(a, status)
    PROVE  Served(a, status)
<1> DEFINE h == Head(packet_queue[a])
           t == transmissions[a]
           Ended == \E r \in Report : r.status = status /\ reports' = [reports EXCEPT ![h] = Append(@, r)]
<1>1. packet_queue[a] # <<>>
  BY DEF CountInv, PacketInv, QueueInv, TimerMatchesQueue, transmit_from_queue
<1>2. packet_sent(a, status) /\ attempts' = [attempts EXCEPT ![h] = @ + 1] /\ UNCHANGED <<seqno, meta>>
  BY <1>1 DEF transmit_from_queue
<1>3. t \in Nat
  BY DEF CountInv, PacketInv, PacketType
<1>4. ASSUME NEW tx \in {t, t + 1}, tx_done(a, status, tx) PROVE Served(a, status)
  <2> DEFINE r == [status |-> status, tx |-> tx]
  <2>1. r \in Report /\ r.status = status
    BY <1>3 DEF Report
  <2>2. reports' = [reports EXCEPT ![h] = Append(@, r)] /\ packet_queue' = [packet_queue EXCEPT ![a] = Tail(@)]
    BY <1>4 DEF tx_done, mac_call_sent_callback, free_packet
  <2> HIDE DEF r
  <2>3. Ended
    BY <2>1, <2>2
  <2> QED
    BY <1>1, <1>2, <2>2, <2>3 DEF Served
<1>5. ASSUME NEW tx, NEW coll, rexmit(a, tx, coll) PROVE Served(a, status)
  BY <1>1, <1>2, <1>5 DEF rexmit, Served
<1>6. CASE status = "OK"
  BY <1>2, <1>4, <1>6 DEF packet_sent, tx_ok
<1>7. CASE status = "NOACK"
  BY <1>2, <1>4, <1>5, <1>7 DEF packet_sent, noack
<1>8. CASE status = "COLLISION"
  BY <1>2, <1>4, <1>5, <1>8 DEF packet_sent, collision
<1>9. CASE status \in {"ERR", "ERR_FATAL"}
  BY <1>2, <1>4, <1>9 DEF packet_sent
<1> QED
  BY <1>6, <1>7, <1>8, <1>9 DEF Status

\* What csma_output_packet does to the numbers and the queues.
Given(p, a) ==
    /\ p \in Packet /\ a \in Addr /\ meta[p] = Unsent
    /\ seqno' = (Front + 1) % SeqRange
    /\ \E m \in Meta : m.addr = a /\ m.seqno = Front /\ meta' = [meta EXCEPT ![p] = m]
    /\ UNCHANGED attempts
    /\ packet_queue' = packet_queue \/ packet_queue' = [packet_queue EXCEPT ![a] = Append(@, p)]
    /\ \/ reports' = reports
       \/ \E r \in Report : r.status = "ERR" /\ reports' = [reports EXCEPT ![p] = Append(@, r)]

LEMMA GivenIs ==
    ASSUME CountInv, Output
    PROVE  \E p \in Packet, a \in Addr : Given(p, a)
<1>1. PICK p \in Packet, a \in Addr, limit \in TxLimits :
        SendWhole(p, a, limit) \/ SendFragment(p, a, limit)
  BY DEF Output
<1>2. csma_output_packet(p, a, limit, 0) \/ csma_output_packet(p, a, limit, 1)
  BY <1>1 DEF SendWhole, SendFragment
<1> DEFINE m == [addr |-> a, seqno |-> Front, max |-> IF limit = 0 THEN MaxRetries + 1 ELSE limit]
           r == [status |-> "ERR", tx |-> 1]
<1>3. Front \in Nat
  BY DEF Front, CountInv, PacketInv, PacketType
<1>4. m \in Meta /\ m.addr = a /\ m.seqno = Front
  BY <1>3, CsmaAssumption DEF Meta
<1>5. r \in Report /\ r.status = "ERR"
  BY DEF Report, Status
<1>6. /\ meta[p] = Unsent /\ seqno' = (Front + 1) % SeqRange /\ meta' = [meta EXCEPT ![p] = m]
      /\ UNCHANGED attempts
      /\ packet_queue' = packet_queue \/ packet_queue' = [packet_queue EXCEPT ![a] = Append(@, p)]
      /\ reports' = reports \/ reports' = [reports EXCEPT ![p] = Append(@, r)]
  BY <1>2 DEF csma_output_packet, Front, mac_call_sent_callback
<1> HIDE DEF m, r
<1>7. Given(p, a)
  BY <1>4, <1>5, <1>6 DEF Given
<1> QED
  BY <1>7

-----------------------------------------------------------------------------
(* The sequence numbers.                                                    *)

\* The number after n, leaving out zero; distances grow by one.
LEMMA NextNumber ==
    ASSUME seqno \in 0 .. SeqRange - 1, seqno' = (Front + 1) % SeqRange
    PROVE  /\ seqno' \in 0 .. SeqRange - 1 /\ Front \in 1 .. Numbers
           /\ BackFrom(Front', Front) = 1
           /\ \A m \in 1 .. Numbers :
                 /\ BackFrom(Front, m) \in 1 .. Numbers
                 /\ BackFrom(Front, m) < Numbers => BackFrom(Front', m) = BackFrom(Front, m) + 1
<1>1. SeqRange \in Nat /\ SeqRange > 1 /\ Numbers = SeqRange - 1
  BY CsmaAssumption DEF Numbers
<1>2. Front \in 1 .. Numbers
  BY <1>1 DEF Front
<1> DEFINE f == Front
           g == Front'
<1>3. IF f = Numbers THEN g = 1 /\ seqno' = 0 ELSE g = f + 1 /\ seqno' = f + 1
  <2>1. CASE f = Numbers
    <3>1. f + 1 = SeqRange
      BY <1>1, <2>1
    <3>2. seqno' = SeqRange % SeqRange
      BY <3>1
    <3>3. seqno' = 0
      BY <1>1, <3>2
    <3> QED
      BY <2>1, <3>3 DEF Front
  <2>2. CASE f # Numbers
    <3>1. f + 1 \in 0 .. SeqRange - 1 /\ f + 1 # 0
      BY <1>1, <1>2, <2>2
    <3> HIDE DEF f
    <3>2. (f + 1) % SeqRange = f + 1
      BY <1>1, <3>1
    <3>3. seqno' = f + 1
      BY <3>2 DEF f
    <3> QED
      BY <2>2, <3>1, <3>3 DEF Front
  <2> QED
    BY <2>1, <2>2
<1>4. f \in 1 .. Numbers
  BY <1>2
<1> HIDE DEF f, g
<1>5. BackFrom(g, f) = 1
  BY <1>1, <1>3, <1>4 DEF BackFrom
<1>6. ASSUME NEW m \in 1 .. Numbers
      PROVE  /\ BackFrom(f, m) \in 1 .. Numbers
             /\ BackFrom(f, m) < Numbers => BackFrom(g, m) = BackFrom(f, m) + 1
  BY <1>1, <1>3, <1>4 DEF BackFrom
<1>7. seqno' \in 0 .. SeqRange - 1
  BY <1>1, <1>3, <1>4
<1> QED
  BY <1>2, <1>5, <1>6, <1>7 DEF f, g

\* A packet gets a number: the others are one further back.
LEMMA NumberGiven ==
    ASSUME EnoughNumbers, CountInv, Numbered, NEW p \in Packet, NEW a \in Addr, Given(p, a)
    PROVE  /\ HandedSet' = HandedSet \cup {p} /\ p \notin HandedSet
           /\ meta' \in [Packet -> Meta] /\ meta'[p].addr = a
           /\ \A q \in HandedSet : meta'[q] = meta[q] /\ Back(q)' = Back(q) + 1 /\ Back(q) \in Nat /\ Back(q) > 0
           /\ Back(p)' = 1
           /\ Numbered'
<1>1. PICK m \in Meta : m.addr = a /\ m.seqno = Front /\ meta' = [meta EXCEPT ![p] = m]
  BY DEF Given
<1>2. meta \in [Packet -> Meta] /\ seqno \in 0 .. SeqRange - 1 /\ seqno' = (Front + 1) % SeqRange
  BY DEF CountInv, PacketInv, PacketType, Numbered, Given
<1>3. /\ seqno' \in 0 .. SeqRange - 1 /\ Front \in 1 .. Numbers
      /\ BackFrom(Front', Front) = 1
      /\ \A n \in 1 .. Numbers :
            /\ BackFrom(Front, n) \in 1 .. Numbers
            /\ BackFrom(Front, n) < Numbers => BackFrom(Front', n) = BackFrom(Front, n) + 1
  BY <1>2, NextNumber
<1>4. meta' \in [Packet -> Meta] /\ meta'[p] = m /\ \A q \in Packet \ {p} : meta'[q] = meta[q]
  BY <1>1, <1>2
<1>5. p \notin HandedSet
  BY DEF HandedSet, Handed, Given
<1>6. m # Unsent
  BY <1>1, <1>3 DEF Unsent
<1>7. HandedSet' = HandedSet \cup {p}
  <2>1. \A q \in Packet : Handed(q)' <=> Handed(q) \/ q = p
    BY <1>4, <1>6 DEF Handed
  <2> QED
    BY <2>1 DEF HandedSet
<1>8. /\ IsFiniteSet(HandedSet) /\ Cardinality(HandedSet) \in Nat
      /\ Cardinality(HandedSet') = Cardinality(HandedSet) + 1
      /\ Cardinality(HandedSet') <= Numbers /\ Numbers \in Int
  <2>1. HandedSet \in SUBSET Packet /\ HandedSet' \in SUBSET Packet /\ IsFiniteSet(Packet)
    BY DEF HandedSet, EnoughNumbers
  <2>2. IsFiniteSet(HandedSet) /\ Cardinality(HandedSet) \in Nat
    BY <2>1, FS_Subset, FS_CardinalityType
  <2>3. Cardinality(HandedSet') <= Cardinality(Packet) /\ Cardinality(Packet) \in Nat
    BY <2>1, FS_Subset, FS_CardinalityType
  <2>4. Cardinality(HandedSet') = Cardinality(HandedSet) + 1
    BY <1>5, <1>7, <2>2, FS_AddElement
  <2>5. Numbers \in Int
    BY CsmaAssumption DEF Numbers
  <2> QED
    BY <2>2, <2>3, <2>4, <2>5 DEF EnoughNumbers
<1>9. ASSUME NEW q \in HandedSet
      PROVE  /\ meta'[q] = meta[q] /\ Back(q)' = Back(q) + 1 /\ Back(q) \in Nat /\ Back(q) > 0
             /\ meta[q].seqno \in 1 .. Numbers /\ Back(q) <= Cardinality(HandedSet)
  <2>1. q \in Packet /\ q # p
    BY <1>5 DEF HandedSet
  <2>2. meta[q].seqno \in 1 .. Numbers /\ Back(q) <= Cardinality(HandedSet)
    BY DEF Numbered
  <2>3. meta'[q] = meta[q]
    BY <1>4, <2>1
  <2>4. Back(q) \in 1 .. Numbers
    BY <1>3, <2>2 DEF Back
  <2>5. Back(q) < Numbers
    <3>1. \A x, c \in Nat : x <= c /\ c + 1 <= Numbers => x < Numbers
      BY <1>8
    <3>2. Back(q) \in Nat
      BY <2>4
    <3> QED
      BY <1>8, <2>2, <3>1, <3>2
  <2>6. Back(q)' = BackFrom(Front', meta[q].seqno)
    BY <2>3 DEF Back
  <2>7. Back(q)' = Back(q) + 1
    BY <1>3, <2>2, <2>5, <2>6 DEF Back
  <2> QED
    BY <2>2, <2>3, <2>4, <2>7
<1>10. Back(p)' = 1
  BY <1>1, <1>3, <1>4 DEF Back
<1>11. Numbered'
  <2>1. \A q \in HandedSet' : meta'[q].seqno \in 1 .. Numbers /\ Back(q)' <= Cardinality(HandedSet')
    BY <1>1, <1>3, <1>4, <1>7, <1>8, <1>9, <1>10
  <2>2. ASSUME NEW q \in HandedSet', NEW u \in HandedSet', Back(q)' = Back(u)' PROVE q = u
    <3>1. CASE q \in HandedSet /\ u \in HandedSet
      <4>1. Back(q) = Back(u)
        BY <1>9, <2>2, <3>1
      <4> QED
        BY <3>1, <4>1 DEF Numbered
    <3>2. CASE ~(q \in HandedSet /\ u \in HandedSet)
      BY <1>7, <1>9, <1>10, <2>2, <3>2
    <3> QED
      BY <3>1, <3>2
  <2>3. \A q, u \in HandedSet' : Back(q)' = Back(u)' => q = u
    BY <2>2
  <2> QED
    BY <1>3, <2>1, <2>3 DEF Numbered
<1> QED
  BY <1>1, <1>4, <1>5, <1>7, <1>9, <1>10, <1>11

-----------------------------------------------------------------------------
(* The histories: mac-sequence.c.                                           *)

Entry == [sender : Other \cup {Sender}, seqno : Nat, aged : BOOLEAN]

\* A sender has one entry at most.
OneEach(h) ==
    /\ h \in Seq(Entry)
    /\ \A i, j \in 1 .. Len(h) : h[i].sender = h[j].sender => i = j

\* Where the i-th entry behind the new one was before.
Before(gone, i) == IF i < gone THEN i ELSE i + 1

\* The sequence h without the entry at "gone".
LEMMA Spliced ==
    ASSUME NEW S, NEW h \in Seq(S), NEW gone \in 1 .. Len(h)
    PROVE  LET kept == SubSeq(h, 1, gone - 1) \o SubSeq(h, gone + 1, Len(h))
           IN  /\ kept \in Seq(S) /\ Len(kept) = Len(h) - 1
               /\ \A i \in 1 .. Len(h) - 1 : kept[i] = h[Before(gone, i)]
<1> DEFINE a == SubSeq(h, 1, gone - 1)
           b == SubSeq(h, gone + 1, Len(h))
           kept == a \o b
<1>1. Len(h) \in Nat /\ gone \in Nat /\ gone > 0 /\ gone <= Len(h)
  BY LenProperties
<1>2. a \in Seq(S) /\ Len(a) = gone - 1 /\ \A i \in 1 .. gone - 1 : a[i] = h[i]
  <2>1. 1 \in 1 .. Len(h) + 1 /\ gone - 1 \in 1 - 1 .. Len(h)
    BY <1>1
  <2>2. /\ a \in Seq(S) /\ Len(a) = IF 1 <= gone - 1 THEN gone - 1 - 1 + 1 ELSE 0
        /\ \A i \in 1 .. gone - 1 - 1 + 1 : a[i] = h[1 + i - 1]
    BY <2>1, SubSeqProperties
  <2> HIDE DEF a
  <2>3. Len(a) = gone - 1
    BY <1>1, <2>2
  <2>4. gone - 1 - 1 + 1 = gone - 1 /\ \A i \in 1 .. gone - 1 : 1 + i - 1 = i
    BY <1>1
  <2> QED
    BY <2>2, <2>3, <2>4
<1>3. b \in Seq(S) /\ Len(b) = Len(h) - gone /\ \A i \in 1 .. Len(h) - gone : b[i] = h[gone + i]
  <2>1. gone + 1 \in 1 .. Len(h) + 1 /\ Len(h) \in gone + 1 - 1 .. Len(h)
    BY <1>1
  <2>2. /\ b \in Seq(S) /\ Len(b) = IF gone + 1 <= Len(h) THEN Len(h) - (gone + 1) + 1 ELSE 0
        /\ \A i \in 1 .. Len(h) - (gone + 1) + 1 : b[i] = h[gone + 1 + i - 1]
    BY <2>1, SubSeqProperties
  <2> HIDE DEF b
  <2>3. Len(b) = Len(h) - gone
    BY <1>1, <2>2
  <2>4. Len(h) - (gone + 1) + 1 = Len(h) - gone /\ \A i \in 1 .. Len(h) - gone : gone + 1 + i - 1 = gone + i
    BY <1>1
  <2> QED
    BY <2>2, <2>3, <2>4
<1>4. /\ kept \in Seq(S) /\ Len(kept) = Len(a) + Len(b)
      /\ \A i \in 1 .. Len(a) + Len(b) : kept[i] = IF i <= Len(a) THEN a[i] ELSE b[i - Len(a)]
  <2> HIDE DEF a, b
  <2> QED
    BY <1>2, <1>3, ConcatProperties
<1> HIDE DEF a, b, kept
<1>5. ASSUME NEW i \in 1 .. Len(h) - 1 PROVE kept[i] = h[Before(gone, i)]
  <2>1. i \in Nat /\ i \in 1 .. Len(a) + Len(b)
    BY <1>1, <1>2, <1>3
  <2>2. CASE i < gone
    <3>1. i <= Len(a) /\ i \in 1 .. gone - 1
      BY <1>1, <1>2, <2>1, <2>2
    <3> QED
      BY <1>2, <1>4, <2>1, <2>2, <3>1 DEF Before
  <2>3. CASE ~(i < gone)
    <3>1. ~(i <= Len(a)) /\ i - Len(a) \in 1 .. Len(h) - gone /\ gone + (i - Len(a)) = i + 1
      BY <1>1, <1>2, <1>3, <2>1, <2>3
    <3> QED
      BY <1>3, <1>4, <2>1, <2>3, <3>1 DEF Before
  <2> QED
    BY <2>2, <2>3
<1>6. Len(kept) = Len(h) - 1
  BY <1>1, <1>2, <1>3, <1>4
<1> QED
  BY <1>4, <1>5, <1>6 DEF a, b, kept

\* mac_sequence_register_seqno: the new entry comes first, the others are old ones, of other senders,
\* and none of these is lost if the sender has an entry or there is room.
LEMMA Registered ==
    ASSUME NEW h, OneEach(h), NEW s \in Other \cup {Sender}, NEW n \in Nat
    PROVE  LET r == register_seqno(h, s, n)
           IN  /\ OneEach(r)
               /\ 1 \in 1 .. Len(r) /\ r[1] = [sender |-> s, seqno |-> n, aged |-> FALSE]
               /\ \A i \in 1 .. Len(r) : i # 1 => r[i].sender # s /\ \E j \in 1 .. Len(h) : r[i] = h[j]
               /\ (\E j \in 1 .. Len(h) : h[j].sender = s) \/ Len(h) < MaxSeqnos =>
                     \A j \in 1 .. Len(h) : h[j].sender # s => \E i \in 1 .. Len(r) : r[i] = h[j]
<1> DEFINE mine == {i \in 1 .. Len(h) : h[i].sender = s}
           gone == IF mine # {} THEN Min(mine) ELSE MaxSeqnos
           kept == SubSeq(h, 1, gone - 1) \o SubSeq(h, gone + 1, Len(h))
           rest == IF gone > Len(h) THEN h ELSE kept
           e == [sender |-> s, seqno |-> n, aged |-> FALSE]
           r == <<e>> \o rest
<1>1. h \in Seq(Entry) /\ Len(h) \in Nat /\ \A i, j \in 1 .. Len(h) : h[i].sender = h[j].sender => i = j
  BY LenProperties DEF OneEach
<1>2. \A i \in 1 .. Len(h) : h[i] \in Entry
  BY <1>1, ElementOfSeq
<1>3. \/ mine = {} /\ gone = MaxSeqnos
      \/ gone \in 1 .. Len(h) /\ mine = {gone}
  <2>1. CASE mine = {}
    BY <2>1
  <2>2. CASE mine # {}
    <3>1. PICK g \in 1 .. Len(h) : g \in mine
      BY <2>2
    <3>2. mine = {g}
      BY <1>1, <3>1
    <3>3. Min({g}) = g
      BY <1>1 DEF Min
    <3> QED
      BY <2>2, <3>2, <3>3
  <2> QED
    BY <2>1, <2>2
<1>4. gone \in Nat /\ gone > 0
  BY <1>1, <1>3, LinkAssumption
<1>5. register_seqno(h, s, n) = r
  BY DEF register_seqno
<1>6. \A i \in 1 .. Len(h) : i # gone => (mine # {} => h[i].sender # s)
  <2> SUFFICES ASSUME NEW i \in 1 .. Len(h), i # gone, mine # {} PROVE h[i].sender # s
    OBVIOUS
  <2>1. i \notin mine
    <3> HIDE DEF gone, mine
    <3> QED
      BY <1>3
  <2> QED
    BY <2>1
<1>7. mine = {} => \A i \in 1 .. Len(h) : h[i].sender # s
  OBVIOUS
<1>8. e \in Entry /\ e.sender = s
  BY DEF Entry
<1>9. /\ rest \in Seq(Entry) /\ Len(rest) = IF gone > Len(h) THEN Len(h) ELSE Len(h) - 1
      /\ \A i \in 1 .. Len(rest) : rest[i] = h[Before(gone, i)]
  <2> HIDE DEF gone
  <2>1. CASE gone > Len(h)
    <3>1. \A i \in 1 .. Len(h) : Before(gone, i) = i
      BY <1>1, <1>4, <2>1 DEF Before
    <3> QED
      BY <1>1, <2>1, <3>1
  <2>2. CASE ~(gone > Len(h))
    <3>1. gone \in 1 .. Len(h)
      BY <1>1, <1>4, <2>2
    <3>2. /\ kept \in Seq(Entry) /\ Len(kept) = Len(h) - 1
          /\ \A i \in 1 .. Len(h) - 1 : kept[i] = h[Before(gone, i)]
      BY <1>1, <3>1, Spliced
    <3> HIDE DEF kept
    <3> QED
      BY <2>2, <3>2
  <2> QED
    BY <2>1, <2>2
<1> HIDE DEF gone, kept, rest, e
<1>10. Len(rest) \in Nat
  BY <1>9, LenProperties
<1>11. ASSUME NEW i \in 1 .. Len(rest) PROVE Before(gone, i) \in 1 .. Len(h) /\ Before(gone, i) # gone
  BY <1>1, <1>4, <1>9 DEF Before
<1>12. ASSUME NEW i \in 1 .. Len(rest), NEW j \in 1 .. Len(rest), Before(gone, i) = Before(gone, j) PROVE i = j
  BY <1>4, <1>10, <1>12 DEF Before
<1>13. ASSUME NEW j \in 1 .. Len(h), j # gone PROVE \E i \in 1 .. Len(rest) : Before(gone, i) = j
  <2>1. CASE j < gone
    BY <1>1, <1>4, <1>9, <2>1 DEF Before
  <2>2. CASE ~(j < gone)
    <3>1. j - 1 \in 1 .. Len(rest) /\ Before(gone, j - 1) = j
      BY <1>1, <1>4, <1>9, <1>13, <2>2 DEF Before
    <3> QED
      BY <3>1
  <2> QED
    BY <2>1, <2>2
<1>14. \A i \in 1 .. Len(rest) : rest[i].sender # s
  BY <1>6, <1>7, <1>9, <1>11
<1>15. <<e>> \in Seq(Entry) /\ Len(<<e>>) = 1 /\ <<e>>[1] = e
  BY <1>8
<1>16. /\ r \in Seq(Entry) /\ Len(r) = 1 + Len(rest)
       /\ \A i \in 1 .. 1 + Len(rest) : r[i] = IF i <= 1 THEN <<e>>[i] ELSE rest[i - 1]
  BY <1>9, <1>15, ConcatProperties
<1> HIDE DEF r
<1>17. \A i \in 1 .. Len(r) : \/ i = 1 /\ r[i] = e
                              \/ i # 1 /\ i - 1 \in 1 .. Len(rest) /\ r[i] = rest[i - 1]
  <2> SUFFICES ASSUME NEW i \in 1 .. Len(r)
               PROVE  \/ i = 1 /\ r[i] = e
                      \/ i # 1 /\ i - 1 \in 1 .. Len(rest) /\ r[i] = rest[i - 1]
    OBVIOUS
  <2>1. i \in 1 .. 1 + Len(rest) /\ (i = 1 \/ (i # 1 /\ i - 1 \in 1 .. Len(rest) /\ ~(i <= 1)))
    BY <1>10, <1>16
  <2> QED
    BY <1>15, <1>16, <2>1
<1>18. \A i \in 1 .. Len(rest) : i + 1 \in 1 .. Len(r) /\ i + 1 # 1 /\ r[i + 1] = rest[i]
  <2> SUFFICES ASSUME NEW i \in 1 .. Len(rest)
               PROVE  i + 1 \in 1 .. Len(r) /\ i + 1 # 1 /\ r[i + 1] = rest[i]
    OBVIOUS
  <2>1. i + 1 \in 1 .. 1 + Len(rest) /\ ~(i + 1 <= 1) /\ i + 1 - 1 = i
    BY <1>10
  <2> QED
    BY <1>16, <2>1
<1>19. OneEach(r)
  <2> SUFFICES ASSUME NEW i \in 1 .. Len(r), NEW j \in 1 .. Len(r), r[i].sender = r[j].sender
               PROVE  i = j
    BY <1>16 DEF OneEach
  <2>1. CASE i = 1 \/ j = 1
    BY <1>8, <1>14, <1>17, <2>1
  <2>2. CASE i # 1 /\ j # 1
    <3>1. /\ i - 1 \in 1 .. Len(rest) /\ j - 1 \in 1 .. Len(rest)
          /\ rest[i - 1].sender = rest[j - 1].sender
      BY <1>17, <2>2
    <3>2. Before(gone, i - 1) = Before(gone, j - 1)
      BY <1>1, <1>9, <1>11, <3>1
    <3>3. i - 1 = j - 1
      BY <1>12, <3>1, <3>2
    <3> QED
      BY <1>10, <1>16, <3>3
  <2> QED
    BY <2>1, <2>2
<1>20. 1 \in 1 .. Len(r) /\ r[1] = e
  <2>1. 1 \in 1 .. Len(r)
    BY <1>10, <1>16
  <2> QED
    BY <1>17, <2>1
<1>21. \A i \in 1 .. Len(r) : i # 1 => r[i].sender # s /\ \E j \in 1 .. Len(h) : r[i] = h[j]
  <2> SUFFICES ASSUME NEW i \in 1 .. Len(r), i # 1
               PROVE  r[i].sender # s /\ \E j \in 1 .. Len(h) : r[i] = h[j]
    OBVIOUS
  <2>1. i - 1 \in 1 .. Len(rest) /\ r[i] = rest[i - 1]
    BY <1>17
  <2>2. Before(gone, i - 1) \in 1 .. Len(h) /\ rest[i - 1] = h[Before(gone, i - 1)]
    BY <1>9, <1>11, <2>1
  <2> QED
    BY <1>14, <2>1, <2>2
<1>22. ASSUME (\E j \in 1 .. Len(h) : h[j].sender = s) \/ Len(h) < MaxSeqnos,
              NEW j \in 1 .. Len(h), h[j].sender # s
       PROVE  \E i \in 1 .. Len(r) : r[i] = h[j]
  <2>1. j # gone
    <3>1. CASE mine = {}
      <4>1. gone = MaxSeqnos /\ Len(h) < MaxSeqnos
        BY <1>1, <1>3, <1>22, <3>1
      <4> QED
        BY <1>1, <1>4, <4>1
    <3>2. CASE mine # {}
      BY <1>3, <1>22, <3>2
    <3> QED
      BY <3>1, <3>2
  <2>2. PICK i \in 1 .. Len(rest) : Before(gone, i) = j
    BY <1>13, <2>1
  <2> QED
    BY <1>9, <1>18, <2>2
<1> QED
  BY <1>5, <1>19, <1>20, <1>21, <1>22 DEF e

-----------------------------------------------------------------------------
(* What is queued and what has been delivered, in the order of the numbers. *)

Elems(s) == {s[i] : i \in 1 .. Len(s)}
Elder(n, m, p, q) == BackFrom(n, m[p].seqno) >= BackFrom(n, m[q].seqno)
Sorted(n, m, s) == \A i, j \in 1 .. Len(s) : i <= j => Elder(n, m, s[i], s[j])

InTurn ==
    /\ \A a \in Addr : Sorted(Front, meta, packet_queue[a])
    /\ delivered \in [Receiver -> Seq(Packet)]
    /\ \A r \in Receiver : \A p \in Elems(delivered[r]) :
          /\ p \in HandedSet /\ attempts[p] > 0
          /\ \A q \in Elems(packet_queue[meta[p].addr]) : Elder(Front, meta, p, q)
    /\ \A r \in Receiver : \A i, j \in 1 .. Len(delivered[r]) :
          i <= j /\ meta[delivered[r][i]].addr = meta[delivered[r][j]].addr
             => Elder(Front, meta, delivered[r][i], delivered[r][j])

\* What the sender's part of a step leaves as it was.
Orderly ==
    /\ \A p \in HandedSet : p \in HandedSet' /\ meta'[p] = meta[p]
    /\ \A p, q \in HandedSet : Elder(Front, meta, p, q) => Elder(Front', meta', p, q)
    /\ \A p \in Packet : attempts'[p] \in Nat /\ attempts'[p] >= attempts[p]
    /\ \A a \in Addr : Sorted(Front', meta', packet_queue'[a])
    /\ \A a \in Addr : \A q \in Elems(packet_queue'[a]) :
          q \in Elems(packet_queue[a]) \/ \A p \in HandedSet : Elder(Front', meta', p, q)

\* The elements of a sequence that grows or loses its head.
LEMMA ElemsAre ==
    ASSUME NEW S, NEW s \in Seq(S)
    PROVE  /\ Len(s) \in Nat /\ \A i \in 1 .. Len(s) : s[i] \in S /\ s[i] \in Elems(s)
           /\ s # <<>> => /\ 1 \in 1 .. Len(s) /\ Head(s) = s[1]
                          /\ Tail(s) \in Seq(S) /\ Len(Tail(s)) = Len(s) - 1
                          /\ \A i \in 1 .. Len(Tail(s)) : i + 1 \in 1 .. Len(s) /\ Tail(s)[i] = s[i + 1]
           /\ \A e \in S : /\ Append(s, e) \in Seq(S) /\ Len(Append(s, e)) = Len(s) + 1
                           /\ Append(s, e)[Len(s) + 1] = e
                           /\ \A i \in 1 .. Len(s) : Append(s, e)[i] = s[i]
                           /\ Elems(Append(s, e)) = Elems(s) \cup {e}
<1>1. Len(s) \in Nat /\ \A i \in 1 .. Len(s) : s[i] \in S /\ s[i] \in Elems(s)
  BY LenProperties, ElementOfSeq DEF Elems
<1>2. ASSUME s # <<>>
      PROVE  /\ 1 \in 1 .. Len(s) /\ Head(s) = s[1] /\ Tail(s) \in Seq(S)
             /\ Len(Tail(s)) = Len(s) - 1
             /\ \A i \in 1 .. Len(Tail(s)) : i + 1 \in 1 .. Len(s) /\ Tail(s)[i] = s[i + 1]
  <2>1. Len(s) # 0 /\ Head(s) = s[1]
    BY <1>2, EmptySeq
  <2>2. /\ Tail(s) \in Seq(S) /\ Len(Tail(s)) = Len(s) - 1
        /\ \A i \in 1 .. Len(Tail(s)) : Tail(s)[i] = s[i + 1]
    BY <1>2, HeadTailProperties
  <2> QED
    BY <1>1, <2>1, <2>2
<1>3. ASSUME NEW e \in S
      PROVE  /\ Append(s, e) \in Seq(S) /\ Len(Append(s, e)) = Len(s) + 1
             /\ Append(s, e)[Len(s) + 1] = e
             /\ \A i \in 1 .. Len(s) : Append(s, e)[i] = s[i]
             /\ Elems(Append(s, e)) = Elems(s) \cup {e}
  <2> DEFINE t == Append(s, e)
  <2>1. /\ t \in Seq(S) /\ Len(t) = Len(s) + 1 /\ t[Len(s) + 1] = e
        /\ \A i \in 1 .. Len(s) : t[i] = s[i]
    BY AppendProperties
  <2> HIDE DEF t
  <2>2. \A i : i \in 1 .. Len(t) <=> i \in 1 .. Len(s) \/ i = Len(s) + 1
    BY <1>1, <2>1
  <2>3. Elems(t) = Elems(s) \cup {e}
    BY <2>1, <2>2 DEF Elems
  <2> QED
    BY <2>1, <2>3 DEF t
<1> QED
  BY <1>1, <1>2, <1>3

\* What is queued has been handed over, for its address.
LEMMA WaitingIs ==
    ASSUME CountInv
    PROVE  \A a \in Addr : /\ packet_queue[a] \in Seq(Packet)
                           /\ \A q \in Elems(packet_queue[a]) :
                                 q \in HandedSet /\ meta[q].addr = a /\ q \in Packet
<1>1. \A a \in Addr : packet_queue[a] \in Seq(Packet)
  BY DEF CountInv, PacketInv, QueueInv, QueueType
<1>2. \A a \in Addr : \A i \in 1 .. Len(packet_queue[a]) : packet_queue[a][i] \in Packet
  BY <1>1, ElemsAre
<1> QED
  BY <1>1, <1>2 DEF CountInv, PacketInv, AtItsAddress, Elems, HandedSet

\* A packet that gets a number is the youngest.
LEMMA GivenOrderly ==
    ASSUME EnoughNumbers, CountInv, Numbered, InTurn, NEW p \in Packet, NEW a \in Addr, Given(p, a)
    PROVE  Orderly /\ Numbered'
<1>1. /\ HandedSet' = HandedSet \cup {p} /\ p \notin HandedSet
      /\ \A q \in HandedSet : meta'[q] = meta[q] /\ Back(q)' = Back(q) + 1 /\ Back(q) \in Nat /\ Back(q) > 0
      /\ Back(p)' = 1 /\ Numbered'
  BY NumberGiven
<1>2. \A q : Back(q)' = BackFrom(Front', meta'[q].seqno) /\ Back(q) = BackFrom(Front, meta[q].seqno)
  BY DEF Back
<1>3. \A q, u \in HandedSet : Elder(Front, meta, q, u) => Elder(Front', meta', q, u)
  <2> SUFFICES ASSUME NEW q \in HandedSet, NEW u \in HandedSet, Elder(Front, meta, q, u)
               PROVE  Elder(Front', meta', q, u)
    OBVIOUS
  <2>1. Back(q) >= Back(u)
    BY <1>2 DEF Elder
  <2>2. Back(q)' >= Back(u)'
    BY <1>1, <2>1
  <2> QED
    BY <1>2, <2>2 DEF Elder
<1>4. \A q \in HandedSet \cup {p} : Elder(Front', meta', q, p)
  <2> SUFFICES ASSUME NEW q \in HandedSet \cup {p} PROVE Elder(Front', meta', q, p)
    OBVIOUS
  <2>1. Back(q)' >= Back(p)'
    BY <1>1
  <2> QED
    BY <1>2, <2>1 DEF Elder
<1>5. /\ packet_queue \in [Addr -> Seq(Packet)] /\ attempts' = attempts
      /\ packet_queue' = packet_queue \/ packet_queue' = [packet_queue EXCEPT ![a] = Append(@, p)]
  BY DEF Given, CountInv, PacketInv, QueueInv, QueueType
<1>6. ASSUME NEW b \in Addr
      PROVE  /\ Sorted(Front', meta', packet_queue'[b])
             /\ \A q \in Elems(packet_queue'[b]) :
                   q \in Elems(packet_queue[b]) \/ \A u \in HandedSet : Elder(Front', meta', u, q)
  <2> DEFINE s == packet_queue[b]
  <2>1. s \in Seq(Packet) /\ Sorted(Front, meta, s) /\ \A q \in Elems(s) : q \in HandedSet
    BY WaitingIs DEF InTurn
  <2>2. packet_queue'[b] = s \/ packet_queue'[b] = Append(s, p)
    BY <1>5
  <2> HIDE DEF s
  <2>3. Len(s) \in Nat /\ \A i \in 1 .. Len(s) : s[i] \in HandedSet
    BY <2>1, ElemsAre
  <2>4. Sorted(Front', meta', s)
    BY <1>3, <2>1, <2>3 DEF Sorted
  <2> DEFINE t == Append(s, p)
  <2>5. /\ Len(t) = Len(s) + 1 /\ t[Len(s) + 1] = p /\ Elems(t) = Elems(s) \cup {p}
        /\ \A i \in 1 .. Len(s) : t[i] = s[i]
    BY <2>1, ElemsAre
  <2> HIDE DEF t
  <2>6. Sorted(Front', meta', t)
    <3> SUFFICES ASSUME NEW i \in 1 .. Len(t), NEW j \in 1 .. Len(t), i <= j
                 PROVE  Elder(Front', meta', t[i], t[j])
      BY DEF Sorted
    <3>1. /\ i \in 1 .. Len(s) \/ i = Len(s) + 1
          /\ j = Len(s) + 1 \/ (i \in 1 .. Len(s) /\ j \in 1 .. Len(s))
      BY <2>3, <2>5
    <3> QED
      BY <1>4, <2>3, <2>4, <2>5, <3>1 DEF Sorted
  <2> QED
    BY <1>4, <2>2, <2>4, <2>5, <2>6 DEF s, t
<1>7. \A q \in Packet : attempts'[q] \in Nat /\ attempts'[q] >= attempts[q]
  BY <1>5 DEF CountInv, PacketInv, PacketType
<1> QED
  BY <1>1, <1>3, <1>6, <1>7 DEF Orderly

\* A step that gives out no number, and after which each queue is as it was or without its head.
LEMMA ShrinkOrderly ==
    ASSUME CountInv, Numbered, InTurn, seqno' = seqno, meta' = meta,
           \A p \in Packet : attempts'[p] \in Nat /\ attempts'[p] >= attempts[p],
           \A b \in Addr : \/ packet_queue'[b] = packet_queue[b]
                           \/ packet_queue[b] # <<>> /\ packet_queue'[b] = Tail(packet_queue[b])
    PROVE  /\ Orderly /\ Numbered'
           /\ \A b \in Addr : Elems(packet_queue'[b]) \subseteq Elems(packet_queue[b])
<1>1. Front' = Front /\ HandedSet' = HandedSet
  BY DEF Front, HandedSet, Handed
<1>2. Numbered'
  BY <1>1 DEF Numbered, Back
<1>3. ASSUME NEW b \in Addr
      PROVE  /\ Sorted(Front, meta, packet_queue'[b])
             /\ Elems(packet_queue'[b]) \subseteq Elems(packet_queue[b])
  <2> DEFINE s == packet_queue[b]
  <2>1. s \in Seq(Packet) /\ Sorted(Front, meta, s)
    BY WaitingIs DEF InTurn
  <2>2. packet_queue'[b] = s \/ (s # <<>> /\ packet_queue'[b] = Tail(s))
    OBVIOUS
  <2> HIDE DEF s
  <2>3. CASE s # <<>> /\ packet_queue'[b] = Tail(s)
    <3> DEFINE t == Tail(s)
    <3>1. /\ t \in Seq(Packet) /\ Len(t) \in Nat
          /\ \A i \in 1 .. Len(t) : i + 1 \in 1 .. Len(s) /\ t[i] = s[i + 1]
      BY <2>1, <2>3, ElemsAre
    <3> HIDE DEF t
    <3>2. Sorted(Front, meta, t)
      <4> SUFFICES ASSUME NEW i \in 1 .. Len(t), NEW j \in 1 .. Len(t), i <= j
                   PROVE  Elder(Front, meta, t[i], t[j])
        BY DEF Sorted
      <4>1. i + 1 <= j + 1
        BY <3>1
      <4> QED
        BY <2>1, <3>1, <4>1 DEF Sorted
    <3>3. Elems(t) \subseteq Elems(s)
      BY <3>1 DEF Elems
    <3> QED
      BY <2>3, <3>2, <3>3 DEF t, s
  <2> QED
    BY <2>1, <2>2, <2>3 DEF s
<1>4. Orderly
  BY <1>1, <1>3 DEF Orderly
<1> QED
  BY <1>2, <1>3, <1>4

\* What the receivers have stays in order, also when the head of a queue is delivered.
LEMMA InTurnStep ==
    ASSUME CountInv, CountInv', InTurn, Orderly, delivered' \in [Receiver -> Seq(Packet)],
           \A r \in Receiver :
              \/ delivered'[r] = delivered[r]
              \/ \E a \in Addr : LET p == Head(packet_queue[a])
                                 IN  /\ packet_queue[a] # <<>> /\ attempts'[p] > 0
                                     /\ delivered'[r] = Append(delivered[r], p)
    PROVE  InTurn'
<1>1. /\ \A p \in HandedSet : p \in HandedSet' /\ meta'[p] = meta[p] /\ p \in Packet
      /\ \A p, q \in HandedSet : Elder(Front, meta, p, q) => Elder(Front', meta', p, q)
      /\ \A p \in Packet : attempts'[p] \in Nat /\ attempts'[p] >= attempts[p]
      /\ \A a \in Addr : \A q \in Elems(packet_queue'[a]) :
            q \in Elems(packet_queue[a]) \/ \A p \in HandedSet : Elder(Front', meta', p, q)
  BY DEF Orderly, HandedSet
<1>2. \A p \in HandedSet : meta[p].addr \in Addr /\ attempts[p] \in Nat
  BY DEF HandedSet, CountInv, PacketInv, PacketType, Meta
<1> DEFINE Fine(p) ==
             /\ p \in HandedSet' /\ attempts'[p] > 0
             /\ \A q \in Elems(packet_queue'[meta'[p].addr]) : Elder(Front', meta', p, q)
           Ordered(s) ==
             \A i, j \in 1 .. Len(s) : i <= j /\ meta'[s[i]].addr = meta'[s[j]].addr
                                          => Elder(Front', meta', s[i], s[j])
<1>3. ASSUME NEW p \in HandedSet, attempts'[p] > 0,
             \A q \in Elems(packet_queue[meta[p].addr]) : Elder(Front, meta, p, q)
      PROVE  Fine(p)
  <2>1. \A q \in Elems(packet_queue[meta[p].addr]) : q \in HandedSet
    BY <1>2, WaitingIs
  <2> QED
    BY <1>1, <1>2, <1>3, <2>1
<1>4. ASSUME NEW r \in Receiver
      PROVE  (\A p \in Elems(delivered'[r]) : Fine(p)) /\ Ordered(delivered'[r])
  <2> DEFINE s == delivered[r]
  <2>1. /\ s \in Seq(Packet)
        /\ \A p \in Elems(s) : /\ p \in HandedSet /\ attempts[p] > 0
                               /\ \A q \in Elems(packet_queue[meta[p].addr]) : Elder(Front, meta, p, q)
        /\ \A i, j \in 1 .. Len(s) : i <= j /\ meta[s[i]].addr = meta[s[j]].addr
                                        => Elder(Front, meta, s[i], s[j])
    BY DEF InTurn
  <2>2. Len(s) \in Nat /\ \A i \in 1 .. Len(s) : s[i] \in Elems(s) /\ s[i] \in HandedSet
    BY <2>1, ElemsAre
  <2>3. \A p \in Elems(s) : Fine(p)
    <3> SUFFICES ASSUME NEW p \in Elems(s) PROVE Fine(p)
      OBVIOUS
    <3>1. p \in HandedSet /\ attempts[p] > 0
      BY <2>1
    <3>2. attempts'[p] > 0
      BY <1>1, <1>2, <3>1
    <3> HIDE DEF Fine, s
    <3> QED
      BY <1>3, <2>1, <3>1, <3>2
  <2>4. Ordered(s)
    BY <1>1, <2>1, <2>2
  <2>5. CASE delivered'[r] = s
    BY <2>3, <2>4, <2>5
  <2>6. ASSUME NEW a \in Addr, packet_queue[a] # <<>>, attempts'[Head(packet_queue[a])] > 0,
               delivered'[r] = Append(s, Head(packet_queue[a]))
        PROVE  (\A p \in Elems(delivered'[r]) : Fine(p)) /\ Ordered(delivered'[r])
    <3> DEFINE h == Head(packet_queue[a])
               t == Append(s, h)
    <3>1. /\ packet_queue[a] \in Seq(Packet) /\ h = packet_queue[a][1] /\ 1 \in 1 .. Len(packet_queue[a])
          /\ Len(packet_queue[a]) \in Nat
          /\ h \in Elems(packet_queue[a]) /\ h \in HandedSet /\ h \in Packet /\ meta[h].addr = a
      BY <2>6, WaitingIs, ElemsAre
    <3>2. \A q \in Elems(packet_queue[a]) : Elder(Front, meta, h, q)
      <4>1. \A i \in 1 .. Len(packet_queue[a]) : Elder(Front, meta, packet_queue[a][1], packet_queue[a][i])
        BY <3>1 DEF InTurn, Sorted
      <4> QED
        BY <3>1, <4>1 DEF Elems
    <3> HIDE DEF Fine, h, s
    <3>3. Fine(h)
      BY <1>3, <2>6, <3>1, <3>2 DEF h
    <3>4. /\ Len(t) = Len(s) + 1 /\ t[Len(s) + 1] = h /\ Elems(t) = Elems(s) \cup {h}
          /\ \A i \in 1 .. Len(s) : t[i] = s[i]
      BY <2>1, <3>1, ElemsAre
    <3> HIDE DEF t
    <3>5. ASSUME NEW i \in 1 .. Len(t), NEW j \in 1 .. Len(t), i <= j,
                 meta'[t[i]].addr = meta'[t[j]].addr
          PROVE  Elder(Front', meta', t[i], t[j])
      <4>1. \/ i \in 1 .. Len(s) /\ j \in 1 .. Len(s)
            \/ i \in 1 .. Len(s) /\ j = Len(s) + 1
            \/ i = Len(s) + 1 /\ j = Len(s) + 1
        BY <2>2, <3>4, <3>5
      <4>2. CASE i \in 1 .. Len(s) /\ j \in 1 .. Len(s)
        BY <2>4, <3>4, <3>5, <4>2
      <4>3. CASE i \in 1 .. Len(s) /\ j = Len(s) + 1
        <5>1. t[i] = s[i] /\ t[j] = h /\ s[i] \in Elems(s) /\ s[i] \in HandedSet
          BY <2>2, <3>4, <4>3
        <5>2. meta[s[i]].addr = a
          BY <1>1, <3>1, <3>5, <5>1
        <5>3. Elder(Front, meta, s[i], h)
          BY <2>1, <3>1, <5>1, <5>2
        <5> QED
          BY <1>1, <3>1, <5>1, <5>3
      <4>4. CASE i = Len(s) + 1 /\ j = Len(s) + 1
        BY <1>1, <3>1, <3>2, <3>4, <4>4
      <4> QED
        BY <4>1, <4>2, <4>3, <4>4
    <3> QED
      BY <2>3, <2>6, <3>3, <3>4, <3>5 DEF t, h
  <2> QED
    BY <2>5, <2>6 DEF s
<1> QED
  BY <1>4 DEF InTurn, Orderly

-----------------------------------------------------------------------------
(* The numbers in the histories, and the acknowledgements.                  *)

Recorded ==
    /\ received_seqnos \in [Receiver -> Seq(Entry)]
    /\ \A r \in Receiver :
          /\ OneEach(received_seqnos[r])
          /\ \A i \in 1 .. Len(received_seqnos[r]) :
                received_seqnos[r][i].sender = Sender =>
                   \E p \in Elems(delivered[r]) : meta[p].seqno = received_seqnos[r][i].seqno

Succeeded(p, rep) == \E i \in 1 .. Len(rep[p]) : rep[p][i].status = "OK"

Acknowledged ==
    \A p \in Packet :
        meta[p].addr # Broadcast /\ Succeeded(p, reports) /\ p \notin mistaken
            => p \in Elems(delivered[meta[p].addr])

LinkInv == CountInv /\ Numbered /\ InTurn /\ Recorded /\ Acknowledged

\* What a frame does to a receiver: nothing, or its packet is delivered and its number registered.
Repeats(r, n) == is_duplicate(received_seqnos[r], Sender, n)

Takes(r, p) ==
    /\ ~Repeats(r, meta[p].seqno)
    /\ delivered'[r] = Append(delivered[r], p)
    /\ received_seqnos'[r] = register_seqno(received_seqnos[r], Sender, meta[p].seqno)

Ignores(r) == delivered'[r] = delivered[r] /\ received_seqnos'[r] = received_seqnos[r]

LEMMA HeardIs ==
    ASSUME NEW p, NEW heard \in SUBSET Receiver, input_packet(heard, p)
    PROVE  /\ \A r \in Receiver : \/ r \in heard /\ Takes(r, p)
                                  \/ Ignores(r) /\ (r \in heard => Repeats(r, meta[p].seqno))
           /\ DOMAIN delivered' = Receiver /\ DOMAIN received_seqnos' = Receiver
           /\ delivered' = [r \in Receiver |-> delivered'[r]]
           /\ received_seqnos' = [r \in Receiver |-> received_seqnos'[r]]
BY DEF input_packet, Takes, Ignores, Repeats

\* A step of the link, by what it does at both ends.
FrameOf(a, status) ==
    /\ Served(a, status) /\ status \in Status
    /\ delivered' = [r \in Receiver |-> delivered'[r]]
    /\ received_seqnos' = [r \in Receiver |-> received_seqnos'[r]]
    /\ \A r \in Receiver : Takes(r, Head(packet_queue[a])) \/ Ignores(r)
    /\ mistaken \subseteq mistaken' /\ evicted' = evicted
    /\ status = "OK" /\ a # Broadcast =>
          \/ Takes(a, Head(packet_queue[a])) \/ Repeats(a, meta[Head(packet_queue[a])].seqno)
          \/ Head(packet_queue[a]) \in mistaken'

\* The number of another node pushes the sender's out of the history.
PushedOut(r) == Remembered(received_seqnos[r]) /\ ~Remembered(received_seqnos'[r])

OtherOf(r, o) ==
    /\ received_seqnos' = [received_seqnos EXCEPT ![r] = register_seqno(@, o, 1)]
    /\ evicted' = IF PushedOut(r) THEN [evicted EXCEPT ![r] = @ \cup {Len(delivered[r])}] ELSE evicted
    /\ UNCHANGED <<csmaVars, delivered, mistaken>>

LinkStep ==
    \/ /\ \E p \in Packet, a \in Addr : Given(p, a)
       /\ UNCHANGED <<received_seqnos, delivered, mistaken, evicted>>
    \/ \E a \in Addr, status \in Status : FrameOf(a, status)
    \/ \E r \in Receiver, o \in Other : OtherOf(r, o)
    \/ Age
    \/ UNCHANGED linkVars

LEMMA LinkStepIs ==
    ASSUME LinkInv, [LinkNext]_linkVars
    PROVE  LinkStep
<1>1. CASE Send
  BY <1>1, GivenIs DEF Send, LinkStep, LinkInv
<1>2. ASSUME NEW a \in Addr, NoFrame(a) PROVE LinkStep
  <2>1. PICK status \in {"COLLISION", "ERR", "ERR_FATAL"} : transmit_from_queue(a, status)
    BY <1>2 DEF NoFrame
  <2>2. status \in Status /\ status # "OK" /\ Served(a, status)
    BY <2>1, ServedIs DEF Status, LinkInv
  <2>3. UNCHANGED <<received_seqnos, delivered, mistaken, evicted>>
    BY <1>2 DEF NoFrame
  <2>4. delivered = [r \in Receiver |-> delivered[r]] /\ received_seqnos = [r \in Receiver |-> received_seqnos[r]]
    BY DEF LinkInv, InTurn, Recorded
  <2>5. FrameOf(a, status)
    BY <2>2, <2>3, <2>4 DEF FrameOf, Ignores
  <2> QED
    BY <2>2, <2>5 DEF LinkStep
<1>3. ASSUME NEW a \in Addr, NEW acked \in BOOLEAN, NEW heard \in SUBSET Hearers(a), Frame(a, heard, acked)
      PROVE  LinkStep
  <2>1. heard \in SUBSET Receiver /\ (a # Broadcast /\ heard # {} => a \in heard /\ a \in Receiver)
    BY DEF Hearers, Receiver
  <2>2. PICK status \in Status : transmit_from_queue(a, status) /\ (status = "OK" /\ a # Broadcast => acked)
    BY <1>3 DEF Frame, Status
  <2> DEFINE p == Head(packet_queue[a])
  <2>3. /\ status = "OK" /\ a # Broadcast => (a \in heard /\ a \in Receiver) \/ p \in mistaken'
        /\ mistaken \subseteq mistaken' /\ evicted' = evicted
    BY <1>3, <2>1, <2>2 DEF Frame
  <2>4. input_packet(heard, p)
    BY <1>3 DEF Frame
  <2> HIDE DEF p
  <2>5. /\ \A r \in Receiver : \/ r \in heard /\ Takes(r, p)
                               \/ Ignores(r) /\ (r \in heard => Repeats(r, meta[p].seqno))
        /\ delivered' = [r \in Receiver |-> delivered'[r]]
        /\ received_seqnos' = [r \in Receiver |-> received_seqnos'[r]]
    BY <2>1, <2>4, HeardIs
  <2>6. Served(a, status)
    BY <2>2, ServedIs DEF LinkInv
  <2>7. FrameOf(a, status)
    BY <2>3, <2>5, <2>6 DEF FrameOf, p
  <2> QED
    BY <2>7 DEF LinkStep
<1>4. ASSUME NEW r \in Receiver, NEW o \in Other, OtherFrame(r, o, 1) PROVE LinkStep
  BY <1>4 DEF OtherFrame, OtherOf, PushedOut, LinkStep
<1> QED
  BY <1>1, <1>2, <1>3, <1>4 DEF LinkNext, LinkStep

\* The sender's part of a step of the link: order is kept, and the lists of the receivers grow by the
\* head of a queue.
LEMMA LinkOrder ==
    ASSUME EnoughNumbers, LinkInv, CountInv', LinkStep
    PROVE  Numbered' /\ Orderly /\ InTurn'
<1>1. CountInv /\ Numbered /\ InTurn
  BY DEF LinkInv
<1>2. delivered \in [Receiver -> Seq(Packet)] /\ \A p \in Packet : attempts[p] \in Nat
  BY <1>1 DEF InTurn, CountInv, PacketInv, PacketType
<1>3. ASSUME NEW p \in Packet, NEW a \in Addr, Given(p, a), UNCHANGED <<received_seqnos, delivered>>
      PROVE  Numbered' /\ Orderly /\ InTurn'
  BY <1>1, <1>2, <1>3, GivenOrderly, InTurnStep
<1>4. ASSUME NEW a \in Addr, NEW status \in Status, FrameOf(a, status)
      PROVE  Numbered' /\ Orderly /\ InTurn'
  <2> DEFINE h == Head(packet_queue[a])
  <2>1. /\ packet_queue[a] # <<>> /\ attempts' = [attempts EXCEPT ![h] = @ + 1]
        /\ UNCHANGED <<seqno, meta>>
        /\ packet_queue' = packet_queue \/ packet_queue' = [packet_queue EXCEPT ![a] = Tail(@)]
    BY <1>4 DEF FrameOf, Served
  <2>2. h \in Packet
    BY <1>1, <2>1, WaitingIs, ElemsAre
  <2> HIDE DEF h
  <2>3. attempts \in [Packet -> Nat] /\ packet_queue \in [Addr -> Seq(Packet)]
    BY <1>1 DEF CountInv, PacketInv, PacketType, QueueInv, QueueType
  <2>4. /\ \A p \in Packet : attempts'[p] \in Nat /\ attempts'[p] >= attempts[p]
        /\ attempts'[h] > 0
    BY <2>1, <2>2, <2>3
  <2>5. \A b \in Addr : \/ packet_queue'[b] = packet_queue[b]
                        \/ packet_queue[b] # <<>> /\ packet_queue'[b] = Tail(packet_queue[b])
    BY <2>1, <2>3
  <2>6. Orderly /\ Numbered'
    BY <1>1, <2>1, <2>4, <2>5, ShrinkOrderly
  <2>7. \A r \in Receiver : delivered'[r] = delivered[r] \/ delivered'[r] = Append(delivered[r], h)
    BY <1>4 DEF FrameOf, Takes, Ignores, h
  <2>8. delivered' \in [Receiver -> Seq(Packet)]
    <3>1. ASSUME NEW r \in Receiver PROVE delivered'[r] \in Seq(Packet)
      <4>1. delivered[r] \in Seq(Packet)
        BY <1>2
      <4>2. Append(delivered[r], h) \in Seq(Packet)
        BY <2>2, <4>1
      <4> QED
        BY <2>7, <4>1, <4>2
    <3> QED
      BY <1>4, <3>1 DEF FrameOf
  <2>9. \A r \in Receiver :
              \/ delivered'[r] = delivered[r]
              \/ \E b \in Addr : LET p == Head(packet_queue[b])
                                 IN  /\ packet_queue[b] # <<>> /\ attempts'[p] > 0
                                     /\ delivered'[r] = Append(delivered[r], p)
    BY <2>1, <2>4, <2>7 DEF h
  <2>10. InTurn'
    BY <1>1, <2>6, <2>8, <2>9, InTurnStep
  <2> QED
    BY <2>6, <2>10
<1>5. ASSUME UNCHANGED <<csmaVars, delivered>> PROVE Numbered' /\ Orderly /\ InTurn'
  <2>1. UNCHANGED <<seqno, meta, attempts, packet_queue, delivered>>
    BY <1>5 DEF csmaVars, queues
  <2>2. Orderly /\ Numbered'
    BY <1>1, <1>2, <2>1, ShrinkOrderly
  <2> QED
    BY <1>1, <1>2, <2>1, <2>2, InTurnStep
<1> QED
  BY <1>3, <1>4, <1>5 DEF LinkStep, OtherOf, Age, linkVars

\* The histories go on recording what was delivered.
LEMMA LinkRecords ==
    ASSUME LinkInv, Orderly, LinkStep
    PROVE  Recorded'
<1>1. Recorded /\ delivered \in [Receiver -> Seq(Packet)]
  BY DEF LinkInv, InTurn
<1>2. \A r \in Receiver : \A p \in Elems(delivered[r]) : meta'[p] = meta[p]
  BY DEF LinkInv, InTurn, Orderly
<1> DEFINE Fine(h, d) ==
             /\ OneEach(h)
             /\ \A i \in 1 .. Len(h) : h[i].sender = Sender => \E p \in Elems(d) : meta'[p].seqno = h[i].seqno
<1>3. \A r \in Receiver : Fine(received_seqnos[r], delivered[r])
  BY <1>1, <1>2 DEF Recorded
<1>4. ASSUME received_seqnos' = [r \in Receiver |-> received_seqnos'[r]],
             \A r \in Receiver : Fine(received_seqnos'[r], delivered'[r])
      PROVE  Recorded'
  <2>1. received_seqnos' \in [Receiver -> Seq(Entry)]
    BY <1>4 DEF OneEach
  <2> QED
    BY <1>4, <2>1 DEF Recorded
<1> HIDE DEF Fine
<1>5. ASSUME NEW a \in Addr, NEW status \in Status, FrameOf(a, status) PROVE Recorded'
  <2> DEFINE p == Head(packet_queue[a])
             n == meta[p].seqno
  <2>1. packet_queue[a] # <<>> /\ meta' = meta
    BY <1>5 DEF FrameOf, Served
  <2>2. p \in Packet
    BY <2>1, WaitingIs, ElemsAre DEF LinkInv
  <2>3. n \in Nat
    BY <2>2 DEF LinkInv, CountInv, PacketInv, PacketType, Meta
  <2>4. ASSUME NEW r \in Receiver PROVE Fine(received_seqnos'[r], delivered'[r])
    <3>1. CASE Ignores(r)
      BY <1>3, <3>1 DEF Ignores
    <3>2. CASE Takes(r, p)
      <4> DEFINE h == received_seqnos[r]
                 g == register_seqno(h, Sender, n)
      <4>1. OneEach(h)
        BY <1>1 DEF Recorded
      <4> HIDE DEF h, n, p
      <4>2. /\ OneEach(g)
            /\ 1 \in 1 .. Len(g) /\ g[1] = [sender |-> Sender, seqno |-> n, aged |-> FALSE]
            /\ \A i \in 1 .. Len(g) : i # 1 => g[i].sender # Sender
        BY <2>3, <4>1, Registered
      <4> HIDE DEF g
      <4>3. p \in Elems(delivered'[r])
        BY <1>1, <2>2, <3>2, ElemsAre DEF Takes
      <4>4. ASSUME NEW i \in 1 .. Len(g), g[i].sender = Sender
            PROVE  \E q \in Elems(delivered'[r]) : meta'[q].seqno = g[i].seqno
        BY <2>1, <4>2, <4>3, <4>4 DEF n
      <4>5. received_seqnos'[r] = g
        BY <3>2 DEF Takes, g, h, n
      <4> QED
        BY <4>2, <4>4, <4>5 DEF Fine
    <3> QED
      BY <1>5, <3>1, <3>2 DEF FrameOf
  <2>5. received_seqnos' = [r \in Receiver |-> received_seqnos'[r]]
    BY <1>5 DEF FrameOf
  <2> QED
    BY <1>4, <2>4, <2>5
<1>6. ASSUME NEW r \in Receiver, NEW o \in Other, delivered' = delivered,
             received_seqnos' = [received_seqnos EXCEPT ![r] = register_seqno(@, o, 1)]
      PROVE  Recorded'
  <2>1. /\ received_seqnos' = [t \in Receiver |-> received_seqnos'[t]]
        /\ \A t \in Receiver \ {r} : received_seqnos'[t] = received_seqnos[t]
        /\ received_seqnos'[r] = register_seqno(received_seqnos[r], o, 1)
    BY <1>1, <1>6 DEF Recorded
  <2> DEFINE h == received_seqnos[r]
             g == register_seqno(h, o, 1)
  <2>2. Fine(h, delivered[r]) /\ OneEach(h)
    BY <1>3 DEF Fine
  <2> HIDE DEF h
  <2>3. /\ OneEach(g)
        /\ g[1] = [sender |-> o, seqno |-> 1, aged |-> FALSE]
        /\ \A i \in 1 .. Len(g) : i # 1 => \E j \in 1 .. Len(h) : g[i] = h[j]
    BY <2>2, Registered
  <2> HIDE DEF g
  <2>4. o # Sender
    BY LinkAssumption
  <2>5. Fine(g, delivered[r])
    BY <2>2, <2>3, <2>4 DEF Fine
  <2>6. \A t \in Receiver : Fine(received_seqnos'[t], delivered'[t])
    BY <1>3, <1>6, <2>1, <2>5 DEF g, h
  <2> QED
    BY <1>4, <2>1, <2>6
<1>7. CASE Age
  <2>1. /\ delivered' = delivered
        /\ received_seqnos' = [r \in Receiver |-> [i \in DOMAIN received_seqnos[r] |->
                                [received_seqnos[r][i] EXCEPT !.aged = TRUE]]]
    BY <1>7 DEF Age
  <2>2. ASSUME NEW r \in Receiver PROVE Fine(received_seqnos'[r], delivered'[r])
    <3> DEFINE h == received_seqnos[r]
               g == [i \in 1 .. Len(h) |-> [h[i] EXCEPT !.aged = TRUE]]
    <3>1. h \in Seq(Entry) /\ DOMAIN h = 1 .. Len(h) /\ Len(h) \in Nat /\ Fine(h, delivered[r])
      BY <1>1, <1>3, LenProperties DEF Recorded
    <3>2. received_seqnos'[r] = g
      BY <2>1, <3>1
    <3> HIDE DEF h
    <3>3. \A i \in 1 .. Len(h) : h[i] \in Entry
      BY <3>1, ElemsAre
    <3>4. \A i \in 1 .. Len(h) : g[i] \in Entry /\ g[i].sender = h[i].sender /\ g[i].seqno = h[i].seqno
      BY <3>3 DEF Entry
    <3>5. g \in [1 .. Len(h) -> Entry]
      BY <3>4
    <3> HIDE DEF g
    <3>6. g \in Seq(Entry) /\ Len(g) = Len(h)
      BY <3>1, <3>5, IsASeq
    <3>7. Fine(g, delivered[r])
      BY <3>1, <3>4, <3>6 DEF Fine, OneEach
    <3> QED
      BY <2>1, <3>2, <3>7
  <2> QED
    BY <1>4, <2>1, <2>2
<1>8. ASSUME UNCHANGED <<received_seqnos, delivered>> PROVE Recorded'
  BY <1>1, <1>3, <1>4, <1>8 DEF Recorded
<1> QED
  BY <1>5, <1>6, <1>7, <1>8 DEF LinkStep, OtherOf, linkVars

\* A packet that is given a number or tried: what its callback hears.
LEMMA LinkAcknowledges ==
    ASSUME LinkInv, Orderly, LinkStep
    PROVE  Acknowledged'
<1>1. /\ delivered \in [Receiver -> Seq(Packet)] /\ reports \in [Packet -> Seq(Report)]
      /\ meta \in [Packet -> Meta]
  BY DEF LinkInv, InTurn, CountInv, PacketInv, PacketType
<1> SUFFICES ASSUME NEW p \in Packet, meta'[p].addr # Broadcast, Succeeded(p, reports'), p \notin mistaken'
             PROVE  p \in Elems(delivered'[meta'[p].addr])
  BY DEF Acknowledged
<1>2. ASSUME meta'[p] = meta[p], Succeeded(p, reports), p \notin mistaken,
             \A r \in Receiver : Elems(delivered[r]) \subseteq Elems(delivered'[r])
      PROVE  p \in Elems(delivered'[meta'[p].addr])
  <2>1. p \in Elems(delivered[meta[p].addr]) /\ meta[p].addr \in Receiver
    BY <1>1, <1>2 DEF LinkInv, Acknowledged, Receiver, Meta
  <2> QED
    BY <1>2, <2>1
<1>3. ASSUME NEW q \in Packet, NEW r \in Report,
             reports' = [reports EXCEPT ![q] = Append(@, r)]
      PROVE  Succeeded(p, reports) \/ (p = q /\ r.status = "OK")
  <2>1. CASE p # q
    BY <1>1, <1>3, <2>1 DEF Succeeded
  <2>2. CASE p = q
    <3>1. reports[p] \in Seq(Report) /\ reports'[p] = Append(reports[p], r)
      BY <1>1, <1>3, <2>2
    <3>2. /\ Len(reports[p]) \in Nat /\ Len(reports'[p]) = Len(reports[p]) + 1
          /\ reports'[p][Len(reports[p]) + 1] = r
          /\ \A i \in 1 .. Len(reports[p]) : reports'[p][i] = reports[p][i]
      BY <3>1, ElemsAre
    <3>3. PICK i \in 1 .. Len(reports'[p]) : reports'[p][i].status = "OK"
      BY DEF Succeeded
    <3>4. i \in 1 .. Len(reports[p]) \/ i = Len(reports[p]) + 1
      BY <3>2
    <3> QED
      BY <2>2, <3>2, <3>3, <3>4 DEF Succeeded
  <2> QED
    BY <2>1, <2>2
<1>4. ASSUME NEW q \in Packet, NEW a \in Addr, Given(q, a), UNCHANGED <<delivered, mistaken>>
      PROVE  p \in Elems(delivered'[meta'[p].addr])
  <2>1. Succeeded(p, reports)
    BY <1>3, <1>4 DEF Given
  <2>2. meta'[p] = meta[p]
    <3>1. CASE p = q
      <4>1. Len(reports[p]) = 0
        BY <1>4, <3>1 DEF Given, LinkInv, CountInv, PacketInv, ReportedOnce, Handed
      <4> QED
        BY <2>1, <4>1 DEF Succeeded
    <3>2. CASE p # q
      BY <1>1, <1>4, <3>2 DEF Given
    <3> QED
      BY <3>1, <3>2
  <2> QED
    BY <1>2, <1>4, <2>1, <2>2
<1>5. ASSUME NEW a \in Addr, NEW status \in Status, FrameOf(a, status)
      PROVE  p \in Elems(delivered'[meta'[p].addr])
  <2> DEFINE h == Head(packet_queue[a])
  <2>1. /\ packet_queue[a] # <<>> /\ meta' = meta
        /\ reports' = reports \/ \E r \in Report : r.status = status /\ reports' = [reports EXCEPT ![h] = Append(@, r)]
    BY <1>5 DEF FrameOf, Served
  <2>2. h \in Packet /\ h \in HandedSet /\ meta[h].addr = a
    BY <2>1, WaitingIs, ElemsAre DEF LinkInv
  <2> HIDE DEF h
  <2>3. \A r \in Receiver : Elems(delivered[r]) \subseteq Elems(delivered'[r])
    <3> SUFFICES ASSUME NEW r \in Receiver PROVE Elems(delivered[r]) \subseteq Elems(delivered'[r])
      OBVIOUS
    <3>1. delivered'[r] = delivered[r] \/ delivered'[r] = Append(delivered[r], h)
      BY <1>5 DEF FrameOf, Takes, Ignores, h
    <3>2. delivered[r] \in Seq(Packet)
      BY <1>1
    <3>3. Elems(Append(delivered[r], h)) = Elems(delivered[r]) \cup {h}
      BY <2>2, <3>2, ElemsAre
    <3> QED
      BY <3>1, <3>3
  <2>4. Succeeded(p, reports) \/ (p = h /\ status = "OK")
    BY <1>3, <2>1, <2>2
  <2>5. CASE Succeeded(p, reports)
    BY <1>2, <1>5, <2>1, <2>3, <2>5 DEF FrameOf
  <2>6. CASE p = h /\ status = "OK"
    <3>1. a # Broadcast /\ a \in Receiver
      BY <2>1, <2>2, <2>6 DEF Receiver
    <3>2. Takes(a, h) \/ Repeats(a, meta[h].seqno)
      BY <1>5, <2>6, <3>1 DEF FrameOf, h
    <3>3. delivered[a] \in Seq(Packet)
      BY <1>1, <3>1
    <3>4. CASE Takes(a, h)
      <4>1. h \in Elems(delivered'[a])
        BY <2>2, <3>3, <3>4, ElemsAre DEF Takes
      <4> QED
        BY <2>1, <2>2, <2>6, <4>1
    <3>5. CASE Repeats(a, meta[h].seqno)
      <4>1. PICK i \in 1 .. Len(received_seqnos[a]) :
              received_seqnos[a][i].sender = Sender /\ received_seqnos[a][i].seqno = meta[h].seqno
        BY <3>5 DEF Repeats, is_duplicate
      <4>2. PICK q \in Elems(delivered[a]) : meta[q].seqno = meta[h].seqno
        BY <3>1, <4>1 DEF LinkInv, Recorded
      <4>3. q \in HandedSet
        BY <3>1 DEF LinkInv, InTurn
      <4>4. q = h
        BY <2>2, <4>2, <4>3 DEF LinkInv, Numbered, Back
      <4> QED
        BY <2>1, <2>2, <2>3, <2>6, <3>1, <4>4
    <3> QED
      BY <3>2, <3>4, <3>5
  <2> QED
    BY <2>4, <2>5, <2>6
<1>6. ASSUME UNCHANGED <<csmaVars, delivered, mistaken>> PROVE p \in Elems(delivered'[meta'[p].addr])
  <2>1. meta' = meta /\ reports' = reports /\ delivered' = delivered /\ mistaken' = mistaken
    BY <1>6 DEF csmaVars
  <2> QED
    BY <1>2, <2>1
<1> QED
  BY <1>4, <1>5, <1>6 DEF LinkStep, OtherOf, Age, linkVars

\* In the beginning no number has been given and nothing was delivered.
LEMMA LinkInvInit ==
    ASSUME EnoughNumbers, LinkInit
    PROVE  LinkInv
<1>1. CountInv
  BY CountInit DEF LinkInit
<1>2. /\ packet_queue = [a \in Addr |-> <<>>] /\ meta = [p \in Packet |-> Unsent]
      /\ reports = [p \in Packet |-> <<>>] /\ seqno \in 0 .. SeqRange - 1
      /\ received_seqnos = [r \in Receiver |-> <<>>] /\ delivered = [r \in Receiver |-> <<>>]
  BY DEF LinkInit, csma_output_init
<1>3. HandedSet = {}
  BY <1>2 DEF HandedSet, Handed
<1>4. Numbered
  BY <1>2, <1>3 DEF Numbered
<1>5. Elems(<<>>) = {} /\ 1 .. Len(<<>>) = {}
  BY DEF Elems
<1>6. InTurn
  BY <1>2, <1>5 DEF InTurn, Sorted
<1>7. Recorded
  BY <1>2, <1>5 DEF Recorded, OneEach
<1>8. Acknowledged
  BY <1>2, <1>5 DEF Acknowledged, Succeeded
<1> QED
  BY <1>1, <1>4, <1>6, <1>7, <1>8 DEF LinkInv

\* LinkInv is an invariant.
LEMMA LinkInvariant ==
    ASSUME EnoughNumbers
    PROVE  LinkSpec => []LinkInv
<1>1. LinkInit => LinkInv
  BY LinkInvInit
<1>2. LinkInv /\ CountInv' /\ [LinkNext]_linkVars => LinkInv'
  <2> SUFFICES ASSUME LinkInv, CountInv', [LinkNext]_linkVars PROVE LinkInv'
    OBVIOUS
  <2>1. LinkStep
    BY LinkStepIs
  <2>2. Numbered' /\ Orderly /\ InTurn'
    BY <2>1, LinkOrder
  <2>3. Recorded' /\ Acknowledged'
    BY <2>1, <2>2, LinkRecords, LinkAcknowledges
  <2> QED
    BY <2>2, <2>3 DEF LinkInv
<1> QED
  BY <1>1, <1>2, LinkIsCsma, PTL DEF LinkSpec

\* A packet that was acknowledged, by no other node in its receiver's place (send_one_packet), has been
\* delivered by its receiver, for any number of receivers and other nodes and every history, as long as no
\* sequence number is given out twice: no new packet is dropped as a duplicate
\* (mac_sequence_is_duplicate) and acknowledged all the same.
THEOREM LinkAcknowledgedIsDelivered ==
    ASSUME IsFiniteSet(Packet), Cardinality(Packet) <= SeqRange - 1
    PROVE  LinkSpec => []AcknowledgedIsDelivered
<1>1. EnoughNumbers
  BY DEF EnoughNumbers, Numbers
<1>2. ASSUME LinkInv PROVE AcknowledgedIsDelivered
  <2> SUFFICES ASSUME NEW p \in Packet, meta[p].addr # Broadcast, p \notin mistaken,
                      \E i \in DOMAIN reports[p] : reports[p][i].status = "OK"
               PROVE  Times(p, delivered[meta[p].addr]) > 0
    BY DEF AcknowledgedIsDelivered, Confirmed
  <2>1. reports[p] \in Seq(Report) /\ meta[p].addr \in Receiver
    BY <1>2 DEF LinkInv, CountInv, PacketInv, PacketType, Meta, Receiver
  <2>2. DOMAIN reports[p] = 1 .. Len(reports[p])
    BY <2>1, LenProperties
  <2> DEFINE s == delivered[meta[p].addr]
             K == {i \in DOMAIN s : s[i] = p}
  <2>3. p \in Elems(s) /\ s \in Seq(Packet)
    BY <1>2, <2>1, <2>2 DEF LinkInv, Acknowledged, Succeeded, InTurn
  <2> HIDE DEF s
  <2>4. DOMAIN s = 1 .. Len(s) /\ Len(s) \in Nat
    BY <2>3, LenProperties
  <2>5. K # {} /\ K \in SUBSET (1 .. Len(s))
    BY <2>3, <2>4 DEF Elems
  <2>6. IsFiniteSet(1 .. Len(s))
    BY <2>4, FS_Interval
  <2> HIDE DEF K
  <2>7. IsFiniteSet(K) /\ Cardinality(K) \in Nat /\ Cardinality(K) # 0
    <3>1. IsFiniteSet(K)
      BY <2>5, <2>6, FS_Subset
    <3> QED
      BY <2>5, <3>1, FS_CardinalityType, FS_EmptySet
  <2> QED
    BY <2>7 DEF Times, K, s
<1> QED
  BY <1>1, <1>2, LinkInvariant, PTL

\* A receiver delivers the packets of a queue in the order of their numbers, also when these wrap around, for any
\* history and any losses: among packets that take less than half of the range of numbers.
THEOREM LinkDeliveredInOrder ==
    ASSUME IsFiniteSet(Packet), 2 * (Cardinality(Packet) - 1) < SeqRange - 1
    PROVE  LinkSpec => []DeliveredInOrder
<1>1. Cardinality(Packet) \in Nat /\ SeqRange \in Nat /\ SeqRange > 1 /\ Numbers = SeqRange - 1
  BY FS_CardinalityType, CsmaAssumption DEF Numbers
<1>2. EnoughNumbers
  BY <1>1 DEF EnoughNumbers
<1>3. ASSUME LinkInv PROVE DeliveredInOrder
  <2> SUFFICES ASSUME NEW r \in Receiver, NEW i \in DOMAIN delivered[r], NEW j \in DOMAIN delivered[r], i < j,
                      meta[delivered[r][i]].addr = meta[delivered[r][j]].addr
               PROVE  2 * Ahead(delivered[r][i], delivered[r][j]) < SeqRange - 1
    BY DEF DeliveredInOrder
  <2> DEFINE s == delivered[r]
             p == s[i]
             q == s[j]
  <2>1. s \in Seq(Packet) /\ DOMAIN s = 1 .. Len(s) /\ Len(s) \in Nat
    BY <1>3, LenProperties DEF LinkInv, InTurn
  <2>2. p \in Elems(s) /\ q \in Elems(s)
    BY <2>1, ElemsAre
  <2>3. p \in HandedSet /\ q \in HandedSet
    BY <1>3, <2>2 DEF LinkInv, InTurn
  <2>4. i <= j
    BY <2>1
  <2>5. Elder(Front, meta, p, q)
    BY <1>3, <2>1, <2>4 DEF LinkInv, InTurn
  <2>6. /\ seqno \in 0 .. SeqRange - 1
        /\ meta[p].seqno \in 1 .. Numbers /\ Back(p) <= Cardinality(HandedSet)
        /\ meta[q].seqno \in 1 .. Numbers
    BY <1>3, <2>3 DEF LinkInv, Numbered
  <2>7. Cardinality(HandedSet) \in Nat /\ Cardinality(HandedSet) <= Cardinality(Packet)
    <3>1. HandedSet \in SUBSET Packet
      BY DEF HandedSet
    <3> QED
      BY <3>1, FS_Subset, FS_CardinalityType
  <2> DEFINE f == Front
             m == meta[p].seqno
             n == meta[q].seqno
             b == BackFrom(f, m)
             c == BackFrom(f, n)
  <2>8. f \in 1 .. Numbers
    BY <1>1, <2>6 DEF Front
  <2>9. m \in 1 .. Numbers /\ n \in 1 .. Numbers /\ b >= c /\ b <= Cardinality(Packet)
    <3>1. b >= c
      BY <2>5 DEF Elder
    <3>2. b <= Cardinality(HandedSet) /\ m \in 1 .. Numbers /\ n \in 1 .. Numbers
      BY <2>6 DEF Back
    <3> HIDE DEF f, m, n
    <3>3. b \in Int
      BY <1>1, <2>8, <3>2 DEF BackFrom
    <3> HIDE DEF b, c
    <3> QED
      BY <1>1, <2>7, <3>1, <3>2, <3>3
  <2>10. Ahead(p, q) = (n - m) % Numbers
    BY DEF Ahead, Numbers
  <2> HIDE DEF f, m, n
  <2>11. /\ b \in 1 .. Numbers /\ c \in 1 .. Numbers
         /\ n - m \in {b - c, b - c - Numbers}
    BY <1>1, <2>8, <2>9 DEF BackFrom
  <2> HIDE DEF b, c
  <2>12. b - c \in 0 .. Numbers - 1 /\ 2 * (b - c) < SeqRange - 1
    BY <1>1, <2>9, <2>11
  <2> DEFINE d == b - c
  <2>13. (n - m) % Numbers = d
    <3>1. d \in 0 .. Numbers - 1 /\ Numbers \in Nat /\ Numbers > 0 /\ n - m \in {d, d - Numbers}
      BY <1>1, <2>11, <2>12
    <3> DEFINE x == n - m
    <3>2. x \in {d, d - Numbers}
      BY <3>1
    <3> HIDE DEF d, x
    <3>3. x % Numbers = d
      BY <3>1, <3>2
    <3> QED
      BY <3>3 DEF x
  <2> QED
    BY <2>10, <2>12, <2>13
<1> QED
  BY <1>2, <1>3, LinkInvariant, PTL

-----------------------------------------------------------------------------
(* Retransmissions.                                                         *)

Last(s) == s[Len(s)]

Newest ==
    \A r \in Receiver : delivered[r] # <<>> =>
        \/ Len(delivered[r]) \in evicted[r]
        \/ \E i \in 1 .. Len(received_seqnos[r]) :
              LET e == received_seqnos[r][i]
              IN  /\ e.sender = Sender /\ e.seqno = meta[Last(delivered[r])].seqno
                  /\ e.aged => ~Queued(Last(delivered[r]))

\* The packets of the list s are repeated only after one for another address, or where the sender was
\* forgotten before.
Apart(m, s, e) ==
    \A i, j \in 1 .. Len(s) :
        i < j /\ s[i] = s[j] => \/ \E k \in i + 1 .. j - 1 : m[s[k]].addr # m[s[i]].addr
                               \/ j - 1 \in e

RepeatInv ==
    /\ evicted \in [Receiver -> SUBSET Nat]
    /\ Newest
    /\ \A r \in Receiver : Apart(meta, delivered[r], evicted[r])

EnoughEntries == IsFiniteSet(Other) /\ Cardinality(Other) < MaxSeqnos

\* A history with an entry for every node never loses one.
LEMMA RoomLeft ==
    ASSUME EnoughEntries, NEW h, OneEach(h), NEW s \in Other \cup {Sender},
           \A j \in 1 .. Len(h) : h[j].sender # s
    PROVE  Len(h) < MaxSeqnos
<1> DEFINE A == Other \cup {Sender}
           T == A \ {s}
           D == 1 .. Len(h)
           f == [j \in D |-> h[j].sender]
<1>1. Len(h) \in Nat /\ h \in Seq(Entry) /\ \A j \in 1 .. Len(h) : h[j] \in Entry
  BY ElemsAre DEF OneEach
<1>2. IsFiniteSet(A) /\ Cardinality(A) = Cardinality(Other) + 1 /\ Cardinality(Other) \in Nat
  BY FS_AddElement, FS_CardinalityType, LinkAssumption DEF EnoughEntries
<1>3. IsFiniteSet(T) /\ Cardinality(T) = Cardinality(A) - 1
  <2> HIDE DEF A
  <2> QED
    BY <1>2, FS_RemoveElement DEF A
<1>4. f \in [D -> T]
  BY <1>1 DEF Entry
<1>5. f \in Injection(D, T)
  BY <1>4 DEF Injection, IsInjective, OneEach
<1> HIDE DEF f, T, A
<1>6. Cardinality(D) <= Cardinality(T)
  BY <1>3, <1>5, FS_Injection
<1>7. Cardinality(D) = Len(h)
  <2>1. Cardinality(D) = IF 1 > Len(h) THEN 0 ELSE Len(h) - 1 + 1
    BY <1>1, FS_Interval
  <2> QED
    BY <1>1, <2>1
<1> HIDE DEF D
<1> QED
  BY <1>1, <1>2, <1>3, <1>6, <1>7, LinkAssumption DEF EnoughEntries

\* A packet that has left its queue does not come back.
LEMMA StillQueued ==
    ASSUME LinkInv, LinkStep, NEW q \in HandedSet, Queued(q)'
    PROVE  Queued(q)
<1>1. packet_queue \in [Addr -> Seq(Packet)]
  BY DEF LinkInv, CountInv, PacketInv, QueueInv, QueueType
<1>2. PICK b \in Addr : \E i \in 1 .. Len(packet_queue'[b]) : packet_queue'[b][i] = q
  BY DEF Queued
<1>3. PICK i \in 1 .. Len(packet_queue'[b]) : packet_queue'[b][i] = q
  BY <1>2
<1> DEFINE s == packet_queue[b]
<1>4. s \in Seq(Packet) /\ Len(s) \in Nat
  BY <1>1, ElemsAre
<1>5. CASE packet_queue'[b] = s
  BY <1>3, <1>5 DEF Queued
<1>6. ASSUME s # <<>>, packet_queue'[b] = Tail(s) PROVE Queued(q)
  <2>1. i + 1 \in 1 .. Len(s) /\ s[i + 1] = q
    BY <1>3, <1>4, <1>6, ElemsAre
  <2> QED
    BY <2>1 DEF Queued
<1>7. ASSUME NEW p \in Packet, p # q, packet_queue'[b] = Append(s, p) PROVE Queued(q)
  <2>1. /\ Len(Append(s, p)) = Len(s) + 1 /\ Append(s, p)[Len(s) + 1] = p
        /\ \A k \in 1 .. Len(s) : Append(s, p)[k] = s[k]
    BY <1>4, ElemsAre
  <2>2. i \in 1 .. Len(s)
    BY <1>3, <1>4, <1>7, <2>1
  <2> QED
    BY <1>3, <1>7, <2>1, <2>2 DEF Queued
<1>8. ASSUME NEW p \in Packet, NEW a \in Addr, Given(p, a) PROVE Queued(q)
  <2>1. p # q
    BY <1>8 DEF Given, HandedSet, Handed
  <2>2. packet_queue'[b] = s \/ packet_queue'[b] = Append(s, p)
    BY <1>1, <1>8 DEF Given
  <2> QED
    BY <1>5, <1>7, <2>1, <2>2
<1>9. ASSUME NEW a \in Addr, NEW status \in Status, FrameOf(a, status) PROVE Queued(q)
  <2>1. packet_queue'[b] = s \/ (s # <<>> /\ packet_queue'[b] = Tail(s))
    BY <1>1, <1>9 DEF FrameOf, Served
  <2> QED
    BY <1>5, <1>6, <2>1
<1>10. CASE UNCHANGED csmaVars
  BY <1>5, <1>10 DEF csmaVars, queues
<1> QED
  BY <1>8, <1>9, <1>10 DEF LinkStep, OtherOf, Age, linkVars

\* A packet that is taken and was delivered before, by a receiver that remembers the sender, is not the
\* last one, nor is that for the same address.
LEMMA NotLast ==
    ASSUME LinkInv, Newest, NEW r \in Receiver, Len(delivered[r]) \notin evicted[r],
           NEW a \in Addr, packet_queue[a] # <<>>,
           Takes(r, Head(packet_queue[a])),
           NEW i \in 1 .. Len(delivered[r]), delivered[r][i] = Head(packet_queue[a])
    PROVE  meta[Last(delivered[r])].addr # a /\ i < Len(delivered[r])
<1> DEFINE p == Head(packet_queue[a])
           s == delivered[r]
           l == Last(s)
           n == Len(s)
<1>1. /\ p \in Packet /\ p \in HandedSet /\ meta[p].addr = a /\ p \in Elems(packet_queue[a])
      /\ packet_queue[a] \in Seq(Packet)
  BY WaitingIs, ElemsAre DEF LinkInv
<1>2. Queued(p)
  BY <1>1 DEF Queued, Elems
<1>3. s \in Seq(Packet) /\ n \in Nat /\ n > 0 /\ n \in 1 .. n /\ i <= n /\ s # <<>>
  <2>1. s \in Seq(Packet) /\ n \in Nat
    BY ElemsAre DEF LinkInv, InTurn
  <2> QED
    BY <2>1, EmptySeq
<1>4. l \in Elems(s) /\ l \in HandedSet /\ l = s[n]
  BY <1>3, ElemsAre DEF LinkInv, InTurn, Last
<1>5. l # p
  <2> SUFFICES ASSUME l = p PROVE FALSE
    OBVIOUS
  <2> DEFINE h == received_seqnos[r]
  <2>1. PICK k \in 1 .. Len(h) : h[k].sender = Sender /\ h[k].seqno = meta[l].seqno /\ (h[k].aged => ~Queued(l))
    BY <1>3 DEF Newest
  <2>2. OneEach(h) /\ h[k] \in Entry
    <3>1. OneEach(h) /\ h \in Seq(Entry)
      BY DEF LinkInv, Recorded
    <3> HIDE DEF h
    <3> QED
      BY <3>1, ElemsAre
  <2>3. ~h[k].aged
    BY <1>2, <2>1
  <2>4. \A j \in 1 .. k - 1 : h[j].sender # Sender
    <3> SUFFICES ASSUME NEW j \in 1 .. k - 1, h[j].sender = Sender PROVE FALSE
      OBVIOUS
    <3>1. Len(h) \in Nat
      BY <2>2, ElemsAre DEF OneEach
    <3> HIDE DEF h
    <3>2. j \in 1 .. Len(h) /\ j # k
      BY <3>1
    <3> QED
      BY <2>1, <2>2, <3>2 DEF OneEach
  <2>5. is_duplicate(h, Sender, meta[p].seqno)
    BY <2>1, <2>3, <2>4 DEF is_duplicate
  <2> QED
    BY <2>5 DEF Takes, Repeats
<1>6. i < n
  BY <1>3, <1>4, <1>5
<1>7. meta[l].addr # a
  <2> SUFFICES ASSUME meta[l].addr = a PROVE FALSE
    OBVIOUS
  <2>1. Elder(Front, meta, p, l)
    <3>1. i <= n
      BY <1>3
    <3>2. Elder(Front, meta, s[i], s[n])
      BY <1>1, <1>3, <1>4, <3>1 DEF LinkInv, InTurn
    <3> QED
      BY <1>4, <3>2
  <2>2. Elder(Front, meta, l, p)
    BY <1>1, <1>4 DEF LinkInv, InTurn
  <2>3. Back(p) \in Int /\ Back(l) \in Int
    <3>1. /\ seqno \in 0 .. SeqRange - 1 /\ meta[p].seqno \in 1 .. Numbers
          /\ meta[l].seqno \in 1 .. Numbers
      BY <1>1, <1>4 DEF LinkInv, Numbered
    <3>2. Numbers \in Int /\ Front \in Int
      BY <3>1, CsmaAssumption DEF Numbers, Front
    <3>3. \A f, m \in Int : BackFrom(f, m) \in Int
      BY <3>2 DEF BackFrom
    <3>4. meta[p].seqno \in Int /\ meta[l].seqno \in Int
      BY <3>1, <3>2
    <3> HIDE DEF p, l
    <3> QED
      BY <3>2, <3>3, <3>4 DEF Back
  <2>4. Back(p) = Back(l)
    <3>1. Back(p) >= Back(l) /\ Back(l) >= Back(p)
      BY <2>1, <2>2 DEF Elder, Back
    <3> HIDE DEF p, l
    <3> QED
      BY <2>3, <3>1
  <2> QED
    BY <1>1, <1>4, <1>5, <2>4 DEF LinkInv, Numbered
<1> QED
  BY <1>6, <1>7

\* Every step keeps the histories up to date and the repetitions apart.
LEMMA RepeatStep ==
    ASSUME LinkInv, LinkInv', Orderly, RepeatInv, LinkStep
    PROVE  RepeatInv'
<1>1. /\ delivered \in [Receiver -> Seq(Packet)] /\ evicted \in [Receiver -> SUBSET Nat] /\ Newest /\ Recorded
      /\ \A r \in Receiver : \A p \in Elems(delivered[r]) : p \in HandedSet /\ attempts[p] > 0
  BY DEF LinkInv, InTurn, RepeatInv
<1>2. \A p \in HandedSet : meta'[p] = meta[p]
  BY DEF Orderly
<1>3. \A p \in HandedSet : ~Queued(p) => ~Queued(p)'
  BY StillQueued
<1> DEFINE Fresh(h, d, e) ==
             d # <<>> => \/ Len(d) \in e
                         \/ \E i \in 1 .. Len(h) :
                               /\ h[i].sender = Sender /\ h[i].seqno = meta'[Last(d)].seqno
                               /\ h[i].aged => \A p : p = Last(d) => ~Queued(p)'
<1>4. ASSUME NEW r \in Receiver, delivered[r] # <<>>
      PROVE  Last(delivered[r]) \in HandedSet /\ Last(delivered[r]) \in Elems(delivered[r])
  <2> DEFINE s == delivered[r]
  <2>1. s \in Seq(Packet) /\ Len(s) \in Nat /\ Len(s) # 0
    BY <1>1, <1>4, ElemsAre, EmptySeq
  <2>2. Len(s) \in 1 .. Len(s)
    BY <2>1
  <2> QED
    BY <1>1, <2>2 DEF Last, Elems
<1>5. ASSUME NEW r \in Receiver 
      PROVE  Apart(meta', delivered[r], evicted[r]) /\ Fresh(received_seqnos[r], delivered[r], evicted[r])
  <2>1. \A i \in 1 .. Len(delivered[r]) : delivered[r][i] \in HandedSet
    BY <1>1 DEF Elems
  <2>2. ASSUME NEW i \in 1 .. Len(delivered[r]), NEW j \in 1 .. Len(delivered[r]), i < j,
               delivered[r][i] = delivered[r][j], j - 1 \notin evicted[r]
        PROVE  \E k \in i + 1 .. j - 1 : meta'[delivered[r][k]].addr # meta'[delivered[r][i]].addr
    <3>1. PICK k \in i + 1 .. j - 1 : meta[delivered[r][k]].addr # meta[delivered[r][i]].addr
      BY <2>2 DEF RepeatInv, Apart
    <3>2. k \in 1 .. Len(delivered[r])
      <4>1. delivered[r] \in Seq(Packet)
        BY <1>1
      <4>2. Len(delivered[r]) \in Nat
        BY <4>1, LenProperties
      <4> QED
        BY <4>2
    <3> QED
      BY <1>2, <2>1, <3>1, <3>2
  <2>3. Apart(meta', delivered[r], evicted[r])
    BY <2>2 DEF Apart
  <2>4. Fresh(received_seqnos[r], delivered[r], evicted[r])
    <3> SUFFICES ASSUME delivered[r] # <<>>, Len(delivered[r]) \notin evicted[r]
                 PROVE  \E i \in 1 .. Len(received_seqnos[r]) :
                            /\ received_seqnos[r][i].sender = Sender
                            /\ received_seqnos[r][i].seqno = meta'[Last(delivered[r])].seqno
                            /\ received_seqnos[r][i].aged => \A p : p = Last(delivered[r]) => ~Queued(p)'
      OBVIOUS
    <3> DEFINE l == Last(delivered[r])
    <3>1. l \in HandedSet
      BY <1>4
    <3>2. \E i \in 1 .. Len(received_seqnos[r]) :
             /\ received_seqnos[r][i].sender = Sender /\ received_seqnos[r][i].seqno = meta[l].seqno
             /\ received_seqnos[r][i].aged => ~Queued(l)
      BY <1>1 DEF Newest
    <3> HIDE DEF l
    <3> QED
      BY <1>2, <1>3, <3>1, <3>2 DEF l
  <2> QED
    BY <2>3, <2>4
<1>6. ASSUME evicted' \in [Receiver -> SUBSET Nat],
             \A r \in Receiver : /\ Fresh(received_seqnos'[r], delivered'[r], evicted'[r])
                                 /\ Apart(meta', delivered'[r], evicted'[r])
      PROVE  RepeatInv'
  BY <1>6 DEF RepeatInv, Newest, Apart
<1> HIDE DEF Fresh
<1>7. ASSUME NEW a \in Addr, NEW status \in Status, FrameOf(a, status) PROVE RepeatInv'
  <2> DEFINE p == Head(packet_queue[a])
  <2>1. packet_queue[a] # <<>> /\ meta' = meta
    BY <1>7 DEF FrameOf, Served
  <2>2. p \in Packet /\ meta[p].addr = a
    BY <2>1, WaitingIs, ElemsAre DEF LinkInv
  <2>3. ASSUME NEW r \in Receiver, Takes(r, p)
        PROVE  Fresh(received_seqnos'[r], delivered'[r], evicted[r]) /\ Apart(meta', delivered'[r], evicted[r])
    <3> DEFINE s == delivered[r]
               d == delivered'[r]
               h == received_seqnos[r]
               g == received_seqnos'[r]
               n == Len(s)
    <3>1. s \in Seq(Packet) /\ d = Append(s, p) /\ n \in Nat
      BY <1>1, <2>3, ElemsAre DEF Takes
    <3>2. Len(d) = n + 1 /\ d[n + 1] = p /\ \A i \in 1 .. n : d[i] = s[i]
      <4> HIDE DEF p, s, d
      <4> QED
        BY <2>2, <3>1, ElemsAre
    <3>3. Last(d) = p
      BY <3>2 DEF Last
    <3>4. OneEach(h) /\ meta[p].seqno \in Nat
      BY <1>1, <2>2 DEF Recorded, LinkInv, CountInv, PacketInv, PacketType, Meta
    <3>5. g = register_seqno(h, Sender, meta[p].seqno)
      BY <2>3 DEF Takes
    <3>6. 1 \in 1 .. Len(g) /\ g[1] = [sender |-> Sender, seqno |-> meta[p].seqno, aged |-> FALSE]
      <4> HIDE DEF h, g, p
      <4> QED
        BY <3>4, <3>5, Registered
    <3>7. Fresh(g, d, evicted[r])
      <4> HIDE DEF g, d, p
      <4> QED
        BY <2>1, <3>3, <3>6 DEF Fresh
    <3>8. Apart(meta', d, evicted[r])
      <4> SUFFICES ASSUME NEW i \in 1 .. Len(d), NEW j \in 1 .. Len(d), i < j, d[i] = d[j],
                          j - 1 \notin evicted[r]
                   PROVE  \E k \in i + 1 .. j - 1 : meta[d[k]].addr # meta[d[i]].addr
        BY <2>1 DEF Apart
      <4>1. i \in 1 .. n /\ (j \in 1 .. n \/ j = n + 1)
        BY <3>1, <3>2
      <4>2. CASE j \in 1 .. n
        <5>1. s[i] = s[j]
          BY <3>2, <4>1, <4>2
        <5>2. PICK k \in i + 1 .. j - 1 : meta[s[k]].addr # meta[s[i]].addr
          BY <4>1, <4>2, <5>1 DEF RepeatInv, Apart
        <5>3. k \in 1 .. n
          BY <3>1, <4>1, <4>2
        <5> QED
          BY <3>2, <4>1, <5>2, <5>3
      <4>3. CASE j = n + 1
        <5>1. s[i] = p
          BY <3>2, <4>1, <4>3
        <5>2. meta[Last(s)].addr # a /\ i < n
          <6>1. n \notin evicted[r]
            BY <3>1, <4>3
          <6> QED
            BY <1>1, <2>1, <2>3, <4>1, <5>1, <6>1, NotLast
        <5>3. n \in i + 1 .. j - 1 /\ n \in 1 .. n
          BY <3>1, <4>1, <4>3, <5>2
        <5>4. d[n] = Last(s) /\ d[i] = p
          BY <3>2, <4>1, <5>1, <5>3 DEF Last
        <5>5. meta[d[n]].addr # meta[d[i]].addr
          BY <2>2, <5>2, <5>4
        <5> QED
          BY <5>3, <5>5
      <4> QED
        BY <4>1, <4>2, <4>3
    <3> QED
      BY <3>7, <3>8
  <2>4. ASSUME NEW r \in Receiver, Ignores(r)
        PROVE  Fresh(received_seqnos'[r], delivered'[r], evicted[r]) /\ Apart(meta', delivered'[r], evicted[r])
    BY <1>5, <2>4 DEF Ignores
  <2> QED
    BY <1>1, <1>6, <1>7, <2>3, <2>4 DEF FrameOf
<1>8. ASSUME NEW r \in Receiver, NEW o \in Other, OtherOf(r, o)
      PROVE  RepeatInv'
  <2> DEFINE h == received_seqnos[r]
             g == register_seqno(h, o, 1)
             s == delivered[r]
  <2>1. /\ \A t \in Receiver \ {r} : received_seqnos'[t] = received_seqnos[t] /\ evicted'[t] = evicted[t]
        /\ received_seqnos'[r] = g /\ OneEach(h) /\ o # Sender /\ delivered' = delivered
    BY <1>1, <1>8, LinkAssumption DEF Recorded, OtherOf
  <2>2. s \in Seq(Packet) /\ Len(s) \in Nat
    BY <1>1, ElemsAre
  <2>3. evicted' \in [Receiver -> SUBSET Nat] /\ evicted[r] \subseteq evicted'[r]
    BY <1>1, <1>8, <2>2 DEF OtherOf
  <2>4. Fresh(h, s, evicted[r]) /\ Apart(meta', s, evicted[r])
    BY <1>5
  <2>5. Fresh(g, s, evicted'[r])
    <3>1. CASE PushedOut(r)
      <4>1. Len(s) \in evicted'[r]
        BY <1>1, <1>8, <3>1 DEF OtherOf
      <4> QED
        BY <4>1 DEF Fresh
    <3>2. ASSUME ~PushedOut(r), s # <<>>, Len(s) \notin evicted[r]
          PROVE  Fresh(g, s, evicted'[r])
      <4> HIDE DEF h, s
      <4>1. PICK i \in 1 .. Len(h) :
               /\ h[i].sender = Sender /\ h[i].seqno = meta'[Last(s)].seqno
               /\ h[i].aged => \A p : p = Last(s) => ~Queued(p)'
        BY <2>4, <3>2 DEF Fresh
      <4>2. PICK j \in 1 .. Len(g) : g[j].sender = Sender
        BY <2>1, <3>2, <4>1 DEF PushedOut, Remembered, h
      <4>3. /\ g[1] = [sender |-> o, seqno |-> 1, aged |-> FALSE]
            /\ \A k \in 1 .. Len(g) : k # 1 => \E l \in 1 .. Len(h) : g[k] = h[l]
        BY <2>1, Registered
      <4> HIDE DEF g
      <4>4. j # 1
        BY <2>1, <4>2, <4>3
      <4>5. PICK l \in 1 .. Len(h) : g[j] = h[l]
        BY <4>3, <4>4
      <4>6. l = i
        BY <2>1, <4>1, <4>2, <4>5 DEF OneEach
      <4> QED
        BY <4>1, <4>5, <4>6 DEF Fresh
    <3> HIDE DEF g, h, s
    <3> QED
      BY <2>3, <3>1, <3>2 DEF Fresh
  <2>6. Apart(meta', s, evicted'[r])
    BY <2>3, <2>4 DEF Apart
  <2> HIDE DEF g, h
  <2>7. ASSUME NEW t \in Receiver
        PROVE  Fresh(received_seqnos'[t], delivered'[t], evicted'[t]) /\ Apart(meta', delivered'[t], evicted'[t])
    <3>1. CASE t = r
      BY <2>1, <2>5, <2>6, <3>1
    <3>2. CASE t # r
      BY <1>5, <2>1, <3>2
    <3> QED
      BY <3>1, <3>2
  <2> QED
    BY <1>6, <2>3, <2>7
<1>9. CASE Age
  <2>1. /\ delivered' = delivered /\ packet_queue' = packet_queue /\ evicted' = evicted
        /\ received_seqnos' = [r \in Receiver |-> [i \in DOMAIN received_seqnos[r] |->
                                [received_seqnos[r][i] EXCEPT !.aged = TRUE]]]
        /\ \A a \in Addr : packet_queue[a] # <<>> => attempts[Head(packet_queue[a])] = 0
    BY <1>9 DEF Age, csmaVars, queues
  <2>2. ASSUME NEW p, Queued(p) PROVE attempts[p] = 0
    <3>1. PICK a \in Addr : \E i \in 1 .. Len(packet_queue[a]) : packet_queue[a][i] = p
      BY <2>2 DEF Queued
    <3>2. PICK i \in 1 .. Len(packet_queue[a]) : packet_queue[a][i] = p
      BY <3>1
    <3>3. packet_queue[a] \in Seq(Packet) /\ Len(packet_queue[a]) \in Nat
      BY WaitingIs, ElemsAre DEF LinkInv
    <3>4. CASE i = 1
      <4>1. packet_queue[a] # <<>> /\ Head(packet_queue[a]) = p
        BY <3>2, <3>3, <3>4
      <4> QED
        BY <2>1, <4>1
    <3>5. CASE i # 1
      <4>1. i \in 2 .. Len(packet_queue[a])
        BY <3>3, <3>5
      <4> QED
        BY <3>2, <4>1 DEF LinkInv, CountInv, OthersUntried
    <3> QED
      BY <3>4, <3>5
  <2>3. ASSUME NEW r \in Receiver PROVE Fresh(received_seqnos'[r], delivered'[r], evicted'[r])
    <3> DEFINE h == received_seqnos[r]
               g == [i \in 1 .. Len(h) |-> [h[i] EXCEPT !.aged = TRUE]]
    <3>1. h \in Seq(Entry) /\ DOMAIN h = 1 .. Len(h) /\ Len(h) \in Nat
      BY <1>1, LenProperties DEF Recorded
    <3>2. received_seqnos'[r] = g
      BY <2>1, <3>1
    <3>3. Fresh(h, delivered[r], evicted[r])
      BY <1>5
    <3> HIDE DEF h
    <3>4. \A i \in 1 .. Len(h) : h[i] \in Entry
      BY <3>1, ElemsAre
    <3>5. \A i \in 1 .. Len(h) : g[i] \in Entry /\ g[i].sender = h[i].sender /\ g[i].seqno = h[i].seqno
      BY <3>4 DEF Entry
    <3>6. g \in [1 .. Len(h) -> Entry]
      BY <3>5
    <3> HIDE DEF g
    <3>7. Len(g) = Len(h)
      BY <3>1, <3>6, IsASeq
    <3>8. delivered[r] # <<>> => \A p : p = Last(delivered[r]) => ~Queued(p)'
      <4> SUFFICES ASSUME delivered[r] # <<>>, NEW p, p = Last(delivered[r]) PROVE ~Queued(p)'
        OBVIOUS
      <4>1. p \in HandedSet /\ attempts[p] > 0
        BY <1>1, <1>4
      <4>2. ~Queued(p)
        BY <2>2, <4>1
      <4> QED
        BY <1>3, <4>1, <4>2
    <3>9. Fresh(g, delivered[r], evicted[r])
      BY <3>3, <3>5, <3>7, <3>8 DEF Fresh
    <3> QED
      BY <2>1, <3>2, <3>9
  <2> QED
    BY <1>1, <1>5, <1>6, <2>1, <2>3
<1>10. ASSUME UNCHANGED <<received_seqnos, delivered, evicted>> PROVE RepeatInv'
  BY <1>1, <1>5, <1>6, <1>10
<1> QED
  BY <1>7, <1>8, <1>9, <1>10 DEF LinkStep, linkVars

\* A receiver delivers a packet twice only after one for another address, or after the numbers of other
\* nodes pushed the sender's out of the history since the delivery before, for any number of receivers,
\* other nodes, entries (mac_sequence_register_seqno) and retransmissions, as long as no sequence
\* number is given out twice.
THEOREM LinkRepeatedOnlyAfterOther ==
    ASSUME IsFiniteSet(Packet), Cardinality(Packet) <= SeqRange - 1
    PROVE  LinkSpec => []RepeatedOnlyAfterOther
<1>1. EnoughNumbers
  BY DEF EnoughNumbers, Numbers
<1>2. LinkInit => RepeatInv
  <2>1. LinkInit => delivered = [r \in Receiver |-> <<>>] /\ evicted = [r \in Receiver |-> {}]
    BY DEF LinkInit
  <2>2. 1 .. Len(<<>>) = {}
    OBVIOUS
  <2> QED
    BY <2>1, <2>2 DEF RepeatInv, Newest, Apart
<1>3. LinkInv /\ LinkInv' /\ RepeatInv /\ [LinkNext]_linkVars => RepeatInv'
  <2> SUFFICES ASSUME LinkInv, LinkInv', RepeatInv, [LinkNext]_linkVars PROVE RepeatInv'
    OBVIOUS
  <2>1. LinkStep
    BY LinkStepIs
  <2>2. Orderly
    BY <1>1, <2>1, LinkOrder DEF LinkInv
  <2> QED
    BY <1>1, <2>1, <2>2, RepeatStep
<1>4. LinkInv /\ RepeatInv => RepeatedOnlyAfterOther
  <2> SUFFICES ASSUME LinkInv, RepeatInv, NEW r \in Receiver, NEW i \in DOMAIN delivered[r],
                      NEW j \in DOMAIN delivered[r], i < j, delivered[r][i] = delivered[r][j],
                      j - 1 \notin evicted[r]
               PROVE  \E k \in i + 1 .. j - 1 : meta[delivered[r][k]].addr # meta[delivered[r][i]].addr
    BY DEF RepeatedOnlyAfterOther
  <2>1. DOMAIN delivered[r] = 1 .. Len(delivered[r])
    BY LenProperties DEF LinkInv, InTurn
  <2> QED
    BY <2>1 DEF RepeatInv, Apart
<1> QED
  BY <1>1, <1>2, <1>3, <1>4, LinkInvariant, PTL DEF LinkSpec

\* A history with an entry for every node that is heard never forgets the sender
\* (mac_sequence_register_seqno): then only a packet for another address comes between two deliveries
\* of the same one.
THEOREM LinkNeverForgotten ==
    ASSUME IsFiniteSet(Packet), Cardinality(Packet) <= SeqRange - 1,
           IsFiniteSet(Other), Cardinality(Other) < MaxSeqnos
    PROVE  LinkSpec => [](\A r \in Receiver : evicted[r] = {})
<1> DEFINE NoneOut == evicted = [r \in Receiver |-> {}]
<1>1. EnoughNumbers /\ EnoughEntries
  BY DEF EnoughNumbers, Numbers, EnoughEntries
<1>2. LinkInit => NoneOut
  BY DEF LinkInit
<1>3. LinkInv /\ NoneOut /\ [LinkNext]_linkVars => NoneOut'
  <2> SUFFICES ASSUME LinkInv, NoneOut, [LinkNext]_linkVars PROVE evicted' = evicted
    OBVIOUS
  <2>1. ASSUME NEW r \in Receiver, NEW o \in Other, OtherOf(r, o) PROVE ~PushedOut(r)
    <3> SUFFICES ASSUME Remembered(received_seqnos[r]) PROVE Remembered(received_seqnos'[r])
      BY DEF PushedOut
    <3> DEFINE h == received_seqnos[r]
               g == register_seqno(h, o, 1)
    <3>1. received_seqnos'[r] = g /\ OneEach(h) /\ o # Sender
      BY <2>1, LinkAssumption DEF LinkInv, Recorded, OtherOf
    <3>2. PICK j \in 1 .. Len(h) : h[j].sender = Sender
      BY DEF Remembered
    <3> HIDE DEF h
    <3>3. (\E l \in 1 .. Len(h) : h[l].sender = o) \/ Len(h) < MaxSeqnos
      BY <1>1, <3>1, RoomLeft
    <3>4. \E i \in 1 .. Len(g) : g[i] = h[j]
      <4>1. o \in Other \cup {Sender} /\ 1 \in Nat
        OBVIOUS
      <4>2. (\E l \in 1 .. Len(h) : h[l].sender = o) \/ Len(h) < MaxSeqnos =>
              \A l \in 1 .. Len(h) : h[l].sender # o => \E i \in 1 .. Len(g) : g[i] = h[l]
        BY <3>1, <4>1, Registered
      <4> HIDE DEF g
      <4> QED
        BY <3>1, <3>2, <3>3, <4>2
    <3> HIDE DEF g
    <3> QED
      BY <3>1, <3>2, <3>4 DEF Remembered
  <2>2. LinkStep
    BY LinkStepIs
  <2> QED
    BY <2>1, <2>2 DEF LinkStep, FrameOf, OtherOf, Age, linkVars
<1>4. NoneOut => \A r \in Receiver : evicted[r] = {}
  OBVIOUS
<1> QED
  BY <1>1, <1>2, <1>3, <1>4, LinkInvariant, PTL DEF LinkSpec
=============================================================================
