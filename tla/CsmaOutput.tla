----------------------------- MODULE CsmaOutput -----------------------------
(***************************************************************************)
(* The sending half of the CSMA MAC layer (os/net/mac/csma/csma-output.c): *)
(* one packet queue and one transmit timer for every neighbour, fixed      *)
(* pools for the entries, back-off and retransmission counters, and the    *)
(* sent callback of every packet.  All of it runs to completion in process *)
(* context, so csma_output_packet and the expiry of a transmit timer are   *)
(* one step each.  A sent callback that sends another packet is the same   *)
(* as a call of csma_output_packet in the next step: tx_done has freed the *)
(* old packet before it calls back, and nothing follows the callback.      *)
(*                                                                         *)
(* The random back-off is left out: a timer that is set may expire at any  *)
(* later time.  The order of neighbor_list is not observable (addresses    *)
(* are unique in it), so it is a set.                                      *)
(***************************************************************************)
EXTENDS Integers, Sequences, FiniteSets

CONSTANTS Addr,            \* the link-layer destinations
          Broadcast,       \* the null address, one of them
          Packet,          \* the packets that the upper layers will send
          MaxNeighbors,    \* CSMA_MAX_NEIGHBOR_QUEUES
          MaxPerNeighbor,  \* CSMA_MAX_PACKET_PER_NEIGHBOR
          MaxQueued,       \* MAX_QUEUED_PACKETS = QUEUEBUF_NUM
          MaxBackoff,      \* CSMA_MAX_BACKOFF
          MaxRetries,      \* CSMA_MAX_FRAME_RETRIES
          TxLimits,        \* the values of PACKETBUF_ATTR_MAX_MAC_TRANSMISSIONS
          SeqRange         \* the number of values of a sequence number: 256

ASSUME CsmaAssumption ==
    /\ Broadcast \in Addr
    /\ MaxNeighbors \in Nat \ {0}
    /\ MaxPerNeighbor \in Nat \ {0}
    /\ MaxQueued \in Nat \ {0}
    /\ MaxBackoff \in Nat
    /\ MaxRetries \in Nat
    /\ TxLimits \subseteq Nat
    /\ SeqRange \in Nat /\ SeqRange > 1

VARIABLES neighbor_list,   \* the addresses that have an entry
          packet_queue,    \* the packets queued for an address
          transmissions,   \* how often the head of a queue was sent
          collisions,      \* its collisions since then
          transmit_timer,  \* the addresses whose transmit_timer is set
          neighbor_memb,   \* the number of free blocks of each pool
          packet_memb,
          metadata_memb,
          bufmem,
          seqno,           \* the next sequence number
          meta,            \* address, sequence number and limit of each packet
          attempts,        \* how often send_one_packet ran for each packet
          reports          \* the calls of each packet's sent callback

queues == <<neighbor_list, packet_queue, transmissions, collisions,
            transmit_timer>>
pools == <<neighbor_memb, packet_memb, metadata_memb, bufmem>>
csmaVars == <<queues, pools, seqno, meta, attempts, reports>>

Unsent == [addr |-> Broadcast, seqno |-> 0, max |-> 0]
Status == {"OK", "NOACK", "COLLISION", "ERR", "ERR_FATAL"}

\* csma_output_init; the first sequence number is random.
csma_output_init ==
    /\ neighbor_list = {}
    /\ packet_queue = [a \in Addr |-> <<>>]
    /\ transmissions = [a \in Addr |-> 0]
    /\ collisions = [a \in Addr |-> 0]
    /\ transmit_timer = {}
    /\ neighbor_memb = MaxNeighbors
    /\ packet_memb = MaxQueued
    /\ metadata_memb = MaxQueued
    /\ bufmem = MaxQueued
    /\ seqno \in 0 .. SeqRange - 1
    /\ meta = [p \in Packet |-> Unsent]
    /\ attempts = [p \in Packet |-> 0]
    /\ reports = [p \in Packet |-> <<>>]

\* A bug: the callback hears of success only.
SentOnSuccess(p, status, tx) ==
    IF status = "OK"
    THEN reports' = [reports EXCEPT ![p] = Append(@, [status |-> status, tx |-> tx])]
    ELSE UNCHANGED reports

mac_call_sent_callback(p, status, tx) ==
    reports' = [reports EXCEPT ![p] = Append(@, [status |-> status, tx |-> tx])]

-----------------------------------------------------------------------------
(* The end of a packet.                                                     *)

\* A bug: the metadata block is forgotten.
FreeBlocksLeak ==
    /\ bufmem' = bufmem + 1
    /\ packet_memb' = packet_memb + 1
    /\ UNCHANGED metadata_memb

FreeBlocks ==
    /\ bufmem' = bufmem + 1
    /\ metadata_memb' = metadata_memb + 1
    /\ packet_memb' = packet_memb + 1

\* A bug: only the first packet of a queue gets its timer set.
NextPacketNoSchedule(a) ==
    /\ transmissions' = [transmissions EXCEPT ![a] = 0]
    /\ collisions' = [collisions EXCEPT ![a] = 0]
    /\ transmit_timer' = transmit_timer \ {a}
    /\ UNCHANGED <<neighbor_list, neighbor_memb>>

\* A bug: the transmissions of the packet that is done stay counted.
NextPacketKeepsCount(a) ==
    /\ transmissions' = [transmissions EXCEPT ![a] = @ + 1]
    /\ collisions' = [collisions EXCEPT ![a] = 0]
    /\ transmit_timer' = transmit_timer \union {a}
    /\ UNCHANGED <<neighbor_list, neighbor_memb>>

\* The next packet of the queue starts with fresh counters.
NextPacket(a) ==
    /\ transmissions' = [transmissions EXCEPT ![a] = 0]
    /\ collisions' = [collisions EXCEPT ![a] = 0]
    /\ transmit_timer' = transmit_timer \union {a}
    /\ UNCHANGED <<neighbor_list, neighbor_memb>>

\* The entry of a neighbour without packets is freed; its counters are set when
\* it is allocated again, so they may as well be zero until then.
FreeNeighbor(a) ==
    /\ transmissions' = [transmissions EXCEPT ![a] = 0]
    /\ collisions' = [collisions EXCEPT ![a] = 0]
    /\ transmit_timer' = transmit_timer \ {a}
    /\ neighbor_list' = neighbor_list \ {a}
    /\ neighbor_memb' = neighbor_memb + 1

free_packet(a) ==
    /\ packet_queue' = [packet_queue EXCEPT ![a] = Tail(@)]
    /\ FreeBlocks
    /\ IF Tail(packet_queue[a]) # <<>> THEN NextPacket(a) ELSE FreeNeighbor(a)

tx_done(a, status, tx) ==
    /\ free_packet(a)
    /\ mac_call_sent_callback(Head(packet_queue[a]), status, tx)

\* A bug: the packet goes to the end of its queue.
rexmitLast(a, tx, coll) ==
    /\ packet_queue' = [packet_queue EXCEPT ![a] = Append(Tail(@), Head(@))]
    /\ transmissions' = [transmissions EXCEPT ![a] = tx]
    /\ collisions' = [collisions EXCEPT ![a] = coll]
    /\ transmit_timer' = transmit_timer \union {a}
    /\ UNCHANGED <<neighbor_list, pools, reports>>

\* A bug: the packet is kept and not scheduled again.
rexmitUnscheduled(a, tx, coll) ==
    /\ transmissions' = [transmissions EXCEPT ![a] = tx]
    /\ collisions' = [collisions EXCEPT ![a] = coll]
    /\ transmit_timer' = transmit_timer \ {a}
    /\ UNCHANGED <<neighbor_list, packet_queue, pools, reports>>

\* rexmit: keep the packet at the head of its queue and schedule it again.
rexmit(a, tx, coll) ==
    /\ transmissions' = [transmissions EXCEPT ![a] = tx]
    /\ collisions' = [collisions EXCEPT ![a] = coll]
    /\ transmit_timer' = transmit_timer \union {a}
    /\ UNCHANGED <<neighbor_list, packet_queue, pools, reports>>

\* collision: MaxBackoff + 1 collisions count as one transmission.
collision(a) ==
    LET over == collisions[a] + 1 > MaxBackoff
        coll == IF over THEN 0 ELSE collisions[a] + 1
        tx == IF over THEN transmissions[a] + 1 ELSE transmissions[a]
    IN IF tx >= meta[Head(packet_queue[a])].max
       THEN tx_done(a, "COLLISION", tx)
       ELSE rexmit(a, tx, coll)

noack(a) ==
    LET tx == transmissions[a] + 1
    IN IF tx >= meta[Head(packet_queue[a])].max
       THEN tx_done(a, "NOACK", tx)
       ELSE rexmit(a, tx, 0)

tx_ok(a) == tx_done(a, "OK", transmissions[a] + 1)

packet_sent(a, status) ==
    CASE status = "OK" -> tx_ok(a)
      [] status = "NOACK" -> noack(a)
      [] status = "COLLISION" -> collision(a)
      [] OTHER -> tx_done(a, status, transmissions[a])

\* The results that send_one_packet can come to: no frame could be built
\* (ERR_FATAL), the channel was busy, or another packet came in instead of the
\* acknowledgement (COLLISION), the radio failed (ERR), no acknowledgement came
\* (NOACK, which a broadcast does not wait for), success (OK).
Results(a) == IF a = Broadcast THEN Status \ {"NOACK"} ELSE Status

\* The transmit timer of a neighbour expires: transmit_from_queue sends the head
\* of its queue with send_one_packet, which ends in packet_sent.
transmit_from_queue(a, status) ==
    /\ a \in transmit_timer
    /\ status \in Results(a)
    /\ IF packet_queue[a] # <<>>
       THEN /\ attempts' = [attempts EXCEPT ![Head(packet_queue[a])] = @ + 1]
            /\ packet_sent(a, status)
       ELSE /\ transmit_timer' = transmit_timer \ {a}
            /\ UNCHANGED <<neighbor_list, packet_queue, transmissions,
                           collisions, pools, attempts, reports>>
    /\ UNCHANGED <<seqno, meta>>

-----------------------------------------------------------------------------
(* A new packet.                                                            *)

\* csma_output_packet(sent, ptr) for a packet to address a, "held" queuebufs
\* being held by the caller during the call.  The sequence number zero is left
\* out.  If an allocation fails, those made before it are undone, the
\* neighbour's entry goes if it is empty, and the callback is called at once.
csma_output_packet(p, a, limit, held) ==
    LET known == a \in neighbor_list
        room == known \/ neighbor_memb > 0
        n == IF seqno = 0 THEN 1 ELSE seqno
    IN
    /\ meta[p] = Unsent
    /\ bufmem >= held
    /\ seqno' = (n + 1) % SeqRange
    /\ meta' = [meta EXCEPT ![p] =
                  [addr |-> a, seqno |-> n,
                   max |-> IF limit = 0 THEN MaxRetries + 1 ELSE limit]]
    /\ UNCHANGED attempts
    /\ IF /\ room
          /\ Len(packet_queue[a]) < MaxPerNeighbor
          /\ packet_memb > 0
          /\ metadata_memb > 0
          /\ bufmem > held
       THEN /\ neighbor_list' = neighbor_list \union {a}
            /\ neighbor_memb' = IF known THEN neighbor_memb ELSE neighbor_memb - 1
            /\ transmissions' = IF known THEN transmissions
                                ELSE [transmissions EXCEPT ![a] = 0]
            /\ collisions' = IF known THEN collisions
                             ELSE [collisions EXCEPT ![a] = 0]
            /\ packet_queue' = [packet_queue EXCEPT ![a] = Append(@, p)]
            /\ transmit_timer' = IF packet_queue[a] = <<>>
                                 THEN transmit_timer \union {a}
                                 ELSE transmit_timer
            /\ packet_memb' = packet_memb - 1
            /\ metadata_memb' = metadata_memb - 1
            /\ bufmem' = bufmem - 1
            /\ UNCHANGED reports
       ELSE /\ IF known /\ packet_queue[a] = <<>>
               THEN /\ neighbor_list' = neighbor_list \ {a}
                    /\ neighbor_memb' = neighbor_memb + 1
               ELSE UNCHANGED <<neighbor_list, neighbor_memb>>
            /\ mac_call_sent_callback(p, "ERR", 1)
            /\ UNCHANGED <<packet_queue, transmissions, collisions,
                           transmit_timer, packet_memb, metadata_memb, bufmem>>

\* An upper layer sends a packet that fits a frame.
SendWhole(p, a, limit) == csma_output_packet(p, a, limit, 0)

\* sicslowpan's fragment_copy_payload_and_send keeps a copy of the fragment in
\* a queuebuf of its own while it sends it, and gives it back afterwards.
SendFragment(p, a, limit) ==
    /\ bufmem > 0
    /\ csma_output_packet(p, a, limit, 1)

Output ==
    \E p \in Packet, a \in Addr, limit \in TxLimits :
        SendWhole(p, a, limit) \/ SendFragment(p, a, limit)

TimerExpires(a) == \E status \in Status : transmit_from_queue(a, status)

CsmaNext == Output \/ \E a \in Addr : TimerExpires(a)

CsmaSpec == csma_output_init /\ [][CsmaNext]_csmaVars

\* A timer that is set expires: ctimer's CallbackComes.
CsmaFairSpec == CsmaSpec /\ \A a \in Addr : WF_csmaVars(TimerExpires(a))

-----------------------------------------------------------------------------
(* Properties.                                                              *)

Handed(p) == meta[p] # Unsent
QueuedPlaces == UNION {{a} \X DOMAIN packet_queue[a] : a \in Addr}
Places(p) == {place \in QueuedPlaces : packet_queue[place[1]][place[2]] = p}
QueuedTotal == Cardinality(QueuedPlaces)

\* A neighbour has an entry exactly while it has packets, and then its transmit
\* timer is set: no queue is left without a timer, and no timer will call
\* transmit_from_queue with the freed entry of a neighbour.
TimerMatchesQueue ==
    \A a \in Addr :
        /\ a \in neighbor_list <=> packet_queue[a] # <<>>
        /\ a \in transmit_timer <=> packet_queue[a] # <<>>

\* Every block of the four pools is either free or belongs to a queued packet or
\* a neighbour with one, whatever allocation failed: nothing leaks.
PoolsConserved ==
    /\ neighbor_memb + Cardinality(neighbor_list) = MaxNeighbors
    /\ packet_memb + QueuedTotal = MaxQueued
    /\ metadata_memb + QueuedTotal = MaxQueued
    /\ bufmem + QueuedTotal = MaxQueued

\* A packet that was handed to csma_output_packet waits at one place of the queue
\* of its address, or its sent callback has been called once, never both.
SentCallbackOnce ==
    \A p \in Packet :
        /\ Len(reports[p]) + Cardinality(Places(p)) = IF Handed(p) THEN 1 ELSE 0
        /\ \A place \in Places(p) : place[1] = meta[p].addr

\* What the callback reports as the number of transmissions are transmissions of
\* this packet, not of the one before it in the queue, and no packet is tried
\* more often than its limit of transmissions with MaxBackoff back-offs each.
CountsAreOwn ==
    \A p \in Packet :
        /\ attempts[p] <= meta[p].max * (MaxBackoff + 1)
        /\ \A i \in 1 .. Len(reports[p]) :
              attempts[p] > 0 => reports[p][i].tx <= attempts[p]
        /\ \A i \in 1 .. Len(reports[p]) : reports[p][i].tx <= meta[p].max

\* Every packet's sent callback is called in the end, even if the channel stays
\* busy and no acknowledgement ever comes.
EveryPacketReported ==
    \A p \in Packet : Handed(p) ~> reports[p] # <<>>
=============================================================================
