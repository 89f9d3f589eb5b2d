------------------------------ MODULE CsmaLink ------------------------------
(***************************************************************************)
(* A CSMA sender, the radio medium, and the receiving half of the CSMA MAC *)
(* layer in its neighbours: input_packet (os/net/mac/csma/csma.c) with the *)
(* duplicate detection of os/net/mac/mac-sequence.c.  The sender is the    *)
(* one of CsmaOutput; here the result of send_one_packet follows from what *)
(* the medium does to the frame and to its acknowledgement.  The sender    *)
(* waits for the acknowledgement without doing anything else, and the      *)
(* receiver sends it from input_packet (CSMA_SEND_SOFT_ACK, the default of *)
(* the CC13x0's sub-GHz radio), so a frame and its reception are one step. *)
(***************************************************************************)
EXTENDS CsmaOutput, FiniteSetsExt

CONSTANTS Other,      \* other nodes whose frames the receivers hear
          MaxSeqnos   \* MAX_SEQNOS, the length of the history

Sender == "sender"   \* the node of CsmaOutput, as the receivers know it

ASSUME LinkAssumption == MaxSeqnos \in Nat \ {0} /\ Sender \notin Other

VARIABLES received_seqnos,  \* the history of each receiver, newest first
          delivered,        \* what each receiver gave to NETSTACK_NETWORK.input
          mistaken,         \* history: packets another node's ACK was taken for
          evicted           \* history: after which deliveries a receiver forgot Sender

linkVars == <<csmaVars, received_seqnos, delivered, mistaken, evicted>>

Receiver == Addr \ {Broadcast}

\* The receivers a frame to address a is meant for.
Hearers(a) == IF a = Broadcast THEN Receiver ELSE {a}

LinkInit ==
    /\ csma_output_init
    /\ received_seqnos = [r \in Receiver |-> <<>>]
    /\ delivered = [r \in Receiver |-> <<>>]
    /\ mistaken = {}
    /\ evicted = [r \in Receiver |-> {}]

-----------------------------------------------------------------------------
(* mac-sequence.c.  A history is a sequence of entries; the empty entries   *)
(* that fill the array at first are left out.                               *)

\* A bug: a history that recognises every sender's number as everybody's.
is_duplicateAnySender(h, s, n) ==
    \E i \in 1 .. Len(h) : h[i].seqno = n /\ ~h[i].aged

\* A bug: no duplicate is recognised.
is_duplicateNever(h, s, n) == FALSE

\* mac_sequence_is_duplicate: the first entry of the sender decides.
is_duplicate(h, s, n) ==
    \E i \in 1 .. Len(h) :
        /\ h[i].sender = s
        /\ \A j \in 1 .. i - 1 : h[j].sender # s
        /\ h[i].seqno = n
        /\ ~h[i].aged

\* mac_sequence_register_seqno: the new entry comes first, and takes the place of
\* the sender's first old one, or else of the last one of a full history.
register_seqno(h, s, n) ==
    LET mine == {i \in 1 .. Len(h) : h[i].sender = s}
        gone == IF mine # {} THEN Min(mine) ELSE MaxSeqnos
        kept == SubSeq(h, 1, gone - 1) \o SubSeq(h, gone + 1, Len(h))
    IN <<[sender |-> s, seqno |-> n, aged |-> FALSE]>>
         \o (IF gone > Len(h) THEN h ELSE kept)

Remembered(h) == \E i \in 1 .. Len(h) : h[i].sender = Sender

\* input_packet in the receivers that hear the frame of packet p.
input_packet(heard, p) ==
    LET n == meta[p].seqno
        new == {r \in heard : ~is_duplicate(received_seqnos[r], Sender, n)}
    IN /\ received_seqnos' =
            [r \in Receiver |-> IF r \in new
                                THEN register_seqno(received_seqnos[r], Sender, n)
                                ELSE received_seqnos[r]]
       /\ delivered' = [r \in Receiver |-> IF r \in new
                                           THEN Append(delivered[r], p)
                                           ELSE delivered[r]]

-----------------------------------------------------------------------------
\* The frame of a queue's head goes out.  The receivers in "heard" get it; a
\* broadcast then succeeds, a unicast only if an acknowledgement comes back too.
\* Without it the sender hears nothing (NOACK) or something else (COLLISION).
\* Any three bytes with the frame's number are an acknowledgement, so the one that
\* another receiver sends another node for the same number is taken for it as well.
Frame(a, heard, acked) ==
    /\ a \in transmit_timer
    /\ packet_queue[a] # <<>>
    /\ acked => a # Broadcast /\ (heard # {} \/ Other # {})
    /\ input_packet(heard, Head(packet_queue[a]))
    /\ mistaken' = IF acked /\ heard = {} THEN mistaken \cup {Head(packet_queue[a])}
                                         ELSE mistaken
    /\ IF a = Broadcast \/ acked
       THEN transmit_from_queue(a, "OK")
       ELSE \/ transmit_from_queue(a, "NOACK")
            \/ transmit_from_queue(a, "COLLISION")
    /\ UNCHANGED evicted

\* The frame does not go out: a busy channel, a radio error, no frame header.
NoFrame(a) ==
    /\ \E status \in {"COLLISION", "ERR", "ERR_FATAL"} :
          transmit_from_queue(a, status)
    /\ UNCHANGED <<received_seqnos, delivered, mistaken, evicted>>

Send ==
    /\ Output
    /\ UNCHANGED <<received_seqnos, delivered, mistaken, evicted>>

\* A receiver hears a new frame of another node: input_packet for that node.  In a
\* full history its number takes the place of the oldest one, perhaps of Sender's.
OtherFrame(r, o, n) ==
    /\ ~is_duplicate(received_seqnos[r], o, n)
    /\ received_seqnos' =
         [received_seqnos EXCEPT ![r] = register_seqno(@, o, n)]
    /\ evicted' = IF Remembered(received_seqnos[r]) /\ ~Remembered(received_seqnos'[r])
                  THEN [evicted EXCEPT ![r] = @ \cup {Len(delivered[r])}]
                  ELSE evicted
    /\ UNCHANGED <<csmaVars, delivered, mistaken>>

\* SEQNO_MAX_AGE (20 s) passes.  The retransmissions of a packet are over sooner.
Age ==
    /\ \A a \in Addr : packet_queue[a] # <<>> => attempts[Head(packet_queue[a])] = 0
    /\ received_seqnos' =
         [r \in Receiver |-> [i \in DOMAIN received_seqnos[r] |->
                                [received_seqnos[r][i] EXCEPT !.aged = TRUE]]]
    /\ UNCHANGED <<csmaVars, delivered, mistaken, evicted>>

LinkNext ==
    \/ Send
    \/ \E a \in Addr : NoFrame(a)
    \/ \E a \in Addr, acked \in BOOLEAN : \E heard \in SUBSET Hearers(a) :
          Frame(a, heard, acked)
    \/ \E r \in Receiver, o \in Other : OtherFrame(r, o, 1)
    \/ Age

LinkSpec == LinkInit /\ [][LinkNext]_linkVars

-----------------------------------------------------------------------------
Times(p, s) == Cardinality({i \in DOMAIN s : s[i] = p})

\* The sent callback of a unicast packet heard MAC_TX_OK.
Confirmed(p) ==
    meta[p].addr # Broadcast /\ \E i \in DOMAIN reports[p] : reports[p][i].status = "OK"

\* A packet whose sent callback reported MAC_TX_OK has been delivered by the
\* receiver it was sent to, unless the sender took another node's acknowledgement
\* for its own (send_one_packet): no new packet is dropped as a duplicate
\* (mac_sequence_is_duplicate) and acknowledged all the same.
AcknowledgedIsDelivered ==
    \A p \in Packet :
        Confirmed(p) /\ p \notin mistaken => Times(p, delivered[meta[p].addr]) > 0

\* A receiver delivers a packet a second time only if a packet of another queue of
\* the sender, with another sequence number, came in between, or if the numbers of
\* other nodes have pushed the sender's out of the history since the delivery before:
\* the history has one number for every sender (mac_sequence_register_seqno).
RepeatedOnlyAfterOther ==
    \A r \in Receiver : \A i, j \in DOMAIN delivered[r] :
        (i < j /\ delivered[r][i] = delivered[r][j])
        => \/ \E k \in i + 1 .. j - 1 :
                 meta[delivered[r][k]].addr # meta[delivered[r][i]].addr
           \/ j - 1 \in evicted[r]

\* How far the sequence number of q is ahead of that of p; zero is never used.
Ahead(p, q) == (meta[q].seqno - meta[p].seqno) % (SeqRange - 1)

\* A receiver delivers the packets of one queue in the order in which
\* csma_output_packet gave them sequence numbers, also when these wrap around.
DeliveredInOrder ==
    \A r \in Receiver : \A i, j \in DOMAIN delivered[r] :
        (i < j /\ meta[delivered[r][i]].addr = meta[delivered[r][j]].addr)
        => 2 * Ahead(delivered[r][i], delivered[r][j]) < SeqRange - 1
=============================================================================
