----------------------------- MODULE Sicslowpan -----------------------------
(***************************************************************************)
(* 6LoWPAN fragmentation: os/net/ipv6/sicslowpan.c.  Nodes cut IPv6        *)
(* packets into fragments and queue them at the MAC; one receiver puts     *)
(* them together again in a few reassembly contexts and fragment buffers.  *)
(*                                                                         *)
(* Lengths are small numbers and offsets are in multiples of Unit, which   *)
(* is 8 in the code.  The headers are not modelled: compressed they take   *)
(* HdrLen bytes, uncompressed UncompLen.  Frames are well formed, so that  *)
(* input's checks of dispatch and length do not fail.                      *)
(***************************************************************************)
EXTENDS Integers, Sequences, FiniteSetsExt

CONSTANTS Sender,
          UipLen,        \* the lengths of the packets sent (uip_len)
          Unit,
          MacMax,        \* mac_max_payload
          HdrLen, UncompLen, Frag1Hdr, FragnHdr,
          TagSpace,      \* my_tag is counted modulo this, 2^16 in the code
          QueueBufs,     \* QUEUEBUF_NUM
          Contexts,      \* SICSLOWPAN_REASS_CONTEXTS
          Buffers,       \* SICSLOWPAN_FRAGMENT_BUFFERS
          MaxPackets,    \* bound: packets of a sender
          MaxDups,       \* bound: frames that the MAC delivers twice
          MaxRestarts,   \* bound: restarts of senders
          NULL

ASSUME SicslowpanAssumption ==
    /\ IsFiniteSet(Sender)
    /\ {Unit, Contexts, Buffers, QueueBufs} \subseteq Nat \ {0}
    /\ {MaxPackets, MaxDups, MaxRestarts, HdrLen, UncompLen, Frag1Hdr, FragnHdr} \subseteq Nat
    /\ UipLen \subseteq {n \in Nat : n > UncompLen}
    /\ UncompLen % Unit = 0
    /\ MacMax \in Nat /\ MacMax - FragnHdr >= Unit
    /\ TagSpace \in Nat /\ MaxPackets < TagSpace

\* Of the senders: my_tag, the frames in the MAC's queue, and how many packets were sent;
\* of the receiver: frag_info and frag_buf, together; up, the packet given to the IP
\* layer in the last step, if any; and what has gone wrong so far: shortage, whether
\* fragmentation ran out of queue buffers, and the numbers of duplicates and restarts.
VARIABLES my_tag, queue, packets, rx, up, shortage, dups, restarts

sendVars == <<my_tag, queue, packets, shortage>>
vars == <<sendVars, rx, up, dups, restarts>>

-----------------------------------------------------------------------------
(* output *)

Align(n) == n - (n % Unit)

frag_needed(len) == len - UncompLen + HdrLen > MacMax
frag1_payload == Align(MacMax - HdrLen - Frag1Hdr)
fragn_max_payload == Align(MacMax - FragnHdr)
last_fragn_max_payload == MacMax - FragnHdr

\* The quotient is not rounded up.
fragment_countFloor(len) ==
    LET middle == (len - UncompLen) - frag1_payload - last_fragn_max_payload
    IN IF middle > 0 THEN 2 + (middle - 1) \div fragn_max_payload ELSE 2

fragment_count(len) ==
    LET middle == (len - UncompLen) - frag1_payload - last_fragn_max_payload
    IN IF middle > 0 THEN 2 + 1 + (middle - 1) \div fragn_max_payload ELSE 2

\* The places of the fragments of a packet, the first one with its header.
Pieces(len) ==
    LET Rest[done \in 0 .. len] ==      \* processed_ip_out_len
            IF done = len THEN <<>>
            ELSE LET n == IF len - done > last_fragn_max_payload
                          THEN fragn_max_payload ELSE len - done
                 IN <<[off |-> done \div Unit, len |-> n]>> \o Rest[done + n]
        first == UncompLen + frag1_payload
    IN <<[off |-> 0, len |-> first]>> \o Rest[first]

Frame(s, size, p) == [pkt |-> <<s, packets[s]>>, tag |-> my_tag[s], size |-> size,
                      off |-> p.off, len |-> p.len]

Free(s) == QueueBufs - Len(queue[s])

\* Each fragment takes a queue buffer at the MAC while the copy that saves packetbuf
\* takes another one.
Affordable(s, n) == n < Free(s)

\* The MAC refuses the frames after the first n, for want of an entry or because the
\* neighbour's queue is full (csma_output_packet); the rest is then not sent.
Enqueue(s, frames, n) ==
    LET sent == SubSeq(frames, 1, n)
    IN queue' = [queue EXCEPT ![s] = @ \o sent]

SendFragments(s, len) ==
    LET frames == [i \in DOMAIN Pieces(len) |-> Frame(s, len, Pieces(len)[i])]
    IN /\ shortage' = (shortage \/ ~Affordable(s, Len(frames)))
       /\ my_tag' = [my_tag EXCEPT ![s] = (@ + 1) % TagSpace]
       /\ \E n \in {k \in 0 .. Len(frames) : Affordable(s, k)} : Enqueue(s, frames, n)

SendWhole(s, len) ==
    /\ Free(s) > 0
    /\ Enqueue(s, <<Frame(s, 0, [off |-> 0, len |-> len])>>, 1)
    /\ UNCHANGED <<my_tag, shortage>>

EnoughFree(s, len) == Free(s) - 1 >= fragment_count(len)

\* A packet for which the queue buffers do not suffice, or whose header does not fit the
\* first fragment, is dropped before anything changes.
output(s) ==
    /\ packets[s] < MaxPackets
    /\ packets' = [packets EXCEPT ![s] = @ + 1]
    /\ \E len \in UipLen :
          IF ~frag_needed(len) THEN SendWhole(s, len)
          ELSE EnoughFree(s, len) /\ frag1_payload >= 0 /\ SendFragments(s, len)
    /\ up' = NULL
    /\ UNCHANGED <<rx, dups, restarts>>

-----------------------------------------------------------------------------
(* Reassembly.  A context is in use while its len, and a buffer while its len, is not 0. *)

Context == 1 .. Contexts
Buffer == 1 .. Buffers
FreeContext == [len |-> 0, tag |-> 0, sender |-> NULL, reassembled_len |-> 0,
                expired |-> FALSE, first |-> NULL]
FreeBuffer == [index |-> 0, off |-> 0, len |-> 0, pkt |-> NULL]

Lowest(S) == IF S = {} THEN 0 ELSE Min(S)
BuffersOf(r, i) == {b \in Buffer : r.buf[b].len > 0 /\ r.buf[b].index = i}

\* The buffers of the contexts stay in use.
clear_fragmentsOnlyInfo(r, S) ==
    [r EXCEPT !.info = [i \in Context |-> IF i \in S THEN FreeContext ELSE r.info[i]]]

clear_fragments(r, S) ==
    [info |-> [i \in Context |-> IF i \in S THEN FreeContext ELSE r.info[i]],
     buf |-> [b \in Buffer |-> IF r.buf[b].index \in S THEN FreeBuffer ELSE r.buf[b]]]

TimedOut(r) == {i \in Context : r.info[i].len > 0 /\ r.info[i].expired}
Unused(r) == {i \in Context : r.info[i].len = 0}

\* FRAG1: clear what has expired and take the first context that is free.
FirstFragment(r, f) ==
    LET c == clear_fragments(r, TimedOut(r))
        i == Lowest(Unused(c))
    IN IF i = 0 THEN c
       ELSE [c EXCEPT !.info[i] = [len |-> f.size, tag |-> f.tag, sender |-> f.pkt[1],
                                   reassembled_len |-> f.len, expired |-> FALSE,
                                   first |-> [pkt |-> f.pkt, off |-> 0, len |-> f.len]]]

FreeBuffers(r) == {b \in Buffer : r.buf[b].len = 0}

store_fragment(r, i, f) ==
    LET b == Lowest(FreeBuffers(r))
    IN IF b = 0 THEN r
       ELSE [r EXCEPT !.buf[b] = [index |-> i, off |-> f.off, len |-> f.len, pkt |-> f.pkt],
                      !.info[i].reassembled_len = @ + f.len]

\* FRAGN for context i: if no buffer is free, the other contexts that have expired are
\* cleared, and the fragment is dropped if that does not help.
NextFragment(r, i, f) ==
    store_fragment(IF FreeBuffers(r) = {} THEN clear_fragments(r, TimedOut(r) \ {i}) ELSE r, i, f)

\* The context of an N-fragment is found by its tag alone.
SessionByTag(r, f) ==
    Lowest({i \in Context : r.info[i].len > 0 /\ r.info[i].tag = f.tag})

Session(r, f) ==
    Lowest({i \in Context : /\ r.info[i].len > 0 /\ r.info[i].tag = f.tag
                            /\ r.info[i].sender = f.pkt[1]})

\* copy_frags2uip: what the packet that goes up is made of, and whether a fragment was
\* in two buffers.
Assembled(r, i, frag_size) ==
    LET piece(b) == [pkt |-> r.buf[b].pkt, off |-> r.buf[b].off, len |-> r.buf[b].len]
        own == BuffersOf(r, i)
    IN [size |-> frag_size,
        pieces |-> {r.info[i].first} \cup {piece(b) : b \in own},
        twice |-> \E a, b \in own : a # b /\ piece(a) = piece(b)]

\* Context i with fragment f in it is r, and without room for it the context is as before.
\* The packet goes up when the lengths add up to the one that this fragment announces.
Receive(r, i, f) ==
    IF /\ r.info[i].reassembled_len > rx.info[i].reassembled_len
       /\ r.info[i].reassembled_len >= f.size
    THEN /\ up' = Assembled(r, i, f.size)
         /\ rx' = clear_fragments(r, {i})
    ELSE /\ up' = NULL
         /\ rx' = r

input(f) ==
    CASE f.size = 0 ->
             /\ up' = [size |-> f.len, pieces |-> {[pkt |-> f.pkt, off |-> 0, len |-> f.len]},
                       twice |-> FALSE]
             /\ UNCHANGED rx
      [] f.size > 0 /\ f.off = 0 ->
             /\ up' = NULL
             /\ rx' = FirstFragment(rx, f)
      [] f.size > 0 /\ f.off > 0 /\ Session(rx, f) = 0 ->
             /\ up' = NULL
             /\ UNCHANGED rx
      [] OTHER -> Receive(NextFragment(rx, Session(rx, f), f), Session(rx, f), f)

-----------------------------------------------------------------------------
(* The MAC, as CsmaLink has it: frames of a sender arrive in order; they may be lost, and
   a retransmission may be delivered again. *)

Transmit(s) ==
    /\ queue[s] # <<>>
    /\ input(Head(queue[s]))
    /\ queue' = [queue EXCEPT ![s] = Tail(@)]
    /\ UNCHANGED <<my_tag, packets, shortage, dups, restarts>>

Lose(s) ==
    /\ queue[s] # <<>>
    /\ queue' = [queue EXCEPT ![s] = Tail(@)]
    /\ up' = NULL
    /\ UNCHANGED <<my_tag, packets, shortage, rx, dups, restarts>>

\* The frame arrives and its acknowledgement does not.
Duplicate(s) ==
    /\ queue[s] # <<>> /\ dups < MaxDups
    /\ input(Head(queue[s]))
    /\ dups' = dups + 1
    /\ UNCHANGED <<sendVars, restarts>>

\* my_tag starts from 0 again.
Restart(s) ==
    /\ restarts < MaxRestarts
    /\ restarts' = restarts + 1
    /\ my_tag' = [my_tag EXCEPT ![s] = 0]
    /\ queue' = [queue EXCEPT ![s] = <<>>]
    /\ up' = NULL
    /\ UNCHANGED <<packets, shortage, rx, dups>>

\* reass_timer of context i expires; the code looks at it when it next needs room.
Expire(i) ==
    /\ rx.info[i].len > 0 /\ ~rx.info[i].expired
    /\ rx' = [rx EXCEPT !.info[i].expired = TRUE]
    /\ up' = NULL
    /\ UNCHANGED <<sendVars, dups, restarts>>

Init ==
    /\ my_tag = [s \in Sender |-> 0]
    /\ queue = [s \in Sender |-> <<>>]
    /\ packets = [s \in Sender |-> 0]
    /\ rx = [info |-> [i \in Context |-> FreeContext], buf |-> [b \in Buffer |-> FreeBuffer]]
    /\ up = NULL
    /\ shortage = FALSE /\ dups = 0 /\ restarts = 0

Next ==
    \/ \E s \in Sender : output(s) \/ Transmit(s) \/ Lose(s) \/ Duplicate(s) \/ Restart(s)
    \/ \E i \in Context : Expire(i)

Spec == Init /\ [][Next]_vars

-----------------------------------------------------------------------------
(* Properties *)

\* No fragment buffer leaks and no count is wrong: a buffer in use belongs to a context in
\* use, and the context has counted exactly its first fragment and its buffers, through
\* completions, time-outs, shortage of buffers and reuse of the context.
CountsMatchBuffers ==
    /\ \A b \in Buffer : rx.buf[b].len > 0 => rx.info[rx.buf[b].index].len > 0
    /\ \A i \in Context \ Unused(rx) :
           rx.info[i].reassembled_len =
               rx.info[i].first.len + MapThenSumSet(LAMBDA b : rx.buf[b].len, BuffersOf(rx, i))

Bytes(p) == {Unit * p.off + k : k \in 0 .. p.len - 1}
Whole(u) == UNION {Bytes(p) : p \in u.pieces} = 0 .. u.size - 1
Sources(u) == {p.pkt : p \in u.pieces}

\* The IP layer gets whole packets as they were sent, whatever is lost, timed out or
\* dropped for want of room and however the fragments of the senders interleave.  Input
\* counts bytes and does not look which ones they are: a packet with a hole is given to
\* the IP layer, but only if a fragment was received twice, and a mixture of two packets
\* only if their sender used a tag again.  Here only a restart makes it do so: MaxPackets
\* keeps my_tag from coming round, which is the other way in the code, where a fragment
\* that is not the first finds its context by sender and tag, however old the context is.
WholeUnlessRepeated ==
    up # NULL =>
        /\ Whole(up) \/ up.twice \/ Cardinality(Sources(up)) > 1
        /\ Cardinality(Sources(up)) > 1 =>
               restarts > 0 /\ Cardinality({k[1] : k \in Sources(up)}) = 1

\* A packet whose first fragment is on its way is not cut short for want of queue buffers:
\* the number of fragments that output computes in advance is enough.
QueuebufsSuffice == ~shortage
=============================================================================
