# A TLA+ model of the ZD sensor network firmware

The repository is a fork of Contiki-NG with the firmware of a family of
battery-driven sensor nodes (`examples/ZD-HM100`, `ZD-GY100`, `ZD-WP100`,
`ZD-WS800`), a router (`examples/pa-router`) and a gateway (`examples/ZD-ER100`,
a POSIX program).  The nodes run on CC13x0 chips: an 802.15.4 radio, the CSMA MAC
layer, 6LoWPAN, RPL-lite, CoAP, and an application that sleeps most of the time.
This directory models the parts on which everything else stands (the lock-free
ring buffer, the process kernel, its timers, the CSMA MAC layer), 6LoWPAN
fragmentation, RPL-lite on a node that is not the root, and the sleeping leaf node with its
application.  The rest is listed in the inventory and in the plan.

Paths in this file are relative to the root of the repository.

## 1. Inventory

| Component | State | Operations | Interacts with | What makes it correct |
|---|---|---|---|---|
| Ring buffer, `os/lib/ringbuf.c` | array, `put_ptr`, `get_ptr` | put, get | a driver's interrupt handler puts, a process gets, no lock | it is a FIFO under every interleaving |
| Event queue, `os/sys/process.c` | array, `fevent`, `nevents` | post, take | every process | FIFO; refuses only when full |
| Process kernel, `os/sys/process.c`, `os/contiki-main.c` | process list, state and poll flag of each process, current process, the C stack | start, exit, post, synchronous post, poll, run | everything; interrupts call `process_poll` | no re-entry, list and states agree, no poll or broadcast is lost |
| Event timers, `os/sys/etimer.c`, `timer.c` | timer list, start/interval/owner of a timer, `next_expiration` | set, reset, restart, adjust, stop; scan on poll; exit of an owner | kernel (event queue, polls), clock interrupt, sleep code | never early, never forgotten |
| Callback timers, `os/sys/ctimer.c` | `ctimer_list` | set, reset, restart, stop; event | event timers | the callback comes, not early; what its users see of it is `CallbackTimer` |
| CSMA output, `os/net/mac/csma/csma-output.c` | queue, counters and timer of a neighbour; four pools | output packet; timer expiry; result of a transmission | callback timers, radio, upper layers' sent callbacks | one report for each packet, nothing leaks, no timer without a queue |
| CSMA input, `csma.c`, `mac-sequence.c` | history of (sender, sequence number) | input packet | radio, network layer | acknowledged implies delivered; order; no duplicate |
| RPL-lite, `os/net/routing/rpl-lite` | DAG state, rank, preferred parent, neighbours, default routes; dis, dio, dao, leave, probing, state-update timers | join, DIO/DIS/DAO-ACK input, parent switch, local and global repair, poison, leave | ctimers, neighbour table, link statistics, ICMPv6 | every state has the timer running that leads out of it; no pointer to a removed neighbour |
| Leaf nodes, `examples/ZD-HM100/lpm-mode.c` with `rpl-icmp6.c`, and the on and off of the radio in `csma-output.c` and `prop-mode.c` | processes stopped or running, radio on or off, the wait for a DIO | hourly DIS, 10 s wait for a DIO, stop and restart of the application, very sleepy mode | RPL-lite, kernel, CSMA | a node without a network tries again for ever and listens while it does; a node in a network runs its processes |
| Sensor applications, `examples/ZD-*/app.c` | event type, fault counter, report flag, UDP connection | measure, alarm, hourly report | etimers, UDP, sensors | every alarm and report is sent |
| 6LoWPAN, `os/net/ipv6/sicslowpan.c` | reassembly contexts, fragment buffers | fragment, reassemble, time out | CSMA, queue buffers | a datagram is made of fragments of one datagram |
| Neighbour table, `os/net/nbr-table.c` | slots, used and locked maps | add, lock, evict, remove | RPL, ND6, link statistics | a locked neighbour stays |
| 6top, TSCH, `os/net/mac/tsch` | transactions, sequence numbers, link queues | request, response, time out | MAC | both sides agree on a schedule |
| CoAP, `os/net/app-layer/coap` | transactions, observers | send, retransmit, acknowledge, notify | UDP, ctimers | at most the configured retries, then a report |
| Gateway, `examples/ZD-ER100` | tables of nodes, configuration | MQTT in and out, topology reports | RPL border router, serial line | mostly input, output and formatting |
| Others | | | | uIP/TCP/ND6, RPL-classic, MQTT, LwM2M, shell, Coffee, Antelope, platform drivers, host tools: see `PROJECT.json` |

What is hard to test in this code:

* an interrupt may come between any two instructions; it polls processes and
  fills ring buffers that the interrupted code is reading;
* all processes share one stack: a handler called from a loop over the process
  list may start, stop or call the processes that the loop is about to reach;
* everything is a fixed pool: the event queue, the packet queues, the neighbour
  entries; each may be exhausted at each step;
* the clock, the counters and the sequence numbers wrap;
* an event that waits in the queue refers to a timer that may be stopped or set
  again before it is delivered;
* frames and acknowledgements get lost, and several queues of one sender share
  one sequence of numbers;
* a DAG has seven timers of its own, and most handlers of RPL update the state of the DAG, often
  twice, and start and stop several of them on the way;
* a sleeping leaf stops and restarts its own processes, whose static variables and
  resources outlive them;
* fragments of several packets compete for two contexts and a few buffers.

`PROJECT.json` lists these hazards at the lines where they bite.

## 2. Modules

| Module | Models | Uses |
|---|---|---|
| `BoundedFifo` | the promise of a bounded queue: put, get, refused put, refused get | |
| `RingBuf` | `ringbuf.c` | refines `BoundedFifo` |
| `EventQueue` | the circular array of `process.c` | refines `BoundedFifo` |
| `ProcessKernel` | `process.c` and the loop of `contiki-main.c` | the queue as a sequence, as `EventQueue` justifies |
| `Etimer` | `etimer.c`, `timer.c`, the clock interrupt | the queue as a sequence |
| `CallbackTimer` | the promise of one `struct ctimer` | |
| `Ctimer` | `ctimer.c` | extends `Etimer`, acts as `CallbackTimer` |
| `CsmaOutput` | `csma-output.c` | fairness justified by `Ctimer` |
| `CsmaLink` | `csma.c`, `mac-sequence.c`, the medium | extends `CsmaOutput` |
| `RplJoin` | the promise of RPL-lite to the layers above it | `CallbackTimer` for the DIS timer |
| `RplNode` | `rpl-dag.c`, `rpl-timers.c`, `rpl-neighbor.c`, and what they use of `rpl-icmp6.c`, `rpl.c`, `rpl-mrhof.c`, `rpl-nbr-policy.c`, `link-stats.c` | refines `RplJoin`, `CallbackTimer` for the DIS and the leave timer |
| `LeafNode` | `lpm-mode.c`, `app.c`, the leaf's part of `rpl-icmp6.c` and `csma-output.c`, the receive buffers of `prop-mode.c` | built on `RplJoin` |
| `Sicslowpan` | fragmentation and reassembly of `sicslowpan.c` | a MAC with the behaviour of `CsmaLink` |
| `RingBufProofs`, `EventQueueProofs`, `ProcessKernelProofs`, `EtimerProofs`, `CsmaOutputProofs`, `RplNodeProofs`, `LeafNodeProofs`, `SicslowpanProofs` | theorems | each extends the module it is about; `EtimerProofs` is about `Ctimer` too, `CsmaOutputProofs` about `CsmaLink` |
| `MC*` | instances for TLC | |

Definitions carry the names of the C functions; `PROJECT.json` gives the lines.
Definitions whose comment begins "A bug:", or that name a deviation from the code
(`PutCheckNoSpareSlot`, `timer_expiredEarly`, ...), are not used by any
specification.  Each stands before the definition it deviates from, and shows that
a property of the module notices that slip.

**RingBuf.**  The producer and the consumer are two processes; each read or write
of a shared field is a step, so `ringbuf_put` is `PutCheck`, `PutStore`,
`PutAdvance` and `ringbuf_get` is `GetCheck`, `GetLoad`, `GetAdvance`.  `& mask` is
`% Size`, right for powers of two only.  The steps take effect in program order,
which the `CC_ACCESS_NOW` accesses of the code ask of the compiler.

**EventQueue.**  Interrupts never post events, so `process_post` and the taking of
an event in `do_event` are atomic.  The casts to `process_num_events_t` are kept
(`Uint`): `process_post` casts `fevent + nevents` before it takes the remainder.

**ProcessKernel.**  The variable `stack` is the C stack: loops of the kernel with
their cursors and saved variables, and thread functions.  What a thread function
does is a free choice of kernel calls (`CallPost`, `CallPoll`, `CallSynch`,
`CallStart`, `CallExit`, `CallContext`) and then a return (`ThreadReturn`), by
yielding or by ending; one called with `PROCESS_EVENT_EXIT` ends.
`call_process` and `exit_process` push activations, and one action performs one
iteration of a loop (`ExitNotify`, `PollStep`, `BcastStep`, `BcastDeliver`).
`oldNext` is the `next` field of a process that has left the list, which a loop
that stands on it still follows.  `Interrupt` calls `process_poll` between any two
steps.  The history variable `wanted` holds the live processes with a poll not yet
answered, `due` the processes that the broadcast under way still owes its event.
`process_exit` is called on what its contract names (`process.h:384`): the process that calls it, or another that
runs.  It does not see whether that process is in the middle of a call, whose thread then goes on after the exit.
Such exits are made if `Api` has `"exit_called"`; the history variable `torn` records the first, after which a process may run
off the list, and from which on the parts of the properties that the code then breaks ask nothing.

**Etimer.**  Clock values wrap at `ClockRange`; the history variable `age` is the
true time since a timer's start, so that "early" and "late" are about real time.
Processes set, reset, restart, adjust and stop timers between activations of
`etimer_process`; `Poll` and `ScanStep` are its handler, one iteration of its loop
at a time so that clock interrupts come in between; `Exited` is its handling of
`PROCESS_EVENT_EXITED`.  With `Tickless` the clock interrupt asks for a poll only
when `next_expiration` has come, as the sleep code of the CC13x0 does; without it,
at every tick with a timer pending.  `PostOther` fills the queue with other events.

**Ctimer, CallbackTimer.**  `Ctimer` adds `ctimer_list` and `ctimer_process`, the owner
of all timers.  `CallbackTimer` has the six states of one callback timer that its users can tell
apart, without time: an expired timer whose event waits in the queue counts as
expired, and if it is set then, the old event takes the new entry off the list.  `UserState`
maps the two lists and the queue of `Ctimer` to these states, and the action property
`ActsAsCallbackTimer` says that every call and every event does to the state what `CallbackTimer`
says it does.

**CsmaOutput.**  `csma_output_packet` is one action with its four allocations and
their undoing; the expiry of a transmit timer is another, `transmit_from_queue`,
with every result that `send_one_packet` can come to.  `SendFragment` is the
sender of 6LoWPAN fragments, which holds one of the queue buffers itself.  The
ghost variables `attempts` and `reports` count transmissions and record the sent
callback.

**CsmaLink.**  A sender, any number of receivers, a medium that loses frames and
acknowledgements.  A frame with its acknowledgement is one step because the sender
waits busily for it.  The code takes any three bytes with the frame's sequence number for its acknowledgement, so
`Frame` may succeed although nobody heard it, if there are other nodes, which get acknowledgements too; the history variable `mistaken`
holds the packets to which that happened.  `OtherFrame` fills the receivers' histories with other
senders, and `evicted` says after which deliveries the sender's entry was lost to them; `Age` lets the 20 s of `SEQNO_MAX_AGE` pass, but not within the
retransmissions of one packet, which take less.

**RplJoin, RplNode.**  A handler of RPL-lite is a cascade of calls that may update the
state of the DAG several times.  `node` is therefore one record (`curr_instance` with its
DAG, the neighbours' ranks, the links' quality, the default routers, the timers), the C functions are operators from a node to a
node, and an action is a whole handler: a message, a report of the MAC, an eviction
from the neighbour table, a timer.  The path cost of MRHOF with its hysteresis is any order of
the neighbours, chosen in each handler.  Sequence numbers of DAOs are kept as what the code
compares: is there a newer one than the last sent, is the last one acknowledged, and, since
`rpl_icmp6_dao_output` may switch parents before it sends, has the next number been sent
or acknowledged already.  The leave and DIS timers are `CallbackTimer`s, because the code
asks whether they have expired; of the others only whether they are pending matters.  `conf`
is the build (leaf or router, DAO acknowledgements) and the surroundings (neighbours in range, the ranks they advertise,
what their DIOs configure, global repairs, delayed events).  A DIO configures (`DioConfig`) whether the DAG has downward routes (`mop`), whether
routes expire (`default_lifetime`), and may have an objective function or a prefix that `init_dag` refuses; a DIO of the node's own
version carries what the node has, since the root does not change it within a version.
`RplJoin` is what the layers above see: the state of the DAG, whether there is a parent, whether
there is a default route, and the DIS timer; its actions are the moves between states that a handler can make.

**LeafNode.**  Extends `RplJoin` with the application's processes, the wait for a DIO, the radio, the frame that
the radio has received and that is not handled yet, and the static variables of `app.c`.  `send_one_packet` is two steps, `FrameStarts`, which switches the radio
on, and `FrameSent`, which switches it off; between them (`sending`) only an interrupt (`Receive`) and the sent callback come, as a handler of the code
runs to its end.  `on` and `off` are those of the radio driver: switching on a radio that was off frees its receive buffers (`init_rx_buffers`), so a frame that was
received before and not read is lost; switching it off keeps it.  The soft acknowledgement of a frame, which may switch the radio on and off again, is part of the handler of that frame.  The
history variables `starts` and `lost` of `app` count the starts and record a report that had no UDP
connection.  That RPL-lite as it is in the code behaves like `RplJoin` is the run `rpl`.

**Sicslowpan.**  `output` drops the packet, queues it whole, or queues its fragments, of
which the MAC may take only the first few; `input` handles one frame.  `QueueBufs` are the
queue buffers of one sender.  Frames are lost, delivered twice (as `CsmaLink` allows), senders restart, and the reassembly timers expire
at any time.  A packet that is given to the IP layer is kept in `up` for one step, as the set of its
pieces with the packet each one comes from.

## 3. Runs

| Run | Instance | Shows |
|---|---|---|
| `queues` | a ring buffer of 4 slots with 2 byte values, an event queue of 3 slots with counters of range 5; each step is one of either | `Inv`, `SlotsDisjoint`, and `ImplementsFifo`: a FIFO of 3; `QueueTypeOK` and `QueueImplementsFifo`: 5 is the smallest range the assumption allows |
| `kernel_calls` | 3 processes, 1 event slot, calls nested twice, 2 calls each, exits of processes in the middle of a call, no polls | `ListMatchesState`, `NoReentry`, `CurrentIsRunning`, `BroadcastReachesAll` |
| `kernel_self_exit` | 2 processes that post and exit | **violates** `EndedIsStopped` |
| `kernel_polls` | 2 processes, both polled by interrupts, handlers that post, poll, start and exit | `PollNotLost`, `PollServed` (liveness) |
| `etimer` | 2 timers, 2 processes, clock of 7, intervals 0 and 2, 1 event slot | `NoTimerForgotten`, `NeverEarly` |
| `ctimer` | 2 callback timers, interval 1, clock of 5, 2 event slots, other events | `ActsAsCallbackTimer` (action property), `CallbackNotEarly`, `CallbackComes` (liveness) |
| `csma_output` | 3 destinations, 3 packets, pools of 2, sequence numbers 0 and 1 | `TimerMatchesQueue`, `PoolsConserved`, `SentCallbackOnce`, `CountsAreOwn`, `EveryPacketReported` (liveness) |
| `csma_link` | a unicast and the broadcast queue, 3 packets of two attempts, 2 other senders, a history of 2, sequence numbers below 6 | `AcknowledgedIsDelivered`, `DeliveredInOrder`, `RepeatedOnlyAfterOther` |
| `rpl` | routers with 2 neighbours, with and without DAO acknowledgements, in a DAG with downward routes that expire; a router and a leaf with 1 neighbour, whose DIOs configure any DAG | `TypeOK`, `NoDanglingNeighbor`, `ProbingComes`, `DaoTimerRuns`, `AdvertisingTimerRuns`, `LeavePending`, `DefaultRouteIsParent`, `ImplementsJoin` (refinement) |
| `leaf` | a leaf with 2 UDP connections | `TypeOK`, `StoppedIsDeaf`, `ReportsReachUdp`, `ListensForDio` and `StoppedLeafWakes` (liveness) |
| `leaf_stopped` | the same | **violates** `ReachableRuns` |
| `sicslowpan` | 2 senders of 2 packets in 1 to 3 fragments, 2 contexts, 2 fragment buffers, 4 queue buffers, 1 duplicate, 1 restart | `CountsMatchBuffers`, `WholeUnlessRepeated`, `QueuebufsSuffice` |

Why the bounds are enough to be interesting.

* Three processes are the least with which the loop over the list has a process
  before, at and behind the one that a handler stops; two levels of nesting are the
  least at which a saved `process_current` is not the outermost one.  With polls
  two processes suffice: one is passed by the loop, one is ahead of it.  Two calls of each activation let a process end
  itself, its caller, or one that a broadcast stands on, and then start or call another.
* A clock of five or seven values wraps every few steps; `MaxAge` is one more than the longest
  interval, so that the scheduler is late by a tick.  `MaxAge` bounds how late the scheduler may get to a pending
  timer; the unsigned arithmetic of `timer.c` needs some such bound (below half the
  range of the clock: months, for 32-bit ticks).  One event slot makes the queue full again and again.
* Three packets to three destinations, with blocks for two packets and entries for two
  neighbours, make every allocation of `csma_output_packet` fail in some state.  Sequence numbers 0 and 1
  make the skip of zero and the wrap happen at once.  In `csma_link` two other senders push the
  sender's entry out of a history of two, also between a frame and its retransmission.
* The limit of 3 packets in `csma_link` with 5 usable sequence numbers keeps fewer
  packets in flight than numbers; with 255 numbers, 64 or fewer queue buffers and
  ageing after 20 s the code stays within that; what the receivers do when a number comes round is not shown.
* Two neighbours are the least with which parents are switched, a neighbour other than the parent
  is evicted, and a route is left behind while another parent is found.  With one neighbour the instance has two
  ranks, of which the higher one is not acceptable to a node that has had the lower one.  One retransmission
  and a lifetime of two periods make the limits close; the delays of the leave and DIS events, which
  matter for the timers and not for the choice of parents, are explored on the leaf.
* Two UDP connections let the application be started once, once more, and once too often.
* Two senders that share two contexts fill them and compete for two fragment buffers, of which a packet
  of three fragments takes both; four queue buffers do not hold two such packets.  A packet of
  length 12 takes a third fragment that a count rounded down would miss.

### Deviations from what the repository says

* `leaf_stopped`: the hook in `rpl-icmp6.c:72` is there to save power before a node joins,
  and stops all processes when no DIO was received (line 84).  A DIO that the radio has received in time and that is handled
  just after the callback makes the node join with its application stopped, unless a frame is sent before and takes its buffer; since it
  now has a parent, no DIS will start the application again.

* `kernel_self_exit`: `process.h:384` says that `process_exit` causes a process to exit and that it can be the
  currently executing one.  When the thread of such a process, or of one that waits in the middle of a call, then yields,
  `call_process` (`process.c:196`) marks it running although it is off the list: events that are addressed to it reach it,
  polls and broadcasts do not, and a start calls its thread function from the beginning although it may still be active.
  `kernel_calls` shows what still holds then.

Seen while modelling, without a run of their own:

* `csma-output.c:237` counts an acknowledgement "not for us" as a collision.  Line 232 looks at its
  length and its sequence number only, and an acknowledgement has no address: one that another receiver sends another node for
  the same number makes the packet count as sent although its receiver did not hear it.  `mistaken` has such packets in the run `csma_link`, and
  `AcknowledgedIsDelivered` says what holds otherwise.
* A process in the middle of a synchronous call misses `PROCESS_EVENT_EXITED` (`process.c:149`).
* `etimer.h:243` promises the next expiration time of all pending timers; after the exit of an owner it is that
  of a timer that is gone (`etimer.c:107`).  It errs on the safe side: `NoTimerForgotten` holds.
  `etimer_adjust` past the present makes a timer expire at once, and past its expiration is noticed only at the next
  wake-up, so the model restricts it to the "small adjustments" its documentation asks for.
* A callback timer set again while the event of its last expiration is queued calls back at once and
  then runs without an entry (`ctimer.c:76`).  `CallbackNotEarly` shows that nothing else comes early, and `RplNode` and `LeafNode`
  have this behaviour in their timers.
* `mac-sequence.h:51`: the history keeps one number for a sender, so that a broadcast between a unicast frame and its
  retransmission makes a duplicate; so do frames of as many other nodes as the history has entries (16).
  `RepeatedOnlyAfterOther` shows that these are the only ways to one, while no number is given out twice and the retransmissions of a packet take less than `SEQNO_MAX_AGE`.
* A global repair stops the leave timer and does not set it again (`rpl-dag.c:231`), so that a node without a parent since then
  stays in the DAG, and poisoning does not schedule the leave either if the rank is already infinite
  (`rpl-dag.c:279`); the exception of `LeavePending` says so.  It also forgets the parent but not the parent's default route:
  the exception of `DefaultRouteIsParent`, and the reason why `ListensForDio` speaks of routes.
* A global repair does not look at the result of `init_dag_from_dio` (`rpl-dag.c:232`): if the DIO of the new version has an objective function or
  a prefix that the node does not support, the node is out of its DAG from one call to the next, without poisoning and with its default route, and the local repair that follows
  does nothing.  Nor does it check the mode of operation, as joining does (`rpl-dag.c:559`).
* In a DAG without downward routes no DAO is sent (`rpl-timers.c:265`), and in one whose routes do not expire none is repeated (`rpl-timers.c:240`): the exceptions of `DaoTimerRuns`.
* `rpl_timers_unschedule_leaving` does nothing when the leave event is already queued (`rpl-timers.c:485`): a node that
  finds a parent at that moment leaves all the same.
* The no-path DAO on leaving is sent only by a node that still has a parent (`rpl-dag.c:108`, `rpl-icmp6.c:597`), that is almost never; the reset of the
  trickle timer "Poison routes" comes after the state is INITIALIZED and does nothing (`rpl-dag.c:345`); a negative DAO acknowledgement sets
  POISONING without scheduling an update (`rpl-dag.c:665`), which waits for the next one.
* Every start of the application takes a UDP connection and none is given back (`app.c:364`): `ReportsReachUdp` is the most that holds.
  Every start of `very_sleepy_demo_process` adds `IS_OBSERVABLE` to the flags of its resource (`lpm-mode.c:379`) and allocates an event
  number; `keep_mac_on` follows a NULL instance while the node is in no DAG (`lpm-mode.c:291`); `app_process` resets its packet
  mark at every event (`app.c:353`).
* Reassembly counts bytes: a duplicate fragment makes a packet with a hole complete (`sicslowpan.c:387`), and a sender that
  restarts within the life of a context mixes two packets.  `WholeUnlessRepeated` shows that nothing else does as long as `my_tag` does not come round: after
  65536 packets a tag is used again, and a fragment that is not the first finds its context by sender and tag, also one that has timed out and was not cleared (`sicslowpan.c:366`).

### Fairness

* `ProcessKernel!FairSpec`: weak fairness of `Step` (a processor that is not
  interrupted for ever executes its next instruction) and strong fairness of
  `BootDone` (`main` starts finitely many processes).  Interrupts and the calls of a
  thread function are under no fairness; the latter are bounded by `MaxCalls`, since a
  thread function that never returns stops the node.
* `Ctimer!CFairSpec`: weak fairness of the clock and of the steps of
  `etimer_process`; strong fairness of the poll and of the delivery of events, for
  `process_run` polls and then delivers one event, in turn (`PollServed` and
  `QueueImplementsFifo` show that a poll and an event are not forgotten).
  `CallbackComes` is about timers that the application does not set again for ever.
* `CsmaOutput!CsmaFairSpec`: weak fairness of each transmit timer, by `CallbackComes`;
  none of the radio or of the medium: `EveryPacketReported` holds also if no
  transmission ever succeeds.
* `LeafNode!LeafFairSpec`: weak fairness of the end of a transmission (`send_one_packet` waits for bounded times only), and strong fairness of the handling of the DIS timer's event, of the periodic timer and of
  the passes of the very sleepy mode: a timer that is set expires and is handled (`CallbackComes`).  It is strong because no event is handled while a
  frame is sent; the event stays in the queue meanwhile, and `process_run` serves the queue between handlers.  Nothing
  is assumed of the network, the radio or the application.  The liveness of RPL-lite is checked here, on `RplJoin`.

The kernel, the timers, RPL and the leaf never deadlock; `csma_output` and `sicslowpan` do
stop once their packets are dealt with, which is what a sender without packets does.

## 4. Proofs

Proved for every value of the constants:

* `RingBufProofs!RingBufInv`, `RingBufRefinesFifo` and `RingBufSlotsDisjoint`: for every size that is a
  power of two up to 128 (`SizeAssumption`; `uint8_t size` cannot hold more) the
  ring buffer implements a FIFO of `Size - 1` elements, and the two sides never touch the same slot.  The invariant `Inv` adds to
  the types what each function's test has established: past its test, the producer
  finds a free slot and the consumer an element, whatever the other one does
  meanwhile, and the byte the consumer has read is still in its slot.  The test
  alone is not inductive: it is made before the write, and needs that the other
  side only ever adds room (or elements).  The refinement maps the abstract queue to the slots between
  `get_ptr` and `put_ptr`; a put takes effect at the write of `put_ptr`.
* `EventQueueProofs!EventQueueTypeOK` and `EventQueueRefinesFifo`: for every queue
  length with `2 * NumEvents - 2 < CounterRange` (`CounterAssumption`; 128 for the
  8-bit counters of the code, which uses 32) the casts lose nothing, the slots of
  the pending events are distinct, and the array implements a FIFO of `NumEvents`.
* `ProcessKernelProofs`: all five invariants of the kernel, for any number of processes and events and any nesting of
  calls (`KernelAssumption`).  `StackInv` is about the whole stack of activations: what each one may have been called by
  (`Shape`), the process states that they imply (`Marked`), `process_current` at each level (`Current`), the process list (`Listed`), and that
  a loop over the list stands on a process that is on it or is just being taken off (`CursorListed`).  It gives `KernelNoReentry`
  and the last part of `KernelListMatchesState`, that what runs is on the list.  All of it lasts until a process is ended in the middle of a call (`torn`).  `ListInv` is the part
  that lasts for ever: what a thread function calls has saved `process_current`, and the list has no process twice and none that is stopped.  It gives the rest of `KernelListMatchesState`, and `KernelCurrentIsRunning`, without a condition.
  `KernelPollNotLost` needs in addition that `do_poll`, wherever it stands, still comes to every process that waits (`Comes`), and
  `KernelBroadcastReachesAll` that the `next` pointers lead the loop of a broadcast to every process that is due, through processes that
  left the list while the loop stood on them and came back at its head (`Leads`: every set that contains the loop's position and is closed under
  `next` contains what is due).
* `EtimerProofs`: `EtimerNoTimerForgotten` and the action property `EtimerNeverEarly`, for any number of timers and processes, any event queue and any
  clock with more than `2 * MaxAge` values (`ClockAssumption`: intervals and the delay of the scheduler stay below half the range).  `EtimerInv` ties
  the wrapped values to the true age of a timer (`InStep`), says that a timer that has expired is ahead of the scan or a poll is pending (`Seen`), and that `next_expiration` is
  not after the expiration of any timer that is running, and not before its start (`Wakes`).  Without the second half the property is
  not inductive: a time that lies far enough back would, by the wrap, turn into one that lies ahead.
  On top of it, the two action properties of the callback timers: `CtimerCallbackNotEarly` and `CtimerActsAsCallbackTimer`.  Every step of `Ctimer` is one of `Etimer`, so that `EtimerInv` holds;
  `CtimerInv` adds that an entry of `ctimer_list` is that of a timer that runs, or has expired and whose event is queued.
  `Slow`, in `ActsAsCallbackTimer`, is a hypothesis on the user's delays, not on the constants: `ctimer_process` does not tell two queued events of one timer apart.
* `CsmaOutputProofs`: all four invariants, for any number of destinations, packets, blocks and retransmissions (`CsmaAssumption`).
  `CsmaTimerMatchesQueue`: a neighbour has an entry and a running transmit timer exactly while it has packets (`QueueInv`).  `CsmaSentCallbackOnce` adds that a packet
  has one place at most and has been reported exactly if it was accepted or refused and has no place any more (`PacketInv`); `CsmaCountsAreOwn` that what is behind the head of
  a queue has not been tried (`CountInv`); `CsmaPoolsConserved` that every place is paid for by a block of each pool (`PoolInv`).  Every step has one of a few shapes (a packet is
  accepted, refused, kept or done), and each shape keeps each part.
* `CsmaOutputProofs`, for both ends of a link (`LinkAssumption`): `LinkAcknowledgedIsDelivered`, `LinkDeliveredInOrder` and `LinkRepeatedOnlyAfterOther`, for any number of receivers, other nodes, entries of the history and retransmissions.  They have
  a hypothesis that the code needs.  The receiver compares 8-bit numbers, so a packet with the number of an earlier one can be dropped as its duplicate: no number is given out twice, that is, there are at most
  `SeqRange - 1` packets (255), and less than half as many where the property compares numbers modulo the range.  `LinkNeverForgotten`: if the history has an entry for every node that is heard, the sender is
  never evicted, and only a packet for another address makes a duplicate.  `LinkInv` counts for every number how many packets ago it was given out (`Back`), which unlike the number itself does not wrap: `Numbered` says that no two
  packets have the same one, `InTurn` that queues and deliveries are in this order and that what was delivered is older than what is queued, `Recorded` that the history has only numbers of delivered packets, one for each node.
  `RepeatInv` adds that the history has the number of the packet delivered last unless it was pushed out since, and that the entry has aged only if the packet is no longer queued (`Newest`).
* `RplNodeProofs`: all seven invariants of RPL-lite, and `RplImplementsJoin`: the node implements `RplJoin`, for any number of neighbours, any ranks and limits (`RplAssumption`).
  A handler is a cascade of operators from node to node, so the argument is about the operators.  The invariant is `NodeInv`: `Good(node)`, the leave timer (`Leaves`, unless the node is repairing) and the routes.  Every function of the code
  keeps or restores `Good`; between the functions of one handler a part of it may be broken, so that `rpl_dag_update_state`, which comes last, is described by what it does to any node in a DAG (`Updated`).  `Keeps` and `Handles` collect
  what a function, and a whole handler, leave true, and the one move of `RplJoin` that it amounts to.
  `RplDefaultRoute` (`DefaultRouteIsParent`) has the hypothesis `Cardinality(Nbr) <= DefrtNb`: with fewer default routers than neighbours `uip_ds6_defrt_add` can fail;
  `RplNoOtherRoute` says what holds then: a switch of parents leaves no other route behind.
* `LeafNodeProofs`: `LeafTypeCorrect` (a fault is reported at most three times), `LeafStoppedIsDeaf` and `LeafReportsReachUdp`, for any number of UDP connections (`LeafAssumption`) and assuming
  nothing of RPL-lite beyond `RplJoin`.  `StoppedIsDeaf` is inductive.  A report is lost when `udp_conn` is NULL;
  the strengthening `AppInv` adds that the connections taken are as many as the starts, as long as there are some left.
* `SicslowpanProofs`: `FragmentationQueuebufsSuffice`, `ReassemblyCountsMatchBuffers` and `ReassemblyWholeUnlessRepeated`, for packets and frames of any lengths and any number of senders, queue buffers, contexts and
  fragment buffers (`SicslowpanAssumption`).  The first rests on `CountIsRight`: the number of fragments that `output` computes with a division is the number that its loop makes.  The
  second on `RxOK`: the buffers in use belong to contexts in use, and a context has counted its first fragment and the sum of its buffers; a context that is taken has no buffers because they
  were freed with it.  The third on `WholeInv`: there is a set of fragments that were sent (`Sent`), which contains what is queued and what the contexts and buffers hold (`Received`), and in which,
  until a restart, a tag names one packet (`Tagged`; `my_tag` does not wrap within `MaxPackets`).  The fragments that the loop of `output` makes of a packet do not overlap (`PartsApart`), so that distinct
  ones have as many bytes as their lengths add up to, and as many as the packet has only if they are all of them (`AllBytes`).

What a recursive definition computes (the loop of `output`, the sum over a set of buffers) is proved without an induction
theorem: the arguments' sizes for which the statement holds are a set of numbers, which contains 0 and with each number its successor, and a set of numbers that
is not empty has a least element (`SicslowpanProofs!Induction`).

Only model-checked: all liveness (the prover has no fairness rules).

## 5. Not modelled

* The length of the random back-off: a transmit timer may expire at any time.
* The radio's on and off, except on the leaf (`LeafNode`).
* What follows when a DIO that `init_dag` refused goes on to a full neighbour table: `curr_instance.of` is NULL then, and the policy that
  looks for a neighbour to remove reads through it (`rpl-neighbor.c:236`).  The lock that such a node keeps on its former parent is left out, too: any neighbour but the present parent may be evicted.
* 6LoWPAN tags, MAC sequence numbers and event numbers that come round (see the hazards without a property in `PROJECT.json`).
* Calls of `ctimer_*` before `ctimer_init` (`main` calls it first), timers set
  outside process context, and `process_alloc_event`.
* Link-layer security, frame formats, header compression, the radio hardware.
* The root of a DAG with its source routes, RPL's extension headers and option formats, the arithmetic of the
  link metric, the timer of the unicast DIO (its callback does what the answer to a unicast DIS does).
* The CoAP resources, the button and the battery process of the leaf; the sensors of the other products.
* The components that `PROJECT.json` marks `not_modelled`.

## 6. Plan

In this order:

1. `NbrTable` (locks and eviction of slots that several tables share), `CoapTransactions`
   (retransmission with a doubling timeout), `SixP` (both sides of a 6P transaction).
2. The root: DAO input, source routes and their expiry, global repair from the initiating side.

Runs are kept to one for each question; where a later module asks a better question
about the same code, its run replaces the older one.
