--------------------------- MODULE ProcessKernel ---------------------------
(***************************************************************************)
(* The process kernel of os/sys/process.c, driven by the main loop of      *)
(* os/contiki-main.c.                                                      *)
(*                                                                         *)
(* Contiki runs every process on one stack: a thread function runs until   *)
(* it returns, and while it runs it may call back into the kernel, which   *)
(* calls other thread functions.  The variable stack holds the activations *)
(* that have not returned yet, oldest first: loops of the kernel with      *)
(* their locals, and thread functions, whose code is a free choice of      *)
(* kernel calls.  An interrupt may call process_poll between any two       *)
(* steps.                                                                  *)
(***************************************************************************)
EXTENDS Naturals, Sequences, FiniteSets

CONSTANTS Proc,       \* the process structures
          NULL,       \* the null pointer, also PROCESS_BROADCAST
          UserEvent,  \* the events that applications define
          NumEvents,  \* PROCESS_CONF_NUMEVENTS
          Api,        \* the kernel calls that thread functions make
          Drivers,    \* the processes that interrupt handlers poll
          MaxCalls,   \* bound: kernel calls made by one thread activation
          MaxNest     \* bound: thread activations on the stack

\* Before the first element of a list: the cursor of a loop that has not begun.
Start == "start"

\* PROCESS_EVENT_INIT comes from process_start only.
ASSUME KernelAssumption ==
    /\ NULL \notin Proc /\ Start \notin Proc \cup {NULL}
    /\ "INIT" \notin UserEvent
    /\ NumEvents \in Nat \ {0}
    /\ Api \subseteq {"post", "synch", "start", "exit", "exit_called", "poll", "context"}
    /\ Drivers \subseteq Proc
    /\ MaxCalls \in Nat
    /\ MaxNest \in Nat

VARIABLES process_list,    \* the list that starts at process_list, as a sequence
          oldNext,         \* p->next of a process that has left the list
          state,           \* p->state
          needspoll,       \* p->needspoll
          poll_requested,
          process_current,
          events,          \* the event queue (see EventQueue)
          stack,           \* the activations on the C stack
          main,            \* where main() is: booting, or inside process_run
          wanted,          \* history: live processes with an unanswered process_poll
          due,             \* history: who the broadcast being delivered must reach
          torn             \* history: a process has been ended in the middle of a call

vars == <<process_list, oldNext, state, needspoll, poll_requested,
          process_current, events, stack, main, wanted, due, torn>>

-----------------------------------------------------------------------------
(* Activations.                                                            *)

Event == UserEvent \cup {"INIT", "POLL", "EXIT", "EXITED"}

\* pc    thread   a thread function, called by call_process
\*       on_exit  a thread function, called by exit_process with PROCESS_EVENT_EXIT
\*       synch    process_post_synch, waiting for call_process
\*       notify   exit_process, in the loop that announces the exit of p
\*       unlink   exit_process, after the loop
\*       poll     do_poll
\*       bcast    do_event, in the loop that delivers a broadcast
\*       deliver  do_event, between its do_poll and its call_process
\* p     the process of a thread, or the one that exits
\* ev    the event of a thread or of a broadcast
\* at    the list element a loop has reached
\* old   the local variable old_current, caller or tmp_current
\* from  the argument fromprocess of exit_process
\* n     the number of kernel calls a thread has made
Frame(pc, p, ev, at, old, from) ==
    [pc |-> pc, p |-> p, ev |-> ev, at |-> at, old |-> old, from |-> from, n |-> 0]

Frames == [pc : {"thread", "on_exit", "synch", "notify", "unlink", "poll",
                 "bcast", "deliver"},
           p : Proc \cup {NULL}, ev : Event, at : Proc \cup {NULL, Start},
           old : Proc \cup {NULL}, from : Proc \cup {NULL}, n : 0 .. MaxCalls]

Thread(p, ev) == Frame("thread", p, ev, NULL, NULL, NULL)
OnExit(p)     == Frame("on_exit", p, "EXIT", NULL, NULL, NULL)
Synch(caller) == Frame("synch", NULL, "INIT", NULL, caller, NULL)
PollLoop      == Frame("poll", NULL, "POLL", Start, NULL, NULL)
BcastLoop(ev) == Frame("bcast", NULL, ev, Start, NULL, NULL)

IsUser(f) == f.pc \in {"thread", "on_exit"}
Top == stack[Len(stack)]
TopIs(pc) == stack # <<>> /\ Top.pc = pc
UserOnTop == stack # <<>> /\ IsUser(Top)
Below == SubSeq(stack, 1, Len(stack) - 1)
OnStack(p) == \E i \in DOMAIN stack : IsUser(stack[i]) /\ stack[i].p = p
Exiting(p) == \E i \in DOMAIN stack :
                 stack[i].pc \in {"notify", "unlink"} /\ stack[i].p = p

-----------------------------------------------------------------------------
(* The process list.                                                       *)

OnList == {process_list[i] : i \in DOMAIN process_list}
Position(q) == CHOOSE i \in DOMAIN process_list : process_list[i] = q

\* q->next
NextOf(q) ==
    IF q \notin OnList THEN oldNext[q]
    ELSE IF Position(q) = Len(process_list) THEN NULL
    ELSE process_list[Position(q) + 1]

\* Where the loop of activation f goes from the element it has reached.
Cursor(f) ==
    IF f.at # Start THEN NextOf(f.at)
    ELSE IF process_list = <<>> THEN NULL ELSE process_list[1]

Without(q) == SubSeq(process_list, 1, Position(q) - 1)
              \o SubSeq(process_list, Position(q) + 1, Len(process_list))

-----------------------------------------------------------------------------
(* The functions of process.c.  The argument rest is the stack below the   *)
(* activation that the function starts.                                    *)

\* call_process that accepts every process that is not stopped.
call_processAgain(st, p, ev, rest) ==
    IF st[p] # "NONE"
    THEN /\ process_current' = p
         /\ state' = [st EXCEPT ![p] = "CALLED"]
         /\ stack' = Append(rest, Thread(p, ev))
    ELSE state' = st /\ stack' = rest /\ UNCHANGED process_current

\* call_process up to the call of the thread function; st is p->state.
call_process(st, p, ev, rest) ==
    IF st[p] = "RUNNING"
    THEN /\ process_current' = p
         /\ state' = [st EXCEPT ![p] = "CALLED"]
         /\ stack' = Append(rest, Thread(p, ev))
    ELSE /\ state' = st
         /\ stack' = rest
         /\ UNCHANGED process_current

\* exit_process up to its loop.
exit_process(p, fromprocess, rest) ==
    /\ UNCHANGED process_current
    /\ IF p \notin OnList
       THEN stack' = rest /\ UNCHANGED <<state, wanted, due>>
       ELSE /\ stack' = Append(rest, Frame(
                          IF state[p] = "NONE" THEN "unlink" ELSE "notify",
                          p, "EXIT", Start, process_current, fromprocess))
            /\ state' = [state EXCEPT ![p] = "NONE"]
            /\ wanted' = wanted \ {p}
            /\ due' = due \ {p}

\* One iteration of the loop that announces the exit of Top.p, or what follows
\* the loop: PROCESS_EVENT_EXIT, unless the process itself asked for the exit.
ExitNotify ==
    /\ TopIs("notify")
    /\ LET q == Cursor(Top)
           unlinking == Append(Below, [Top EXCEPT !.pc = "unlink"])
           reached == Append(Below, [Top EXCEPT !.at = q])
       IN  IF q = NULL
           THEN /\ IF Top.p # Top.from
                   THEN /\ process_current' = Top.p
                        /\ stack' = Append(unlinking, OnExit(Top.p))
                   ELSE /\ stack' = unlinking
                        /\ UNCHANGED process_current
                /\ UNCHANGED state
           ELSE IF q = Top.p
           THEN stack' = reached /\ UNCHANGED <<process_current, state>>
           ELSE call_process(state, q, "EXITED", reached)
    /\ UNCHANGED <<process_list, oldNext, needspoll, poll_requested, events,
                   main, wanted, due, torn>>

\* The end of exit_process, clearing p->next.
ExitUnlinkClearsNext ==
    /\ TopIs("unlink")
    /\ oldNext' = [oldNext EXCEPT ![Top.p] = NULL]
    /\ process_list' = IF Top.p \in OnList THEN Without(Top.p) ELSE process_list
    /\ process_current' = Top.old
    /\ stack' = Below
    /\ UNCHANGED <<state, needspoll, poll_requested, events, main, wanted, due, torn>>

\* The end of exit_process: take the process off the list.
ExitUnlink ==
    /\ TopIs("unlink")
    /\ IF Top.p \in OnList
       THEN /\ oldNext' = [oldNext EXCEPT ![Top.p] = NextOf(Top.p)]
            /\ process_list' = Without(Top.p)
       ELSE UNCHANGED <<oldNext, process_list>>
    /\ process_current' = Top.old
    /\ stack' = Below
    /\ UNCHANGED <<state, needspoll, poll_requested, events, main, wanted, due, torn>>

\* The end of process_post_synch that does not restore the caller.
SynchReturnKeepsCurrent ==
    /\ TopIs("synch")
    /\ stack' = Below
    /\ UNCHANGED <<process_list, oldNext, state, needspoll, poll_requested,
                   process_current, events, main, wanted, due, torn>>

\* The end of process_post_synch.
SynchReturn ==
    /\ TopIs("synch")
    /\ process_current' = Top.old
    /\ stack' = Below
    /\ UNCHANGED <<process_list, oldNext, state, needspoll, poll_requested,
                   events, main, wanted, due, torn>>

\* process_start that tests the state instead of searching the list.
process_startByState(p, rest) ==
    /\ IF state[p] # "NONE"
       THEN stack' = rest /\ UNCHANGED <<process_list, state, process_current>>
       ELSE /\ process_list' = <<p>> \o process_list
            /\ call_process([state EXCEPT ![p] = "RUNNING"], p, "INIT",
                            Append(rest, Synch(process_current)))
    /\ UNCHANGED <<oldNext, needspoll, poll_requested, events, wanted, due>>

\* process_start, called from the activation that ends rest.
process_start(p, rest) ==
    /\ IF p \in OnList
       THEN stack' = rest /\ UNCHANGED <<process_list, state, process_current>>
       ELSE /\ process_list' = <<p>> \o process_list
            /\ call_process([state EXCEPT ![p] = "RUNNING"], p, "INIT",
                            Append(rest, Synch(process_current)))
    /\ UNCHANGED <<oldNext, needspoll, poll_requested, events, wanted, due>>

\* process_post: PROCESS_ERR_FULL drops the event.
process_post(p, ev) ==
    /\ events' = IF Len(events) = NumEvents
                 THEN events
                 ELSE Append(events, [ev |-> ev, p |-> p])
    /\ UNCHANGED <<process_list, oldNext, state, needspoll, poll_requested,
                   process_current, wanted, due>>

\* process_poll: ignored for a process that is not running.
process_poll(p) ==
    /\ IF state[p] # "NONE"
       THEN /\ needspoll' = [needspoll EXCEPT ![p] = TRUE]
            /\ poll_requested' = TRUE
            /\ wanted' = wanted \cup {p}
       ELSE UNCHANGED <<needspoll, poll_requested, wanted>>
    /\ UNCHANGED <<process_list, oldNext, state, process_current, events, due>>

\* do_poll that clears poll_requested after its loop.
PollStepClearsLate ==
    /\ TopIs("poll")
    /\ LET p == Cursor(Top)
           reached == Append(Below, [Top EXCEPT !.at = p])
       IN  IF p = NULL
           THEN stack' = Below /\ poll_requested' = FALSE
                /\ UNCHANGED <<state, process_current, needspoll, wanted>>
           ELSE /\ UNCHANGED poll_requested
                /\ IF needspoll[p]
                   THEN /\ needspoll' = [needspoll EXCEPT ![p] = FALSE]
                        /\ call_process([state EXCEPT ![p] = "RUNNING"], p, "POLL",
                                        reached)
                        /\ wanted' = wanted \ {p}
                   ELSE stack' = reached
                        /\ UNCHANGED <<state, process_current, needspoll, wanted>>
    /\ UNCHANGED <<process_list, oldNext, events, main, due, torn>>

\* One iteration of the loop of do_poll.
PollStep ==
    /\ TopIs("poll")
    /\ LET p == Cursor(Top)
           reached == Append(Below, [Top EXCEPT !.at = p])
       IN  IF p = NULL
           THEN stack' = Below
                /\ UNCHANGED <<state, process_current, needspoll, wanted>>
           ELSE IF needspoll[p]
           THEN /\ needspoll' = [needspoll EXCEPT ![p] = FALSE]
                /\ call_process([state EXCEPT ![p] = "RUNNING"], p, "POLL", reached)
                /\ wanted' = wanted \ {p}
           ELSE stack' = reached
                /\ UNCHANGED <<state, process_current, needspoll, wanted>>
    /\ UNCHANGED <<process_list, oldNext, poll_requested, events, main, due, torn>>

\* One iteration of the broadcast loop of do_event, up to its do_poll if there
\* is one.
BcastStep ==
    /\ TopIs("bcast")
    /\ LET p == Cursor(Top)
           reached == [Top EXCEPT !.at = p]
       IN  IF p = NULL
           THEN stack' = Below
                /\ UNCHANGED <<state, process_current, poll_requested, due>>
           ELSE IF poll_requested
           THEN /\ poll_requested' = FALSE
                /\ stack' = Below \o <<[reached EXCEPT !.pc = "deliver"], PollLoop>>
                /\ UNCHANGED <<state, process_current, due>>
           ELSE /\ call_process(state, p, Top.ev, Append(Below, reached))
                /\ due' = due \ {p}
                /\ UNCHANGED poll_requested
    /\ UNCHANGED <<process_list, oldNext, needspoll, events, main, wanted, torn>>

\* The rest of that iteration.
BcastDeliver ==
    /\ TopIs("deliver")
    /\ call_process(state, Top.at, Top.ev, Append(Below, [Top EXCEPT !.pc = "bcast"]))
    /\ due' = due \ {Top.at}
    /\ UNCHANGED <<process_list, oldNext, needspoll, poll_requested, events,
                   main, wanted, torn>>

-----------------------------------------------------------------------------
(* main().                                                                 *)

process_init ==
    /\ process_list = <<>>
    /\ oldNext = [p \in Proc |-> NULL]
    /\ state = [p \in Proc |-> "NONE"]
    /\ needspoll = [p \in Proc |-> FALSE]
    /\ poll_requested = FALSE
    /\ process_current = NULL
    /\ events = <<>>
    /\ stack = <<>>
    /\ main = "boot"
    /\ wanted = {}
    /\ due = {}
    /\ torn = FALSE

\* main() starts processes of the system and of the application ...
BootStart ==
    /\ stack = <<>> /\ main = "boot"
    /\ \E p \in Proc : process_start(p, stack)
    /\ UNCHANGED <<main, torn>>

\* ... and enters its loop.
BootDone ==
    /\ stack = <<>> /\ main = "boot"
    /\ main' = "poll"
    /\ UNCHANGED <<process_list, oldNext, state, needspoll, poll_requested,
                   process_current, events, stack, wanted, due, torn>>

\* process_run: poll the processes that asked for it ...
RunPoll ==
    /\ stack = <<>> /\ main = "poll"
    /\ main' = "event"
    /\ IF poll_requested
       THEN poll_requested' = FALSE /\ stack' = <<PollLoop>>
       ELSE UNCHANGED <<poll_requested, stack>>
    /\ UNCHANGED <<process_list, oldNext, state, needspoll, process_current,
                   events, wanted, due, torn>>

\* ... and deliver one event (do_event).
RunEvent ==
    /\ stack = <<>> /\ main = "event"
    /\ main' = "poll"
    /\ IF events = <<>>
       THEN UNCHANGED <<state, process_current, stack, events, due>>
       ELSE LET e == Head(events)
            IN  /\ events' = Tail(events)
                /\ IF e.p = NULL
                   THEN /\ stack' = <<BcastLoop(e.ev)>>
                        /\ due' = OnList
                        /\ UNCHANGED <<state, process_current>>
                   ELSE /\ call_process(
                             IF e.ev = "INIT"
                             THEN [state EXCEPT ![e.p] = "RUNNING"]
                             ELSE state, e.p, e.ev, stack)
                        /\ UNCHANGED due
    /\ UNCHANGED <<process_list, oldNext, needspoll, poll_requested, wanted, torn>>

-----------------------------------------------------------------------------
(* Thread functions: any sequence of at most MaxCalls kernel calls, then a *)
(* return.                                                                 *)

\* The stack while the thread on top makes one more call.
Calling == Append(Below, [Top EXCEPT !.n = @ + 1])

MayCall(f) == UserOnTop /\ Top.n < MaxCalls /\ f \in Api
MayNest(f) == MayCall(f) /\ Cardinality({i \in DOMAIN stack : IsUser(stack[i])}) < MaxNest

CallPost ==
    /\ MayCall("post")
    /\ \E p \in Proc \cup {NULL}, ev \in UserEvent : process_post(p, ev)
    /\ stack' = Calling
    /\ UNCHANGED <<main, torn>>

CallPoll ==
    /\ MayCall("poll")
    /\ \E p \in Proc : process_poll(p)
    /\ stack' = Calling
    /\ UNCHANGED <<main, torn>>

CallSynch ==
    /\ MayNest("synch")
    /\ \E p \in Proc, ev \in UserEvent :
          call_process(state, p, ev, Append(Calling, Synch(process_current)))
    /\ UNCHANGED <<process_list, oldNext, needspoll, poll_requested, events,
                   main, wanted, due, torn>>

CallStart ==
    /\ MayNest("start")
    /\ \E p \in Proc : process_start(p, Calling)
    /\ UNCHANGED <<main, torn>>

\* process_exit on what its contract names: "the currently executing process, or another
\* process that is currently running".  It tells a process that is in the middle of a call
\* from no other, so that the call goes on after the exit; such calls are made if Api has
\* "exit_called".
CallExit ==
    /\ MayNest("exit")
    /\ \E p \in Proc :
          /\ p = Top.p \/ state[p] # "NONE"
          /\ OnStack(p) => "exit_called" \in Api
          /\ exit_process(p, process_current, Calling)
          /\ torn' = (torn \/ (OnStack(p) /\ p \in OnList))
    /\ UNCHANGED <<process_list, oldNext, needspoll, poll_requested, events, main>>

\* PROCESS_CONTEXT_BEGIN and PROCESS_CONTEXT_END, around other calls.
CallContext ==
    /\ UserOnTop
    /\ \/ /\ MayCall("context") /\ Top.old = NULL
          /\ process_current' \in Proc
          /\ stack' = Append(Below, [Calling[Len(stack)] EXCEPT !.old = process_current])
       \/ /\ Top.old # NULL
          /\ process_current' = Top.old
          /\ stack' = Append(Below, [Top EXCEPT !.old = NULL])
    /\ UNCHANGED <<process_list, oldNext, state, needspoll, poll_requested,
                   events, main, wanted, due, torn>>

\* The thread function returns to call_process, having yielded or ended, or to
\* exit_process, which ignores its result.
ThreadReturn ==
    /\ UserOnTop /\ Top.old = NULL
    /\ \/ /\ Top.pc = "thread" /\ Top.ev # "EXIT"
          /\ state' = [state EXCEPT ![Top.p] = "RUNNING"]
          /\ stack' = Below
          /\ UNCHANGED <<process_current, wanted, due>>
       \/ /\ Top.pc = "thread"
          /\ exit_process(Top.p, Top.p, Below)
       \/ /\ Top.pc = "on_exit"
          /\ stack' = Below
          /\ UNCHANGED <<state, process_current, wanted, due>>
    /\ UNCHANGED <<process_list, oldNext, needspoll, poll_requested, events, main, torn>>

-----------------------------------------------------------------------------
\* A device driver's interrupt handler asks for its process to be polled.
Interrupt ==
    /\ \E p \in Drivers : process_poll(p)
    /\ UNCHANGED <<stack, main, torn>>

\* What the processor does when no interrupt occurs.
Step ==
    \/ ExitNotify \/ ExitUnlink \/ SynchReturn \/ PollStep \/ BcastStep
    \/ BcastDeliver \/ BootStart \/ BootDone \/ RunPoll \/ RunEvent \/ CallPost \/ CallPoll
    \/ CallSynch \/ CallStart \/ CallExit \/ CallContext \/ ThreadReturn

Next == Step \/ Interrupt

Spec == process_init /\ [][Next]_vars

\* The processor does not stop: while it is not interrupted it executes the next
\* step; and main() starts finitely many processes before it enters its loop.
FairSpec == Spec /\ WF_vars(Step) /\ SF_vars(BootDone)

-----------------------------------------------------------------------------
\* The process list and the state fields agree: a process is on the list once, and what
\* is on the list is running or an exit_process is still at work on it, so that a process
\* that has left can be started again.  What runs is on the list, and gets its polls and
\* broadcasts, as long as no process has been ended in the middle of a call.
ListMatchesState ==
    /\ \A i, j \in DOMAIN process_list :
          process_list[i] = process_list[j] => i = j
    /\ \A p \in OnList : state[p] # "NONE" \/ Exiting(p)
    /\ torn \/ \A p \in Proc : state[p] # "NONE" \/ Exiting(p) => p \in OnList

\* What the contract of process_exit says (process.h:384): a process that was ended, the
\* currently executing one or another, stays so until it is started again.  It is not so:
\* call_process marks a process that yields running, whatever happened to it meanwhile.
EndedIsStopped == \A p \in Proc : p \notin OnList => state[p] = "NONE"

\* A thread function is never entered while an activation of it has not
\* returned (call_process tests for PROCESS_STATE_CALLED, do_poll and
\* process_start overwrite the state): its protothread has only one
\* continuation.  A process that was ended in the middle of a call can be started
\* again before that call returns.
NoReentry ==
    torn \/
    /\ \A i, j \in DOMAIN stack :
          IsUser(stack[i]) /\ IsUser(stack[j]) /\ stack[i].p = stack[j].p => i = j
    /\ \A p \in Proc : state[p] = "CALLED" <=>
          \E i \in DOMAIN stack : stack[i].pc = "thread" /\ stack[i].p = p

\* After nested synchronous posts, starts and exits, PROCESS_CURRENT() is again
\* the process whose code runs, unless that code asked for another context.
CurrentIsRunning == UserOnTop /\ Top.old = NULL => process_current = Top.p

\* The elements that the loop of f has still to reach.
Ahead(f) == {p \in OnList : /\ Cursor(f) \in OnList
                            /\ Position(p) >= Position(Cursor(f))}

\* A poll requested for a live process, from an interrupt at any moment, is
\* never forgotten: do_poll will be run again, or is running and has the process
\* ahead of it, whatever the handlers in between start and exit.  A process that runs
\* off the list because it was ended in the middle of a call gets no polls.
PollNotLost ==
    torn \/ \A p \in wanted :
       /\ needspoll[p] /\ p \in OnList
       /\ \/ poll_requested
          \/ \E i \in DOMAIN stack : stack[i].pc = "poll" /\ p \in Ahead(stack[i])

\* When the delivery of a broadcast event ends, every process that was alive
\* when it began and did not exit meanwhile has been called with it, whatever
\* the handlers and polls in between start and exit.
BroadcastReachesAll ==
    due # {} => \E i \in DOMAIN stack : stack[i].pc \in {"bcast", "deliver"}

\* A poll for a live process leads to a call of its thread function, or the
\* process exits first (do_poll, process_run).
PollServed == \A p \in Proc : p \in wanted ~> p \notin wanted
=============================================================================
