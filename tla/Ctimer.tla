------------------------------- MODULE Ctimer -------------------------------
(***************************************************************************)
(* Callback timers: os/sys/ctimer.c.  A callback timer is an event timer   *)
(* that belongs to ctimer_process plus a place in ctimer_list; the process *)
(* calls the callback when the timer's event arrives and the timer is      *)
(* still in the list.  The system is the one of Etimer with ctimer_process *)
(* as the only process that sets timers.                                   *)
(***************************************************************************)
EXTENDS Etimer

User == INSTANCE CallbackTimer

CONSTANT ctimer_process

ASSUME CtimerAssumption == ctimer_process \in Proc

\* The timers in ctimer_list; the order of the list does not matter.
VARIABLE ctimer_list

cvars == <<vars, ctimer_list>>

Queued(c) == \E i \in DOMAIN events : events[i].t = c

\* ctimer_init, which starts ctimer_process.
CInit == Init /\ ctimer_list = {}

ctimer_set(c, i) ==
    /\ etimer_set(ctimer_process, c, i)
    /\ ctimer_list' = ctimer_list \cup {c}

ctimer_reset(c) ==
    /\ etimer_reset(ctimer_process, c)
    /\ ctimer_list' = ctimer_list \cup {c}

ctimer_restart(c) ==
    /\ etimer_restart(ctimer_process, c)
    /\ ctimer_list' = ctimer_list \cup {c}

\* ctimer_stop that leaves the timer in the list.
ctimer_stopKeepsEntry(c) ==
    /\ etimer_stop(ctimer_process, c)
    /\ UNCHANGED ctimer_list

ctimer_stop(c) ==
    /\ etimer_stop(ctimer_process, c)
    /\ ctimer_list' = ctimer_list \ {c}

\* An event arrives without the search of ctimer_list.
CtimerEventKeepsEntry == Deliver /\ UNCHANGED ctimer_list

\* ctimer_process gets an event: a timer in the list leaves it and its callback
\* is called.  What the callback does are further actions.
CtimerEvent ==
    /\ Deliver
    /\ ctimer_list' = ctimer_list \ {Head(events).t}

Fires(c) == /\ events # <<>> /\ Head(events).t = c
            /\ events' = Tail(events)
            /\ c \in ctimer_list

Arm(c) == \/ \E i \in Interval : ctimer_set(c, i)
          \/ ctimer_reset(c)
          \/ ctimer_restart(c)

CNext ==
    \/ \E c \in Timer : Arm(c)
    \/ \E c \in Timer : ctimer_stop(c)
    \/ CtimerEvent
    \/ (Poll \/ ScanStep \/ Tick \/ PostOther(ctimer_process)) /\ UNCHANGED ctimer_list

CSpec == CInit /\ [][CNext]_cvars

\* Time passes, and process_run serves polls and events in turn, so that repeated
\* polls of etimer_process do not keep an event in the queue.
CFairSpec ==
    /\ CSpec
    /\ WF_cvars(Tick /\ UNCHANGED ctimer_list)
    /\ WF_cvars(ScanStep /\ UNCHANGED ctimer_list)
    /\ SF_cvars(Poll /\ UNCHANGED ctimer_list)
    /\ SF_cvars(CtimerEvent)

-----------------------------------------------------------------------------
\* The state of c that CallbackTimer names; there is none for an entry in ctimer_list
\* without an event that is going to come.
UserState(c) ==
    CASE c \notin Listed /\ c \notin ctimer_list -> IF Queued(c) THEN "stale" ELSE "off"
      [] c \in Listed /\ c \in ctimer_list -> IF Queued(c) THEN "rearmed" ELSE "on"
      [] c \notin Listed /\ c \in ctimer_list -> IF Queued(c) THEN "due" ELSE "lost"
      [] OTHER -> "orphan"

\* The user's delays are longer than an event stays in the queue: no second event of c
\* is posted before the first is handled, and none is left of a timer in no list.
Slow(c) == /\ Cardinality({i \in DOMAIN events : events[i].t = c}) <= 1
           /\ UserState(c) = "orphan" => ~Queued(c)

EventOf(c) == events # <<>> /\ Head(events).t = c /\ events' = Tail(events)
Posted(c) == \E e \in {events'[i] : i \in DOMAIN events'} : e.t = c /\ events' = Append(events, e)

\* Callback timers are what CallbackTimer, on which the models of RPL and of the leaf are
\* built, says of them, also when they are set or stopped while the event of their last
\* expiration is queued: no expiration is ignored for want of an entry, but for that of
\* a timer that its old event has taken out of the list.
ActsAsCallbackTimer ==
    [][\A c \in Timer : Slow(c) /\ Slow(c)' =>
          /\ UserState(c)' # "lost"
          /\ Arm(c) => UserState(c)' = User!ctimer_set(UserState(c))
          /\ ctimer_stop(c) => UserState(c)' = User!ctimer_stop(UserState(c))
          /\ Posted(c) => /\ User!CanExpire(UserState(c))
                          /\ UserState(c)' = User!Expired(UserState(c))
          /\ EventOf(c) => /\ UserState(c)' = User!Handled(UserState(c))
                           /\ Fires(c) <=> User!HasCallback(UserState(c))]_cvars

\* "When the callback timer expires, the callback function f will be called": not
\* before the interval given to the latest ctimer_set has passed, unless the timer was
\* set again while the event of an earlier expiration was queued, which ctimer_process
\* does not tell from the new one.
CallbackNotEarly ==
    [][\A c \in Timer : Fires(c) => Remaining(c) <= 0 \/ UserState(c) = "rearmed"]_cvars

\* A callback timer that is not set again for ever calls its callback, unless it is
\* stopped, even when the event queue is full at times and other timers are set
\* again and again (ctimer_process, etimer_process).
CallbackComes ==
    \A c \in Timer :
        <>[][~Arm(c)]_cvars => (c \in ctimer_list ~> c \notin ctimer_list)
=============================================================================
