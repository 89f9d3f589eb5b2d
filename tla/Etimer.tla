------------------------------- MODULE Etimer -------------------------------
(***************************************************************************)
(* Event timers: os/sys/etimer.c over os/sys/timer.c, with the part of the *)
(* process kernel they use (the bounded event queue and the poll flag of   *)
(* etimer_process) and the clock interrupt of the platform.                *)
(*                                                                         *)
(* Clock values are of type clock_time_t and wrap around.  The history     *)
(* variable age keeps the true time since a timer's start, so that the     *)
(* properties speak of real time and the code only of wrapped time.        *)
(***************************************************************************)
EXTENDS Integers, Sequences, FiniteSets, FiniteSetsExt

CONSTANTS Timer,       \* the struct etimer of the applications
          Proc,        \* their processes
          NONE,        \* PROCESS_NONE, also the null timer
          Interval,    \* the intervals that they ask for
          Adjustment,  \* the differences that they give to etimer_adjust
          ClockRange,  \* the number of values of clock_time_t
          MaxAge,      \* bound: time since the start of a timer in use
          QueueLen,    \* PROCESS_CONF_NUMEVENTS
          Load,        \* how many unrelated events wait in the queue at a time
          Tickless     \* whether the CPU sleeps until the next expiration time

\* The unsigned arithmetic of timer.c needs intervals, and the delay with which
\* the scheduler gets to an expired timer, to stay well below the wrap.
ASSUME ClockAssumption ==
    /\ NONE \notin Timer \cup Proc
    /\ Interval \subseteq Nat
    /\ Adjustment \subseteq Int
    /\ ClockRange \in Nat /\ MaxAge \in Nat
    /\ 2 * MaxAge < ClockRange
    /\ \A i \in Interval : i < MaxAge
    /\ QueueLen \in Nat \ {0}
    /\ Load \in 0 .. QueueLen
    /\ Tickless \in BOOLEAN

VARIABLES now,             \* clock_time()
          start,           \* t->timer.start
          interval,        \* t->timer.interval
          owner,           \* t->p
          timerlist,       \* the list that starts at timerlist
          next_expiration,
          polled,          \* etimer_process.needspoll
          scan,            \* the list position that the poll loop looks at, or 0
          events,          \* the kernel's event queue: who, and which timer
          alive,           \* the processes that run
          age              \* history: true time since start, up to MaxAge + 1

vars == <<now, start, interval, owner, timerlist, next_expiration, polled, scan,
          events, alive, age>>
timerVars == <<start, interval, age>>

Clock == 0 .. ClockRange - 1
Wrap(x) == x % ClockRange
Listed == {timerlist[i] : i \in DOMAIN timerlist}
Position(t) == CHOOSE i \in DOMAIN timerlist : timerlist[i] = t
Without(t) == SubSeq(timerlist, 1, Position(t) - 1)
              \o SubSeq(timerlist, Position(t) + 1, Len(timerlist))

-----------------------------------------------------------------------------
(* timer.c                                                                 *)

\* timer_expired with "<=" for "<": one tick too early.
timer_expiredEarly(t) == interval[t] <= Wrap(Wrap(now - start[t]) + 1)

timer_expired(t) == interval[t] < Wrap(Wrap(now - start[t]) + 1)

\* What timer_reset assigns to t->start, and the age that goes with it.
timer_reset(t) ==
    IF timer_expired(t)
    THEN /\ start' = [start EXCEPT ![t] = Wrap(@ + interval[t])]
         /\ age' = [age EXCEPT ![t] = @ - interval[t]]
    ELSE UNCHANGED <<start, age>>

\* timer_restart, and the assignment to t->start in timer_set.
timer_restart(t) ==
    /\ start' = [start EXCEPT ![t] = now]
    /\ age' = [age EXCEPT ![t] = 0]

-----------------------------------------------------------------------------
(* etimer.c                                                                *)

\* update_time that compares expiration times instead of distances from now.
NextExpirationNoWrap(list, s, i) ==
    IF list = <<>> THEN 0
    ELSE Min({Wrap(s[list[k]] + i[list[k]]) : k \in DOMAIN list})

\* What update_time computes for a list and its timers' starts and intervals.
NextExpiration(list, s, i) ==
    IF list = <<>> THEN 0
    ELSE LET tdist == Min({Wrap(s[list[k]] + i[list[k]] - now) : k \in DOMAIN list})
         IN  Wrap(now + tdist)

\* add_timer, called by process p after start and interval have been assigned.
add_timer(t, p) ==
    /\ polled' = TRUE
    /\ owner' = [owner EXCEPT ![t] = p]
    /\ timerlist' = IF owner[t] # NONE /\ t \in Listed
                    THEN timerlist ELSE <<t>> \o timerlist
    /\ next_expiration' = NextExpiration(timerlist', start', interval')
    /\ UNCHANGED <<now, scan, events, alive>>

\* Code outside etimer_process runs between two activations of it.  "The timer
\* must be set with etimer_set() before it can be used", and etimer_reset is not
\* called on one that has been idle for longer than the bound.
Runs(p) == scan = 0 /\ p \in alive
IsSet(t) == interval[t] \in Interval
InUse(t) == IsSet(t) /\ age[t] <= MaxAge

etimer_set(p, t, i) ==
    /\ Runs(p)
    /\ timer_restart(t)
    /\ interval' = [interval EXCEPT ![t] = i]
    /\ add_timer(t, p)

etimer_reset_with_new_interval(p, t, i) ==
    /\ Runs(p) /\ InUse(t)
    /\ timer_reset(t)
    /\ interval' = [interval EXCEPT ![t] = i]
    /\ add_timer(t, p)

etimer_reset(p, t) ==
    /\ Runs(p) /\ InUse(t)
    /\ timer_reset(t)
    /\ UNCHANGED interval
    /\ add_timer(t, p)

etimer_restart(p, t) ==
    /\ Runs(p) /\ IsSet(t)
    /\ timer_restart(t)
    /\ UNCHANGED interval
    /\ add_timer(t, p)

\* "This function should only be used for small adjustments": none that puts the
\* start of the timer into the future or its expiration into the past.
etimer_adjust(p, t, timediff) ==
    /\ Runs(p) /\ InUse(t) /\ age[t] - timediff \in 0 .. interval[t] - 1
    /\ start' = [start EXCEPT ![t] = Wrap(@ + timediff)]
    /\ age' = [age EXCEPT ![t] = @ - timediff]
    /\ next_expiration' = NextExpiration(timerlist, start', interval)
    /\ UNCHANGED <<now, interval, owner, timerlist, polled, scan, events, alive>>

etimer_stop(p, t) ==
    /\ Runs(p)
    /\ IF t \in Listed
       THEN /\ timerlist' = Without(t)
            /\ next_expiration' = NextExpiration(timerlist', start, interval)
       ELSE UNCHANGED <<timerlist, next_expiration>>
    /\ owner' = [owner EXCEPT ![t] = NONE]
    /\ UNCHANGED <<now, timerVars, polled, scan, events, alive>>

\* The kernel polls etimer_process.
Poll ==
    /\ scan = 0 /\ polled
    /\ polled' = FALSE
    /\ scan' = 1
    /\ UNCHANGED <<now, timerVars, owner, timerlist, next_expiration, events, alive>>

\* One iteration of the loop over the timers: an expired timer leaves the list
\* and its event is posted, and the loop starts again; when the queue is full
\* the process asks to be polled again.
ScanStep ==
    /\ scan > 0
    /\ IF scan > Len(timerlist)
       THEN scan' = 0 /\ UNCHANGED <<owner, timerlist, next_expiration, polled, events>>
       ELSE LET t == timerlist[scan]
            IN  IF ~timer_expired(t)
                THEN scan' = scan + 1
                     /\ UNCHANGED <<owner, timerlist, next_expiration, polled, events>>
                ELSE IF Len(events) = QueueLen
                THEN scan' = scan + 1 /\ polled' = TRUE
                     /\ UNCHANGED <<owner, timerlist, next_expiration, events>>
                ELSE /\ events' = Append(events, [p |-> owner[t], t |-> t])
                     /\ owner' = [owner EXCEPT ![t] = NONE]
                     /\ timerlist' = Without(t)
                     /\ next_expiration' = NextExpiration(timerlist', start, interval)
                     /\ scan' = 1
                     /\ UNCHANGED polled
    /\ UNCHANGED <<now, timerVars, alive>>

\* A process exits, and etimer_process handles PROCESS_EVENT_EXITED: its timers
\* leave the list and the others stay in order, nothing else about them changes.
Exited(p) ==
    LET others == {t \in Listed : owner[t] # p}
    IN  /\ Runs(p)
        /\ alive' = alive \ {p}
        /\ \E list \in [1 .. Cardinality(others) -> others] :
              /\ \A i, j \in DOMAIN list : i < j => Position(list[i]) < Position(list[j])
              /\ timerlist' = list
        /\ UNCHANGED <<now, timerVars, owner, next_expiration, polled, scan, events>>

-----------------------------------------------------------------------------
(* The rest of the system.                                                 *)

\* A process is started.
Started(p) ==
    /\ scan = 0 /\ p \notin alive
    /\ alive' = alive \cup {p}
    /\ UNCHANGED <<now, timerVars, owner, timerlist, next_expiration, polled, scan,
                   events>>

\* The kernel delivers the first event.
Deliver ==
    /\ scan = 0 /\ events # <<>>
    /\ events' = Tail(events)
    /\ UNCHANGED <<now, timerVars, owner, timerlist, next_expiration, polled, scan,
                   alive>>

\* Some process posts another event.
PostOther(p) ==
    /\ Runs(p) /\ Len(events) < QueueLen
    /\ Cardinality({i \in DOMAIN events : events[i].t = NONE}) < Load
    /\ events' = Append(events, [p |-> p, t |-> NONE])
    /\ UNCHANGED <<now, timerVars, owner, timerlist, next_expiration, polled, scan,
                   alive>>

\* a - b for clock values, as the signed difference the sleep code computes.
SignedDiff(a, b) == LET d == Wrap(a - b)
                    IN  IF 2 * d < ClockRange THEN d ELSE d - ClockRange

\* The clock interrupt.  It asks for a poll if a timer is pending; a CPU that
\* sleeps lets it happen only once the next expiration time has come.
Tick ==
    /\ \A t \in Listed : age[t] < MaxAge
    /\ now' = Wrap(now + 1)
    /\ age' = [t \in Timer |-> Min({age[t] + 1, MaxAge + 1})]
    /\ polled' = (polled \/ (/\ timerlist # <<>>
                             /\ Tickless => SignedDiff(next_expiration, now') < 1))
    /\ UNCHANGED <<start, interval, owner, timerlist, next_expiration, scan, events,
                   alive>>

Init ==
    /\ now \in Clock
    /\ start = [t \in Timer |-> 0]
    /\ interval = [t \in Timer |-> 0]
    /\ owner = [t \in Timer |-> NONE]
    /\ timerlist = <<>>
    /\ next_expiration = 0
    /\ polled = FALSE
    /\ scan = 0
    /\ events = <<>>
    /\ alive = Proc
    /\ age = [t \in Timer |-> MaxAge + 1]

Application ==
    \E p \in Proc :
       \/ \E t \in Timer, i \in Interval : etimer_set(p, t, i)
       \/ \E t \in Timer, i \in Interval : etimer_reset_with_new_interval(p, t, i)
       \/ \E t \in Timer : etimer_reset(p, t)
       \/ \E t \in Timer : etimer_restart(p, t)
       \/ \E t \in Timer, d \in Adjustment : etimer_adjust(p, t, d)
       \/ \E t \in Timer : etimer_stop(p, t)
       \/ Exited(p)
       \/ Started(p)
       \/ PostOther(p)

Next == Application \/ Poll \/ ScanStep \/ Deliver \/ Tick

Spec == Init /\ [][Next]_vars

-----------------------------------------------------------------------------
Remaining(t) == interval[t] - age[t]

\* No armed timer is forgotten, or linked twice: as long as it is on the list,
\* etimer_process is about to look at it, or it has not expired and the CPU wakes up no later than
\* its expiration, across wrap-arounds of the clock, full event queues, and
\* exits of other processes (update_time, etimer_process).
NoTimerForgotten ==
    /\ Cardinality(Listed) = Len(timerlist)
    /\ \A t \in Listed :
          \/ polled
          \/ scan > 0 /\ scan <= Position(t)
          \/ /\ Remaining(t) > 0
             /\ SignedDiff(next_expiration, now) <= Remaining(t)

\* An event is posted only for an armed timer whose interval has really passed,
\* and only to a process that is alive (timer_expired, etimer_process).
NeverEarly ==
    [][\A t \in Timer :
          (\E p \in Proc : events' = Append(events, [p |-> p, t |-> t]))
             => Remaining(t) <= 0 /\ t \in Listed /\ owner[t] \in alive]_vars
=============================================================================
