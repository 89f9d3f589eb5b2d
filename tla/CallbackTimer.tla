--------------------------- MODULE CallbackTimer ---------------------------
(***************************************************************************)
(* A callback timer as its users see it: the states of one struct ctimer   *)
(* that Ctimer has with its two lists and the event queue, without time.   *)
(* ctimer_expired is also true while the event of an expiration waits in   *)
(* the event queue, and that event reaches a timer that was set again.     *)
(*   off      neither running nor in ctimer_list                           *)
(*   on       running and in ctimer_list                                   *)
(*   due      expired, in ctimer_list, its event queued                    *)
(*   rearmed  set again before that event is handled                       *)
(*   orphan   running but no longer in ctimer_list                         *)
(*   stale    neither, but an event of it is still queued                  *)
(***************************************************************************)
CtimerState == {"off", "on", "due", "rearmed", "orphan", "stale"}

ctimer_expired(t) == t \in {"off", "due", "stale"}
ctimer_set(t) == IF t \in {"due", "rearmed", "stale"} THEN "rearmed" ELSE "on"
ctimer_stop(t) == IF t \in {"due", "rearmed", "stale"} THEN "stale" ELSE "off"

\* The timer expires and its event is posted.  An event of it does not stay in the
\* queue for as long as the delays of the timers that use this module.
CanExpire(t) == t \in {"on", "orphan"}
Expired(t) == IF t = "on" THEN "due" ELSE "stale"

\* ctimer_process handles the event, perhaps as soon as the timer expires: the entry
\* leaves the list, and the callback is called if there was one.
HasEvent(t) == t # "off"
HasCallback(t) == t \in {"on", "due", "rearmed"}
Handled(t) == IF t = "rearmed" THEN "orphan" ELSE "off"
=============================================================================
