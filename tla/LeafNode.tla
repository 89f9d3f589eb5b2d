------------------------------ MODULE LeafNode ------------------------------
(***************************************************************************)
(* A battery-powered leaf (examples/ZD-HM100) on what RPL-lite promises    *)
(* (RplJoin): the hooks of rpl-icmp6.c that start the application at a     *)
(* multicast DIS and stop it when no DIO comes within 10 s, the very       *)
(* sleepy mode that switches the radio (lpm-mode.c), the CSMA driver that  *)
(* switches it on for each frame and off after it, the receive buffers of  *)
(* the radio driver (prop-mode.c), and the application that reports to the *)
(* root (app.c).                                                           *)
(***************************************************************************)
EXTENDS Integers, RplJoin

CONSTANT Conns          \* UDP connections left for the application, of UIP_UDP_CONNS

ASSUME LeafAssumption == Conns \in Nat \ {0}

\* running        the four processes of start_all_process run
\* IsReceivedDIO, DIO_CheckTimer (pending)   of rpl-icmp6.c
\* radio          the receiver is on
\* sending        send_one_packet runs; no other handler does until it has ended
\* inbox          a receive buffer of the radio has a frame with a DIO, not handled yet
\* app            the static variables of app.c, the UDP connections that are taken
\*                (conns), whether udp_conn is one of them (conn); and two histories,
\*                the number of starts (one more than Conns at most) and whether a
\*                report was lost
VARIABLES running, IsReceivedDIO, DIO_CheckTimer, radio, sending, inbox, app

leafVars == <<running, IsReceivedDIO, DIO_CheckTimer, radio, sending, inbox, app>>
vars == <<joinVars, leafVars>>

EventType == {"NONE", "DEVINIT", "DEVALARM", "DEVPOLL"}

rpl_is_reachable == dag = "REACHABLE"

-----------------------------------------------------------------------------
(* app.c *)

\* Four transmissions before a fault is given up.
SensorEventFourTimes(a, reachable, ok) ==
    LET b == [a EXCEPT !.sendCount = IF ok THEN 0 ELSE @,
                       !.eventType = IF ok THEN @ ELSE "DEVALARM"]
        polls == b.Normal_Send_Flag /\ b.eventType # "DEVALARM"
        c == [b EXCEPT !.eventType = IF polls THEN "DEVPOLL" ELSE @,
                       !.Normal_Send_Flag = @ /\ ~polls]
    IN IF ~reachable THEN a
       ELSE IF c.eventType = "NONE" \/ c.sendCount > 3 THEN c
       ELSE [c EXCEPT !.sendCount = @ + 1, !.eventType = "NONE", !.lost = @ \/ ~c.conn]

\* ok: the sensor answers.  A report goes to simple_udp_sendto, which drops it without a
\* connection.
sensorEventHandler(a, reachable, ok) ==
    LET b == [a EXCEPT !.sendCount = IF ok THEN 0 ELSE @,
                       !.eventType = IF ok THEN @ ELSE "DEVALARM"]
        polls == b.Normal_Send_Flag /\ b.eventType # "DEVALARM"
        c == [b EXCEPT !.eventType = IF polls THEN "DEVPOLL" ELSE @,
                       !.Normal_Send_Flag = @ /\ ~polls]
    IN IF ~reachable THEN a
       ELSE IF c.eventType = "NONE" \/ c.sendCount >= 3 THEN c
       ELSE [c EXCEPT !.sendCount = @ + 1, !.eventType = "NONE", !.lost = @ \/ ~c.conn]

\* udp_new takes a free connection; nothing ever gives one back.
simple_udp_register(a) ==
    [a EXCEPT !.conn = a.conns < Conns, !.conns = IF @ < Conns THEN @ + 1 ELSE @]

\* The processes are initialised even if they run.
StartAgain(reachable, ok) ==
    /\ running' = TRUE
    /\ app' = sensorEventHandler(
                 simple_udp_register([app EXCEPT !.starts = IF ~running /\ @ <= Conns
                                                            THEN @ + 1 ELSE @]),
                 reachable, ok)

\* process_start does nothing to a process that runs.  app_process registers with UDP
\* and calls sensorEventHandler at once.
start_all_process(reachable, ok) ==
    /\ running' = TRUE
    /\ app' = IF running THEN app
              ELSE sensorEventHandler(
                     simple_udp_register([app EXCEPT !.starts = IF @ <= Conns THEN @ + 1 ELSE @]),
                     reachable, ok)

\* app_process: the timer of 1 s or 120 s.
AppTimer ==
    /\ running /\ ~sending
    /\ \E ok \in BOOLEAN : app' = sensorEventHandler(app, rpl_is_reachable, ok)
    /\ UNCHANGED <<joinVars, running, IsReceivedDIO, DIO_CheckTimer, radio, sending, inbox>>

\* report_process: the hourly report is due.
ReportTimer ==
    /\ running /\ ~sending
    /\ app' = [app EXCEPT !.Normal_Send_Flag = TRUE]
    /\ UNCHANGED <<joinVars, running, IsReceivedDIO, DIO_CheckTimer, radio, sending, inbox>>

-----------------------------------------------------------------------------
(* prop-mode.c *)

\* Switching on a radio that was off frees its receive buffers, also those not read yet.
on == radio' = TRUE /\ inbox' = (inbox /\ radio)

\* Switching it off keeps the frames that have been received.
off == radio' = FALSE

\* The radio receives a DIO, at any moment; it is handled later, even if the radio is
\* off by then.
Receive ==
    /\ radio /\ ~inbox
    /\ inbox' = TRUE
    /\ UNCHANGED <<joinVars, running, IsReceivedDIO, DIO_CheckTimer, radio, sending, app>>

-----------------------------------------------------------------------------
(* csma-output.c *)

\* send_one_packet switches the radio on for each frame, also in a leaf that was stopped.
FrameStarts ==
    /\ ~sending
    /\ sending' = TRUE
    /\ on
    /\ UNCHANGED <<joinVars, running, IsReceivedDIO, DIO_CheckTimer, app>>

\* It ends and switches the radio off.  A frame that came after its own was transmitted
\* may have been read in place of the acknowledgement, and is lost.
FrameSent ==
    /\ sending
    /\ sending' = FALSE
    /\ off
    /\ inbox' \in {inbox, FALSE}
    /\ UNCHANGED <<joinVars, running, IsReceivedDIO, DIO_CheckTimer, app>>

-----------------------------------------------------------------------------
(* lpm-mode.c and rpl-icmp6.c *)

\* keep_mac_on lets the radio be switched off when there is no default route.
VerySleepyPassNoRoute ==
    /\ running /\ ~sending
    /\ \/ route /\ on
       \/ off /\ inbox' \in {inbox, inbox /\ radio}
    /\ UNCHANGED <<joinVars, running, IsReceivedDIO, DIO_CheckTimer, sending, app>>

\* One pass of very_sleepy_demo_process.  keep_mac_on keeps the radio on without a
\* default route; with one it depends on times (the probing timer, the last 10 s).  In
\* the latter case it may be switched on first and then off.
VerySleepyPass ==
    /\ running /\ ~sending
    /\ \/ on
       \/ route /\ off /\ inbox' \in {inbox, inbox /\ radio}
    /\ UNCHANGED <<joinVars, running, IsReceivedDIO, DIO_CheckTimer, sending, app>>

\* The callback stops the processes and leaves the radio on.
CheckTimeoutRadioOn ==
    /\ DIO_CheckTimer /\ ~sending
    /\ DIO_CheckTimer' = FALSE
    /\ running' = (running /\ IsReceivedDIO)
    /\ UNCHANGED <<joinVars, IsReceivedDIO, radio, sending, inbox, app>>

DIO_CheckTimer_timeout_callback ==
    /\ DIO_CheckTimer /\ ~sending
    /\ DIO_CheckTimer' = FALSE
    /\ running' = (running /\ IsReceivedDIO)
    /\ IF IsReceivedDIO THEN UNCHANGED radio ELSE off
    /\ UNCHANGED <<joinVars, IsReceivedDIO, sending, inbox, app>>

\* rpl_icmp6_dis_output(NULL), called by the DIS timer: the application is started after
\* the update of the state and before the DIS is sent.
LeafDisSent ==
    /\ DisSent /\ ~sending
    /\ \E ok \in BOOLEAN : start_all_process(rpl_is_reachable', ok)
    /\ IsReceivedDIO' = FALSE
    /\ DIO_CheckTimer' = TRUE
    /\ UNCHANGED <<radio, sending, inbox>>

\* rf_core_process reads the frame, and its input ends in dio_input.
LeafDioInput ==
    /\ inbox /\ ~sending
    /\ rpl_process_dio
    /\ inbox' = FALSE
    /\ IsReceivedDIO' = TRUE
    /\ UNCHANGED <<running, DIO_CheckTimer, radio, sending, app>>

\* Boot: rpl_timers_init has sent a multicast DIS, with the radio on.
LeafInit ==
    /\ JoinInit
    /\ running = TRUE
    /\ IsReceivedDIO = FALSE
    /\ DIO_CheckTimer = TRUE
    /\ radio = TRUE
    /\ sending = FALSE
    /\ inbox = FALSE
    /\ app = [eventType |-> "DEVINIT", Normal_Send_Flag |-> FALSE, sendCount |-> 0,
              conns |-> 1, conn |-> TRUE, starts |-> 1, lost |-> FALSE]

\* The other handlers of RPL, the sent callback of a frame among them.  The soft
\* acknowledgement of a frame that is read after the radio was switched off switches it
\* on and off again.
RplHandler ==
    /\ Handle
    /\ inbox' \in {inbox, inbox /\ radio}
    /\ UNCHANGED <<running, IsReceivedDIO, DIO_CheckTimer, radio, sending, app>>

PeriodicTimer == ~sending /\ handle_periodic_timer /\ UNCHANGED leafVars
DisTimerExpires == DisExpires /\ UNCHANGED leafVars
DisTimerIdle == ~sending /\ DisIdle /\ UNCHANGED leafVars

LeafNext ==
    \/ RplHandler \/ PeriodicTimer \/ DisTimerExpires \/ DisTimerIdle
    \/ LeafDisSent \/ LeafDioInput \/ Receive \/ FrameStarts \/ FrameSent
    \/ DIO_CheckTimer_timeout_callback \/ VerySleepyPass \/ AppTimer \/ ReportTimer

LeafSpec == LeafInit /\ [][LeafNext]_vars

\* A transmission ends; timers expire and the event queue is served, between frames.
LeafFairSpec ==
    /\ LeafSpec
    /\ WF_vars(FrameSent)
    /\ SF_vars(LeafDisSent \/ DisTimerIdle)
    /\ SF_vars(PeriodicTimer)
    /\ SF_vars(VerySleepyPass)

-----------------------------------------------------------------------------
(* Properties *)

\* Types; in particular a fault is reported at most three times until the sensor answers
\* again, also by an application that is stopped and started in between.
TypeOK ==
    /\ dag \in DagState \cup {"OUT"} /\ dis \in CtimerState
    /\ {parent, route, running, IsReceivedDIO, DIO_CheckTimer, radio, sending, inbox} \subseteq BOOLEAN
    /\ app \in [eventType : EventType, Normal_Send_Flag : BOOLEAN, sendCount : 0 .. 3,
                conns : 0 .. Conns, conn : BOOLEAN, starts : 0 .. (Conns + 1), lost : BOOLEAN]

\* A leaf that found no network is deaf until its next DIS: once the application is
\* stopped the radio is on only while send_one_packet sends a frame that was still queued
\* or that RPL sends (and within the handler that acknowledges a frame), and no time-out
\* is pending that could stop the application again after a restart.
StoppedIsDeaf == ~running => (radio => sending) /\ ~DIO_CheckTimer

\* A leaf that was stopped for want of a network tries again: unless it gets a parent, a
\* DIS starts its application again, in a DAG or out of it, whatever the order in which
\* the DIS timer and the periodic timer, which both see it expired, are served.
StoppedLeafWakes == ~running ~> running \/ parent

\* A leaf that waits for a network listens: as long as its application runs and there is
\* no default route, the very sleepy mode switches the radio on again after each frame
\* that switches it off, so that it is on between frames, too.  (A route that a global
\* repair left behind may keep it off.)
ListensForDio == running /\ ~route ~> (radio /\ ~sending) \/ ~running \/ route

\* No report is lost inside the node before the application has been started more often
\* than there are UDP connections.  (After that every report is.)
ReportsReachUdp == app.lost => app.starts > Conns

\* What the comment of the hook in rpl-icmp6.c says: processes are stopped to save power
\* before the node joins; a node that is reachable runs its application.
ReachableRuns == rpl_is_reachable => running
=============================================================================
