--------------------------- MODULE LeafNodeProofs ---------------------------
(***************************************************************************)
(* Three safety properties of the leaf, for any number of UDP connections  *)
(* and whatever RPL-lite does within RplJoin.  StoppedIsDeaf is inductive. *)
(* ReportsReachUdp is not: a report is lost because udp_conn is NULL, and  *)
(* that udp_conn is NULL only after the connections are used up needs the  *)
(* number of connections taken, which is the number of starts as long as   *)
(* there are some left (AppInv).                                           *)
(***************************************************************************)
EXTENDS LeafNode, TLAPS

\* The types of the fields of app.
AppType == [eventType : EventType, Normal_Send_Flag : BOOLEAN, sendCount : 0 .. 3,
            conns : 0 .. Conns, conn : BOOLEAN, starts : 0 .. (Conns + 1), lost : BOOLEAN]

\* What is known of app: each start has taken a connection while there were some.
AppOK(a) ==
    /\ a \in AppType
    /\ a.starts <= Conns => a.conns = a.starts
    /\ ~a.conn => a.starts > Conns
    /\ a.lost => a.starts > Conns

AppInv == AppOK(app)

\* sensorEventHandler keeps AppOK: it neither starts nor connects, and what it loses it
\* loses for want of a connection.
LEMMA HandlerKeeps ==
    ASSUME NEW a, AppOK(a), NEW reachable, NEW ok \in BOOLEAN
    PROVE  AppOK(sensorEventHandler(a, reachable, ok))
<1> DEFINE b == [a EXCEPT !.sendCount = IF ok THEN 0 ELSE @,
                          !.eventType = IF ok THEN @ ELSE "DEVALARM"]
           polls == b.Normal_Send_Flag /\ b.eventType # "DEVALARM"
           c == [b EXCEPT !.eventType = IF polls THEN "DEVPOLL" ELSE @,
                          !.Normal_Send_Flag = @ /\ ~polls]
           loses == c.lost \/ ~c.conn
           d == [c EXCEPT !.sendCount = @ + 1, !.eventType = "NONE", !.lost = loses]
<1>1. AppOK(b)
  <2> DEFINE n == IF ok THEN 0 ELSE a.sendCount
             t == IF ok THEN a.eventType ELSE "DEVALARM"
  <2>1. a \in AppType /\ n \in 0 .. 3 /\ t \in EventType
    BY DEF AppOK, AppType, EventType
  <2>2. b = [a EXCEPT !.sendCount = n, !.eventType = t]
    OBVIOUS
  <2> HIDE DEF n, t, b
  <2>3. b \in AppType
    BY <2>1, <2>2, Zenon DEF AppType
  <2>4. b.starts = a.starts /\ b.conns = a.conns /\ b.conn = a.conn /\ b.lost = a.lost
    BY <2>1, <2>2 DEF AppType
  <2> QED
    BY <2>3, <2>4 DEF AppOK
<1>2. polls \in BOOLEAN
  OBVIOUS
<1>3. AppOK(c)
  <2> HIDE DEF b, polls
  <2> QED  BY <1>1, <1>2, LeafAssumption DEF AppOK, AppType, EventType
<1>4. ASSUME ~(c.sendCount >= 3) PROVE AppOK(d)
  <2>1. loses \in BOOLEAN /\ (loses => c.starts > Conns)
    <3> HIDE DEF c
    <3> QED  BY <1>3 DEF AppOK, AppType
  <2> DEFINE e == [c EXCEPT !.sendCount = @ + 1, !.eventType = "NONE"]
  <2>2. AppOK(e) /\ e.starts = c.starts
    <3> HIDE DEF c
    <3>1. e \in AppType
      <4> DEFINE n == c.sendCount + 1
      <4>1. c \in AppType /\ n \in 0 .. 3
        BY <1>3, <1>4 DEF AppOK, AppType
      <4>2. e = [c EXCEPT !.sendCount = n, !.eventType = "NONE"]
        OBVIOUS
      <4> HIDE DEF n, e
      <4>3. "NONE" \in EventType
        BY DEF EventType
      <4> QED  BY <4>1, <4>2, <4>3, Zenon DEF AppType
    <3>2. /\ e.starts = c.starts /\ e.conns = c.conns
          /\ e.conn = c.conn /\ e.lost = c.lost
      BY <1>3 DEF AppOK, AppType
    <3> HIDE DEF e
    <3> QED  BY <1>3, <3>1, <3>2 DEF AppOK
  <2>3. d = [e EXCEPT !.lost = loses]
    <3> HIDE DEF c, loses
    <3> QED  BY <1>3 DEF AppOK, AppType
  <2> HIDE DEF c, loses, e, d
  <2>4. d \in AppType
    BY <2>1, <2>2, <2>3, Zenon DEF AppOK, AppType
  <2>5. d.starts = e.starts /\ d.conns = e.conns /\ d.conn = e.conn /\ d.lost = loses
    BY <2>2, <2>3 DEF AppOK, AppType
  <2> QED  BY <2>1, <2>2, <2>4, <2>5 DEF AppOK
<1>5. sensorEventHandler(a, reachable, ok) =
        IF ~reachable THEN a ELSE IF c.eventType = "NONE" \/ c.sendCount >= 3 THEN c ELSE d
  BY DEF sensorEventHandler
<1> HIDE DEF c, d
<1> QED
  BY <1>3, <1>4, <1>5

\* simple_udp_register after the count of starts keeps AppOK.
LEMMA RegisterKeeps ==
    ASSUME NEW a, AppOK(a)
    PROVE  AppOK(simple_udp_register([a EXCEPT !.starts = IF @ <= Conns THEN @ + 1 ELSE @]))
<1> DEFINE b == [a EXCEPT !.starts = IF @ <= Conns THEN @ + 1 ELSE @]
           free == b.conns < Conns
           c == [b EXCEPT !.conn = free, !.conns = IF @ < Conns THEN @ + 1 ELSE @]
<1>1. /\ b \in AppType
      /\ b.starts <= Conns => b.conns < Conns /\ b.starts = b.conns + 1
      /\ b.lost => b.starts > Conns
  BY LeafAssumption DEF AppOK, AppType
<1>2. free \in BOOLEAN /\ (b.starts <= Conns => free)
  <2> HIDE DEF b
  <2> QED  BY <1>1, LeafAssumption DEF AppType
<1>3. AppOK(c)
  <2> DEFINE e == [b EXCEPT !.conns = IF @ < Conns THEN @ + 1 ELSE @]
  <2> HIDE DEF b, free
  <2>1. e \in AppType /\ e.starts = b.starts /\ e.lost = b.lost
    BY <1>1, LeafAssumption DEF AppType
  <2>2. e.conns = IF b.conns < Conns THEN b.conns + 1 ELSE b.conns
    BY <1>1 DEF AppType
  <2>3. c = [e EXCEPT !.conn = free]
    BY <1>1, <1>2 DEF AppType
  <2> HIDE DEF c, e
  <2>4. c \in AppType
    BY <1>2, <2>1, <2>3, Zenon DEF AppType
  <2>5. c.starts = e.starts /\ c.lost = e.lost /\ c.conn = free /\ c.conns = e.conns
    BY <2>1, <2>3 DEF AppType
  <2>6. /\ c.starts \in Nat /\ b.conns \in Nat
    BY <1>1, <2>4, LeafAssumption DEF AppType
  <2> QED  BY <1>1, <1>2, <2>1, <2>2, <2>4, <2>5, <2>6, LeafAssumption DEF AppOK
<1> QED
  BY <1>3 DEF simple_udp_register

\* Every step of the leaf keeps AppInv: only start_all_process and the application's
\* timers change app.
LEMMA AppInvInductive ==
    ASSUME AppInv, [LeafNext]_vars
    PROVE  AppInv'
<1>1. CASE UNCHANGED app
  BY <1>1 DEF AppInv, AppOK, AppType
<1>2. CASE AppTimer
  <2>1. PICK ok \in BOOLEAN : app' = sensorEventHandler(app, rpl_is_reachable, ok)
    BY <1>2 DEF AppTimer
  <2> QED
    BY <2>1, HandlerKeeps DEF AppInv
<1>3. CASE ReportTimer
  BY <1>3 DEF ReportTimer, AppInv, AppOK, AppType
<1>4. CASE LeafDisSent
  <2>1. PICK ok \in BOOLEAN : start_all_process(rpl_is_reachable', ok)
    BY <1>4 DEF LeafDisSent
  <2> DEFINE a == simple_udp_register([app EXCEPT !.starts = IF @ <= Conns THEN @ + 1 ELSE @])
  <2>2. app' = IF running THEN app ELSE sensorEventHandler(a, rpl_is_reachable', ok)
    BY <2>1 DEF start_all_process
  <2>3. AppOK(a)
    BY RegisterKeeps DEF AppInv
  <2> HIDE DEF a
  <2>4. AppOK(sensorEventHandler(a, rpl_is_reachable', ok))
    BY <2>3, HandlerKeeps
  <2> QED
    BY <2>2, <2>4 DEF AppInv
<1> QED
  BY <1>1, <1>2, <1>3, <1>4
  DEF LeafNext, vars, leafVars, RplHandler, PeriodicTimer, DisTimerExpires, DisTimerIdle,
      LeafDioInput, Receive, FrameStarts, FrameSent, DIO_CheckTimer_timeout_callback,
      VerySleepyPass, on, off

\* AppInv is an invariant.
LEMMA AppInvariant == LeafSpec => []AppInv
<1>1. LeafInit => AppInv
  BY LeafAssumption DEF LeafInit, AppInv, AppOK, AppType, EventType
<1>2. AppInv /\ [LeafNext]_vars => AppInv'
  BY AppInvInductive
<1> QED
  BY <1>1, <1>2, PTL DEF LeafSpec

\* No report of app.c is lost inside the node before its process has been started more
\* often than there are UDP connections, however often it is stopped.
THEOREM LeafReportsReachUdp == LeafSpec => []ReportsReachUdp
<1>1. AppInv => ReportsReachUdp
  BY DEF AppInv, AppOK, ReportsReachUdp
<1> QED
  BY <1>1, AppInvariant, PTL

\* A leaf that DIO_CheckTimer_timeout_callback has stopped is deaf until its next DIS, but
\* for the frames that it sends, for which send_one_packet switches the radio on and off;
\* and no second time-out is pending.
THEOREM LeafStoppedIsDeaf == LeafSpec => []StoppedIsDeaf
<1>1. LeafInit => StoppedIsDeaf
  BY DEF LeafInit, StoppedIsDeaf
<1>2. StoppedIsDeaf /\ [LeafNext]_vars => StoppedIsDeaf'
  <2> SUFFICES ASSUME StoppedIsDeaf, [LeafNext]_vars
               PROVE  StoppedIsDeaf'
    OBVIOUS
  <2>1. CASE UNCHANGED <<running, DIO_CheckTimer, radio, sending>>
    BY <2>1 DEF StoppedIsDeaf
  <2>2. CASE FrameStarts \/ FrameSent
    BY <2>2 DEF FrameStarts, FrameSent, off, StoppedIsDeaf
  <2>3. CASE VerySleepyPass
    BY <2>3 DEF VerySleepyPass, StoppedIsDeaf
  <2>4. CASE DIO_CheckTimer_timeout_callback
    BY <2>4 DEF DIO_CheckTimer_timeout_callback, off, StoppedIsDeaf
  <2>5. CASE LeafDisSent
    BY <2>5 DEF LeafDisSent, start_all_process, StoppedIsDeaf
  <2> QED
    BY <2>1, <2>2, <2>3, <2>4, <2>5
    DEF LeafNext, vars, leafVars, RplHandler, PeriodicTimer, DisTimerExpires, DisTimerIdle,
        LeafDioInput, Receive, AppTimer, ReportTimer
<1> QED
  BY <1>1, <1>2, PTL DEF LeafSpec

\* The types of RplJoin and of the leaf's flags.
JoinType ==
    /\ dag \in DagState \cup {"OUT"} /\ dis \in CtimerState
    /\ parent \in BOOLEAN /\ route \in BOOLEAN
FlagType ==
    /\ running \in BOOLEAN /\ IsReceivedDIO \in BOOLEAN /\ DIO_CheckTimer \in BOOLEAN
    /\ radio \in BOOLEAN /\ sending \in BOOLEAN /\ inbox \in BOOLEAN

\* Each operation on the DIS timer leads to one of the states of a callback timer.
LEMMA DisTyped ==
    ASSUME dis \in CtimerState
    PROVE  /\ rpl_timers_schedule_periodic_dis(dis) \in CtimerState
           /\ rpl_timers_schedule_periodic_dis(Handled(dis)) \in CtimerState
           /\ Handled(dis) \in CtimerState /\ Expired(dis) \in CtimerState
BY DEF CtimerState, rpl_timers_schedule_periodic_dis, ctimer_expired, ctimer_set, Handled, Expired

\* Every move of RplJoin leads to a state.
LEMMA JoinTyped ==
    ASSUME JoinType, rpl_process_dio \/ handle_periodic_timer \/ DisExpires \/ DisSent \/ DisIdle
    PROVE  JoinType'
<1>1. ASSUME NEW d \in DagState \cup {"OUT"}, MoveTo(d)
      PROVE  dag' \in DagState \cup {"OUT"} /\ parent' \in BOOLEAN /\ route' \in BOOLEAN
  BY <1>1 DEF MoveTo
<1>2. Moves[dag] \subseteq DagState \cup {"OUT"} /\ dag \in DagState \cup {"OUT"}
  BY DEF JoinType, Moves, DagState
<1>3. dis \in CtimerState
  BY DEF JoinType
<1>4. CASE Handle
  BY <1>1, <1>2, <1>3, <1>4, DisTyped DEF Handle, JoinType
<1>5. CASE rpl_process_dio /\ ~Handle
  BY <1>1, <1>3, <1>5 DEF rpl_process_dio, JoinType, DagState
<1>6. CASE handle_periodic_timer
  BY <1>1, <1>2, <1>3, <1>6, DisTyped DEF handle_periodic_timer, JoinType
<1>7. CASE DisSent
  <2>1. PICK d \in {dag} \cup (IF dag = "INITIALIZED" THEN {"JOINED"} ELSE {}) : MoveTo(d)
    BY <1>7 DEF DisSent
  <2>2. d \in DagState \cup {"OUT"}
    BY <1>2, <2>1 DEF DagState
  <2> QED
    BY <1>1, <1>3, <1>7, <2>1, <2>2, DisTyped DEF DisSent, JoinType
<1>8. CASE DisExpires \/ DisIdle
  BY <1>3, <1>8, DisTyped DEF DisExpires, DisIdle, JoinType
<1> QED
  BY <1>4, <1>5, <1>6, <1>7, <1>8

\* The fields keep their types and bounds; in particular a fault of the sensor is reported
\* at most three times until it answers again, however often the application is stopped.
THEOREM LeafTypeCorrect == LeafSpec => []TypeOK
<1> DEFINE LeafType == JoinType /\ FlagType
<1>1. LeafInit => LeafType
  BY DEF LeafInit, JoinInit, JoinType, FlagType, DagState, CtimerState
<1>2. LeafType /\ [LeafNext]_vars => LeafType'
  <2> SUFFICES ASSUME JoinType, FlagType, [LeafNext]_vars
               PROVE  JoinType' /\ FlagType'
    OBVIOUS
  <2>1. JoinType'
    <3>1. CASE UNCHANGED joinVars
      BY <3>1 DEF JoinType, joinVars
    <3>2. CASE rpl_process_dio \/ handle_periodic_timer \/ DisExpires \/ DisSent \/ DisIdle
      BY <3>2, JoinTyped
    <3> QED
      BY <3>1, <3>2
      DEF LeafNext, vars, RplHandler, PeriodicTimer, DisTimerExpires, DisTimerIdle, LeafDisSent,
          LeafDioInput, Receive, FrameStarts, FrameSent, DIO_CheckTimer_timeout_callback,
          VerySleepyPass, AppTimer, ReportTimer, rpl_process_dio
  <2>2. FlagType'
    <3>1. CASE UNCHANGED <<running, IsReceivedDIO, DIO_CheckTimer, radio, sending, inbox>>
      BY <3>1 DEF FlagType
    <3>2. CASE LeafDisSent
      BY <3>2, Zenon DEF LeafDisSent, start_all_process, FlagType
    <3>3. CASE LeafDioInput \/ Receive \/ FrameStarts \/ FrameSent
      BY <3>3, Zenon DEF LeafDioInput, Receive, FrameStarts, FrameSent, on, off, FlagType
    <3>4. CASE DIO_CheckTimer_timeout_callback
      BY <3>4, Zenon DEF DIO_CheckTimer_timeout_callback, off, FlagType
    <3>5. CASE VerySleepyPass
      BY <3>5, Zenon DEF VerySleepyPass, on, off, FlagType
    <3>6. CASE RplHandler
      BY <3>6, Zenon DEF RplHandler, FlagType
    <3> QED
      BY <3>1, <3>2, <3>3, <3>4, <3>5, <3>6
      DEF LeafNext, vars, leafVars, PeriodicTimer, DisTimerExpires, DisTimerIdle,
          AppTimer, ReportTimer
  <2> QED
    BY <2>1, <2>2
<1>3. LeafType /\ AppInv => TypeOK
  <2> SUFFICES ASSUME JoinType, FlagType, AppInv PROVE TypeOK
    OBVIOUS
  <2>1. {parent, route, running, IsReceivedDIO, DIO_CheckTimer, radio, sending, inbox} \subseteq BOOLEAN
    BY DEF JoinType, FlagType
  <2> QED
    BY <2>1 DEF JoinType, AppInv, AppOK, AppType, TypeOK
<1> HIDE DEF LeafType
<1> QED
  BY <1>1, <1>2, <1>3, AppInvariant, PTL DEF LeafSpec
=============================================================================
