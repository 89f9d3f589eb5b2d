------------------------------ MODULE RplJoin ------------------------------
(***************************************************************************)
(* What RPL-lite promises the layers above it on a node that is not the    *)
(* root: the states of the DAG and the moves between them, a parent while  *)
(* it is joined, and DIS messages as long as it has none.  RplNode         *)
(* implements it; the leaf's application is built on it (LeafNode).        *)
(***************************************************************************)
EXTENDS CallbackTimer

\* dag     the state of the DAG, OUT when curr_instance is not used
\* parent  whether there is a preferred parent
\* route   whether there is a default route
\* dis     dis_timer
VARIABLES dag, parent, route, dis

joinVars == <<dag, parent, route, dis>>

DagState == {"INITIALIZED", "JOINED", "REACHABLE", "POISONING"}

\* The DIS timer is set only for a node that is in no DAG.
ScheduleDisUnjoined(t) == IF ctimer_expired(t) /\ dag = "OUT" THEN ctimer_set(t) ELSE t

rpl_timers_schedule_periodic_dis(t) == IF ctimer_expired(t) THEN ctimer_set(t) ELSE t

JoinInit == dag = "OUT" /\ parent = FALSE /\ route = FALSE /\ dis = "on"

\* Whatever the handler, a state d goes with a parent if it is JOINED or REACHABLE, and
\* no default route comes without a parent.  One may stay behind when its parent is gone.
MoveTo(d) ==
    /\ dag' = d
    /\ parent' \in {p \in BOOLEAN : d # "POISONING" => (p <=> d \in {"JOINED", "REACHABLE"})}
    /\ route' \in BOOLEAN
    /\ route' => route \/ parent'

\* The moves that one handler makes.  Only a DAO, acknowledged if acknowledgements are
\* used, makes a joined node reachable; a global repair leads from any state of a DAG to
\* JOINED.
Moves == [OUT |-> {},
          INITIALIZED |-> {"JOINED", "POISONING", "OUT"},
          JOINED |-> {"REACHABLE", "INITIALIZED", "POISONING", "OUT"},
          REACHABLE |-> {"INITIALIZED", "JOINED", "POISONING", "OUT"},
          POISONING |-> {"INITIALIZED", "JOINED", "OUT"}]

\* A handler of messages, packets or links, of a timer of the DAG, or a call of the
\* application.
Handle ==
    /\ \E d \in {dag} \cup Moves[dag] : MoveTo(d)
    /\ dis' \in {dis, rpl_timers_schedule_periodic_dis(dis)}

\* A DIO makes a node join, perhaps without a parent at first.
rpl_process_dio ==
    \/ Handle
    \/ /\ dag = "OUT"
       /\ \E d \in {"INITIALIZED", "JOINED"} : MoveTo(d)
       /\ UNCHANGED dis

\* A period ends.
handle_periodic_timer ==
    /\ \E d \in {dag} \cup (Moves[dag] \ {"REACHABLE", "OUT"}) : MoveTo(d)
    /\ dis' \in {rpl_timers_schedule_periodic_dis(dis)} \cup (IF parent THEN {dis} ELSE {})

DisExpires ==
    /\ CanExpire(dis)
    /\ dis' = Expired(dis)
    /\ UNCHANGED <<dag, parent, route>>

\* The callback of the DIS timer sends a DIS, after an update of the state that may
\* find a parent.
DisSent ==
    /\ HasCallback(dis) /\ ~parent
    /\ \E d \in {dag} \cup (IF dag = "INITIALIZED" THEN {"JOINED"} ELSE {}) : MoveTo(d)
    /\ dis' = rpl_timers_schedule_periodic_dis(Handled(dis))

\* The event finds no entry in ctimer_list, or a node with a parent.
DisIdle ==
    /\ HasEvent(dis) /\ ~(HasCallback(dis) /\ ~parent)
    /\ dis' = Handled(dis)
    /\ UNCHANGED <<dag, parent, route>>

JoinNext == rpl_process_dio \/ handle_periodic_timer \/ DisExpires \/ DisSent \/ DisIdle

JoinSpec == JoinInit /\ [][JoinNext]_joinVars
=============================================================================
