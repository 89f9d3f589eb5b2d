------------------------------ MODULE RplNode ------------------------------
(***************************************************************************)
(* One RPL-lite node that is not the root: os/net/routing/rpl-lite, with   *)
(* the neighbours, the root and the links as its environment.  It joins a  *)
(* DAG on a DIO, selects a preferred parent among the neighbours it has    *)
(* heard, sends DAOs, solicits DIOs while it has no parent, repairs, and   *)
(* poisons and leaves.                                                     *)
(*                                                                         *)
(* The code's handlers call rpl_dag_update_state at many points, often     *)
(* twice.  The node is therefore one record, the functions of the code are *)
(* operators from a node to a node, and an action is a whole handler.      *)
(*                                                                         *)
(* Abstractions.  Sequence numbers of DAOs are kept as what the code       *)
(* compares: whether the next one is newer than the last one sent, and     *)
(* whether the last one sent is acknowledged.  The path costs of the       *)
(* objective function MRHOF, its hysteresis included, are an arbitrary     *)
(* order of the neighbours, chosen anew in every handler.  The trickle     *)
(* timer keeps whether it is pending, not the length of its interval, so   *)
(* that last_advertised_rank, which only shortens the interval of a        *)
(* pending timer, is left out.  Time is left out: a pending timer may fire *)
(* at any moment.  The timer of a unicast DIO is left out: its callback    *)
(* does what the answer to a unicast DIS does.                             *)
(***************************************************************************)
EXTENDS Integers, FiniteSets, CallbackTimer

CONSTANTS Nbr,          \* the neighbours
          NULL,
          AdvRank,      \* the finite ranks that neighbours may advertise
          MaxRankInc,   \* max_rankinc of the DAG, 0 for no limit
          MaxLife,      \* RPL_DAG_LIFETIME, in periods of the periodic timer
          MaxRtx,       \* RPL_DAO_MAX_RETRANSMISSIONS
          DefrtNb,      \* UIP_DS6_DEFRT_NB, size of the default router list
          Confs         \* the builds of the node and its surroundings: see ConfType

ROOT_RANK == 1
HopInc == 1
RPL_INFINITE_RANK == 15
Absent == 0             \* in place of the rank of a neighbour not in the table

\* What a DIO configures.  valid: the objective function and the prefix are supported;
\* downward: the mode of operation is not RPL_MOP_NO_DOWNWARD_ROUTES; infinite:
\* default_lifetime is RPL_INFINITE_LIFETIME.
DioConfig == [valid : BOOLEAN, downward : BOOLEAN, infinite : BOOLEAN]

\* LeafOnly: RPL_DEFAULT_LEAF_ONLY; DaoAck: RPL_WITH_DAO_ACK; near: the neighbours in
\* range; Delays: whether other handlers run between the expiration of the leave or the
\* DIS timer and its event; Repairs: whether the root starts global repairs; ranks: the
\* finite ranks that the neighbours advertise; dios: how their DIOs configure the DAG.
ConfType == [LeafOnly : BOOLEAN, DaoAck : BOOLEAN, near : SUBSET Nbr, Delays : BOOLEAN,
             Repairs : BOOLEAN, ranks : SUBSET AdvRank,
             dios : SUBSET DioConfig]

ASSUME RplAssumption ==
    /\ IsFiniteSet(Nbr) /\ NULL \notin Nbr
    /\ AdvRank \subseteq ROOT_RANK .. (RPL_INFINITE_RANK - HopInc - 1)
    /\ MaxRankInc \in Nat
    /\ {MaxLife, MaxRtx, DefrtNb} \subseteq Nat \ {0}
    /\ Confs \subseteq ConfType

\* node is curr_instance with its DAG, the RPL neighbour table, the link
\* statistics, the default routers and the timers; conf does not change.  Two history
\* variables: repairing, from a global repair until the node has a parent or joins anew;
\* left, the default routes that global repairs have left behind.
VARIABLES node, repairing, left, conf

vars == <<node, repairing, left, conf>>

DagState == {"INITIALIZED", "JOINED", "REACHABLE", "POISONING"}

\* bad: no statistics, or a metric above MAX_LINK_METRIC; fresh and stale: usable, with
\* recent measurements or without
Link == {"bad", "stale", "fresh"}

-----------------------------------------------------------------------------
(* rpl-timers.c, what the other files call *)

\* Without downward routes a node advertises in every state of a DAG.
rpl_dag_ready_to_advertise(s) ==
    s.used /\ (s.downward => s.state \in {"REACHABLE", "POISONING"})

rpl_timers_dio_reset(s) ==
    IF rpl_dag_ready_to_advertise(s) /\ ~conf.LeafOnly THEN [s EXCEPT !.dio_timer = TRUE] ELSE s

rpl_timers_schedule_periodic_dis(s) ==
    IF ctimer_expired(s.dis_timer) THEN [s EXCEPT !.dis_timer = ctimer_set(@)] ELSE s

\* A new sequence number for the next DAO.  Whether the last one is acknowledged and how
\* often it was sent is not asked again.
NextDao(s) == [s EXCEPT !.daoNew = TRUE, !.sentNext = FALSE, !.ackedNext = FALSE,
                        !.daoAcked = FALSE, !.daoTx = 0]

rpl_timers_schedule_dao(s) ==
    IF s.used /\ s.downward THEN [NextDao(s) EXCEPT !.dao_timer = TRUE] ELSE s

\* The next sequence number is taken and the timer forgotten.
DaoRefreshNoTimer(s) == IF s.used /\ ~s.infinite THEN NextDao(s) ELSE s

schedule_dao_refresh(s) ==
    IF s.used /\ ~s.infinite THEN [NextDao(s) EXCEPT !.dao_timer = TRUE] ELSE s

rpl_timers_unschedule_leaving(s) ==
    IF s.used /\ ~ctimer_expired(s.leave) THEN [s EXCEPT !.leave = ctimer_stop(@)] ELSE s

rpl_timers_schedule_leaving(s) ==
    IF s.used /\ ctimer_expired(s.leave) THEN [s EXCEPT !.leave = ctimer_set(@)] ELSE s

rpl_timers_schedule_state_update(s) == [s EXCEPT !.state_update = @ \/ s.used]

rpl_schedule_probing(s) == [s EXCEPT !.probing_timer = @ \/ s.used]

rpl_timers_stop_dag_timers(s) ==
    [s EXCEPT !.state_update = FALSE, !.leave = ctimer_stop(@), !.dio_timer = FALSE,
              !.dao_timer = FALSE, !.probing_timer = FALSE]

-----------------------------------------------------------------------------
(* rpl-neighbor.c *)

InTable(s) == {n \in Nbr : s.rankOf[n] # Absent}

max_acceptable_rank(s) ==
    IF MaxRankInc = 0 \/ s.lowest_rank + MaxRankInc > RPL_INFINITE_RANK
    THEN RPL_INFINITE_RANK ELSE s.lowest_rank + MaxRankInc

acceptable_rank(s, r) ==
    /\ r # RPL_INFINITE_RANK
    /\ r >= ROOT_RANK
    /\ r <= max_acceptable_rank(s)

rpl_neighbor_rank_via_nbr(s, n) ==
    IF n = NULL \/ s.rankOf[n] = RPL_INFINITE_RANK THEN RPL_INFINITE_RANK
    ELSE s.rankOf[n] + HopInc

\* The orders of the neighbours by cost; with one candidate at most, any will do.
Orders == {f \in [Nbr -> 1 .. Cardinality(Nbr)] : \A m, n \in Nbr : m # n => f[m] # f[n]}
AnyOrder == CHOOSE f \in Orders : TRUE
Candidates(s) == {n \in Nbr : s.rankOf[n] \notin {Absent, RPL_INFINITE_RANK} /\ s.link[n] # "bad"}
Costs(s) == IF Cardinality(Candidates(s)) > 1 THEN Orders ELSE {AnyOrder}

best_parent(s, cost, fresh_only) ==
    LET ok == {n \in InTable(s) : /\ acceptable_rank(s, s.rankOf[n])
                                  /\ s.link[n] \in {"fresh"} \cup (IF fresh_only THEN {} ELSE {"stale"})}
    IN IF ok = {} THEN NULL ELSE CHOOSE n \in ok : \A m \in ok : cost[n] <= cost[m]

\* rpl_neighbor_select_best with what best_parent returned, with and without old links.
BestOf(s, best, best_fresh) ==
    CASE best = NULL -> NULL
      [] best # NULL /\ (s.link[best] = "fresh" \/ best = s.preferred_parent) -> best
      [] OTHER -> IF best_fresh # NULL THEN best_fresh
                  ELSE IF s.preferred_parent = NULL THEN NULL ELSE best

rpl_neighbor_select_best(s, cost) ==
    BestOf(s, best_parent(s, cost, FALSE), best_parent(s, cost, TRUE))

\* Urgent probing counts on a probing timer that is already pending.
UrgentProbingNotNow(s, best) ==
    CASE best = NULL -> s
      [] best # NULL /\ s.link[best] = "fresh" -> [s EXCEPT !.urgent_probing_target = NULL]
      [] OTHER -> IF s.urgent_probing_target # NULL THEN s
                  ELSE [s EXCEPT !.urgent_probing_target = best]

\* On its way, rpl_neighbor_select_best ends or begins the urgent probing of the best one.
UrgentProbing(s, best) ==
    CASE best = NULL -> s
      [] best # NULL /\ s.link[best] = "fresh" -> [s EXCEPT !.urgent_probing_target = NULL]
      [] OTHER -> IF s.urgent_probing_target # NULL THEN s
                  ELSE rpl_schedule_probing([s EXCEPT !.urgent_probing_target = best])

\* The default route of the former parent stays.
SetPreferredParentKeepsRoute(s, n) ==
    IF s.preferred_parent = n THEN s
    ELSE [s EXCEPT !.preferred_parent = n,
                   !.defrt = IF n = NULL \/ Cardinality(@ \ {n}) >= DefrtNb THEN @ ELSE @ \cup {n}]

\* The lock that keeps the parent in the table is implied: see Evict.
rpl_neighbor_set_preferred_parent(s, n) ==
    LET others == s.defrt \ {s.preferred_parent}
    IN IF s.preferred_parent = n THEN s
       ELSE [s EXCEPT !.preferred_parent = n,
                      !.defrt = IF n = NULL \/ Cardinality(others \ {n}) >= DefrtNb
                                THEN others ELSE others \cup {n}]

-----------------------------------------------------------------------------
(* rpl-dag.c *)

\* A node that lost its last parent solicits DIOs but does not plan to leave.
LostParentStays(s) ==
    rpl_timers_schedule_periodic_dis(rpl_timers_dio_reset([s EXCEPT !.state = "INITIALIZED"]))

LostParent(s) ==
    rpl_timers_schedule_leaving(rpl_timers_schedule_periodic_dis(
        rpl_timers_dio_reset([s EXCEPT !.state = "INITIALIZED"])))

\* Without acknowledgements a node is reachable as soon as it has a parent.
GotParentReachable(s) ==
    rpl_timers_schedule_dao(rpl_timers_unschedule_leaving(rpl_timers_dio_reset(
        [s EXCEPT !.state = IF conf.DaoAck THEN "JOINED" ELSE "REACHABLE"])))

GotParent(s) ==
    rpl_timers_schedule_dao(rpl_timers_unschedule_leaving(
        rpl_timers_dio_reset([s EXCEPT !.state = "JOINED"])))

Poison(s) ==
    LET p == [rpl_neighbor_set_preferred_parent(s, NULL) EXCEPT !.rank = RPL_INFINITE_RANK]
    IN IF s.rank # RPL_INFINITE_RANK
       THEN rpl_timers_schedule_leaving(rpl_timers_dio_reset(p)) ELSE p

\* The new rank r of a node whose parent was old, and the lowest one if it starts anew.
SetRank(p, old, r) ==
    [p EXCEPT !.rank = r, !.lowest_rank = IF old = NULL \/ r < @ THEN r ELSE @]

ParentChange(q, old) ==
    CASE q.preferred_parent = old -> q
      [] q.preferred_parent # old /\ old = NULL -> GotParent(q)
      [] q.preferred_parent # old /\ q.preferred_parent = NULL -> LostParent(q)
      [] OTHER -> rpl_timers_schedule_dao(q)

RankAndParent(p, old) ==
    ParentChange(SetRank(p, old, rpl_neighbor_rank_via_nbr(p, p.preferred_parent)), old)

SelectParent(s, cost) ==
    RankAndParent(rpl_neighbor_set_preferred_parent(
                      UrgentProbing(s, best_parent(s, cost, FALSE)),
                      rpl_neighbor_select_best(s, cost)),
                  s.preferred_parent)

rpl_dag_update_state(s, cost) ==
    LET u == [s EXCEPT !.state_update = FALSE]
    IN IF ~s.used THEN s
       ELSE IF s.state = "POISONING" THEN Poison(u) ELSE SelectParent(u, cost)

\* A removed neighbour may stay the urgent probing target.
RemoveNeighborKeepsTarget(s, n) ==
    rpl_timers_schedule_state_update(
        [s EXCEPT !.rankOf[n] = Absent])

remove_neighbor(s, n) ==
    rpl_timers_schedule_state_update(
        [s EXCEPT !.rankOf[n] = Absent,
                  !.urgent_probing_target = IF @ = n THEN NULL ELSE @])

\* remove_neighbor of every neighbour in the table, then an update.
rpl_neighbor_remove_all(s, cost) ==
    rpl_dag_update_state(
        [s EXCEPT !.rankOf = [n \in Nbr |-> Absent],
                  !.urgent_probing_target = IF @ \in InTable(s) THEN NULL ELSE @], cost)

rpl_local_repair(s, cost) ==
    IF ~s.used THEN s
    ELSE rpl_timers_schedule_state_update(rpl_timers_dio_reset(
            rpl_neighbor_remove_all([s EXCEPT !.state = "INITIALIZED"], cost)))

\* init_dag clears curr_instance, the targets and the preferred parent in it
\* included, but neither the neighbour table, the link statistics nor the default
\* routers.  It then fails if the DIO has an unsupported objective function or prefix.
init_dag(s) ==
    [s EXCEPT !.used = FALSE, !.state = "INITIALIZED", !.preferred_parent = NULL,
              !.rank = RPL_INFINITE_RANK, !.lowest_rank = RPL_INFINITE_RANK,
              !.lifetime = 0, !.downward = FALSE, !.infinite = FALSE,
              !.urgent_probing_target = NULL,
              !.daoNew = FALSE, !.daoAcked = TRUE, !.daoSent = FALSE, !.daoTx = 0,
              !.sentNext = FALSE, !.ackedNext = FALSE]

init_dag_from_dio(s, d) ==
    IF ~d.config.valid THEN init_dag(s)
    ELSE [init_dag(s) EXCEPT !.used = TRUE, !.downward = d.config.downward,
                             !.infinite = d.config.infinite]

\* If init_dag fails the node is in no DAG, and nothing is scheduled.
process_dio_init_dag(s, d) ==
    rpl_timers_schedule_leaving(rpl_schedule_probing(
        rpl_timers_dio_reset(init_dag_from_dio(s, d))))

\* The result of init_dag_from_dio is not looked at: if it failed, the node has left the
\* DAG without a word, and the DIO goes on to the neighbour table.
global_repair_non_root(s, d, cost) ==
    rpl_local_repair(init_dag_from_dio(rpl_timers_stop_dag_timers(s), d), cost)

\* rpl_icmp6_update_nbr_table, update_nbr_from_dio and what follows in
\* process_dio_from_current_dag.
NeighborFromDio(s, n, d) ==
    LET known == n \in InTable(s)
        t == [s EXCEPT !.rankOf[n] = d.rank,
                       !.lifetime = IF s.used /\ (@ = 0 \/ (known /\ n = s.preferred_parent))
                                    THEN MaxLife ELSE @]
    IN IF ~known /\ ~d.room THEN s
       ELSE IF known /\ n = s.preferred_parent /\ d.newDtsn
       THEN rpl_timers_schedule_dao(t) ELSE t

process_dio_from_current_dag(s, n, d, cost) ==
    IF d.version = "older"
    THEN IF d.rank = ROOT_RANK THEN rpl_timers_dio_reset(s) ELSE s
    ELSE NeighborFromDio(IF d.version = "newer"
                         THEN global_repair_non_root(s, d, cost) ELSE s, n, d)

rpl_process_dio(s, n, d, cost) ==
    LET j == IF s.used THEN s ELSE process_dio_init_dag(s, d)
    IN IF j.used THEN rpl_dag_update_state(process_dio_from_current_dag(j, n, d, cost), cost)
       ELSE j

\* The values of curr_instance are not read again until init_dag clears them; they
\* are cleared here.  The no-path DAO only updates the state: see rpl_icmp6_dao_output.
rpl_dag_leave(s, cost) ==
    LET a == rpl_dag_update_state(s, cost)
        b == [a EXCEPT !.link = [n \in Nbr |-> "bad"]]
        c == rpl_timers_stop_dag_timers(rpl_neighbor_remove_all(b, cost))
    IN init_dag(c)

rpl_dag_periodic(s, cost) ==
    LET life == IF s.lifetime > 1 THEN s.lifetime - 1 ELSE 0
        t == [s EXCEPT !.lifetime = life]
    IN IF life = 0
       THEN rpl_timers_schedule_state_update([t EXCEPT !.state = "POISONING"])
       ELSE IF life = 1 /\ s.preferred_parent # NULL
       THEN rpl_dag_update_state(t, cost)      \* unicast DIS to the parent
       ELSE t

-----------------------------------------------------------------------------
(* The handlers *)

\* Boot: rpl_timers_init sends a DIS and sets the DIS timer and the periodic timer.
Cleared == [used |-> FALSE, dis_timer |-> "on", rankOf |-> [n \in Nbr |-> Absent],
            link |-> [n \in Nbr |-> "bad"], defrt |-> {}, state_update |-> FALSE,
            leave |-> "off", dio_timer |-> FALSE,
            dao_timer |-> FALSE, probing_timer |-> FALSE, state |-> "INITIALIZED",
            preferred_parent |-> NULL, rank |-> RPL_INFINITE_RANK,
            lowest_rank |-> RPL_INFINITE_RANK, lifetime |-> 0,
            downward |-> FALSE, infinite |-> FALSE,
            urgent_probing_target |-> NULL,
            daoNew |-> FALSE, daoAcked |-> TRUE, daoSent |-> FALSE, daoTx |-> 0,
            sentNext |-> FALSE, ackedNext |-> FALSE]

Init == node = Cleared /\ repairing = FALSE /\ left = {} /\ conf \in Confs

\* The history variables follow the node.
Step(s) ==
    /\ node' = s
    /\ repairing' = (repairing /\ s.used /\ s.preferred_parent = NULL)
    /\ left' = (left \cap s.defrt) \ {s.preferred_parent}
    /\ UNCHANGED conf

\* A DIO of n.  Its version is compared with the node's; a node that is in no DAG takes
\* it over.  newDtsn: the DTSN is greater than the last one of n; room: there is room
\* for n in the neighbour tables; config: what the node that joins or repairs takes over.
\* Fields that are not read have one value.
Dios(n) ==
    LET Ranks == conf.ranks \cup {RPL_INFINITE_RANK}
        InDag == IF ~node.used THEN {} ELSE IF conf.Repairs THEN {"older", "newer"} ELSE {"older"}
        Full == (InDag \ {"older"}) \cup (IF node.rankOf[n] = Absent THEN {"same"} ELSE {})
        Own == [valid |-> TRUE, downward |-> node.downward, infinite |-> node.infinite]
    IN [version : {"same"}, rank : Ranks, room : {TRUE},
        newDtsn : IF n = node.preferred_parent THEN BOOLEAN ELSE {FALSE},
        config : IF node.used THEN {Own} ELSE conf.dios]
       \cup [version : InDag, rank : Ranks, room : {TRUE}, newDtsn : {FALSE},
             config : conf.dios]
       \cup [version : Full, rank : {RPL_INFINITE_RANK}, room : {FALSE}, newDtsn : {FALSE},
             config : conf.dios]

CostsWithDio(s, n, d) ==
    CASE d.version = "older" -> Costs(s)
      [] d.version = "same" -> Costs([s EXCEPT !.rankOf[n] = d.rank])
      [] d.version = "newer" -> {AnyOrder}

\* link_stats_input_callback: the frame that has come in gives a link without statistics
\* a default metric.
HeardLink(l) == IF l = "bad" THEN {"bad", "stale"} ELSE {l}

\* dio_input
DioInput ==
    \E n \in conf.near : \E d \in Dios(n), q \in HeardLink(node.link[n]) :
        LET s == [node EXCEPT !.link[n] = q]
            newer == d.version = "newer"
        IN /\ \E cost \in CostsWithDio(s, n, d) : node' = rpl_process_dio(s, n, d, cost)
           /\ repairing' = ((newer \/ repairing) /\ node'.used /\ node'.preferred_parent = NULL)
           /\ left' = ((left \cup IF newer THEN {node.preferred_parent} ELSE {}) \cap node'.defrt)
                       \ {node'.preferred_parent}
           /\ UNCHANGED conf

\* dis_input: a multicast DIS resets the trickle timer, a unicast DIS is answered,
\* which updates the state.
DisInput ==
    /\ node.used
    /\ \/ Step(rpl_timers_dio_reset(node))
       \/ \E cost \in Costs(node) : Step(rpl_dag_update_state(node, cost))

\* A reply to the last DAO without the reset of the trickle timer.
DaoAckInputQuiet(ok) ==
    /\ conf.DaoAck /\ node.used /\ node.daoSent
    /\ LET s == [node EXCEPT !.daoAcked = ~node.daoNew]
       IN Step(IF ~ok THEN [s EXCEPT !.state = "POISONING"]
               ELSE IF s.state = "JOINED" THEN [s EXCEPT !.state = "REACHABLE"] ELSE s)

\* rpl_process_dao_ack for the last DAO that was sent.
DaoAckInput(ok) ==
    /\ conf.DaoAck /\ node.used /\ node.daoSent
    /\ LET s == [node EXCEPT !.daoAcked = ~node.daoNew]
       IN Step(IF ~ok THEN [s EXCEPT !.state = "POISONING"]
               ELSE IF s.state = "JOINED"
               THEN rpl_timers_dio_reset([s EXCEPT !.state = "REACHABLE"]) ELSE s)

\* rpl_process_dao_ack for a DAO that went out under the next number.  An older number
\* changes nothing that the model keeps.
DaoAckInputNext ==
    /\ conf.DaoAck /\ node.used /\ node.sentNext
    /\ Step([node EXCEPT !.ackedNext = TRUE])

\* rpl_process_hbh: a packet of n signals an error in the ranks.  A loop only schedules a
\* unicast DIO, as RPL_LOOP_ERROR_DROP is not set.
HbhInput ==
    /\ node.used
    /\ \E n \in InTable(node), r \in conf.ranks \cup {RPL_INFINITE_RANK} :
           LET s == [node EXCEPT !.rankOf[n] = r]
           IN \E cost \in Costs(s) : Step(rpl_dag_update_state(s, cost))

\* The MAC has sent a packet to n: link_stats_packet_sent, then rpl_link_callback.
LinkCallback ==
    \E n \in conf.near, q \in Link :
        LET s == [node EXCEPT !.link[n] = q]
        IN /\ node.link[n] = "fresh" => q # "stale"
           /\ Step(IF node.used /\ n \in InTable(node)
                   THEN rpl_timers_schedule_state_update(
                          [s EXCEPT !.urgent_probing_target = IF @ = n THEN NULL ELSE @])
                   ELSE s)

\* Link statistics grow old.
LinkAges ==
    \E n \in Nbr : /\ node.link[n] = "fresh"
                   /\ Step([node EXCEPT !.link[n] = "stale"])

\* The neighbour table makes room: every table forgets n.  rpl_nbr_policy_find_removable
\* never picks the preferred parent.
Evict ==
    \E n \in InTable(node) :
        /\ n # node.preferred_parent
        /\ Step([remove_neighbor(node, n) EXCEPT !.link[n] = "bad"])

\* The routing driver's leave_network and local_repair.
rpl_dag_poison_and_leave ==
    /\ node.used
    /\ Step(rpl_timers_schedule_state_update([node EXCEPT !.state = "POISONING"]))

LocalRepair == \E cost \in Costs(node) : node.used /\ Step(rpl_local_repair(node, cost))

-----------------------------------------------------------------------------
(* The timers' callbacks *)

handle_state_update ==
    /\ node.state_update
    /\ \E cost \in Costs(node) :
           Step(rpl_dag_update_state([node EXCEPT !.state_update = FALSE], cost))

\* sends: it is time to send, and fewer DIOs than dio_redundancy were heard.
handle_dio_timer ==
    /\ node.dio_timer
    /\ \E cost \in Costs(node), sends \in BOOLEAN :
           Step(IF ~rpl_dag_ready_to_advertise(node) THEN [node EXCEPT !.dio_timer = FALSE]
                ELSE IF sends
                THEN [rpl_dag_update_state(node, cost) EXCEPT !.dio_timer = TRUE]
                ELSE node)

\* rpl_icmp6_dao_output: a DAO goes out only if there was a parent before the update
\* of the state and there is one after it.  If the update changed the parent, the DAO
\* already has the number of the next one.
DaoOutput(s, t) ==
    LET sent == s.preferred_parent # NULL /\ t.preferred_parent # NULL
    IN IF t.daoNew THEN [t EXCEPT !.sentNext = sent] ELSE [t EXCEPT !.daoSent = @ \/ sent]

rpl_icmp6_dao_output(s, cost) == DaoOutput(s, rpl_dag_update_state(s, cost))

\* The DAO with the next number becomes the last one, or the last one is repeated.
TransmitDao(s, cost) ==
    LET first == [s EXCEPT !.daoTx = 1, !.daoNew = FALSE,
                           !.daoSent = s.sentNext, !.daoAcked = s.ackedNext,
                           !.sentNext = FALSE, !.ackedNext = FALSE]
        again == [s EXCEPT !.daoTx = @ + 1]
    IN rpl_icmp6_dao_output([(IF s.daoNew THEN first ELSE again) EXCEPT !.dao_timer = TRUE], cost)

\* One transmission too many.
DaoTimerOffByOne(cost) ==
    LET s == [node EXCEPT !.dao_timer = FALSE]
    IN IF ~s.daoNew /\ s.daoAcked THEN schedule_dao_refresh(s)
       ELSE IF ~s.daoNew /\ s.daoTx > MaxRtx THEN rpl_local_repair(s, cost)
       ELSE TransmitDao(s, cost)

DaoTimerWithAck(cost) ==
    LET s == [node EXCEPT !.dao_timer = FALSE]
    IN IF ~s.daoNew /\ s.daoAcked THEN schedule_dao_refresh(s)
       ELSE IF ~s.daoNew /\ s.daoTx >= MaxRtx THEN rpl_local_repair(s, cost)
       ELSE TransmitDao(s, cost)

DaoTimerNoAck(cost) ==
    LET s == [node EXCEPT !.dao_timer = FALSE, !.daoNew = FALSE,
                          !.state = IF @ = "JOINED" THEN "REACHABLE" ELSE @]
    IN schedule_dao_refresh(rpl_dag_update_state(rpl_timers_dio_reset(s), cost))

handle_dao_timer ==
    /\ node.dao_timer
    /\ \E cost \in Costs(node) : Step(IF conf.DaoAck THEN DaoTimerWithAck(cost) ELSE DaoTimerNoAck(cost))

\* get_probing_target; a neighbour with a bad link may be fresh or not.
ProbingTargets(s) ==
    LET old == {n \in InTable(s) : s.link[n] # "fresh"}
    IN IF s.urgent_probing_target # NULL THEN {s.urgent_probing_target}
       ELSE IF s.preferred_parent # NULL /\ s.link[s.preferred_parent] = "stale"
       THEN {s.preferred_parent} ELSE old \cup {NULL}

handle_probing_timer ==
    /\ node.probing_timer
    /\ \E target \in ProbingTargets(node), cost \in Costs(node) :
           LET s == [node EXCEPT !.probing_timer = FALSE]
           IN Step(rpl_schedule_probing(
                     IF target = NULL THEN s ELSE rpl_dag_update_state(s, cost)))

LeaveExpires ==
    conf.Delays /\ CanExpire(node.leave) /\ Step([node EXCEPT !.leave = Expired(@)])

handle_leaving_timer ==
    /\ HasEvent(node.leave)
    /\ LET s == [node EXCEPT !.leave = Handled(@)]
       IN IF HasCallback(node.leave) /\ s.used
          THEN \E cost \in Costs(node) : Step(rpl_dag_leave(s, cost)) ELSE Step(s)

DisExpires ==
    conf.Delays /\ CanExpire(node.dis_timer) /\ Step([node EXCEPT !.dis_timer = Expired(@)])

NoParent(s) == ~s.used \/ s.preferred_parent = NULL \/ s.rank = RPL_INFINITE_RANK

\* The callback of the DIS timer sends a DIS.
DisSent ==
    /\ HasCallback(node.dis_timer) /\ NoParent(node)
    /\ \E cost \in Costs(node) :
           Step(rpl_timers_schedule_periodic_dis(
                  rpl_dag_update_state([node EXCEPT !.dis_timer = Handled(@)], cost)))

\* The event finds no entry in ctimer_list, or a node with a parent.
DisIdle ==
    /\ HasEvent(node.dis_timer) /\ ~(HasCallback(node.dis_timer) /\ NoParent(node))
    /\ Step([node EXCEPT !.dis_timer = Handled(@)])

handle_dis_timer == DisSent \/ DisIdle

SolicitIfAlone(s) == IF NoParent(s) THEN rpl_timers_schedule_periodic_dis(s) ELSE s

handle_periodic_timer ==
    \E cost \in Costs(node) :
        Step(rpl_dag_update_state(
               SolicitIfAlone(IF node.used THEN rpl_dag_periodic(node, cost) ELSE node), cost))

Input == \/ DioInput \/ DisInput \/ HbhInput
         \/ DaoAckInputNext \/ \E ok \in BOOLEAN : DaoAckInput(ok)
Links == LinkCallback \/ LinkAges \/ Evict
Calls == rpl_dag_poison_and_leave \/ LocalRepair
DagTimers == \/ handle_state_update \/ handle_dio_timer
             \/ handle_dao_timer \/ handle_probing_timer
             \/ LeaveExpires \/ handle_leaving_timer

Next == \/ Input \/ Links \/ Calls \/ DagTimers
        \/ DisExpires \/ handle_dis_timer \/ handle_periodic_timer

Spec == Init /\ [][Next]_vars

-----------------------------------------------------------------------------
(* Properties *)

Rank == AdvRank \cup {r + HopInc : r \in AdvRank} \cup {RPL_INFINITE_RANK}

NodeType ==
    [used : BOOLEAN, dis_timer : CtimerState,
     rankOf : [Nbr -> AdvRank \cup {Absent, RPL_INFINITE_RANK}],
     link : [Nbr -> Link], defrt : SUBSET Nbr, state_update : BOOLEAN,
     leave : CtimerState, dio_timer : BOOLEAN,
     dao_timer : BOOLEAN, probing_timer : BOOLEAN, state : DagState,
     preferred_parent : Nbr \cup {NULL}, rank : Rank, lowest_rank : Rank,
     lifetime : 0 .. MaxLife, downward : BOOLEAN, infinite : BOOLEAN,
     urgent_probing_target : Nbr \cup {NULL}, daoNew : BOOLEAN,
     daoAcked : BOOLEAN, daoSent : BOOLEAN, daoTx : 0 .. MaxRtx,
     sentNext : BOOLEAN, ackedNext : BOOLEAN]

\* Types; in particular a DAO is transmitted at most RPL_DAO_MAX_RETRANSMISSIONS times.
TypeOK ==
    /\ node \in NodeType
    /\ repairing \in BOOLEAN /\ left \subseteq Nbr
    /\ conf \in Confs

\* No pointer into the neighbour table dangles: the comments of remove_neighbor and
\* rpl_neighbor_remove_all claim it for the preferred parent and the urgent probing target.
NoDanglingNeighbor ==
    {node.preferred_parent, node.urgent_probing_target} \subseteq InTable(node) \cup {NULL}

\* "We will be called back after the probing anyway": while a neighbour is to be probed
\* urgently, which is what a node without a fresh parent waits for, the probing timer is
\* pending, also after a global repair, which stops it.
ProbingComes == node.urgent_probing_target # NULL => node.probing_timer

\* As long as a node has a parent it will send another DAO, so that the root's route to
\* it does not expire: no order of acknowledgements, retransmissions, repairs and parent
\* switches leaves the DAO timer unset.  The exceptions are a DAG without downward routes,
\* and one in which routes do not expire: there the last DAO is out, and acknowledged if
\* acknowledgements are used.
DaoTimerRuns ==
    node.used /\ node.preferred_parent # NULL /\ node.downward =>
        \/ node.dao_timer
        \/ node.infinite /\ ~node.daoNew /\ (conf.DaoAck => node.daoAcked)

\* A router advertises when it is reachable, and in a DAG without downward routes always:
\* its trickle timer is pending.
AdvertisingTimerRuns ==
    ~conf.LeafOnly /\ node.used /\ (node.state = "REACHABLE" \/ ~node.downward) =>
        node.dio_timer

\* A node without a parent will leave the DAG: its leave timer runs or its event is
\* queued.  The exception is a node that has not found a parent since a global repair,
\* which stops the timer and does not set it again.
LeavePending ==
    node.used /\ node.preferred_parent = NULL /\ ~repairing =>
        node.leave \in {"on", "due", "rearmed"}

\* The default routes are the preferred parent and what global repairs, which forget the
\* parent but not its route, have left behind.
DefaultRouteIsParent == node.defrt = left \cup ({node.preferred_parent} \ {NULL})

\* RPL-lite is what the layers above it may rely on: see RplJoin.
Join == INSTANCE RplJoin WITH
            dag <- IF node.used THEN node.state ELSE "OUT",
            parent <- node.preferred_parent # NULL,
            route <- node.defrt # {},
            dis <- node.dis_timer

\* Every handler, of which many update the state twice or more, is one move of RplJoin:
\* a node becomes reachable only from JOINED and never while it sends a DIS, it has a
\* parent in these states only, and at each period without a parent the DIS timer is
\* set again.
ImplementsJoin == Join!JoinSpec
=============================================================================
