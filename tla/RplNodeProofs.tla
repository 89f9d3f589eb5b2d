--------------------------- MODULE RplNodeProofs ---------------------------
(***************************************************************************)
(* Safety of an RPL-lite node, for any number of neighbours, ranks and     *)
(* retransmissions, and for every build and surrounding of it.  The        *)
(* invariant is a property of the node, Good, which every function of the  *)
(* code keeps or restores.  Between the functions of one handler parts of  *)
(* it may be broken; rpl_dag_update_state is therefore described by what   *)
(* it does to any node that is in a DAG (Updated).                         *)
(***************************************************************************)
EXTENDS RplNode, FiniteSetTheorems, WellFoundedInduction, TLAPS

Fields == DOMAIN Cleared

\* t is a node that differs from s in the fields F only.
Changes(s, t, F) == t \in NodeType /\ \A f \in Fields \ F : t[f] = s[f]

Pending(timer) == timer \in {"on", "due", "rearmed"}

Linked(s) == {s.preferred_parent, s.urgent_probing_target} \subseteq InTable(s) \cup {NULL}
Probes(s) == s.urgent_probing_target # NULL => s.probing_timer
\* Nothing more is to be announced, and nothing is to be announced later.
Resting(s) == s.infinite /\ ~s.daoNew /\ (conf.DaoAck => s.daoAcked)
Announced(s) == s.downward => s.dao_timer \/ Resting(s)
Announces(s) == s.used /\ s.preferred_parent # NULL => Announced(s)
Advertises(s) == ~conf.LeafOnly /\ s.used /\ (s.state = "REACHABLE" \/ ~s.downward) => s.dio_timer
Ranked(s) == s.preferred_parent # NULL => s.rank # RPL_INFINITE_RANK
Matched(s) == s.used /\ s.state # "POISONING" =>
                 (s.preferred_parent # NULL <=> s.state \in {"JOINED", "REACHABLE"})
Out(s) == ~s.used => /\ s.preferred_parent = NULL /\ s.urgent_probing_target = NULL
                     /\ ~s.dao_timer /\ ~s.probing_timer /\ s.leave \in {"off", "stale"}

Good(s) ==
    /\ s \in NodeType
    /\ Linked(s) /\ Probes(s) /\ Announces(s) /\ Advertises(s) /\ Ranked(s) /\ Matched(s) /\ Out(s)
    /\ s.leave # "orphan"

\* What Announced and Advertises read is the same.
SameDao(s, t) ==
    /\ t.downward = s.downward /\ t.infinite = s.infinite
    /\ t.dao_timer = s.dao_timer /\ t.daoNew = s.daoNew /\ t.daoAcked = s.daoAcked

Leaves(s) == s.used /\ s.preferred_parent = NULL => Pending(s.leave)

-----------------------------------------------------------------------------
(* The timers.  Every lemma says which fields a function changes and what  *)
(* becomes of them.                                                        *)

\* The names of the fields.
LEMMA FieldNames ==
    Fields = {"used", "dis_timer", "rankOf", "link", "defrt", "state_update", "leave", "dio_timer",
              "dao_timer", "probing_timer", "state", "preferred_parent", "rank", "lowest_rank",
              "lifetime", "downward", "infinite", "urgent_probing_target", "daoNew", "daoAcked",
              "daoSent", "daoTx", "sentNext", "ackedNext"}
BY DEF Fields, Cleared

\* The bounds that counters and ranks start from.
LEMMA Bounds ==
    /\ 0 \in 0 .. MaxRtx /\ 1 \in 0 .. MaxRtx /\ 0 \in 0 .. MaxLife /\ MaxLife \in 0 .. MaxLife
    /\ RPL_INFINITE_RANK \in Rank /\ DagState = {"INITIALIZED", "JOINED", "REACHABLE", "POISONING"}
    /\ NULL \notin Nbr
BY RplAssumption DEF Rank, DagState

LEMMA DioReset ==
    ASSUME NEW s \in NodeType
    PROVE  LET t == rpl_timers_dio_reset(s)
           IN  /\ Changes(s, t, {"dio_timer"})
               /\ s.dio_timer => t.dio_timer
               /\ s.used /\ (s.state = "REACHABLE" \/ ~s.downward) /\ ~conf.LeafOnly => t.dio_timer
<1> DEFINE t == [s EXCEPT !.dio_timer = TRUE]
<1>1. t \in NodeType
  BY Zenon DEF NodeType
<1>2. t.dio_timer /\ Changes(s, t, {"dio_timer"})
  BY <1>1, FieldNames DEF NodeType, Changes
<1>3. Changes(s, s, {"dio_timer"})
  BY DEF Changes
<1> QED
  BY <1>2, <1>3 DEF rpl_timers_dio_reset, rpl_dag_ready_to_advertise

LEMMA SchedulePeriodicDis ==
    ASSUME NEW s \in NodeType
    PROVE  LET t == rpl_timers_schedule_periodic_dis(s)
           IN  /\ Changes(s, t, {"dis_timer"})
               /\ t.dis_timer = Join!rpl_timers_schedule_periodic_dis(s.dis_timer)
<1> DEFINE v == ctimer_set(s.dis_timer)
           t == [s EXCEPT !.dis_timer = v]
<1>1. v \in CtimerState
  BY DEF ctimer_set, CtimerState
<1> HIDE DEF v
<1>2. t \in NodeType
  BY <1>1, Zenon DEF NodeType
<1>3. t.dis_timer = v /\ Changes(s, t, {"dis_timer"})
  BY <1>2, FieldNames DEF NodeType, Changes
<1>4. Changes(s, s, {"dis_timer"})
  BY DEF Changes
<1> HIDE DEF t
<1>5. rpl_timers_schedule_periodic_dis(s) = IF ctimer_expired(s.dis_timer) THEN t ELSE s
  BY DEF rpl_timers_schedule_periodic_dis, t, v
<1> QED
  BY <1>3, <1>4, <1>5 DEF Join!rpl_timers_schedule_periodic_dis, Join!ctimer_expired,
                          Join!ctimer_set, ctimer_expired, ctimer_set, v

DaoFields == {"daoNew", "sentNext", "ackedNext", "daoAcked", "daoSent", "daoTx", "dao_timer"}

LEMMA ScheduleDao ==
    ASSUME NEW s \in NodeType
    PROVE  LET t == rpl_timers_schedule_dao(s)
               u == schedule_dao_refresh(s)
           IN  /\ Changes(s, t, DaoFields) /\ Changes(s, u, DaoFields)
               /\ s.used \/ Announced(s) => Announced(t)
               /\ s.used /\ (s.infinite => Announced(s)) => Announced(u)
<1> DEFINE n == NextDao(s)
           t == [n EXCEPT !.dao_timer = TRUE]
<1>1. n \in NodeType
  BY Bounds, Zenon DEF NodeType, NextDao
<1>2. Changes(s, n, DaoFields)
  BY <1>1, FieldNames DEF NodeType, Changes, NextDao, DaoFields
<1> HIDE DEF n
<1>3. t \in NodeType
  BY <1>1, Zenon DEF NodeType
<1>4. t.dao_timer /\ Changes(n, t, {"dao_timer"})
  BY <1>1, <1>3, FieldNames DEF NodeType, Changes
<1> HIDE DEF t
<1>5. Changes(s, t, DaoFields) /\ Changes(s, s, DaoFields) /\ Announced(t)
  BY <1>2, <1>4 DEF Changes, DaoFields, Announced
<1>6. rpl_timers_schedule_dao(s) = IF s.used /\ s.downward THEN t ELSE s
  BY DEF rpl_timers_schedule_dao, t, n
<1>7. schedule_dao_refresh(s) = IF s.used /\ ~s.infinite THEN t ELSE s
  BY DEF schedule_dao_refresh, t, n
<1>8. ~s.downward => Announced(s)
  BY DEF Announced
<1> QED
  BY <1>5, <1>6, <1>7, <1>8

LEMMA UnscheduleLeaving ==
    ASSUME NEW s \in NodeType
    PROVE  LET t == rpl_timers_unschedule_leaving(s)
           IN  /\ Changes(s, t, {"leave"})
               /\ s.leave # "orphan" => t.leave # "orphan"
<1> DEFINE v == ctimer_stop(s.leave)
           t == [s EXCEPT !.leave = v]
<1>1. v \in CtimerState /\ v # "orphan"
  BY DEF ctimer_stop, CtimerState
<1> HIDE DEF v
<1>2. t \in NodeType
  BY <1>1, Zenon DEF NodeType
<1>3. t.leave = v /\ Changes(s, t, {"leave"})
  BY <1>2, FieldNames DEF NodeType, Changes
<1>4. Changes(s, s, {"leave"})
  BY DEF Changes
<1> HIDE DEF t
<1>5. \/ rpl_timers_unschedule_leaving(s) = s
      \/ rpl_timers_unschedule_leaving(s) = t
  BY DEF rpl_timers_unschedule_leaving, t, v
<1> QED
  BY <1>1, <1>3, <1>4, <1>5

LEMMA ScheduleLeaving ==
    ASSUME NEW s \in NodeType
    PROVE  LET t == rpl_timers_schedule_leaving(s)
           IN  /\ Changes(s, t, {"leave"})
               /\ s.leave # "orphan" => t.leave # "orphan"
               /\ s.used /\ s.leave # "orphan" => Pending(t.leave)
               /\ Pending(s.leave) => Pending(t.leave)
<1> DEFINE v == ctimer_set(s.leave)
           t == [s EXCEPT !.leave = v]
<1>1. v \in CtimerState /\ v \in {"on", "rearmed"}
  BY DEF ctimer_set, CtimerState
<1> HIDE DEF v
<1>2. t \in NodeType
  BY <1>1, Zenon DEF NodeType
<1>3. t.leave = v /\ Changes(s, t, {"leave"})
  BY <1>2, FieldNames DEF NodeType, Changes
<1>4. Changes(s, s, {"leave"})
  BY DEF Changes
<1> HIDE DEF t
<1>5. rpl_timers_schedule_leaving(s) = IF s.used /\ ctimer_expired(s.leave) THEN t ELSE s
  BY DEF rpl_timers_schedule_leaving, t, v
<1>6. s.leave \in CtimerState
  BY DEF NodeType
<1> QED
  BY <1>1, <1>3, <1>4, <1>5, <1>6 DEF Pending, CtimerState, ctimer_expired

LEMMA ScheduleStateUpdate ==
    ASSUME NEW s \in NodeType
    PROVE  Changes(s, rpl_timers_schedule_state_update(s), {"state_update"})
<1> DEFINE v == s.state_update \/ s.used
           t == [s EXCEPT !.state_update = v]
<1>1. v \in BOOLEAN
  OBVIOUS
<1> HIDE DEF v
<1>2. t \in NodeType
  BY <1>1, Zenon DEF NodeType
<1>3. Changes(s, t, {"state_update"})
  BY <1>2, FieldNames DEF NodeType, Changes
<1> QED
  BY <1>3 DEF rpl_timers_schedule_state_update, v

LEMMA ScheduleProbing ==
    ASSUME NEW s \in NodeType
    PROVE  LET t == rpl_schedule_probing(s)
           IN  /\ Changes(s, t, {"probing_timer"})
               /\ s.used \/ s.probing_timer => t.probing_timer
<1> DEFINE v == s.probing_timer \/ s.used
           t == [s EXCEPT !.probing_timer = v]
<1>1. v \in BOOLEAN /\ (s.used \/ s.probing_timer => v)
  OBVIOUS
<1> HIDE DEF v
<1>2. t \in NodeType
  BY <1>1, Zenon DEF NodeType
<1>3. t.probing_timer = v /\ Changes(s, t, {"probing_timer"})
  BY <1>2, FieldNames DEF NodeType, Changes
<1> QED
  BY <1>1, <1>3 DEF rpl_schedule_probing, v

TimerFields == {"state_update", "leave", "dio_timer", "dao_timer", "probing_timer"}

LEMMA StopDagTimers ==
    ASSUME NEW s \in NodeType
    PROVE  LET t == rpl_timers_stop_dag_timers(s)
           IN  /\ Changes(s, t, TimerFields)
               /\ ~t.dao_timer /\ ~t.probing_timer /\ t.leave \in {"off", "stale"}
<1> DEFINE v == ctimer_stop(s.leave)
           t == [s EXCEPT !.state_update = FALSE, !.leave = v, !.dio_timer = FALSE,
                          !.dao_timer = FALSE, !.probing_timer = FALSE]
<1>1. v \in CtimerState /\ v \in {"off", "stale"}
  BY DEF ctimer_stop, CtimerState
<1> HIDE DEF v
<1>2. t \in NodeType
  BY <1>1, Zenon DEF NodeType
<1>3. t.leave = v /\ t.dao_timer = FALSE /\ t.probing_timer = FALSE
  BY DEF NodeType
<1>4. Changes(s, t, TimerFields)
  BY <1>2, FieldNames DEF NodeType, Changes, TimerFields
<1> HIDE DEF t
<1>5. rpl_timers_stop_dag_timers(s) = t
  BY DEF rpl_timers_stop_dag_timers, t, v
<1> QED
  BY <1>1, <1>3, <1>4, <1>5

-----------------------------------------------------------------------------
(* The choice of a parent.                                                 *)

\* A set of natural numbers that is not empty has a least element.
LEMMA LeastNumber ==
    ASSUME NEW T, T \subseteq Nat, T # {}
    PROVE  \E x \in T : \A y \in T : x <= y
<1> DEFINE R == {ss \in Nat \X Nat : ss[1] < ss[2]}
<1>1. IsWellFoundedOn(R, Nat)
  BY NatLessThanWellFounded DEF OpToRel
<1>2. PICK x \in T : \A y \in T : <<y, x>> \notin R
  <2> HIDE DEF R
  <2> QED
    BY <1>1, WFMin
<1>3. \A y \in T : ~(y < x)
  BY <1>2
<1> QED
  BY <1>2, <1>3

\* A finite set can be numbered, so that the neighbours have an order.
LEMMA Numbering ==
    ASSUME NEW S, IsFiniteSet(S)
    PROVE  \E f \in [S -> 1 .. Cardinality(S)] : \A m, n \in S : m # n => f[m] # f[n]
<1>1. PICK k \in Nat : ExistsBijection(1 .. k, S)
  BY FS_NatBijection
<1>2. Cardinality(S) = k
  BY <1>1, FS_CountingElements
<1>3. PICK g \in [1 .. k -> S] : \A m \in S : \E i \in 1 .. k : g[i] = m
  BY <1>1 DEF ExistsBijection, Bijection, Surjection
<1> DEFINE f == [m \in S |-> CHOOSE i \in 1 .. k : g[i] = m]
<1>4. \A m \in S : f[m] \in 1 .. k /\ g[f[m]] = m
  BY <1>3
<1>5. f \in [S -> 1 .. k]
  BY <1>4
<1>6. \A m, n \in S : m # n => f[m] # f[n]
  BY <1>4
<1> HIDE DEF f
<1> QED
  BY <1>2, <1>5, <1>6

\* Whatever the handlers choose are orders of the neighbours.
LEMMA CostsAreOrders ==
    /\ AnyOrder \in Orders
    /\ \A s : Costs(s) \subseteq Orders
    /\ \A s, n, d : d.version \in {"older", "same", "newer"} => CostsWithDio(s, n, d) \subseteq Orders
<1>1. Orders # {}
  BY Numbering, RplAssumption DEF Orders
<1>2. AnyOrder \in Orders
  BY <1>1 DEF AnyOrder
<1>3. \A s : Costs(s) \subseteq Orders
  BY <1>2 DEF Costs
<1>4. \A s, n, d : d.version \in {"older", "same", "newer"} => CostsWithDio(s, n, d) \subseteq Orders
  BY <1>2, <1>3 DEF CostsWithDio
<1> QED
  BY <1>2, <1>3, <1>4

\* best_parent finds a neighbour in the table with a finite rank, or none.
LEMMA BestParent ==
    ASSUME NEW s \in NodeType, NEW cost \in Orders, NEW fresh \in BOOLEAN
    PROVE  LET best == best_parent(s, cost, fresh)
           IN  best # NULL => best \in InTable(s) /\ s.rankOf[best] # RPL_INFINITE_RANK
<1> DEFINE links == {"fresh"} \cup (IF fresh THEN {} ELSE {"stale"})
           ok == {n \in InTable(s) : acceptable_rank(s, s.rankOf[n]) /\ s.link[n] \in links}
<1>1. CASE ok = {}
  BY <1>1 DEF best_parent
<1>2. CASE ok # {}
  <2>1. \A n \in ok : cost[n] \in Nat
    BY DEF Orders, InTable
  <2>2. PICK x \in {cost[n] : n \in ok} : \A y \in {cost[n] : n \in ok} : x <= y
    <3>1. {cost[n] : n \in ok} \subseteq Nat /\ {cost[n] : n \in ok} # {}
      BY <1>2, <2>1
    <3> HIDE DEF ok
    <3> QED
      BY <3>1, LeastNumber
  <2>3. \E n \in ok : \A m \in ok : cost[n] <= cost[m]
    <3> HIDE DEF ok
    <3> QED
      BY <2>2
  <2>4. best_parent(s, cost, fresh) = CHOOSE n \in ok : \A m \in ok : cost[n] <= cost[m]
    BY <1>2 DEF best_parent
  <2>5. best_parent(s, cost, fresh) \in ok
    <3> HIDE DEF ok
    <3> QED
      BY <2>3, <2>4
  <2> QED
    BY <2>5 DEF acceptable_rank
<1> QED
  BY <1>1, <1>2

\* So does rpl_neighbor_select_best.
LEMMA SelectBest ==
    ASSUME NEW s \in NodeType, NEW cost \in Orders
    PROVE  LET best == rpl_neighbor_select_best(s, cost)
           IN  best # NULL => best \in InTable(s) /\ s.rankOf[best] # RPL_INFINITE_RANK
<1> DEFINE b == best_parent(s, cost, FALSE)
           f == best_parent(s, cost, TRUE)
<1>1. b # NULL => b \in InTable(s) /\ s.rankOf[b] # RPL_INFINITE_RANK
  BY BestParent
<1>2. f # NULL => f \in InTable(s) /\ s.rankOf[f] # RPL_INFINITE_RANK
  BY BestParent
<1> HIDE DEF b, f
<1>3. BestOf(s, b, f) \in {NULL, b, f}
  BY DEF BestOf
<1>4. rpl_neighbor_select_best(s, cost) = BestOf(s, b, f)
  BY DEF rpl_neighbor_select_best, b, f
<1> QED
  BY <1>1, <1>2, <1>3, <1>4

\* The urgent probing target changes to the best neighbour, with the probing timer set.
LEMMA UrgentProbingFacts ==
    ASSUME NEW s \in NodeType, s.used, NEW best \in Nbr \cup {NULL}
    PROVE  LET t == UrgentProbing(s, best)
           IN  /\ Changes(s, t, {"urgent_probing_target", "probing_timer"})
               /\ t.urgent_probing_target \in {NULL, s.urgent_probing_target, best}
               /\ s.probing_timer => t.probing_timer
               /\ t.urgent_probing_target \notin {NULL, s.urgent_probing_target} => t.probing_timer
<1> DEFINE F == {"urgent_probing_target", "probing_timer"}
           set(n) == [s EXCEPT !.urgent_probing_target = n]
<1>1. ASSUME NEW n \in Nbr \cup {NULL}
      PROVE  Changes(s, set(n), {"urgent_probing_target"}) /\ set(n).urgent_probing_target = n
  <2>1. set(n) \in NodeType
    BY Zenon DEF NodeType
  <2> QED
    BY <2>1, FieldNames DEF NodeType, Changes
<1> HIDE DEF set
<1>2. set(NULL).probing_timer = s.probing_timer /\ Changes(s, set(NULL), F) /\ Changes(s, s, F)
  BY <1>1, FieldNames DEF Changes
<1>3. set(best) \in NodeType /\ set(best).used /\ set(best).probing_timer = s.probing_timer
  BY <1>1, FieldNames DEF Changes
<1> DEFINE p == rpl_schedule_probing(set(best))
<1>4. Changes(set(best), p, {"probing_timer"}) /\ p.probing_timer
  BY <1>3, ScheduleProbing
<1> HIDE DEF p
<1>5. Changes(s, p, F) /\ p.urgent_probing_target = best
  BY <1>1, <1>4, FieldNames DEF Changes
<1>6. \/ UrgentProbing(s, best) = s
      \/ UrgentProbing(s, best) = set(NULL)
      \/ UrgentProbing(s, best) = p
  BY DEF UrgentProbing, set, p
<1> QED
  BY <1>1, <1>2, <1>4, <1>5, <1>6

\* The default route moves to the new parent, or finds no room.
Routes(s, t) ==
    LET others == s.defrt \ {s.preferred_parent}
    IN  IF t.preferred_parent = s.preferred_parent THEN t.defrt = s.defrt
        ELSE /\ t.defrt \in {others, others \cup {t.preferred_parent}}
             /\ t.preferred_parent = NULL => t.defrt = others
             /\ Cardinality(Nbr) <= DefrtNb /\ t.preferred_parent # NULL =>
                   t.defrt = others \cup {t.preferred_parent}

LEMMA SetPreferredParent ==
    ASSUME NEW s \in NodeType, NEW n \in Nbr \cup {NULL}
    PROVE  LET t == rpl_neighbor_set_preferred_parent(s, n)
           IN  /\ Changes(s, t, {"preferred_parent", "defrt"})
               /\ t.preferred_parent = n
               /\ Routes(s, t)
<1> DEFINE others == s.defrt \ {s.preferred_parent}
           full == Cardinality(others \ {n}) >= DefrtNb
           r == IF n = NULL \/ full THEN others ELSE others \cup {n}
           t == [s EXCEPT !.preferred_parent = n, !.defrt = r]
<1>1. s.defrt \in SUBSET Nbr /\ others \in SUBSET Nbr
  BY DEF NodeType
<1>2. r \in SUBSET Nbr
  BY <1>1
<1>3. Cardinality(Nbr) <= DefrtNb /\ n # NULL => ~full
  <2> SUFFICES ASSUME Cardinality(Nbr) <= DefrtNb, n \in Nbr PROVE ~full
    OBVIOUS
  <2>1. others \ {n} \subseteq Nbr \ {n}
    BY <1>1
  <2>2. /\ IsFiniteSet(Nbr \ {n}) /\ Cardinality(Nbr \ {n}) = Cardinality(Nbr) - 1
        /\ Cardinality(Nbr) \in Nat
    BY RplAssumption, FS_RemoveElement, FS_CardinalityType
  <2> HIDE DEF others
  <2>3. /\ IsFiniteSet(others \ {n}) /\ Cardinality(others \ {n}) <= Cardinality(Nbr \ {n})
        /\ Cardinality(others \ {n}) \in Nat
    BY <2>1, <2>2, FS_Subset, FS_CardinalityType
  <2>4. DefrtNb \in Nat
    BY RplAssumption
  <2> QED
    BY <2>2, <2>3, <2>4
<1> HIDE DEF r, full
<1>4. t \in NodeType
  BY <1>2, Zenon DEF NodeType
<1>5. t.preferred_parent = n /\ t.defrt = r
  BY DEF NodeType
<1>6. Changes(s, t, {"preferred_parent", "defrt"})
  BY <1>4, FieldNames DEF NodeType, Changes
<1>7. Changes(s, s, {"preferred_parent", "defrt"})
  BY DEF Changes
<1> HIDE DEF t
<1>8. rpl_neighbor_set_preferred_parent(s, n) = IF s.preferred_parent = n THEN s ELSE t
  BY DEF rpl_neighbor_set_preferred_parent, t, r, full
<1>9. CASE s.preferred_parent = n
  BY <1>7, <1>8, <1>9 DEF Routes
<1>10. CASE s.preferred_parent # n
  BY <1>3, <1>5, <1>6, <1>8, <1>10 DEF Routes, r
<1> QED
  BY <1>9, <1>10

\* The rank through a parent in the table is a rank, and finite if the parent's is.
LEMMA RankVia ==
    ASSUME NEW s \in NodeType, NEW n \in InTable(s) \cup {NULL}
    PROVE  LET r == rpl_neighbor_rank_via_nbr(s, n)
           IN  /\ r \in Rank
               /\ n # NULL /\ s.rankOf[n] # RPL_INFINITE_RANK => r # RPL_INFINITE_RANK
<1>1. CASE n = NULL \/ s.rankOf[n] = RPL_INFINITE_RANK
  BY <1>1 DEF rpl_neighbor_rank_via_nbr, Rank
<1>2. CASE n # NULL /\ s.rankOf[n] # RPL_INFINITE_RANK
  <2>1. s.rankOf[n] \in AdvRank
    BY <1>2 DEF NodeType, InTable
  <2>2. rpl_neighbor_rank_via_nbr(s, n) = s.rankOf[n] + HopInc
    BY <1>2 DEF rpl_neighbor_rank_via_nbr
  <2>3. s.rankOf[n] + HopInc # RPL_INFINITE_RANK
    <3>1. s.rankOf[n] \in ROOT_RANK .. (RPL_INFINITE_RANK - HopInc - 1)
      BY <2>1, RplAssumption
    <3> QED
      BY <3>1 DEF HopInc, RPL_INFINITE_RANK, ROOT_RANK
  <2> QED
    BY <2>1, <2>2, <2>3 DEF Rank
<1> QED
  BY <1>1, <1>2

LEMMA SetRankFacts ==
    ASSUME NEW s \in NodeType, NEW old, NEW r \in Rank
    PROVE  Changes(s, SetRank(s, old, r), {"rank", "lowest_rank"}) /\ SetRank(s, old, r).rank = r
<1> DEFINE l == IF old = NULL \/ r < s.lowest_rank THEN r ELSE s.lowest_rank
           t == [s EXCEPT !.rank = r, !.lowest_rank = l]
<1>1. l \in Rank
  BY DEF NodeType
<1> HIDE DEF l
<1>2. t \in NodeType
  BY <1>1, Zenon DEF NodeType
<1>3. t.rank = r /\ Changes(s, t, {"rank", "lowest_rank"})
  BY <1>2, FieldNames DEF NodeType, Changes
<1> HIDE DEF t
<1>4. SetRank(s, old, r) = t
  BY DEF SetRank, t, l
<1> QED
  BY <1>3, <1>4

-----------------------------------------------------------------------------
(* rpl_dag_update_state.                                                   *)

\* Changes add up.
LEMMA ChangesTwice ==
    ASSUME NEW s, NEW t, NEW u, NEW F, NEW G, Changes(s, t, F), Changes(t, u, G)
    PROVE  Changes(s, u, F \cup G)
BY DEF Changes

MoveFields == {"state", "dio_timer", "dis_timer", "leave"} \cup DaoFields

LEMMA GotParentFacts ==
    ASSUME NEW q \in NodeType, q.used
    PROVE  LET t == GotParent(q)
           IN  /\ Changes(q, t, MoveFields)
               /\ q.dio_timer => t.dio_timer
               /\ Announced(t) /\ t.state = "JOINED" /\ t.dis_timer = q.dis_timer
               /\ q.leave # "orphan" => t.leave # "orphan"
<1> DEFINE a == [q EXCEPT !.state = "JOINED"]
           b == rpl_timers_dio_reset(a)
           c == rpl_timers_unschedule_leaving(b)
           d == rpl_timers_schedule_dao(c)
<1>1. a \in NodeType
  BY Bounds, Zenon DEF NodeType
<1>2. Changes(q, a, {"state"}) /\ a.state = "JOINED"
  BY <1>1, FieldNames DEF NodeType, Changes
<1> HIDE DEF a
<1>3. Changes(a, b, {"dio_timer"}) /\ (a.dio_timer => b.dio_timer)
  BY <1>1, DioReset
<1> HIDE DEF b
<1>4. Changes(b, c, {"leave"}) /\ (b.leave # "orphan" => c.leave # "orphan")
  BY <1>3, UnscheduleLeaving DEF Changes
<1> HIDE DEF c
<1>5. Changes(c, d, DaoFields) /\ (c.used => Announced(d))
  BY <1>4, ScheduleDao DEF Changes
<1> HIDE DEF d
<1>6. GotParent(q) = d
  BY DEF GotParent, a, b, c, d
<1>7. Changes(q, d, MoveFields)
  BY <1>2, <1>3, <1>4, <1>5 DEF Changes, MoveFields, DaoFields
<1> QED
  BY <1>2, <1>3, <1>4, <1>5, <1>6, <1>7, FieldNames DEF Changes, DaoFields

LEMMA LostParentFacts ==
    ASSUME NEW q \in NodeType, q.used
    PROVE  LET t == LostParent(q)
           IN  /\ Changes(q, t, MoveFields)
               /\ q.dio_timer => t.dio_timer
               /\ SameDao(q, t) /\ t.state = "INITIALIZED"
               /\ t.dis_timer = Join!rpl_timers_schedule_periodic_dis(q.dis_timer)
               /\ q.leave # "orphan" => t.leave # "orphan" /\ Pending(t.leave)
<1> DEFINE a == [q EXCEPT !.state = "INITIALIZED"]
           b == rpl_timers_dio_reset(a)
           c == rpl_timers_schedule_periodic_dis(b)
           d == rpl_timers_schedule_leaving(c)
<1>1. a \in NodeType
  BY Bounds, Zenon DEF NodeType
<1>2. Changes(q, a, {"state"}) /\ a.state = "INITIALIZED"
  BY <1>1, FieldNames DEF NodeType, Changes
<1> HIDE DEF a
<1>3. Changes(a, b, {"dio_timer"}) /\ (a.dio_timer => b.dio_timer)
  BY <1>1, DioReset
<1> HIDE DEF b
<1>4. /\ Changes(b, c, {"dis_timer"})
      /\ c.dis_timer = Join!rpl_timers_schedule_periodic_dis(b.dis_timer)
  BY <1>3, SchedulePeriodicDis DEF Changes
<1> HIDE DEF c
<1>5. /\ Changes(c, d, {"leave"})
      /\ c.leave # "orphan" => d.leave # "orphan"
      /\ c.used /\ c.leave # "orphan" => Pending(d.leave)
  BY <1>4, ScheduleLeaving DEF Changes
<1> HIDE DEF d
<1>6. LostParent(q) = d
  BY DEF LostParent, a, b, c, d
<1>7. Changes(q, d, MoveFields)
  BY <1>2, <1>3, <1>4, <1>5 DEF Changes, MoveFields
<1>8. c.used /\ c.leave = q.leave /\ b.dis_timer = q.dis_timer /\ d.dis_timer = c.dis_timer
  BY <1>2, <1>3, <1>4, <1>5, FieldNames DEF Changes
<1> QED
  BY <1>2, <1>3, <1>4, <1>5, <1>6, <1>7, <1>8, FieldNames DEF Changes, SameDao

\* The state, the DAO timer, the leave timer and the DIS timer follow the parent.
Moved(q, old, t) ==
    /\ Changes(q, t, MoveFields)
    /\ q.dio_timer => t.dio_timer
    /\ Announced(q) => Announced(t)
    /\ q.preferred_parent \notin {NULL, old} => Announced(t)
    /\ q.leave # "orphan" => t.leave # "orphan"
    /\ t.state = IF q.preferred_parent = NULL /\ old # NULL THEN "INITIALIZED"
                 ELSE IF q.preferred_parent # NULL /\ old = NULL THEN "JOINED" ELSE q.state
    /\ q.preferred_parent = NULL =>
          IF old = NULL THEN t.leave = q.leave ELSE q.leave # "orphan" => Pending(t.leave)
    /\ t.dis_timer = IF q.preferred_parent = NULL /\ old # NULL
                     THEN Join!rpl_timers_schedule_periodic_dis(q.dis_timer) ELSE q.dis_timer

LEMMA ParentChangeMoves ==
    ASSUME NEW q \in NodeType, q.used, NEW old
    PROVE  Moved(q, old, ParentChange(q, old))
<1> DEFINE t == ParentChange(q, old)
<1> SUFFICES Moved(q, old, t)
  OBVIOUS
<1>1. CASE q.preferred_parent = old
  <2>1. t = q
    BY <1>1 DEF ParentChange
  <2> HIDE DEF t
  <2> QED
    BY <1>1, <2>1 DEF Moved, Changes
<1>2. CASE q.preferred_parent # old /\ old = NULL
  <2>1. t = GotParent(q)
    BY <1>2 DEF ParentChange
  <2> HIDE DEF t
  <2>2. /\ Changes(q, t, MoveFields)
        /\ q.dio_timer => t.dio_timer
        /\ Announced(t) /\ t.state = "JOINED" /\ t.dis_timer = q.dis_timer
        /\ q.leave # "orphan" => t.leave # "orphan"
    BY <2>1, GotParentFacts
  <2> QED
    BY <1>2, <2>2 DEF Moved
<1>3. CASE q.preferred_parent # old /\ old # NULL /\ q.preferred_parent = NULL
  <2>1. t = LostParent(q)
    BY <1>3 DEF ParentChange
  <2> HIDE DEF t
  <2>2. /\ Changes(q, t, MoveFields)
        /\ q.dio_timer => t.dio_timer
        /\ SameDao(q, t) /\ t.state = "INITIALIZED"
        /\ t.dis_timer = Join!rpl_timers_schedule_periodic_dis(q.dis_timer)
        /\ q.leave # "orphan" => t.leave # "orphan" /\ Pending(t.leave)
    BY <2>1, LostParentFacts
  <2> QED
    BY <1>3, <2>2 DEF Moved, SameDao, Announced, Resting
<1>4. CASE q.preferred_parent # old /\ old # NULL /\ q.preferred_parent # NULL
  <2>1. t = rpl_timers_schedule_dao(q)
    BY <1>4 DEF ParentChange
  <2> HIDE DEF t
  <2>2. Changes(q, t, DaoFields) /\ Announced(t)
    BY <2>1, ScheduleDao
  <2>3. Changes(q, t, MoveFields)
    BY <2>2 DEF Changes, MoveFields
  <2>4. t.state = q.state /\ t.dis_timer = q.dis_timer /\ t.leave = q.leave
        /\ t.dio_timer = q.dio_timer
    BY <2>2, FieldNames DEF Changes, DaoFields
  <2> QED
    BY <1>4, <2>2, <2>3, <2>4 DEF Moved
<1> QED
  BY <1>1, <1>2, <1>3, <1>4

\* What an update of the state does to a node s that is in a DAG.
Updated(s, t) ==
    /\ t \in NodeType /\ t.used
    /\ t.rankOf = s.rankOf /\ t.link = s.link /\ t.lifetime = s.lifetime
    /\ t.preferred_parent \in InTable(s) \cup {NULL} /\ Ranked(t)
    /\ t.urgent_probing_target \in InTable(s) \cup {NULL, s.urgent_probing_target}
    /\ s.probing_timer => t.probing_timer
    /\ t.urgent_probing_target \notin {NULL, s.urgent_probing_target} => t.probing_timer
    /\ s.dio_timer => t.dio_timer
    /\ t.downward = s.downward /\ t.infinite = s.infinite
    /\ Announced(s) => Announced(t)
    /\ t.preferred_parent \notin {NULL, s.preferred_parent} => Announced(t)
    /\ s.leave # "orphan" => t.leave # "orphan"
    /\ s.leave # "orphan" /\ Ranked(s) /\ Leaves(s) => Leaves(t)
    /\ t.state = IF s.state = "POISONING" \/ (s.preferred_parent = NULL <=> t.preferred_parent = NULL)
                 THEN s.state
                 ELSE IF t.preferred_parent = NULL THEN "INITIALIZED" ELSE "JOINED"
    /\ s.state = "POISONING" => t.preferred_parent = NULL
    /\ Routes(s, t)
    /\ t.dis_timer \in {s.dis_timer, Join!rpl_timers_schedule_periodic_dis(s.dis_timer)}
    /\ s.preferred_parent = NULL => t.dis_timer = s.dis_timer

\* A node that is poisoning gives up its parent, and plans to leave if it had a rank.
LEMMA PoisonUpdates ==
    ASSUME NEW s \in NodeType, s.used, s.state = "POISONING"
    PROVE  Updated(s, Poison(s))
<1> DEFINE a == rpl_neighbor_set_preferred_parent(s, NULL)
           p == [a EXCEPT !.rank = RPL_INFINITE_RANK]
           b == rpl_timers_dio_reset(p)
           d == rpl_timers_schedule_leaving(b)
           t == IF s.rank # RPL_INFINITE_RANK THEN d ELSE p
<1>1. /\ Changes(s, a, {"preferred_parent", "defrt"}) /\ a.preferred_parent = NULL /\ Routes(s, a)
  BY SetPreferredParent
<1> HIDE DEF a
<1>2. p \in NodeType
  <2>1. a \in NodeType
    BY <1>1 DEF Changes
  <2> QED
    BY <2>1, Bounds, Zenon DEF NodeType
<1>3. Changes(a, p, {"rank"})
  BY <1>1, <1>2, FieldNames DEF NodeType, Changes
<1> HIDE DEF p
<1>4. Changes(p, b, {"dio_timer"}) /\ (p.dio_timer => b.dio_timer)
  BY <1>2, DioReset
<1> HIDE DEF b
<1>5. /\ Changes(b, d, {"leave"})
      /\ b.leave # "orphan" => d.leave # "orphan"
      /\ b.used /\ b.leave # "orphan" => Pending(d.leave)
      /\ Pending(b.leave) => Pending(d.leave)
  BY <1>4, ScheduleLeaving DEF Changes
<1> HIDE DEF d
<1> DEFINE F == {"preferred_parent", "defrt", "rank", "dio_timer", "leave"}
<1>6. Changes(s, p, F) /\ Changes(s, d, F)
  BY <1>1, <1>3, <1>4, <1>5 DEF Changes
<1>7. /\ p.leave = s.leave /\ b.leave = s.leave /\ b.used /\ p.dio_timer = s.dio_timer
      /\ d.dio_timer = b.dio_timer
      /\ p.preferred_parent = NULL /\ d.preferred_parent = NULL
      /\ p.defrt = a.defrt /\ d.defrt = a.defrt
  BY <1>1, <1>3, <1>4, <1>5, FieldNames DEF Changes
<1>8. /\ Changes(s, t, F) /\ t.preferred_parent = NULL /\ t.defrt = a.defrt
      /\ s.dio_timer => t.dio_timer
      /\ s.leave # "orphan" => t.leave # "orphan"
      /\ s.leave # "orphan" /\ s.rank # RPL_INFINITE_RANK => Pending(t.leave)
      /\ Pending(s.leave) => Pending(t.leave)
  BY <1>4, <1>5, <1>6, <1>7
<1>9. Poison(s) = t
  BY DEF Poison, a, p, b, d
<1> HIDE DEF t
<1>10. s.leave # "orphan" /\ Ranked(s) /\ Leaves(s) => Leaves(t)
  BY <1>8 DEF Ranked, Leaves
<1>11. Routes(s, t)
  BY <1>1, <1>8 DEF Routes
<1>12. /\ t \in NodeType /\ t.used /\ t.rankOf = s.rankOf /\ t.link = s.link
       /\ t.lifetime = s.lifetime /\ t.urgent_probing_target = s.urgent_probing_target
       /\ t.probing_timer = s.probing_timer /\ SameDao(s, t) /\ t.state = s.state
       /\ t.dis_timer = s.dis_timer
  BY <1>8, FieldNames DEF Changes, SameDao
<1> QED
  BY <1>8, <1>9, <1>10, <1>11, <1>12 DEF Updated, Ranked, SameDao, Announced, Resting

\* A node that is not poisoning takes the best parent.
LEMMA SelectParentUpdates ==
    ASSUME NEW s \in NodeType, s.used, s.state # "POISONING", NEW cost \in Orders
    PROVE  Updated(s, SelectParent(s, cost))
<1> DEFINE b == best_parent(s, cost, FALSE)
           n == rpl_neighbor_select_best(s, cost)
           u == UrgentProbing(s, b)
           p == rpl_neighbor_set_preferred_parent(u, n)
           old == s.preferred_parent
           r == rpl_neighbor_rank_via_nbr(p, p.preferred_parent)
           q == SetRank(p, old, r)
           t == ParentChange(q, old)
<1>0. SelectParent(s, cost) = t
  BY DEF SelectParent, RankAndParent
<1>1. b \in InTable(s) \cup {NULL} /\ InTable(s) \subseteq Nbr
  BY BestParent DEF InTable
<1>2. n \in InTable(s) \cup {NULL} /\ (n # NULL => s.rankOf[n] # RPL_INFINITE_RANK)
  BY SelectBest
<1> HIDE DEF b, n
<1>3. /\ Changes(s, u, {"urgent_probing_target", "probing_timer"})
      /\ u.urgent_probing_target \in {NULL, s.urgent_probing_target, b}
      /\ s.probing_timer => u.probing_timer
      /\ u.urgent_probing_target \notin {NULL, s.urgent_probing_target} => u.probing_timer
  BY <1>1, UrgentProbingFacts
<1> HIDE DEF u
<1>4. Changes(u, p, {"preferred_parent", "defrt"}) /\ p.preferred_parent = n /\ Routes(u, p)
  BY <1>1, <1>2, <1>3, SetPreferredParent DEF Changes
<1> HIDE DEF p
<1>5. /\ p.rankOf = s.rankOf /\ u.preferred_parent = old /\ u.defrt = s.defrt
      /\ InTable(p) = InTable(s)
  BY <1>3, <1>4, FieldNames DEF Changes, InTable
<1>6. r \in Rank /\ (n # NULL => r # RPL_INFINITE_RANK)
  BY <1>2, <1>4, <1>5, RankVia DEF Changes
<1> HIDE DEF r
<1>7. Changes(p, q, {"rank", "lowest_rank"}) /\ q.rank = r
  BY <1>4, <1>6, SetRankFacts DEF Changes
<1> HIDE DEF q
<1> DEFINE F == {"urgent_probing_target", "probing_timer", "preferred_parent", "defrt", "rank",
                 "lowest_rank"}
<1>8. Changes(s, q, F)
  BY <1>3, <1>4, <1>7 DEF Changes
<1>9. q \in NodeType /\ q.used /\ q.preferred_parent = n /\ q.defrt = p.defrt
      /\ q.urgent_probing_target = u.urgent_probing_target /\ q.probing_timer = u.probing_timer
      /\ q.leave = s.leave /\ SameDao(s, q) /\ q.dio_timer = s.dio_timer
      /\ q.state = s.state /\ q.dis_timer = s.dis_timer
  BY <1>3, <1>4, <1>7, <1>8, FieldNames DEF Changes, SameDao
<1>10. Moved(q, old, t)
  BY <1>9, ParentChangeMoves
<1> HIDE DEF t
<1>11. Changes(q, t, MoveFields)
  BY <1>10 DEF Moved
<1>12. /\ t \in NodeType /\ t.used /\ t.rankOf = s.rankOf /\ t.link = s.link
       /\ t.lifetime = s.lifetime /\ t.urgent_probing_target = u.urgent_probing_target
       /\ t.probing_timer = u.probing_timer /\ t.preferred_parent = n /\ t.rank = r
       /\ t.defrt = p.defrt /\ t.downward = s.downward /\ t.infinite = s.infinite
  BY <1>7, <1>8, <1>9, <1>11, FieldNames DEF Changes, MoveFields, DaoFields
<1>13. Routes(s, t)
  BY <1>4, <1>5, <1>12 DEF Routes
<1>14. s.leave # "orphan" /\ Leaves(s) => Leaves(t)
  BY <1>9, <1>10, <1>12 DEF Moved, Leaves
<1>15. Ranked(t)
  BY <1>6, <1>12 DEF Ranked
<1>16. /\ t.state = IF (old = NULL <=> n = NULL) THEN s.state
                    ELSE IF n = NULL THEN "INITIALIZED" ELSE "JOINED"
       /\ t.dis_timer \in {s.dis_timer, Join!rpl_timers_schedule_periodic_dis(s.dis_timer)}
       /\ old = NULL => t.dis_timer = s.dis_timer
  BY <1>9, <1>10 DEF Moved
<1>17. /\ s.dio_timer => t.dio_timer
       /\ Announced(s) => Announced(t)
       /\ n \notin {NULL, old} => Announced(t)
       /\ s.leave # "orphan" => t.leave # "orphan"
  BY <1>9, <1>10 DEF Moved, SameDao, Announced, Resting
<1> QED
  BY <1>0, <1>1, <1>2, <1>3, <1>12, <1>13, <1>14, <1>15, <1>16, <1>17 DEF Updated

\* rpl_dag_update_state on a node that is in a DAG.
LEMMA UpdateUpdates ==
    ASSUME NEW s \in NodeType, s.used, NEW cost \in Orders
    PROVE  Updated(s, rpl_dag_update_state(s, cost))
<1> DEFINE u == [s EXCEPT !.state_update = FALSE]
           t == IF s.state = "POISONING" THEN Poison(u) ELSE SelectParent(u, cost)
<1>1. u \in NodeType
  BY Zenon DEF NodeType
<1>2. Changes(s, u, {"state_update"})
  BY <1>1, FieldNames DEF NodeType, Changes
<1>3. rpl_dag_update_state(s, cost) = t
  BY DEF rpl_dag_update_state
<1> HIDE DEF u
<1>4. /\ u.used = s.used /\ u.state = s.state /\ u.rankOf = s.rankOf /\ u.link = s.link
      /\ u.lifetime = s.lifetime /\ u.preferred_parent = s.preferred_parent
      /\ u.urgent_probing_target = s.urgent_probing_target /\ u.probing_timer = s.probing_timer
      /\ u.dio_timer = s.dio_timer /\ SameDao(s, u) /\ u.leave = s.leave
      /\ u.rank = s.rank /\ u.defrt = s.defrt /\ u.dis_timer = s.dis_timer
  BY <1>2, FieldNames DEF Changes, SameDao
<1>5. Updated(u, t)
  BY <1>1, <1>4, PoisonUpdates, SelectParentUpdates
<1> HIDE DEF t
<1>6. InTable(u) = InTable(s) /\ (Ranked(s) <=> Ranked(u)) /\ (Leaves(s) <=> Leaves(u))
  BY <1>4 DEF InTable, Ranked, Leaves
<1>7. Routes(s, t)
  BY <1>4, <1>5 DEF Updated, Routes
<1> QED
  BY <1>3, <1>4, <1>5, <1>6, <1>7 DEF Updated, SameDao, Announced, Resting

\* An update keeps a good node good.
LEMMA UpdateKeeps ==
    ASSUME NEW s, Good(s), NEW cost \in Orders
    PROVE  LET t == rpl_dag_update_state(s, cost)
           IN  Good(t) /\ t.used = s.used /\ (Leaves(s) => Leaves(t))
<1> DEFINE t == rpl_dag_update_state(s, cost)
<1>1. CASE ~s.used
  BY <1>1 DEF rpl_dag_update_state
<1>2. CASE s.used
  <2>1. Updated(s, t) /\ s \in NodeType /\ s.used = TRUE
    BY <1>2, UpdateUpdates DEF Good, NodeType
  <2> HIDE DEF t
  <2>2. InTable(t) = InTable(s) /\ t.used = TRUE
    BY <2>1 DEF Updated, InTable, NodeType
  <2>3. Linked(t) /\ Probes(t)
    BY <2>1, <2>2 DEF Updated, Linked, Probes, Good
  <2>4. Announces(t)
    BY <1>2, <2>1 DEF Updated, Announces, Good, Announced, Resting
  <2>5. Advertises(t)
    BY <1>2, <2>1 DEF Updated, Advertises, Good
  <2>6. Ranked(t) /\ Out(t)
    BY <2>1 DEF Updated, Out
  <2>7. Matched(t)
    BY <1>2, <2>1 DEF Updated, Matched, Good
  <2>8. t.leave # "orphan" /\ (Leaves(s) => Leaves(t))
    BY <2>1 DEF Updated, Good
  <2> QED
    BY <2>1, <2>2, <2>3, <2>4, <2>5, <2>6, <2>7, <2>8 DEF Good, Updated, t
<1> QED
  BY <1>1, <1>2

-----------------------------------------------------------------------------
(* The functions that the handlers call.                                   *)

\* Without neighbours an update finds no parent.
LEMMA RemoveAll ==
    ASSUME NEW s \in NodeType, s.used, Linked(s), NEW cost \in Orders
    PROVE  LET t == rpl_neighbor_remove_all(s, cost)
           IN  /\ t \in NodeType /\ t.used
               /\ t.preferred_parent = NULL /\ t.urgent_probing_target = NULL
               /\ s.leave # "orphan" => t.leave # "orphan"
               /\ s.leave # "orphan" /\ Ranked(s) /\ Leaves(s) => Leaves(t)
               /\ t.state = IF s.state = "POISONING" \/ s.preferred_parent = NULL THEN s.state
                            ELSE "INITIALIZED"
               /\ Routes(s, t)
               /\ t.dis_timer \in {s.dis_timer, Join!rpl_timers_schedule_periodic_dis(s.dis_timer)}
               /\ s.preferred_parent = NULL => t.dis_timer = s.dis_timer
<1> DEFINE none == [n \in Nbr |-> Absent]
           v == IF s.urgent_probing_target \in InTable(s) THEN NULL ELSE s.urgent_probing_target
           r == [s EXCEPT !.rankOf = none, !.urgent_probing_target = v]
           t == rpl_dag_update_state(r, cost)
<1>0. rpl_neighbor_remove_all(s, cost) = t
  BY DEF rpl_neighbor_remove_all
<1>1. v = NULL
  BY DEF Linked
<1>2. none \in [Nbr -> AdvRank \cup {Absent, RPL_INFINITE_RANK}]
  OBVIOUS
<1>3. \A n \in Nbr : none[n] = Absent
  OBVIOUS
<1> HIDE DEF v, none
<1>4. r \in NodeType
  BY <1>1, <1>2, Zenon DEF NodeType
<1>5. r.rankOf = none /\ r.urgent_probing_target = NULL
  BY <1>1 DEF NodeType
<1>6. Changes(s, r, {"rankOf", "urgent_probing_target"})
  BY <1>4, FieldNames DEF NodeType, Changes
<1> HIDE DEF r
<1>7. /\ r.used /\ SameDao(s, r) /\ r.leave = s.leave /\ r.state = s.state
      /\ r.preferred_parent = s.preferred_parent /\ r.defrt = s.defrt /\ r.rank = s.rank
      /\ r.dis_timer = s.dis_timer
  BY <1>6, FieldNames DEF Changes, SameDao
<1>8. InTable(r) = {}
  BY <1>3, <1>5 DEF InTable
<1>9. Updated(r, t)
  BY <1>4, <1>7, UpdateUpdates
<1> HIDE DEF t
<1>10. t.preferred_parent = NULL /\ t.urgent_probing_target = NULL
  BY <1>5, <1>8, <1>9 DEF Updated
<1>11. (Ranked(s) <=> Ranked(r)) /\ (Leaves(s) <=> Leaves(r)) /\ (Routes(r, t) <=> Routes(s, t))
  BY <1>7 DEF Ranked, Leaves, Routes
<1> QED
  BY <1>0, <1>7, <1>9, <1>10, <1>11 DEF Updated

\* A local repair makes a node good whose DAO timer has just expired.
LEMMA LocalRepairKeeps ==
    ASSUME NEW s \in NodeType, s.used, Linked(s), Ranked(s), s.leave # "orphan", NEW cost \in Orders
    PROVE  LET t == rpl_local_repair(s, cost)
           IN  /\ Good(t) /\ t.used /\ (Leaves(s) => Leaves(t))
               /\ t.preferred_parent = NULL /\ t.state = "INITIALIZED" /\ Routes(s, t)
               /\ t.dis_timer \in {s.dis_timer, Join!rpl_timers_schedule_periodic_dis(s.dis_timer)}
<1> DEFINE a == [s EXCEPT !.state = "INITIALIZED"]
           b == rpl_neighbor_remove_all(a, cost)
           c == rpl_timers_dio_reset(b)
           t == rpl_timers_schedule_state_update(c)
<1>0. rpl_local_repair(s, cost) = t
  BY DEF rpl_local_repair
<1>1. a \in NodeType
  BY Bounds, Zenon DEF NodeType
<1>2. Changes(s, a, {"state"}) /\ a.state = "INITIALIZED"
  BY <1>1, FieldNames DEF NodeType, Changes
<1> HIDE DEF a
<1>3. /\ a.used /\ a.rankOf = s.rankOf /\ a.preferred_parent = s.preferred_parent
      /\ a.urgent_probing_target = s.urgent_probing_target /\ a.rank = s.rank
      /\ a.leave = s.leave /\ a.defrt = s.defrt /\ a.dis_timer = s.dis_timer
  BY <1>2, FieldNames DEF Changes
<1>4. Linked(a) /\ Ranked(a) /\ (Leaves(s) <=> Leaves(a))
  BY <1>3 DEF Linked, Ranked, Leaves, InTable
<1>5. /\ b \in NodeType /\ b.used
      /\ b.preferred_parent = NULL /\ b.urgent_probing_target = NULL
      /\ b.leave # "orphan" /\ (Leaves(a) => Leaves(b)) /\ b.state = "INITIALIZED" /\ Routes(a, b)
      /\ b.dis_timer \in {a.dis_timer, Join!rpl_timers_schedule_periodic_dis(a.dis_timer)}
  BY <1>1, <1>2, <1>3, <1>4, RemoveAll
<1> HIDE DEF b
<1>6. /\ Changes(b, c, {"dio_timer"})
      /\ ~b.downward /\ ~conf.LeafOnly => c.dio_timer
  BY <1>5, DioReset
<1> HIDE DEF c
<1>7. Changes(c, t, {"state_update"})
  BY <1>6, ScheduleStateUpdate DEF Changes
<1> HIDE DEF t
<1>8. /\ t \in NodeType /\ t.used /\ t.preferred_parent = NULL /\ t.urgent_probing_target = NULL
      /\ t.leave = b.leave /\ t.state = "INITIALIZED" /\ t.defrt = b.defrt
      /\ t.dis_timer = b.dis_timer /\ t.downward = b.downward /\ t.dio_timer = c.dio_timer
  BY <1>5, <1>6, <1>7, FieldNames DEF Changes
<1>9. Good(t)
  BY <1>5, <1>6, <1>8 DEF Good, Linked, Probes, Announces, Advertises, Ranked, Matched, Out
<1>10. Leaves(s) => Leaves(t)
  BY <1>4, <1>5, <1>8 DEF Leaves
<1>11. Routes(s, t)
  BY <1>3, <1>5, <1>8 DEF Routes
<1> QED
  BY <1>0, <1>3, <1>5, <1>8, <1>9, <1>10, <1>11

\* init_dag, whatever was before, and what a DIO makes of it.
Blank(s, t) ==
    /\ t \in NodeType /\ t.state = "INITIALIZED"
    /\ t.preferred_parent = NULL /\ t.urgent_probing_target = NULL
    /\ t.rankOf = s.rankOf /\ t.link = s.link /\ t.defrt = s.defrt
    /\ t.dis_timer = s.dis_timer /\ t.leave = s.leave /\ t.dio_timer = s.dio_timer
    /\ t.dao_timer = s.dao_timer /\ t.probing_timer = s.probing_timer

LEMMA InitDag ==
    ASSUME NEW s \in NodeType
    PROVE  Blank(s, init_dag(s)) /\ ~init_dag(s).used
<1>1. /\ 0 \in 0 .. MaxRtx /\ 0 \in 0 .. MaxLife /\ RPL_INFINITE_RANK \in Rank
      /\ "INITIALIZED" \in DagState
  BY Bounds
<1>2. init_dag(s) \in NodeType
  BY <1>1, ZenonT(60) DEF NodeType, init_dag
<1> QED
  BY <1>2 DEF NodeType, init_dag, Blank

LEMMA InitDagFromDio ==
    ASSUME NEW s \in NodeType, NEW d, d.config \in DioConfig
    PROVE  Blank(s, init_dag_from_dio(s, d))
<1> DEFINE i == init_dag(s)
           w == d.config.downward
           f == d.config.infinite
           t == [i EXCEPT !.used = TRUE, !.downward = w, !.infinite = f]
<1>1. Blank(s, i) /\ i \in NodeType
  BY InitDag DEF Blank
<1>2. w \in BOOLEAN /\ f \in BOOLEAN
  BY DEF DioConfig
<1>3. init_dag_from_dio(s, d) = IF ~d.config.valid THEN i ELSE t
  BY DEF init_dag_from_dio
<1> HIDE DEF i, w, f
<1>4. t \in NodeType
  BY <1>1, <1>2, Zenon DEF NodeType
<1>5. Changes(i, t, {"used", "downward", "infinite"})
  BY <1>1, <1>4, FieldNames DEF NodeType, Changes
<1> HIDE DEF t
<1>6. Blank(s, t)
  BY <1>1, <1>5, FieldNames DEF Changes, Blank
<1> QED
  BY <1>1, <1>3, <1>6

\* A node that joins plans to leave.  One that does not join is as it was.
LEMMA ProcessDioInitDag ==
    ASSUME NEW s, Good(s), ~s.used, NEW d, d.config \in DioConfig
    PROVE  LET t == process_dio_init_dag(s, d)
           IN  /\ Good(t) /\ Leaves(t)
               /\ t.state = "INITIALIZED" /\ t.preferred_parent = NULL /\ t.defrt = s.defrt
               /\ t.dis_timer = s.dis_timer
<1> DEFINE a == init_dag_from_dio(s, d)
           b == rpl_timers_dio_reset(a)
           c == rpl_schedule_probing(b)
           t == rpl_timers_schedule_leaving(c)
<1>0. process_dio_init_dag(s, d) = t
  BY DEF process_dio_init_dag
<1>1. Blank(s, a)
  BY InitDagFromDio DEF Good
<1> HIDE DEF a
<1>2. /\ Changes(a, b, {"dio_timer"})
      /\ a.used /\ ~a.downward /\ ~conf.LeafOnly => b.dio_timer
  BY <1>1, DioReset DEF Blank
<1>3. ~a.used => b = a
  BY DEF rpl_timers_dio_reset, rpl_dag_ready_to_advertise
<1> HIDE DEF b
<1>4. Changes(b, c, {"probing_timer"})
  BY <1>2, ScheduleProbing DEF Changes
<1>5. ~b.used => c.probing_timer = b.probing_timer
  <2> SUFFICES ASSUME ~b.used PROVE c.probing_timer = b.probing_timer
    OBVIOUS
  <2>1. b \in NodeType
    BY <1>2 DEF Changes
  <2> QED
    BY <2>1 DEF rpl_schedule_probing, NodeType
<1> HIDE DEF c
<1>6. Changes(c, t, {"leave"}) /\ (c.used /\ c.leave # "orphan" => Pending(t.leave))
  BY <1>4, ScheduleLeaving DEF Changes
<1>7. ~c.used => t = c
  BY DEF rpl_timers_schedule_leaving
<1> HIDE DEF t
<1>8. /\ t \in NodeType /\ t.used = a.used /\ b.used = a.used /\ c.used = a.used
      /\ t.state = "INITIALIZED" /\ t.preferred_parent = NULL
      /\ t.urgent_probing_target = NULL /\ c.leave = s.leave /\ t.defrt = s.defrt
      /\ t.dis_timer = s.dis_timer /\ t.downward = a.downward /\ t.dio_timer = b.dio_timer
      /\ t.dao_timer = s.dao_timer /\ t.probing_timer = c.probing_timer
      /\ b.probing_timer = s.probing_timer
  BY <1>1, <1>2, <1>4, <1>6, FieldNames DEF Changes, Blank
<1>9. CASE a.used
  <2>1. Pending(t.leave)
    BY <1>6, <1>8, <1>9 DEF Good
  <2> QED
    BY <1>0, <1>2, <1>8, <1>9, <2>1 DEF Good, Linked, Probes, Announces, Advertises, Ranked,
                                      Matched, Out, Leaves, Pending
<1>10. CASE ~a.used
  <2>1. t.leave = s.leave /\ t.probing_timer = s.probing_timer
    BY <1>5, <1>7, <1>8, <1>10
  <2> QED
    BY <1>0, <1>8, <1>10, <2>1 DEF Good, Linked, Probes, Announces, Advertises, Ranked, Matched,
                                 Out, Leaves
<1> QED
  BY <1>9, <1>10

\* A global repair forgets the parent and stops the timers, the leave timer too; the node
\* may drop out of the DAG.
LEMMA GlobalRepair ==
    ASSUME NEW s, Good(s), NEW d, d.config \in DioConfig, NEW cost \in Orders
    PROVE  LET t == global_repair_non_root(s, d, cost)
           IN  /\ Good(t) /\ t.preferred_parent = NULL /\ t.state = "INITIALIZED"
               /\ t.defrt = s.defrt
               /\ t.dis_timer \in {s.dis_timer, Join!rpl_timers_schedule_periodic_dis(s.dis_timer)}
<1> DEFINE a == rpl_timers_stop_dag_timers(s)
           b == init_dag_from_dio(a, d)
           t == rpl_local_repair(b, cost)
<1>0. global_repair_non_root(s, d, cost) = t
  BY DEF global_repair_non_root
<1>1. /\ Changes(s, a, TimerFields) /\ a.leave \in {"off", "stale"}
      /\ ~a.dao_timer /\ ~a.probing_timer
  BY StopDagTimers DEF Good
<1> HIDE DEF a
<1>2. a \in NodeType /\ a.defrt = s.defrt /\ a.dis_timer = s.dis_timer
  BY <1>1, FieldNames DEF Changes, TimerFields
<1>3. Blank(a, b)
  BY <1>2, InitDagFromDio
<1> HIDE DEF b
<1>4. CASE b.used
  <2>1. b \in NodeType /\ Linked(b) /\ Ranked(b) /\ b.leave # "orphan"
    BY <1>1, <1>3 DEF Blank, Linked, Ranked
  <2>2. /\ Good(t) /\ t.preferred_parent = NULL /\ t.state = "INITIALIZED" /\ Routes(b, t)
        /\ t.dis_timer \in {b.dis_timer, Join!rpl_timers_schedule_periodic_dis(b.dis_timer)}
    BY <1>4, <2>1, LocalRepairKeeps
  <2> HIDE DEF t
  <2>3. t.defrt = s.defrt
    BY <1>2, <1>3, <2>2 DEF Routes, Blank
  <2> QED
    BY <1>0, <1>2, <1>3, <2>2, <2>3 DEF Blank
<1>5. CASE ~b.used
  <2>1. t = b
    BY <1>5 DEF rpl_local_repair
  <2> HIDE DEF t
  <2>2. Good(b)
    BY <1>1, <1>3, <1>5 DEF Good, Blank, Linked, Probes, Announces, Advertises, Ranked, Matched,
                            Out
  <2> QED
    BY <1>0, <1>2, <1>3, <2>1, <2>2 DEF Blank
<1> QED
  BY <1>4, <1>5

-----------------------------------------------------------------------------
(* The handlers.  Keeps is what all functions and nearly all handlers do:  *)
(* it adds up, and the new state of the DAG is told besides.               *)

Fits == Cardinality(Nbr) <= DefrtNb
Routed(s) == s.preferred_parent # NULL => s.preferred_parent \in s.defrt

\* No default route comes but that of the parent, and the parent's is there if the list of
\* default routers is large enough; the DIS timer is left alone or set.
RoutesKept(s, t) ==
    /\ t.defrt \ {t.preferred_parent} \subseteq s.defrt \ {s.preferred_parent}
    /\ Fits /\ Routed(s) => Routed(t)
DisKept(s, t) == t.dis_timer \in {s.dis_timer, Join!rpl_timers_schedule_periodic_dis(s.dis_timer)}

Keeps(s, t) ==
    /\ Good(t) /\ t.used = s.used /\ (Leaves(s) => Leaves(t))
    /\ RoutesKept(s, t) /\ DisKept(s, t)

\* Setting the DIS timer again leaves it as it is.
LEMMA DisTwice ==
    ASSUME NEW s, NEW t, NEW u, DisKept(s, t), DisKept(t, u)
    PROVE  DisKept(s, u)
BY DEF DisKept, Join!rpl_timers_schedule_periodic_dis, Join!ctimer_expired, Join!ctimer_set

LEMMA KeepsTwice ==
    ASSUME NEW s, NEW t, NEW u, Keeps(s, t), Keeps(t, u)
    PROVE  Keeps(s, u)
BY DisTwice DEF Keeps, RoutesKept

LEMMA RoutesAreKept ==
    ASSUME NEW s \in NodeType, NEW t, Routes(s, t)
    PROVE  RoutesKept(s, t)
BY DEF Routes, RoutesKept, Routed, Fits

\* An update, what it does to the state of the DAG included.
LEMMA Update ==
    ASSUME NEW s, Good(s), NEW cost \in Orders
    PROVE  LET t == rpl_dag_update_state(s, cost)
           IN  /\ Keeps(s, t) /\ t.link = s.link
               /\ \/ t.state = s.state
                  \/ s.used /\ s.state = "INITIALIZED" /\ t.state = "JOINED"
                  \/ s.used /\ s.state \in {"JOINED", "REACHABLE"} /\ t.state = "INITIALIZED"
               /\ ~s.used => t = s
               /\ s.used /\ s.state = "POISONING" => t.preferred_parent = NULL
               /\ s.preferred_parent = NULL => t.dis_timer = s.dis_timer
<1> DEFINE t == rpl_dag_update_state(s, cost)
<1>1. Good(t) /\ t.used = s.used /\ (Leaves(s) => Leaves(t)) /\ s \in NodeType
  BY UpdateKeeps DEF Good
<1>2. CASE ~s.used
  <2>1. t = s
    BY <1>2 DEF rpl_dag_update_state
  <2> HIDE DEF t
  <2>2. Keeps(s, t)
    BY <1>1, <2>1 DEF Keeps, RoutesKept, DisKept
  <2> QED
    BY <1>2, <2>1, <2>2 DEF t
<1>3. CASE s.used
  <2>1. Updated(s, t)
    BY <1>1, <1>3, UpdateUpdates
  <2> HIDE DEF t
  <2>2. Keeps(s, t)
    BY <1>1, <2>1, RoutesAreKept DEF Keeps, DisKept, Updated
  <2>3. s.state \in {"INITIALIZED", "JOINED", "REACHABLE", "POISONING"} /\ s.used = TRUE
    BY <1>1, <1>3 DEF NodeType, DagState
  <2>4. \/ t.state = s.state
        \/ s.state = "INITIALIZED" /\ t.state = "JOINED"
        \/ s.state \in {"JOINED", "REACHABLE"} /\ t.state = "INITIALIZED"
    BY <1>3, <2>1, <2>3 DEF Updated, Good, Matched
  <2>5. t.link = s.link /\ (s.state = "POISONING" => t.preferred_parent = NULL)
    BY <2>1 DEF Updated
  <2>6. s.preferred_parent = NULL => t.dis_timer = s.dis_timer
    BY <2>1 DEF Updated
  <2> QED
    BY <1>3, <2>2, <2>4, <2>5, <2>6 DEF t
<1> QED
  BY <1>2, <1>3

\* A change of the table, of the links and the counters, and of the state to POISONING.
SmallFields == Fields \ {"used", "preferred_parent", "probing_timer", "dao_timer", "dio_timer",
                         "rank", "leave", "defrt", "dis_timer", "downward", "infinite",
                         "daoNew", "daoAcked"}

LEMMA SmallChange ==
    ASSUME NEW s, Good(s), NEW t, Changes(s, t, SmallFields), Linked(t),
           t.state \in {s.state, "POISONING"},
           t.urgent_probing_target \in {NULL, s.urgent_probing_target}
    PROVE  Keeps(s, t)
<1>1. /\ t \in NodeType /\ t.used = s.used /\ t.preferred_parent = s.preferred_parent
      /\ t.probing_timer = s.probing_timer /\ SameDao(s, t)
      /\ t.dio_timer = s.dio_timer /\ t.rank = s.rank /\ t.leave = s.leave
      /\ t.defrt = s.defrt /\ t.dis_timer = s.dis_timer
  BY FieldNames DEF Changes, SmallFields, SameDao
<1>2. Good(t) /\ (Leaves(s) => Leaves(t))
  BY <1>1 DEF Good, Probes, Announces, Advertises, Ranked, Matched, Out, Leaves, Announced,
              Resting, SameDao
<1> QED
  BY <1>1, <1>2 DEF Keeps, RoutesKept, DisKept, Routed

LEMMA DioResetKeeps ==
    ASSUME NEW s, Good(s)
    PROVE  LET t == rpl_timers_dio_reset(s)
           IN  /\ Keeps(s, t) /\ t.state = s.state /\ t.preferred_parent = s.preferred_parent
               /\ t.dis_timer = s.dis_timer
<1> DEFINE t == rpl_timers_dio_reset(s)
<1> SUFFICES /\ Keeps(s, t) /\ t.state = s.state /\ t.preferred_parent = s.preferred_parent
             /\ t.dis_timer = s.dis_timer
  OBVIOUS
<1>1. Changes(s, t, {"dio_timer"}) /\ (s.dio_timer => t.dio_timer)
  BY DioReset DEF Good
<1> HIDE DEF t
<1>2. /\ t \in NodeType /\ t.used = s.used /\ t.rankOf = s.rankOf
      /\ t.preferred_parent = s.preferred_parent
      /\ t.urgent_probing_target = s.urgent_probing_target
      /\ t.probing_timer = s.probing_timer /\ SameDao(s, t)
      /\ t.state = s.state /\ t.rank = s.rank /\ t.leave = s.leave
      /\ t.defrt = s.defrt /\ t.dis_timer = s.dis_timer
  BY <1>1, FieldNames DEF Changes, SameDao
<1>3. Good(t) /\ (Leaves(s) => Leaves(t))
  BY <1>1, <1>2 DEF Good, Linked, Probes, Announces, Advertises, Ranked, Matched, Out, Leaves,
                    InTable, Announced, Resting, SameDao
<1> QED
  BY <1>2, <1>3 DEF Keeps, RoutesKept, DisKept, Routed

\* The numbers of the DAOs change, and the DAO timer is set if that is needed.
LEMMA DaoChange ==
    ASSUME NEW s, Good(s), NEW t, Changes(s, t, DaoFields), Announced(t), s.used
    PROVE  /\ Keeps(s, t) /\ t.state = s.state /\ t.preferred_parent = s.preferred_parent
           /\ t.dis_timer = s.dis_timer
<1>1. /\ t \in NodeType /\ t.used = s.used /\ t.rankOf = s.rankOf
      /\ t.preferred_parent = s.preferred_parent
      /\ t.urgent_probing_target = s.urgent_probing_target
      /\ t.probing_timer = s.probing_timer /\ t.dio_timer = s.dio_timer
      /\ t.state = s.state /\ t.rank = s.rank /\ t.leave = s.leave
      /\ t.defrt = s.defrt /\ t.dis_timer = s.dis_timer /\ t.downward = s.downward
  BY FieldNames DEF Changes, DaoFields
<1>2. Good(t) /\ (Leaves(s) => Leaves(t))
  BY <1>1 DEF Good, Linked, Probes, Announces, Advertises, Ranked, Matched, Out, Leaves, InTable
<1> QED
  BY <1>1, <1>2 DEF Keeps, RoutesKept, DisKept, Routed

LEMMA ScheduleDaoKeeps ==
    ASSUME NEW s, Good(s), s.used
    PROVE  LET t == rpl_timers_schedule_dao(s)
           IN  /\ Keeps(s, t) /\ t.state = s.state /\ t.preferred_parent = s.preferred_parent
               /\ t.dis_timer = s.dis_timer
<1> DEFINE t == rpl_timers_schedule_dao(s)
<1> SUFFICES /\ Keeps(s, t) /\ t.state = s.state /\ t.preferred_parent = s.preferred_parent
             /\ t.dis_timer = s.dis_timer
  OBVIOUS
<1>1. Changes(s, t, DaoFields) /\ Announced(t)
  BY ScheduleDao DEF Good
<1> HIDE DEF t
<1> QED
  BY <1>1, DaoChange

\* A DIO enters the table.
LEMMA NeighborFromDioKeeps ==
    ASSUME NEW s, Good(s), NEW n \in Nbr, NEW d, d.rank \in AdvRank \cup {RPL_INFINITE_RANK}
    PROVE  LET t == NeighborFromDio(s, n, d)
           IN  /\ Keeps(s, t) /\ t.state = s.state /\ t.preferred_parent = s.preferred_parent
               /\ t.dis_timer = s.dis_timer
<1> DEFINE v == IF s.used /\ (s.lifetime = 0 \/ (n \in InTable(s) /\ n = s.preferred_parent))
                THEN MaxLife ELSE s.lifetime
           r == [s.rankOf EXCEPT ![n] = d.rank]
           a == [s EXCEPT !.rankOf = r, !.lifetime = v]
<1>1. \/ NeighborFromDio(s, n, d) = s
      \/ NeighborFromDio(s, n, d) = a
      \/ n = s.preferred_parent /\ NeighborFromDio(s, n, d) = rpl_timers_schedule_dao(a)
  BY DEF NeighborFromDio
<1>2. s \in NodeType /\ s.rankOf \in [Nbr -> AdvRank \cup {Absent, RPL_INFINITE_RANK}]
  BY DEF Good, NodeType
<1>3. v \in 0 .. MaxLife
  BY Bounds DEF Good, NodeType
<1>4. /\ r \in [Nbr -> AdvRank \cup {Absent, RPL_INFINITE_RANK}]
      /\ \A m \in Nbr : r[m] # s.rankOf[m] => r[m] = d.rank
  BY <1>2
<1>5. d.rank # Absent
  BY RplAssumption DEF Absent, RPL_INFINITE_RANK, ROOT_RANK, HopInc
<1> HIDE DEF v, r
<1>6. a \in NodeType
  BY <1>2, <1>3, <1>4, Zenon DEF NodeType
<1>7. a.rankOf = r /\ Changes(s, a, {"rankOf", "lifetime"})
  BY <1>2, <1>6, FieldNames DEF Changes, NodeType
<1> HIDE DEF a
<1>8. /\ a.state = s.state /\ a.preferred_parent = s.preferred_parent /\ a.dis_timer = s.dis_timer
      /\ a.urgent_probing_target = s.urgent_probing_target /\ Changes(s, a, SmallFields)
  BY <1>7, FieldNames DEF Changes, SmallFields
<1>9. InTable(s) \subseteq InTable(a)
  BY <1>4, <1>5, <1>7 DEF InTable
<1>10. Linked(a)
  BY <1>8, <1>9 DEF Linked, Good
<1>11. Keeps(s, a)
  BY <1>8, <1>10, SmallChange
<1>12. n = s.preferred_parent =>
       LET t == rpl_timers_schedule_dao(a)
       IN  /\ Keeps(a, t) /\ t.state = a.state /\ t.preferred_parent = a.preferred_parent
           /\ t.dis_timer = a.dis_timer
  BY <1>11, Bounds, ScheduleDaoKeeps DEF Keeps, Good, Out
<1>13. Keeps(s, s)
  BY DEF Keeps, RoutesKept, DisKept
<1> QED
  BY <1>1, <1>8, <1>11, <1>12, <1>13, KeepsTwice

\* The moves of an update.
UpdateMoves(s, t) ==
    \/ t.state = s.state
    \/ s.state = "INITIALIZED" /\ t.state = "JOINED"
    \/ s.state \in {"JOINED", "REACHABLE"} /\ t.state = "INITIALIZED"

\* rpl_process_dio: a node that is in the DAG, one that is in none, and one that hears of a
\* new version.
LEMMA ProcessDio ==
    ASSUME NEW s, Good(s), NEW n \in Nbr, NEW d, d.rank \in AdvRank \cup {RPL_INFINITE_RANK},
           d.version \in {"older", "same", "newer"}, d.version # "same" => s.used,
           d.config \in DioConfig, NEW cost \in Orders
    PROVE  LET t == rpl_process_dio(s, n, d, cost)
           IN  /\ Good(t)
               /\ s.used /\ d.version # "newer" => Keeps(s, t) /\ UpdateMoves(s, t)
               /\ ~s.used => /\ Leaves(t) /\ RoutesKept(s, t) /\ t.dis_timer = s.dis_timer
                             /\ t.state \in {"INITIALIZED", "JOINED"}
               /\ d.version = "newer" => /\ DisKept(s, t) /\ t.state \in {"INITIALIZED", "JOINED"}
                                         /\ t.defrt \ {t.preferred_parent} \subseteq s.defrt
                                         /\ Fits => Routed(t)
                                         /\ t.used => s.used
<1> DEFINE j == IF s.used THEN s ELSE process_dio_init_dag(s, d)
           g == IF d.version = "newer" THEN global_repair_non_root(j, d, cost) ELSE j
           x == IF d.version = "older"
                THEN IF d.rank = ROOT_RANK THEN rpl_timers_dio_reset(j) ELSE j
                ELSE NeighborFromDio(g, n, d)
           t == rpl_dag_update_state(x, cost)
<1>0. rpl_process_dio(s, n, d, cost) = IF j.used THEN t ELSE j
  BY DEF rpl_process_dio, process_dio_from_current_dag
<1>1. /\ Good(j)
      /\ s.used => j = s
      /\ ~s.used => /\ Leaves(j) /\ j.state = "INITIALIZED" /\ j.preferred_parent = NULL
                    /\ j.defrt = s.defrt /\ j.dis_timer = s.dis_timer
  BY ProcessDioInitDag
<1> HIDE DEF j
<1>2. /\ Good(g)
      /\ d.version # "newer" => g = j
      /\ d.version = "newer" => /\ g.preferred_parent = NULL /\ g.state = "INITIALIZED"
                                /\ g.defrt = j.defrt /\ DisKept(j, g)
  BY <1>1, GlobalRepair DEF DisKept
<1> HIDE DEF g
<1>3. Keeps(j, j)
  BY <1>1 DEF Keeps, RoutesKept, DisKept
<1>4. /\ Keeps(g, x) /\ x.state = g.state /\ x.preferred_parent = g.preferred_parent
      /\ x.dis_timer = g.dis_timer
  BY <1>1, <1>2, <1>3, DioResetKeeps, NeighborFromDioKeeps
<1> HIDE DEF x
<1>5. /\ Keeps(x, t) /\ UpdateMoves(x, t)
      /\ x.preferred_parent = NULL => t.dis_timer = x.dis_timer
  BY <1>4, Update DEF Keeps, UpdateMoves
<1> HIDE DEF t
<1>6. Keeps(g, t) /\ UpdateMoves(g, t) /\ Good(t)
  BY <1>2, <1>4, <1>5, KeepsTwice DEF UpdateMoves, Keeps
<1>7. ASSUME s.used, d.version # "newer"
      PROVE  Keeps(s, t) /\ UpdateMoves(s, t)
  BY <1>1, <1>2, <1>6, <1>7
<1>8. ASSUME ~s.used, j.used
      PROVE  /\ Leaves(t) /\ RoutesKept(s, t) /\ t.dis_timer = s.dis_timer
             /\ t.state \in {"INITIALIZED", "JOINED"}
  <2>1. g = j /\ d.version = "same" /\ s.preferred_parent = NULL
    BY <1>2, <1>8 DEF Good, Out
  <2>2. t.dis_timer = s.dis_timer
    BY <1>1, <1>4, <1>5, <1>8, <2>1
  <2>3. RoutesKept(j, t) /\ Leaves(t) /\ UpdateMoves(j, t)
    BY <1>1, <1>6, <1>8, <2>1 DEF Keeps
  <2>4. RoutesKept(s, t)
    BY <1>1, <1>8, <2>1, <2>3 DEF RoutesKept, Routed
  <2> QED
    BY <1>1, <1>8, <2>2, <2>3, <2>4 DEF UpdateMoves
<1>9. ASSUME d.version = "newer"
      PROVE  /\ DisKept(s, t) /\ t.state \in {"INITIALIZED", "JOINED"}
             /\ t.defrt \ {t.preferred_parent} \subseteq s.defrt
             /\ Fits => Routed(t)
  <2>1. j = s /\ DisKept(s, g) /\ DisKept(g, t)
    BY <1>1, <1>2, <1>6, <1>9 DEF Keeps
  <2>2. DisKept(s, t)
    BY <2>1, DisTwice
  <2> QED
    BY <1>2, <1>6, <1>9, <2>1, <2>2 DEF Keeps, RoutesKept, Routed, UpdateMoves
\* The node does not join.
<1>10. ASSUME ~s.used, ~j.used
       PROVE  /\ Leaves(j) /\ RoutesKept(s, j) /\ j.dis_timer = s.dis_timer
              /\ j.state \in {"INITIALIZED", "JOINED"}
  BY <1>1, <1>10 DEF RoutesKept, Routed, Good, Out
<1> QED
  BY <1>0, <1>1, <1>6, <1>7, <1>8, <1>9, <1>10

\* rpl_dag_leave, called when the leave timer has expired and whatever that timer is then.
LEMMA DagLeave ==
    ASSUME NEW s \in NodeType, s.used, Linked(s), NEW cost \in Orders
    PROVE  LET t == rpl_dag_leave(s, cost)
           IN  Good(t) /\ ~t.used /\ RoutesKept(s, t) /\ DisKept(s, t)
<1> DEFINE a == rpl_dag_update_state(s, cost)
           none == [n \in Nbr |-> "bad"]
           b == [a EXCEPT !.link = none]
           r == rpl_neighbor_remove_all(b, cost)
           c == rpl_timers_stop_dag_timers(r)
           t == init_dag(c)
<1>0. rpl_dag_leave(s, cost) = t
  BY DEF rpl_dag_leave
<1>1. Updated(s, a)
  BY UpdateUpdates
<1> HIDE DEF a
<1>2. /\ a \in NodeType /\ a.used /\ RoutesKept(s, a) /\ DisKept(s, a) /\ a.rankOf = s.rankOf
      /\ a.preferred_parent \in InTable(s) \cup {NULL}
      /\ a.urgent_probing_target \in InTable(s) \cup {NULL, s.urgent_probing_target}
  BY <1>1, RoutesAreKept DEF Updated, DisKept
<1>3. Linked(a)
  BY <1>2 DEF Linked, InTable
<1>4. none \in [Nbr -> Link]
  BY DEF Link
<1> HIDE DEF none
<1>5. b \in NodeType
  BY <1>2, <1>4, Zenon DEF NodeType
<1>6. Changes(a, b, {"link"})
  BY <1>2, <1>5, FieldNames DEF NodeType, Changes
<1> HIDE DEF b
<1>7. /\ b.used = a.used /\ b.rankOf = a.rankOf /\ b.preferred_parent = a.preferred_parent
      /\ b.urgent_probing_target = a.urgent_probing_target /\ b.defrt = a.defrt
      /\ b.dis_timer = a.dis_timer
  BY <1>6, FieldNames DEF Changes
<1>8. Linked(b)
  BY <1>3, <1>7 DEF Linked, InTable
<1>9. r \in NodeType /\ r.preferred_parent = NULL /\ Routes(b, r) /\ DisKept(b, r)
  BY <1>2, <1>5, <1>7, <1>8, RemoveAll DEF DisKept
<1> HIDE DEF r
<1>10. Changes(r, c, TimerFields) /\ ~c.dao_timer /\ ~c.probing_timer /\ c.leave \in {"off", "stale"}
  BY <1>9, StopDagTimers
<1> HIDE DEF c
<1>11. c \in NodeType /\ c.defrt = r.defrt /\ c.dis_timer = r.dis_timer
  BY <1>10, FieldNames DEF Changes, TimerFields
<1>12. Blank(c, t) /\ ~t.used
  BY <1>11, InitDag
<1> HIDE DEF t
<1>13. /\ t \in NodeType /\ t.preferred_parent = NULL /\ t.urgent_probing_target = NULL
       /\ t.leave = c.leave /\ ~t.dao_timer /\ ~t.probing_timer
       /\ t.defrt = r.defrt /\ t.dis_timer = r.dis_timer
  BY <1>10, <1>11, <1>12 DEF Blank
<1>14. Good(t)
  BY <1>10, <1>12, <1>13 DEF Good, Linked, Probes, Announces, Advertises, Ranked, Matched, Out
<1>15. DisKept(s, t)
  <2>1. DisKept(a, r) /\ (DisKept(s, r) <=> DisKept(s, t))
    BY <1>7, <1>9, <1>13 DEF DisKept
  <2> QED
    BY <1>2, <2>1, DisTwice
<1>16. RoutesKept(s, t)
  <2>1. RoutesKept(b, r)
    BY <1>5, <1>9, RoutesAreKept
  <2> QED
    BY <1>2, <1>7, <1>9, <1>13, <2>1 DEF RoutesKept, Routed
<1> QED
  BY <1>0, <1>12, <1>14, <1>15, <1>16

\* rpl_dag_periodic: the lifetime goes down, and the node poisons when it is over.
LEMMA DagPeriodic ==
    ASSUME NEW s, Good(s), s.used, NEW cost \in Orders
    PROVE  LET t == rpl_dag_periodic(s, cost)
           IN  /\ Keeps(s, t)
               /\ \/ UpdateMoves(s, t)
                  \/ t.state = "POISONING"
               /\ s.preferred_parent = NULL => t.dis_timer = s.dis_timer /\ t.preferred_parent = NULL
<1> DEFINE life == IF s.lifetime > 1 THEN s.lifetime - 1 ELSE 0
           a == [s EXCEPT !.lifetime = life]
           p == [a EXCEPT !.state = "POISONING"]
           u == rpl_timers_schedule_state_update(p)
<1>1. \/ rpl_dag_periodic(s, cost) = u
      \/ s.preferred_parent # NULL /\ rpl_dag_periodic(s, cost) = rpl_dag_update_state(a, cost)
      \/ rpl_dag_periodic(s, cost) = a
  BY DEF rpl_dag_periodic
<1>2. s \in NodeType
  BY DEF Good
<1>3. life \in 0 .. MaxLife /\ "POISONING" \in DagState
  BY <1>2, RplAssumption DEF NodeType, DagState
<1> HIDE DEF life
<1>4. a \in NodeType
  BY <1>2, <1>3, Zenon DEF NodeType
<1>5. Changes(s, a, {"lifetime"})
  BY <1>2, <1>4, FieldNames DEF NodeType, Changes
<1> HIDE DEF a
<1>6. p \in NodeType
  BY <1>3, <1>4, Zenon DEF NodeType
<1>7. p.state = "POISONING" /\ Changes(a, p, {"state"})
  BY <1>4, <1>6, FieldNames DEF NodeType, Changes
<1> HIDE DEF p
<1>8. Changes(p, u, {"state_update"})
  BY <1>6, ScheduleStateUpdate
<1> HIDE DEF u
<1>9. /\ a.rankOf = s.rankOf /\ u.rankOf = s.rankOf
      /\ a.preferred_parent = s.preferred_parent /\ u.preferred_parent = s.preferred_parent
      /\ a.urgent_probing_target = s.urgent_probing_target
      /\ u.urgent_probing_target = s.urgent_probing_target
      /\ a.state = s.state /\ u.state = "POISONING"
      /\ a.dis_timer = s.dis_timer /\ u.dis_timer = s.dis_timer
  BY <1>5, <1>7, <1>8, FieldNames DEF Changes
<1>10. Changes(s, a, SmallFields) /\ Changes(s, u, SmallFields)
  BY <1>5, <1>7, <1>8, FieldNames DEF Changes, SmallFields
<1>11. Linked(a) /\ Linked(u)
  BY <1>9 DEF Linked, InTable, Good
<1>12. Keeps(s, a) /\ Keeps(s, u)
  BY <1>9, <1>10, <1>11, SmallChange
<1>13. LET t == rpl_dag_update_state(a, cost)
       IN  Keeps(a, t) /\ UpdateMoves(a, t)
  <2>1. Good(a)
    BY <1>12 DEF Keeps
  <2> QED
    BY <2>1, Update DEF UpdateMoves
<1>14. LET t == rpl_dag_update_state(a, cost)
       IN  Keeps(s, t) /\ UpdateMoves(s, t)
  BY <1>9, <1>12, <1>13, KeepsTwice DEF UpdateMoves
<1> QED
  BY <1>1, <1>9, <1>12, <1>14 DEF UpdateMoves

\* The state of the DAG, as RplJoin has it, makes one move.
Dag(s) == IF s.used THEN s.state ELSE "OUT"
Goes(s, t) == Dag(t) \in {Dag(s)} \cup Join!Moves[Dag(s)]

Handles(s, t) ==
    /\ Good(t) /\ (Leaves(s) => Leaves(t))
    /\ RoutesKept(s, t) /\ DisKept(s, t) /\ Goes(s, t)

\* A node becomes reachable from JOINED only; other moves are free.
LEMMA Going ==
    ASSUME NEW s \in NodeType, NEW t \in NodeType,
           \/ ~t.used
           \/ t.used = s.used /\ (t.state = "REACHABLE" => s.state \in {"JOINED", "REACHABLE"})
    PROVE  Goes(s, t)
<1>1. /\ s.state \in {"INITIALIZED", "JOINED", "REACHABLE", "POISONING"}
      /\ t.state \in {"INITIALIZED", "JOINED", "REACHABLE", "POISONING"}
  BY DEF NodeType, DagState
<1>2. CASE ~t.used
  <2>1. \A x \in {"INITIALIZED", "JOINED", "REACHABLE", "POISONING"} : "OUT" \in Join!Moves[x]
    BY DEF Join!Moves
  <2> QED
    BY <1>1, <1>2, <2>1 DEF Goes, Dag
<1>3. CASE t.used
  <2>1. \A x \in {"INITIALIZED", "JOINED", "REACHABLE", "POISONING"} :
           /\ {"INITIALIZED", "JOINED", "POISONING"} \subseteq {x} \cup Join!Moves[x]
           /\ x \in {"JOINED", "REACHABLE"} => "REACHABLE" \in {x} \cup Join!Moves[x]
    BY DEF Join!Moves
  <2>2. Dag(t) = t.state /\ Dag(s) = s.state
    BY <1>3 DEF Dag
  <2> QED
    BY <1>1, <1>3, <2>1, <2>2 DEF Goes
<1> QED
  BY <1>2, <1>3

LEMMA KeepsHandles ==
    ASSUME NEW s, Good(s), NEW t, Keeps(s, t),
           UpdateMoves(s, t) \/ t.state = "POISONING" \/ (s.state = "JOINED" /\ t.state = "REACHABLE")
    PROVE  Handles(s, t)
<1>1. s \in NodeType /\ t \in NodeType /\ t.used = s.used
  BY DEF Keeps, Good
<1>2. t.state = "REACHABLE" => s.state \in {"JOINED", "REACHABLE"}
  BY DEF UpdateMoves
<1> QED
  BY <1>1, <1>2, Going DEF Keeps, Handles

LEMMA Same ==
    ASSUME NEW s, Good(s)
    PROVE  Keeps(s, s) /\ UpdateMoves(s, s)
BY DEF Keeps, RoutesKept, DisKept, UpdateMoves

-----------------------------------------------------------------------------
(* Messages, links and calls: one lemma per action.                        *)

LEMMA DisInputHandles ==
    ASSUME Good(node), DisInput
    PROVE  \E t : Step(t) /\ Handles(node, t)
<1>1. CASE Step(rpl_timers_dio_reset(node))
  <2>1. Keeps(node, rpl_timers_dio_reset(node)) /\ UpdateMoves(node, rpl_timers_dio_reset(node))
    BY DioResetKeeps DEF UpdateMoves
  <2> QED
    BY <1>1, <2>1, KeepsHandles
<1>2. ASSUME NEW cost \in Costs(node), Step(rpl_dag_update_state(node, cost))
      PROVE  \E t : Step(t) /\ Handles(node, t)
  <2>1. LET t == rpl_dag_update_state(node, cost) IN Keeps(node, t) /\ UpdateMoves(node, t)
    BY CostsAreOrders, Update DEF UpdateMoves
  <2> QED
    BY <1>2, <2>1, KeepsHandles
<1> QED
  BY <1>1, <1>2 DEF DisInput

\* A DAO counts as acknowledged or not.
LEMMA AckChange ==
    ASSUME NEW s, Good(s), NEW t, Changes(s, t, {"daoAcked"}), Announces(t)
    PROVE  Keeps(s, t)
<1>1. /\ t \in NodeType /\ t.used = s.used /\ t.rankOf = s.rankOf
      /\ t.preferred_parent = s.preferred_parent
      /\ t.urgent_probing_target = s.urgent_probing_target
      /\ t.probing_timer = s.probing_timer /\ t.dao_timer = s.dao_timer
      /\ t.dio_timer = s.dio_timer /\ t.state = s.state /\ t.rank = s.rank
      /\ t.leave = s.leave /\ t.defrt = s.defrt /\ t.dis_timer = s.dis_timer
      /\ t.downward = s.downward
  BY FieldNames DEF Changes
<1>2. Good(t) /\ (Leaves(s) => Leaves(t))
  BY <1>1 DEF Good, Linked, Probes, Announces, Advertises, Ranked, Matched, Out, Leaves, InTable
<1> QED
  BY <1>1, <1>2 DEF Keeps, RoutesKept, DisKept, Routed

\* An acknowledgement makes a joined node reachable, and then its trickle timer runs.
LEMMA DaoAckInputHandles ==
    ASSUME Good(node), NEW ok \in BOOLEAN, DaoAckInput(ok)
    PROVE  \E t : Step(t) /\ Handles(node, t)
<1> DEFINE v == ~node.daoNew
           s == [node EXCEPT !.daoAcked = v]
           p == [s EXCEPT !.state = "POISONING"]
           r == [s EXCEPT !.state = "REACHABLE"]
           t == rpl_timers_dio_reset(r)
<1>1. /\ node.used
      /\ \/ Step(p)
         \/ s.state = "JOINED" /\ Step(t)
         \/ Step(s)
  BY DEF DaoAckInput
<1>2. node \in NodeType /\ v \in BOOLEAN /\ "POISONING" \in DagState /\ "REACHABLE" \in DagState
  BY DEF Good, NodeType, DagState
<1>3. s \in NodeType
  <2> HIDE DEF v
  <2> QED
    BY <1>2, Zenon DEF NodeType
<1>4. Changes(node, s, {"daoAcked"}) /\ s.daoAcked = v
  <2> HIDE DEF v
  <2> QED
    BY <1>2, <1>3, FieldNames DEF NodeType, Changes
<1> HIDE DEF s
<1>11. Keeps(node, s) /\ Good(s)
  <2>1. /\ s.used = node.used /\ s.preferred_parent = node.preferred_parent
        /\ s.downward = node.downward /\ s.infinite = node.infinite
        /\ s.dao_timer = node.dao_timer /\ s.daoNew = node.daoNew
    BY <1>4, FieldNames DEF Changes
  <2>2. Announces(s)
    BY <1>4, <2>1 DEF Good, Announces, Announced, Resting
  <2>3. Keeps(node, s)
    BY <1>4, <2>2, AckChange
  <2> QED
    BY <2>3 DEF Keeps
<1>5. p \in NodeType /\ r \in NodeType
  BY <1>2, <1>3, Zenon DEF NodeType
<1>6. /\ p.state = "POISONING" /\ Changes(s, p, {"state"})
      /\ r.state = "REACHABLE" /\ Changes(s, r, {"state"})
  BY <1>3, <1>5, FieldNames DEF NodeType, Changes
<1> HIDE DEF p, r
<1>7. Changes(r, t, {"dio_timer"}) /\ (r.used /\ ~conf.LeafOnly => t.dio_timer)
  BY <1>5, <1>6, DioReset
<1> HIDE DEF t
<1>8. Handles(node, s) /\ Handles(node, p)
  <2>1. /\ Changes(s, p, SmallFields) /\ s.state = node.state
        /\ p.urgent_probing_target = s.urgent_probing_target /\ p.rankOf = s.rankOf
        /\ p.preferred_parent = s.preferred_parent
    BY <1>4, <1>6, FieldNames DEF Changes, SmallFields
  <2>2. Linked(p)
    BY <1>11, <2>1 DEF Good, Linked, InTable
  <2>3. Keeps(s, p)
    BY <1>6, <1>11, <2>1, <2>2, SmallChange
  <2>4. Keeps(node, p)
    BY <1>11, <2>3, KeepsTwice
  <2> QED
    BY <1>6, <1>11, <2>1, <2>4, KeepsHandles DEF UpdateMoves
<1>9. ASSUME s.state = "JOINED"
      PROVE  Handles(node, t)
  <2>1. /\ t \in NodeType /\ t.used = s.used /\ s.used = node.used /\ t.rankOf = s.rankOf
        /\ r.used = s.used /\ t.preferred_parent = s.preferred_parent
        /\ t.urgent_probing_target = s.urgent_probing_target
        /\ t.probing_timer = s.probing_timer /\ SameDao(s, t)
        /\ t.state = "REACHABLE" /\ node.state = "JOINED" /\ t.rank = s.rank
        /\ t.leave = s.leave /\ t.defrt = s.defrt /\ t.dis_timer = s.dis_timer
    BY <1>4, <1>6, <1>7, <1>9, FieldNames DEF Changes, SameDao
  <2>2. Good(t) /\ (Leaves(s) => Leaves(t))
    BY <1>1, <1>7, <1>9, <1>11, <2>1 DEF Good, Linked, Probes, Announces, Advertises, Ranked,
                                         Matched,
                                   Out, Leaves, InTable, Announced, Resting, SameDao
  <2>3. Keeps(s, t)
    BY <2>1, <2>2 DEF Keeps, RoutesKept, DisKept, Routed
  <2>4. Keeps(node, t)
    BY <1>11, <2>3, KeepsTwice
  <2> QED
    BY <2>1, <2>4, KeepsHandles
<1> QED
  BY <1>1, <1>8, <1>9

LEMMA DaoAckInputNextHandles ==
    ASSUME Good(node), DaoAckInputNext
    PROVE  \E t : Step(t) /\ Handles(node, t)
<1> DEFINE t == [node EXCEPT !.ackedNext = TRUE]
<1>1. node \in NodeType
  BY DEF Good
<1>2. t \in NodeType
  BY <1>1, Zenon DEF NodeType
<1>3. Changes(node, t, {"ackedNext"})
  BY <1>1, <1>2, FieldNames DEF NodeType, Changes
<1>4. Step(t)
  BY DEF DaoAckInputNext
<1> HIDE DEF t
<1>5. /\ Changes(node, t, SmallFields) /\ t.state = node.state /\ t.rankOf = node.rankOf
      /\ t.preferred_parent = node.preferred_parent
      /\ t.urgent_probing_target = node.urgent_probing_target
  BY <1>3, FieldNames DEF Changes, SmallFields
<1>6. Linked(t)
  BY <1>5 DEF Good, Linked, InTable
<1>7. Keeps(node, t)
  BY <1>5, <1>6, SmallChange
<1> QED
  BY <1>4, <1>5, <1>7, KeepsHandles DEF UpdateMoves

\* The statistics of a link change.
LEMMA LinkChange ==
    ASSUME NEW s, Good(s), NEW n \in Nbr, NEW q \in Link
    PROVE  LET t == [s EXCEPT !.link[n] = q]
           IN  /\ Keeps(s, t) /\ t.state = s.state /\ t.rankOf = s.rankOf
               /\ t.preferred_parent = s.preferred_parent /\ t.defrt = s.defrt
               /\ t.urgent_probing_target = s.urgent_probing_target /\ t.dis_timer = s.dis_timer
<1> DEFINE l == [s.link EXCEPT ![n] = q]
           t == [s EXCEPT !.link = l]
<1>1. s \in NodeType
  BY DEF Good
<1>2. l \in [Nbr -> Link]
  BY <1>1 DEF NodeType
<1>3. [s EXCEPT !.link[n] = q] = t
  OBVIOUS
<1> HIDE DEF l
<1>4. t \in NodeType
  BY <1>1, <1>2, Zenon DEF NodeType
<1>5. Changes(s, t, {"link"})
  BY <1>1, <1>4, FieldNames DEF NodeType, Changes
<1> HIDE DEF t
<1>6. /\ Changes(s, t, SmallFields) /\ t.state = s.state /\ t.rankOf = s.rankOf
      /\ t.preferred_parent = s.preferred_parent /\ t.defrt = s.defrt
      /\ t.urgent_probing_target = s.urgent_probing_target /\ t.dis_timer = s.dis_timer
  BY <1>5, FieldNames DEF Changes, SmallFields
<1>7. Linked(t)
  BY <1>6 DEF Good, Linked, InTable
<1>8. Keeps(s, t)
  BY <1>6, <1>7, SmallChange
<1> QED
  BY <1>3, <1>6, <1>8

LEMMA LinkAgesHandles ==
    ASSUME Good(node), LinkAges
    PROVE  \E t : Step(t) /\ Handles(node, t)
<1>1. PICK n \in Nbr : Step([node EXCEPT !.link[n] = "stale"])
  BY DEF LinkAges
<1>2. "stale" \in Link
  BY DEF Link
<1>3. LET t == [node EXCEPT !.link[n] = "stale"] IN Keeps(node, t) /\ t.state = node.state
  BY <1>2, LinkChange
<1> QED
  BY <1>1, <1>3, KeepsHandles DEF UpdateMoves

LEMMA LinkCallbackHandles ==
    ASSUME Good(node), conf \in Confs, LinkCallback
    PROVE  \E t : Step(t) /\ Handles(node, t)
<1>1. PICK n \in conf.near, q \in Link :
         LET s == [node EXCEPT !.link[n] = q]
         IN  \/ Step(s)
             \/ Step(rpl_timers_schedule_state_update(
                       [s EXCEPT !.urgent_probing_target = IF @ = n THEN NULL ELSE @]))
  BY DEF LinkCallback
<1> DEFINE s == [node EXCEPT !.link[n] = q]
           v == IF s.urgent_probing_target = n THEN NULL ELSE s.urgent_probing_target
           u == [s EXCEPT !.urgent_probing_target = v]
           t == rpl_timers_schedule_state_update(u)
<1>2. Step(s) \/ Step(t)
  BY <1>1
<1>3. n \in Nbr
  BY RplAssumption DEF ConfType
<1>4. Keeps(node, s) /\ s.state = node.state
  BY <1>3, LinkChange
<1> HIDE DEF s
<1>5. Good(s) /\ s \in NodeType /\ v \in Nbr \cup {NULL}
  BY <1>4 DEF Keeps, Good, NodeType
<1>6. v \in {NULL, s.urgent_probing_target}
  OBVIOUS
<1> HIDE DEF v
<1>7. u \in NodeType
  BY <1>5, Zenon DEF NodeType
<1>8. u.urgent_probing_target = v /\ Changes(s, u, {"urgent_probing_target"})
  BY <1>5, <1>7, FieldNames DEF NodeType, Changes
<1> HIDE DEF u
<1>9. Changes(u, t, {"state_update"})
  BY <1>7, ScheduleStateUpdate
<1> HIDE DEF t
<1>10. /\ Changes(s, t, SmallFields) /\ t.state = s.state /\ t.rankOf = s.rankOf
       /\ t.preferred_parent = s.preferred_parent /\ t.urgent_probing_target = v
  BY <1>8, <1>9, FieldNames DEF Changes, SmallFields
<1>11. Linked(t)
  BY <1>5, <1>6, <1>10 DEF Good, Linked, InTable
<1>12. Keeps(s, t)
  BY <1>5, <1>6, <1>10, <1>11, SmallChange
<1>13. Keeps(node, t)
  BY <1>4, <1>12, KeepsTwice
<1> QED
  BY <1>2, <1>4, <1>10, <1>13, KeepsHandles DEF UpdateMoves

\* A neighbour that is removed is neither the parent nor, any more, the target of probing.
LEMMA EvictHandles ==
    ASSUME Good(node), Evict
    PROVE  \E t : Step(t) /\ Handles(node, t)
<1>1. PICK n \in InTable(node) :
         /\ n # node.preferred_parent
         /\ Step([remove_neighbor(node, n) EXCEPT !.link[n] = "bad"])
  BY DEF Evict
<1> DEFINE v == IF node.urgent_probing_target = n THEN NULL ELSE node.urgent_probing_target
           r == [node.rankOf EXCEPT ![n] = Absent]
           u == [node EXCEPT !.rankOf = r, !.urgent_probing_target = v]
           s == rpl_timers_schedule_state_update(u)
           t == [s EXCEPT !.link[n] = "bad"]
<1>2. Step(t)
  BY <1>1 DEF remove_neighbor
<1>3. n \in Nbr /\ node \in NodeType /\ "bad" \in Link
  BY DEF InTable, Good, Link
<1>4. /\ v \in Nbr \cup {NULL} /\ v \in {NULL, node.urgent_probing_target} /\ v # n
  BY <1>3, Bounds DEF NodeType
<1>5. /\ r \in [Nbr -> AdvRank \cup {Absent, RPL_INFINITE_RANK}]
      /\ \A m \in Nbr : m # n => r[m] = node.rankOf[m]
  BY <1>3 DEF NodeType
<1> HIDE DEF v, r
<1>6. u \in NodeType
  BY <1>3, <1>4, <1>5, Zenon DEF NodeType
<1>7. /\ u.rankOf = r /\ u.urgent_probing_target = v
      /\ Changes(node, u, {"rankOf", "urgent_probing_target"})
  BY <1>3, <1>6, FieldNames DEF NodeType, Changes
<1> HIDE DEF u
<1>8. Changes(u, s, {"state_update"})
  BY <1>6, ScheduleStateUpdate
<1> HIDE DEF s
<1>9. /\ Changes(node, s, SmallFields) /\ s.state = node.state /\ s.rankOf = r
      /\ s.preferred_parent = node.preferred_parent /\ s.urgent_probing_target = v
  BY <1>7, <1>8, FieldNames DEF Changes, SmallFields
<1>10. Linked(s)
  <2>1. \A m \in InTable(node) : m # n => m \in InTable(s)
    BY <1>5, <1>9 DEF InTable
  <2> QED
    BY <1>1, <1>4, <1>9, <2>1 DEF Good, Linked
<1>11. Keeps(node, s)
  BY <1>4, <1>9, <1>10, SmallChange
<1>12. Keeps(s, t) /\ t.state = s.state
  BY <1>3, <1>11, LinkChange DEF Keeps
<1>13. Keeps(node, t)
  BY <1>11, <1>12, KeepsTwice
<1> HIDE DEF t
<1> QED
  BY <1>2, <1>9, <1>12, <1>13, KeepsHandles DEF UpdateMoves

LEMMA HbhInputHandles ==
    ASSUME Good(node), conf \in Confs, HbhInput
    PROVE  \E t : Step(t) /\ Handles(node, t)
<1>1. PICK n \in InTable(node), rank \in conf.ranks \cup {RPL_INFINITE_RANK} :
         LET s == [node EXCEPT !.rankOf[n] = rank]
         IN  \E cost \in Costs(s) : Step(rpl_dag_update_state(s, cost))
  BY DEF HbhInput
<1> DEFINE r == [node.rankOf EXCEPT ![n] = rank]
           s == [node EXCEPT !.rankOf = r]
<1>2. PICK cost \in Costs(s) : Step(rpl_dag_update_state(s, cost))
  BY <1>1
<1> DEFINE t == rpl_dag_update_state(s, cost)
<1>3. n \in Nbr /\ node \in NodeType /\ cost \in Orders
  BY CostsAreOrders DEF InTable, Good
<1>4. rank \in AdvRank \cup {RPL_INFINITE_RANK} /\ rank # Absent
  BY RplAssumption DEF ConfType, Absent, RPL_INFINITE_RANK, ROOT_RANK, HopInc
<1>5. /\ r \in [Nbr -> AdvRank \cup {Absent, RPL_INFINITE_RANK}]
      /\ \A m \in Nbr : r[m] # node.rankOf[m] => r[m] = rank
  BY <1>3, <1>4 DEF NodeType
<1> HIDE DEF r
<1>6. s \in NodeType
  BY <1>3, <1>5, Zenon DEF NodeType
<1>7. s.rankOf = r /\ Changes(node, s, {"rankOf"})
  BY <1>3, <1>6, FieldNames DEF NodeType, Changes
<1> HIDE DEF s
<1>8. /\ Changes(node, s, SmallFields) /\ s.state = node.state
      /\ s.preferred_parent = node.preferred_parent
      /\ s.urgent_probing_target = node.urgent_probing_target
  BY <1>7, FieldNames DEF Changes, SmallFields
<1>9. InTable(node) \subseteq InTable(s)
  BY <1>4, <1>5, <1>7 DEF InTable
<1>10. Linked(s)
  BY <1>8, <1>9 DEF Good, Linked
<1>11. Keeps(node, s)
  BY <1>8, <1>10, SmallChange
<1>12. Good(s)
  BY <1>11 DEF Keeps
<1>13. Keeps(s, t) /\ UpdateMoves(s, t)
  BY <1>3, <1>12, Update DEF UpdateMoves
<1>14. Step(t)
  BY <1>2
<1> HIDE DEF t
<1>15. Keeps(node, t) /\ UpdateMoves(node, t)
  BY <1>8, <1>11, <1>13, KeepsTwice DEF UpdateMoves
<1> QED
  BY <1>14, <1>15, KeepsHandles

LEMMA PoisonHandles ==
    ASSUME Good(node), rpl_dag_poison_and_leave
    PROVE  \E t : Step(t) /\ Handles(node, t)
<1> DEFINE p == [node EXCEPT !.state = "POISONING"]
           t == rpl_timers_schedule_state_update(p)
<1>1. Step(t)
  BY DEF rpl_dag_poison_and_leave
<1>2. node \in NodeType /\ "POISONING" \in DagState
  BY DEF Good, DagState
<1>3. p \in NodeType
  BY <1>2, Zenon DEF NodeType
<1>4. p.state = "POISONING" /\ Changes(node, p, {"state"})
  BY <1>2, <1>3, FieldNames DEF NodeType, Changes
<1> HIDE DEF p
<1>5. Changes(p, t, {"state_update"})
  BY <1>3, ScheduleStateUpdate
<1> HIDE DEF t
<1>6. /\ Changes(node, t, SmallFields) /\ t.state = "POISONING" /\ t.rankOf = node.rankOf
      /\ t.preferred_parent = node.preferred_parent
      /\ t.urgent_probing_target = node.urgent_probing_target
  BY <1>4, <1>5, FieldNames DEF Changes, SmallFields
<1>7. Linked(t)
  BY <1>6 DEF Good, Linked, InTable
<1>8. Keeps(node, t)
  BY <1>6, <1>7, SmallChange
<1> QED
  BY <1>1, <1>6, <1>8, KeepsHandles

\* A local repair of a node that is good but, perhaps, for its DAO timer.
LEMMA LocalRepairHandles ==
    ASSUME NEW s \in NodeType, s.used, Linked(s), Ranked(s), s.leave # "orphan", NEW cost \in Orders
    PROVE  Handles(s, rpl_local_repair(s, cost))
<1> DEFINE t == rpl_local_repair(s, cost)
<1>1. /\ Good(t) /\ t.used /\ (Leaves(s) => Leaves(t)) /\ t.state = "INITIALIZED" /\ Routes(s, t)
      /\ DisKept(s, t)
  BY LocalRepairKeeps DEF DisKept
<1> HIDE DEF t
<1>2. t \in NodeType /\ t.used = s.used
  BY <1>1 DEF Good, NodeType
<1>3. RoutesKept(s, t) /\ Goes(s, t)
  BY <1>1, <1>2, RoutesAreKept, Going
<1>4. Handles(s, t)
  BY <1>1, <1>3 DEF Handles
<1> QED
  BY <1>4 DEF t

LEMMA LocalRepairActionHandles ==
    ASSUME Good(node), LocalRepair
    PROVE  \E t : Step(t) /\ Handles(node, t)
<1>1. PICK cost \in Costs(node) : node.used /\ Step(rpl_local_repair(node, cost))
  BY DEF LocalRepair
<1>2. /\ node \in NodeType /\ Linked(node) /\ Ranked(node) /\ node.leave # "orphan"
      /\ cost \in Orders
  BY CostsAreOrders DEF Good
<1> QED
  BY <1>1, <1>2, LocalRepairHandles

-----------------------------------------------------------------------------
(* The timers.                                                             *)

LEMMA StateUpdateHandles ==
    ASSUME Good(node), handle_state_update
    PROVE  \E t : Step(t) /\ Handles(node, t)
<1> DEFINE s == [node EXCEPT !.state_update = FALSE]
<1>1. PICK cost \in Costs(node) : Step(rpl_dag_update_state(s, cost))
  BY DEF handle_state_update
<1>2. node \in NodeType /\ cost \in Orders
  BY CostsAreOrders DEF Good
<1>3. s \in NodeType
  BY <1>2, Zenon DEF NodeType
<1>4. Changes(node, s, {"state_update"})
  BY <1>2, <1>3, FieldNames DEF NodeType, Changes
<1> HIDE DEF s
<1>5. /\ Changes(node, s, SmallFields) /\ s.state = node.state /\ s.rankOf = node.rankOf
      /\ s.preferred_parent = node.preferred_parent
      /\ s.urgent_probing_target = node.urgent_probing_target
  BY <1>4, FieldNames DEF Changes, SmallFields
<1>6. Linked(s)
  BY <1>5 DEF Good, Linked, InTable
<1>7. Keeps(node, s)
  BY <1>5, <1>6, SmallChange
<1>8. Good(s)
  BY <1>7 DEF Keeps
<1> DEFINE t == rpl_dag_update_state(s, cost)
<1>9. Keeps(s, t) /\ UpdateMoves(s, t)
  BY <1>2, <1>8, Update DEF UpdateMoves
<1>10. Step(t)
  BY <1>1
<1> HIDE DEF t
<1>11. Keeps(node, t) /\ UpdateMoves(node, t)
  BY <1>5, <1>7, <1>9, KeepsTwice DEF UpdateMoves
<1> QED
  BY <1>10, <1>11, KeepsHandles

\* The trickle timer stops only if the node does not advertise.
LEMMA DioTimerHandles ==
    ASSUME Good(node), handle_dio_timer
    PROVE  \E t : Step(t) /\ Handles(node, t)
<1> DEFINE off == [node EXCEPT !.dio_timer = FALSE]
<1>1. PICK cost \in Costs(node) :
         \/ ~rpl_dag_ready_to_advertise(node) /\ Step(off)
         \/ Step([rpl_dag_update_state(node, cost) EXCEPT !.dio_timer = TRUE])
         \/ Step(node)
  BY DEF handle_dio_timer
<1>2. node \in NodeType /\ cost \in Orders
  BY CostsAreOrders DEF Good
<1> DEFINE u == rpl_dag_update_state(node, cost)
           on == [u EXCEPT !.dio_timer = TRUE]
<1>3. Keeps(node, u) /\ UpdateMoves(node, u)
  BY <1>2, Update DEF UpdateMoves
<1>4. (~rpl_dag_ready_to_advertise(node) /\ Step(off)) \/ Step(on) \/ Step(node)
  BY <1>1
<1> HIDE DEF u
<1>5. Good(u) /\ u \in NodeType
  BY <1>3 DEF Keeps, Good
<1>6. off \in NodeType /\ on \in NodeType
  <2>1. off \in NodeType
    BY <1>2, Zenon DEF NodeType
  <2>2. on \in NodeType
    BY <1>5, Zenon DEF NodeType
  <2> QED
    BY <2>1, <2>2
<1>7. Changes(node, off, {"dio_timer"}) /\ Changes(u, on, {"dio_timer"}) /\ on.dio_timer
  BY <1>2, <1>5, <1>6, FieldNames DEF NodeType, Changes
<1> HIDE DEF off, on
<1>8. ASSUME NEW s, Good(s), NEW t, Changes(s, t, {"dio_timer"}),
             t.dio_timer \/ ~rpl_dag_ready_to_advertise(s)
      PROVE  Keeps(s, t) /\ t.state = s.state
  <2>1. /\ t \in NodeType /\ t.used = s.used /\ t.rankOf = s.rankOf
        /\ t.preferred_parent = s.preferred_parent
        /\ t.urgent_probing_target = s.urgent_probing_target
        /\ t.probing_timer = s.probing_timer /\ SameDao(s, t)
        /\ t.state = s.state /\ t.rank = s.rank /\ t.leave = s.leave
        /\ t.defrt = s.defrt /\ t.dis_timer = s.dis_timer
    BY <1>8, FieldNames DEF Changes, SameDao
  <2>2. Good(t) /\ (Leaves(s) => Leaves(t))
    BY <1>8, <2>1 DEF Good, Linked, Probes, Announces, Advertises, Ranked, Matched, Out, Leaves,
                      InTable, rpl_dag_ready_to_advertise, Announced, Resting, SameDao
  <2> QED
    BY <2>1, <2>2 DEF Keeps, RoutesKept, DisKept, Routed
<1>9. Keeps(u, on) /\ on.state = u.state
  BY <1>5, <1>7, <1>8
<1>10. Keeps(node, on) /\ UpdateMoves(node, on)
  BY <1>3, <1>9, KeepsTwice DEF UpdateMoves
<1>11. ~rpl_dag_ready_to_advertise(node) => Keeps(node, off) /\ UpdateMoves(node, off)
  BY <1>7, <1>8 DEF UpdateMoves
<1> QED
  BY <1>4, <1>10, <1>11, Same, KeepsHandles

\* rpl_icmp6_dao_output on a good node.
LEMMA DaoOutputKeeps ==
    ASSUME NEW s, Good(s), NEW cost \in Orders
    PROVE  LET t == rpl_icmp6_dao_output(s, cost) IN Keeps(s, t) /\ UpdateMoves(s, t)
<1> DEFINE y == rpl_dag_update_state(s, cost)
           sent == s.preferred_parent # NULL /\ y.preferred_parent # NULL
           v == y.daoSent \/ sent
           a == [y EXCEPT !.sentNext = sent]
           b == [y EXCEPT !.daoSent = v]
           t == IF y.daoNew THEN a ELSE b
<1>1. rpl_icmp6_dao_output(s, cost) = t
  BY DEF rpl_icmp6_dao_output, DaoOutput
<1>2. Keeps(s, y) /\ UpdateMoves(s, y)
  BY Update DEF UpdateMoves
<1> HIDE DEF y
<1>3. Good(y) /\ y \in NodeType /\ sent \in BOOLEAN /\ v \in BOOLEAN
  BY <1>2 DEF Keeps, Good
<1> HIDE DEF sent, v
<1>4. a \in NodeType
  BY <1>3, Zenon DEF NodeType
<1>5. b \in NodeType
  BY <1>3, Zenon DEF NodeType
<1>6. Changes(y, a, {"sentNext"}) /\ Changes(y, b, {"daoSent"})
  BY <1>3, <1>4, <1>5, FieldNames DEF NodeType, Changes
<1> HIDE DEF a, b
<1>7. Changes(y, t, {"sentNext", "daoSent"})
  BY <1>6 DEF Changes
<1> HIDE DEF t
<1>8. /\ Changes(y, t, SmallFields) /\ t.state = y.state /\ t.rankOf = y.rankOf
      /\ t.preferred_parent = y.preferred_parent
      /\ t.urgent_probing_target = y.urgent_probing_target
  BY <1>7, FieldNames DEF Changes, SmallFields
<1>9. Linked(t)
  BY <1>3, <1>8 DEF Good, Linked, InTable
<1>10. Keeps(y, t)
  BY <1>3, <1>8, <1>9, SmallChange
<1>11. Keeps(s, t) /\ UpdateMoves(s, t)
  BY <1>2, <1>8, <1>10, KeepsTwice DEF UpdateMoves
<1> QED
  BY <1>1, <1>11

\* A DAO is transmitted at most MaxRtx times, and the timer is set for what comes next.
LEMMA DaoTimerWithAckHandles ==
    ASSUME Good(node), node.dao_timer, NEW cost \in Orders
    PROVE  Handles(node, DaoTimerWithAck(cost))
<1> DEFINE s == [node EXCEPT !.dao_timer = FALSE]
           first == [s EXCEPT !.daoTx = 1, !.daoNew = FALSE,
                              !.daoSent = s.sentNext, !.daoAcked = s.ackedNext,
                              !.sentNext = FALSE, !.ackedNext = FALSE]
           more == s.daoTx + 1
           again == [s EXCEPT !.daoTx = more]
           f == [first EXCEPT !.dao_timer = TRUE]
           g == [again EXCEPT !.dao_timer = TRUE]
<1>1. \/ ~s.daoNew /\ s.daoAcked /\ DaoTimerWithAck(cost) = schedule_dao_refresh(s)
      \/ DaoTimerWithAck(cost) = rpl_local_repair(s, cost)
      \/ DaoTimerWithAck(cost) = rpl_icmp6_dao_output(f, cost)
      \/ s.daoTx < MaxRtx /\ DaoTimerWithAck(cost) = rpl_icmp6_dao_output(g, cost)
  <2>1. s.daoTx \in Nat /\ MaxRtx \in Nat
    BY RplAssumption DEF Good, NodeType
  <2> HIDE DEF s
  <2>2. TransmitDao(s, cost) =
           rpl_icmp6_dao_output([(IF s.daoNew THEN first ELSE again) EXCEPT !.dao_timer = TRUE], cost)
    BY DEF TransmitDao
  <2>3. TransmitDao(s, cost) = IF s.daoNew THEN rpl_icmp6_dao_output(f, cost)
                               ELSE rpl_icmp6_dao_output(g, cost)
    <3> HIDE DEF first, again
    <3> QED
      BY <2>2
  <2>4. DaoTimerWithAck(cost) = IF ~s.daoNew /\ s.daoAcked THEN schedule_dao_refresh(s)
                                ELSE IF ~s.daoNew /\ s.daoTx >= MaxRtx
                                THEN rpl_local_repair(s, cost) ELSE TransmitDao(s, cost)
    BY DEF DaoTimerWithAck, s
  <2> HIDE DEF f, g, first, again
  <2> QED
    BY <2>1, <2>3, <2>4
<1>2. node \in NodeType /\ node.used /\ node.used = TRUE
  BY DEF Good, Out, NodeType
<1>3. s \in NodeType
  BY <1>2, Zenon DEF NodeType
<1>4. Changes(node, s, {"dao_timer"})
  BY <1>2, <1>3, FieldNames DEF NodeType, Changes
<1> HIDE DEF s
<1>5. /\ s.used /\ s.used = node.used /\ s.state = node.state /\ s.rankOf = node.rankOf
      /\ s.preferred_parent = node.preferred_parent
      /\ s.urgent_probing_target = node.urgent_probing_target /\ s.rank = node.rank
      /\ s.leave = node.leave /\ s.defrt = node.defrt /\ s.dis_timer = node.dis_timer
  BY <1>2, <1>4, FieldNames DEF Changes
<1>6. ASSUME ~s.daoNew, s.daoAcked
      PROVE  Handles(node, schedule_dao_refresh(s))
  <2> DEFINE t == schedule_dao_refresh(s)
  <2>1. Changes(s, t, DaoFields) /\ Announced(t)
    <3>1. s.infinite => Announced(s)
      BY <1>6 DEF Announced, Resting
    <3> QED
      BY <1>3, <1>5, <3>1, ScheduleDao
  <2> HIDE DEF t
  <2>2. Changes(node, t, DaoFields)
    BY <1>4, <2>1 DEF Changes, DaoFields
  <2>3. Handles(node, t)
    BY <1>2, <2>1, <2>2, DaoChange, KeepsHandles DEF UpdateMoves
  <2> QED
    BY <2>3 DEF t
<1>7. Handles(node, rpl_local_repair(s, cost))
  <2> DEFINE t == rpl_local_repair(s, cost)
  <2>1. Linked(s) /\ Ranked(s) /\ s.leave # "orphan"
    BY <1>5 DEF Good, Linked, Ranked, InTable
  <2>2. Handles(s, t)
    BY <1>3, <1>5, <2>1, LocalRepairHandles
  <2> HIDE DEF t
  <2>3. Leaves(node) => Leaves(s)
    BY <1>5 DEF Leaves
  <2>4. RoutesKept(node, t) /\ DisKept(node, t) /\ Goes(node, t)
    BY <1>5, <2>2 DEF Handles, RoutesKept, Routed, DisKept, Goes, Dag
  <2>5. Handles(node, t)
    BY <2>2, <2>3, <2>4 DEF Handles
  <2> QED
    BY <2>5 DEF t
<1>8. f \in NodeType /\ Changes(s, f, DaoFields) /\ Announced(f)
  <2>1. 1 \in 0 .. MaxRtx /\ s.sentNext \in BOOLEAN /\ s.ackedNext \in BOOLEAN
    BY <1>3, Bounds DEF NodeType
  <2>2. first \in NodeType
    BY <1>3, <2>1, Zenon DEF NodeType
  <2>3. Changes(s, first, DaoFields)
    BY <1>3, <2>2, FieldNames DEF NodeType, Changes, DaoFields
  <2> HIDE DEF first
  <2>4. f \in NodeType
    BY <2>2, Zenon DEF NodeType
  <2>5. Changes(first, f, {"dao_timer"}) /\ f.dao_timer
    BY <2>2, <2>4, FieldNames DEF NodeType, Changes
  <2> HIDE DEF f
  <2> QED
    BY <2>3, <2>4, <2>5 DEF Changes, DaoFields, Announced
<1>9. ASSUME s.daoTx < MaxRtx
      PROVE  g \in NodeType /\ Changes(s, g, DaoFields) /\ Announced(g)
  <2>1. more \in 0 .. MaxRtx
    BY <1>3, <1>9, RplAssumption DEF NodeType
  <2> HIDE DEF more
  <2>2. again \in NodeType
    BY <1>3, <2>1, Zenon DEF NodeType
  <2>3. Changes(s, again, DaoFields)
    BY <1>3, <2>2, FieldNames DEF NodeType, Changes, DaoFields
  <2> HIDE DEF again
  <2>4. g \in NodeType
    BY <2>2, Zenon DEF NodeType
  <2>5. Changes(again, g, {"dao_timer"}) /\ g.dao_timer
    BY <2>2, <2>4, FieldNames DEF NodeType, Changes
  <2> HIDE DEF g
  <2> QED
    BY <2>3, <2>4, <2>5 DEF Changes, DaoFields, Announced
<1> HIDE DEF f, g, first, again
<1>10. ASSUME NEW x, Changes(s, x, DaoFields), Announced(x)
       PROVE  Handles(node, rpl_icmp6_dao_output(x, cost))
  <2>1. Changes(node, x, DaoFields)
    BY <1>4, <1>10 DEF Changes, DaoFields
  <2>2. Keeps(node, x) /\ x.state = node.state
    BY <1>2, <1>10, <2>1, DaoChange
  <2>3. Good(x)
    BY <2>2 DEF Keeps
  <2> DEFINE t == rpl_icmp6_dao_output(x, cost)
  <2>4. Keeps(x, t) /\ UpdateMoves(x, t)
    BY <2>3, DaoOutputKeeps
  <2> HIDE DEF t
  <2>5. Keeps(node, t) /\ UpdateMoves(node, t)
    BY <2>2, <2>4, KeepsTwice DEF UpdateMoves
  <2>6. Handles(node, t)
    BY <2>5, KeepsHandles
  <2> QED
    BY <2>6 DEF t
<1> QED
  BY <1>1, <1>6, <1>7, <1>8, <1>9, <1>10

\* Without acknowledgements the first DAO makes a joined node reachable.
LEMMA DaoTimerNoAckHandles ==
    ASSUME Good(node), node.dao_timer, ~conf.DaoAck, NEW cost \in Orders
    PROVE  Handles(node, DaoTimerNoAck(cost))
<1> DEFINE v == IF node.state = "JOINED" THEN "REACHABLE" ELSE node.state
           s == [node EXCEPT !.dao_timer = FALSE, !.daoNew = FALSE, !.state = v]
           y == rpl_timers_dio_reset(s)
           z == rpl_dag_update_state(y, cost)
           t == schedule_dao_refresh(z)
<1> SUFFICES Handles(node, t)
  BY DEF DaoTimerNoAck
<1>1. node \in NodeType /\ node.used /\ node.used = TRUE
  BY DEF Good, Out, NodeType
<1>2. v \in DagState
  BY <1>1 DEF NodeType, DagState
<1>3. \/ v = node.state
      \/ node.state = "JOINED" /\ v = "REACHABLE"
  OBVIOUS
<1> HIDE DEF v
<1>4. s \in NodeType
  BY <1>1, <1>2, Zenon DEF NodeType
<1>5. s.state = v /\ s.daoNew = FALSE /\ Changes(node, s, {"dao_timer", "daoNew", "state"})
  BY <1>1, <1>4, FieldNames DEF NodeType, Changes
<1> HIDE DEF s
<1>6. /\ Changes(s, y, {"dio_timer"}) /\ (s.dio_timer => y.dio_timer)
      /\ s.used /\ (s.state = "REACHABLE" \/ ~s.downward) /\ ~conf.LeafOnly => y.dio_timer
  BY <1>4, DioReset
<1> HIDE DEF y
<1>7. /\ y \in NodeType /\ y.used /\ y.used = node.used /\ s.used /\ y.rankOf = node.rankOf
      /\ y.preferred_parent = node.preferred_parent
      /\ y.urgent_probing_target = node.urgent_probing_target
      /\ y.probing_timer = node.probing_timer /\ y.state = v /\ y.rank = node.rank
      /\ y.leave = node.leave /\ y.defrt = node.defrt /\ y.dis_timer = node.dis_timer
      /\ y.downward = s.downward /\ y.daoNew = FALSE
  BY <1>1, <1>5, <1>6, FieldNames DEF Changes
<1>8. /\ Linked(y) /\ Probes(y) /\ Advertises(y) /\ Ranked(y) /\ Matched(y) /\ y.leave # "orphan"
      /\ Leaves(node) => Leaves(y)
  <2>1. Linked(y) /\ Probes(y) /\ Ranked(y) /\ y.leave # "orphan" /\ (Leaves(node) => Leaves(y))
    BY <1>7 DEF Good, Linked, Probes, Ranked, InTable, Leaves
  <2>2. Advertises(y)
    BY <1>5, <1>6, <1>7 DEF Advertises
  <2>3. Matched(y)
    BY <1>1, <1>3, <1>7 DEF Good, Matched
  <2> QED
    BY <2>1, <2>2, <2>3
<1>9. Updated(y, z)
  BY <1>7, UpdateUpdates
<1> HIDE DEF z
<1>10. /\ z \in NodeType /\ z.used /\ z.rankOf = node.rankOf
       /\ RoutesKept(y, z) /\ DisKept(y, z) /\ UpdateMoves(y, z)
  <2>1. v \in {"INITIALIZED", "JOINED", "REACHABLE", "POISONING"}
    BY <1>2 DEF DagState
  <2>2. UpdateMoves(y, z)
    BY <1>7, <1>8, <1>9, <2>1 DEF Updated, UpdateMoves, Matched
  <2> QED
    BY <1>7, <1>9, <2>2, RoutesAreKept DEF Updated, DisKept
<1>11. Changes(z, t, DaoFields) /\ Announced(t)
  <2>1. z.infinite => Announced(z)
    <3>1. z.infinite = y.infinite
      BY <1>9 DEF Updated
    <3> QED
      BY <1>7, <1>9, <3>1 DEF Updated, Announced, Resting
  <2> QED
    BY <1>10, <2>1, ScheduleDao
<1> HIDE DEF t
<1>12. /\ t \in NodeType /\ t.used = z.used /\ t.rankOf = z.rankOf
       /\ t.preferred_parent = z.preferred_parent
       /\ t.urgent_probing_target = z.urgent_probing_target
       /\ t.probing_timer = z.probing_timer /\ t.dio_timer = z.dio_timer
       /\ t.state = z.state /\ t.rank = z.rank /\ t.leave = z.leave
       /\ t.defrt = z.defrt /\ t.dis_timer = z.dis_timer /\ t.downward = z.downward
  BY <1>11, FieldNames DEF Changes, DaoFields
<1>13. Good(t)
  <2>1. Linked(t) /\ Probes(t)
    BY <1>7, <1>8, <1>9, <1>12 DEF Linked, Probes, Updated, InTable
  <2>2. Announces(t) /\ Ranked(t) /\ Out(t) /\ t.leave # "orphan"
    BY <1>8, <1>9, <1>11, <1>12 DEF Announces, Ranked, Out, Updated, Announced, Resting
  <2>3. Advertises(t) /\ Matched(t)
    BY <1>7, <1>8, <1>9, <1>12 DEF Advertises, Matched, Updated
  <2> QED
    BY <1>12, <2>1, <2>2, <2>3 DEF Good
<1>14. Leaves(node) => Leaves(t)
  BY <1>8, <1>9, <1>12 DEF Updated, Leaves
<1>15. RoutesKept(node, t) /\ DisKept(node, t)
  BY <1>7, <1>10, <1>12 DEF RoutesKept, Routed, DisKept
<1>16. Goes(node, t)
  <2>1. t.used = node.used
    BY <1>1, <1>10, <1>12 DEF NodeType
  <2>2. t.state = "REACHABLE" => node.state \in {"JOINED", "REACHABLE"}
    BY <1>3, <1>7, <1>10, <1>12 DEF UpdateMoves
  <2> QED
    BY <1>1, <1>12, <2>1, <2>2, Going
<1> QED
  BY <1>13, <1>14, <1>15, <1>16 DEF Handles

LEMMA DaoTimerHandles ==
    ASSUME Good(node), handle_dao_timer
    PROVE  \E t : Step(t) /\ Handles(node, t)
<1>1. PICK cost \in Costs(node) :
         Step(IF conf.DaoAck THEN DaoTimerWithAck(cost) ELSE DaoTimerNoAck(cost))
  BY DEF handle_dao_timer
<1>2. cost \in Orders /\ node.dao_timer
  BY CostsAreOrders DEF handle_dao_timer
<1>3. /\ Handles(node, DaoTimerWithAck(cost))
      /\ ~conf.DaoAck => Handles(node, DaoTimerNoAck(cost))
  BY <1>2, DaoTimerWithAckHandles, DaoTimerNoAckHandles
<1> QED
  BY <1>1, <1>3

\* The probing timer is set again in every case, also for a target chosen by the update.
LEMMA ProbingTimerHandles ==
    ASSUME Good(node), handle_probing_timer
    PROVE  \E t : Step(t) /\ Handles(node, t)
<1> DEFINE s == [node EXCEPT !.probing_timer = FALSE]
<1>1. PICK cost \in Costs(node) :
         \/ Step(rpl_schedule_probing(s))
         \/ Step(rpl_schedule_probing(rpl_dag_update_state(s, cost)))
  BY DEF handle_probing_timer
<1> DEFINE u == rpl_dag_update_state(s, cost)
<1>2. node \in NodeType /\ node.used /\ node.used = TRUE /\ cost \in Orders
  BY CostsAreOrders DEF Good, Out, NodeType, handle_probing_timer
<1>3. s \in NodeType
  BY <1>2, Zenon DEF NodeType
<1>4. Changes(node, s, {"probing_timer"})
  BY <1>2, <1>3, FieldNames DEF NodeType, Changes
<1>5. Step(rpl_schedule_probing(s)) \/ Step(rpl_schedule_probing(u))
  BY <1>1
<1> HIDE DEF s
<1>6. /\ s.used /\ s.used = node.used /\ s.rankOf = node.rankOf
      /\ s.preferred_parent = node.preferred_parent
      /\ s.urgent_probing_target = node.urgent_probing_target /\ SameDao(node, s)
      /\ s.dio_timer = node.dio_timer /\ s.state = node.state /\ s.rank = node.rank
      /\ s.leave = node.leave /\ s.defrt = node.defrt /\ s.dis_timer = node.dis_timer
  BY <1>2, <1>4, FieldNames DEF Changes, SameDao
<1>7. Updated(s, u)
  BY <1>2, <1>3, <1>6, UpdateUpdates
<1> HIDE DEF u
\* x is the node before the timer is set again.
<1>8. ASSUME NEW x, x \in NodeType, x.used, Linked(x), Announces(x), Advertises(x), Ranked(x),
             Matched(x), x.leave # "orphan", Leaves(node) => Leaves(x), RoutesKept(node, x),
             DisKept(node, x), UpdateMoves(node, x)
      PROVE  Handles(node, rpl_schedule_probing(x))
  <2> DEFINE t == rpl_schedule_probing(x)
  <2>1. Changes(x, t, {"probing_timer"}) /\ t.probing_timer
    BY <1>8, ScheduleProbing
  <2> HIDE DEF t
  <2>2. /\ t \in NodeType /\ t.used = x.used /\ t.rankOf = x.rankOf
        /\ t.preferred_parent = x.preferred_parent
        /\ t.urgent_probing_target = x.urgent_probing_target /\ SameDao(x, t)
        /\ t.dio_timer = x.dio_timer /\ t.state = x.state /\ t.rank = x.rank
        /\ t.leave = x.leave /\ t.defrt = x.defrt /\ t.dis_timer = x.dis_timer
    BY <2>1, FieldNames DEF Changes, SameDao
  <2>3. Good(t) /\ (Leaves(node) => Leaves(t))
    BY <1>8, <2>1, <2>2 DEF Good, Linked, Probes, Announces, Advertises, Ranked, Matched, Out,
                            Leaves, InTable, Announced, Resting, SameDao
  <2>4. t.used = node.used /\ RoutesKept(node, t) /\ DisKept(node, t) /\ UpdateMoves(node, t)
    BY <1>2, <1>8, <2>2 DEF RoutesKept, Routed, DisKept, UpdateMoves, NodeType
  <2>5. Handles(node, t)
    BY <2>3, <2>4, KeepsHandles DEF Keeps
  <2> QED
    BY <2>5 DEF t
<1>9. /\ Linked(s) /\ Announces(s) /\ Advertises(s) /\ Ranked(s) /\ Matched(s) /\ s.leave # "orphan"
      /\ Leaves(node) => Leaves(s)
  BY <1>6 DEF Good, Linked, Announces, Advertises, Ranked, Matched, Leaves, InTable, Announced,
              Resting, SameDao
<1>10. RoutesKept(node, s) /\ DisKept(node, s) /\ UpdateMoves(node, s)
  BY <1>6 DEF RoutesKept, Routed, DisKept, UpdateMoves
<1>11. Handles(node, rpl_schedule_probing(s))
  BY <1>3, <1>6, <1>8, <1>9, <1>10
<1>12. u \in NodeType /\ u.used /\ Ranked(u) /\ u.leave # "orphan" /\ (Leaves(node) => Leaves(u))
  BY <1>7, <1>9 DEF Updated
<1>13. Linked(u) /\ Announces(u) /\ Advertises(u)
  BY <1>6, <1>7, <1>9 DEF Updated, Linked, Announces, Advertises, InTable
<1>14. Matched(u) /\ UpdateMoves(node, u)
  <2>1. node.state \in {"INITIALIZED", "JOINED", "REACHABLE", "POISONING"}
    BY <1>2 DEF NodeType, DagState
  <2> QED
    BY <1>6, <1>7, <1>9, <2>1 DEF Updated, Matched, UpdateMoves
<1>15. RoutesKept(node, u) /\ DisKept(node, u)
  <2>1. RoutesKept(s, u) /\ DisKept(s, u)
    BY <1>3, <1>7, RoutesAreKept DEF Updated, DisKept
  <2> QED
    BY <1>6, <2>1 DEF RoutesKept, Routed, DisKept
<1>16. Handles(node, rpl_schedule_probing(u))
  BY <1>8, <1>12, <1>13, <1>14, <1>15
<1> QED
  BY <1>5, <1>11, <1>16

LEMMA LeaveExpiresHandles ==
    ASSUME Good(node), LeaveExpires
    PROVE  \E t : Step(t) /\ Handles(node, t)
<1> DEFINE t == [node EXCEPT !.leave = "due"]
<1>1. node \in NodeType /\ node.leave \in CtimerState /\ node.leave # "orphan" /\ "due" \in CtimerState
  BY DEF Good, NodeType, CtimerState
<1>2. node.leave = "on"
  BY <1>1 DEF LeaveExpires, CanExpire
<1>3. Step(t)
  BY <1>2 DEF LeaveExpires, Expired
<1>4. t \in NodeType
  BY <1>1, Zenon DEF NodeType
<1>5. t.leave = "due" /\ Changes(node, t, {"leave"})
  BY <1>1, <1>4, FieldNames DEF NodeType, Changes
<1> HIDE DEF t
<1>6. /\ t.used = node.used /\ t.rankOf = node.rankOf
      /\ t.preferred_parent = node.preferred_parent
      /\ t.urgent_probing_target = node.urgent_probing_target
      /\ t.probing_timer = node.probing_timer /\ SameDao(node, t)
      /\ t.dio_timer = node.dio_timer /\ t.state = node.state /\ t.rank = node.rank
      /\ t.defrt = node.defrt /\ t.dis_timer = node.dis_timer
  BY <1>5, FieldNames DEF Changes, SameDao
<1>7. Good(t) /\ Leaves(t)
  BY <1>2, <1>4, <1>5, <1>6 DEF Good, Linked, Probes, Announces, Advertises, Ranked, Matched, Out,
                                Leaves, Pending, InTable, Announced, Resting, SameDao
<1>8. Keeps(node, t) /\ UpdateMoves(node, t)
  BY <1>6, <1>7 DEF Keeps, RoutesKept, Routed, DisKept, UpdateMoves
<1> QED
  BY <1>3, <1>8, KeepsHandles

\* The event of the leave timer: the node leaves, unless the timer was stopped meanwhile.
LEMMA LeavingTimerHandles ==
    ASSUME Good(node), handle_leaving_timer
    PROVE  \E t : Step(t) /\ Handles(node, t)
<1> DEFINE v == Handled(node.leave)
           s == [node EXCEPT !.leave = v]
<1>1. node \in NodeType /\ node.leave \in CtimerState \ {"orphan"} /\ v \in CtimerState
  BY DEF Good, NodeType, CtimerState, Handled
<1>2. s \in NodeType
  <2> HIDE DEF v
  <2> QED
    BY <1>1, Zenon DEF NodeType
<1>3. s.leave = v /\ Changes(node, s, {"leave"})
  BY <1>1, <1>2, FieldNames DEF NodeType, Changes
<1>4. /\ HasEvent(node.leave)
      /\ IF HasCallback(node.leave) /\ s.used
         THEN \E cost \in Costs(node) : Step(rpl_dag_leave(s, cost)) ELSE Step(s)
  BY DEF handle_leaving_timer
<1> HIDE DEF s
<1>5. /\ s.used = node.used /\ s.rankOf = node.rankOf
      /\ s.preferred_parent = node.preferred_parent
      /\ s.urgent_probing_target = node.urgent_probing_target
      /\ s.probing_timer = node.probing_timer /\ SameDao(node, s)
      /\ s.dio_timer = node.dio_timer /\ s.state = node.state /\ s.rank = node.rank
      /\ s.defrt = node.defrt /\ s.dis_timer = node.dis_timer
  BY <1>3, FieldNames DEF Changes, SameDao
<1>6. CASE HasCallback(node.leave) /\ s.used
  <2>1. PICK cost \in Costs(node) : Step(rpl_dag_leave(s, cost))
    BY <1>4, <1>6
  <2> DEFINE t == rpl_dag_leave(s, cost)
  <2>2. Linked(s) /\ cost \in Orders
    BY <1>5, CostsAreOrders DEF Good, Linked, InTable
  <2>3. Good(t) /\ ~t.used /\ RoutesKept(s, t) /\ DisKept(s, t)
    BY <1>2, <1>6, <2>2, DagLeave
  <2>4. Step(t)
    BY <2>1
  <2> HIDE DEF t
  <2>5. RoutesKept(node, t) /\ DisKept(node, t) /\ Leaves(t)
    BY <1>5, <2>3 DEF RoutesKept, Routed, DisKept, Leaves
  <2>6. Goes(node, t)
    BY <1>1, <2>3, Going DEF Good
  <2> QED
    BY <2>3, <2>4, <2>5, <2>6 DEF Handles
<1>7. CASE ~(HasCallback(node.leave) /\ s.used)
  <2>1. node.leave = "stale"
    BY <1>1, <1>4, <1>5, <1>7 DEF HasEvent, HasCallback, CtimerState, Good, Out
  <2>2. s.leave = "off"
    BY <1>3, <2>1 DEF Handled
  <2>3. Good(s) /\ (Leaves(node) => Leaves(s))
    BY <1>2, <1>5, <2>1, <2>2 DEF Good, Linked, Probes, Announces, Advertises, Ranked, Matched, Out,
                                  Leaves, Pending, InTable, Announced, Resting, SameDao
  <2>4. Keeps(node, s) /\ UpdateMoves(node, s)
    BY <1>5, <2>3 DEF Keeps, RoutesKept, Routed, DisKept, UpdateMoves
  <2> QED
    BY <1>4, <1>7, <2>4, KeepsHandles
<1> QED
  BY <1>6, <1>7

\* The DIS timer may change freely.
LEMMA DisChange ==
    ASSUME NEW s, Good(s), NEW v \in CtimerState
    PROVE  LET t == [s EXCEPT !.dis_timer = v]
           IN  /\ Good(t) /\ (Leaves(s) => Leaves(t)) /\ t.dis_timer = v
               /\ t.used = s.used /\ t.state = s.state
               /\ t.preferred_parent = s.preferred_parent /\ t.defrt = s.defrt
<1> DEFINE t == [s EXCEPT !.dis_timer = v]
<1> SUFFICES /\ Good(t) /\ (Leaves(s) => Leaves(t)) /\ t.dis_timer = v
             /\ t.used = s.used /\ t.state = s.state
             /\ t.preferred_parent = s.preferred_parent /\ t.defrt = s.defrt
  OBVIOUS
<1>1. s \in NodeType
  BY DEF Good
<1>2. t \in NodeType
  BY <1>1, Zenon DEF NodeType
<1>3. t.dis_timer = v /\ Changes(s, t, {"dis_timer"})
  BY <1>1, <1>2, FieldNames DEF NodeType, Changes
<1> HIDE DEF t
<1>4. /\ t.used = s.used /\ t.rankOf = s.rankOf /\ t.preferred_parent = s.preferred_parent
      /\ t.urgent_probing_target = s.urgent_probing_target
      /\ t.probing_timer = s.probing_timer /\ SameDao(s, t)
      /\ t.dio_timer = s.dio_timer /\ t.state = s.state /\ t.rank = s.rank
      /\ t.leave = s.leave /\ t.defrt = s.defrt
  BY <1>3, FieldNames DEF Changes, SameDao
<1>5. Good(t) /\ (Leaves(s) => Leaves(t))
  BY <1>2, <1>4 DEF Good, Linked, Probes, Announces, Advertises, Ranked, Matched, Out, Leaves,
                    InTable, Announced, Resting, SameDao
<1> QED
  BY <1>3, <1>4, <1>5

\* A node with a parent has a rank, and one that is in no DAG has no parent.
LEMMA NoParentIsNone ==
    ASSUME NEW s, Good(s)
    PROVE  NoParent(s) <=> s.preferred_parent = NULL
BY DEF Good, Ranked, Out, NoParent

LEMMA ScheduleDisKeeps ==
    ASSUME NEW s, Good(s)
    PROVE  LET t == rpl_timers_schedule_periodic_dis(s)
           IN  /\ Keeps(s, t) /\ t.state = s.state /\ t.preferred_parent = s.preferred_parent
               /\ t.defrt = s.defrt
               /\ t.dis_timer = Join!rpl_timers_schedule_periodic_dis(s.dis_timer)
<1> DEFINE v == ctimer_set(s.dis_timer)
           t == [s EXCEPT !.dis_timer = v]
<1>1. v \in CtimerState
  BY DEF ctimer_set, CtimerState
<1> HIDE DEF v
<1>2. /\ Good(t) /\ (Leaves(s) => Leaves(t)) /\ t.dis_timer = v
      /\ t.used = s.used /\ t.state = s.state
      /\ t.preferred_parent = s.preferred_parent /\ t.defrt = s.defrt
  BY <1>1, DisChange
<1>3. rpl_timers_schedule_periodic_dis(s) = IF ctimer_expired(s.dis_timer) THEN t ELSE s
  BY DEF rpl_timers_schedule_periodic_dis, v
<1> HIDE DEF t
<1>4. Join!rpl_timers_schedule_periodic_dis(s.dis_timer) =
         IF ctimer_expired(s.dis_timer) THEN v ELSE s.dis_timer
  BY DEF v, Join!rpl_timers_schedule_periodic_dis, Join!ctimer_expired, Join!ctimer_set,
         ctimer_expired, ctimer_set
<1>5. ctimer_expired(s.dis_timer) => Keeps(s, t)
  BY <1>2, <1>4 DEF Keeps, RoutesKept, Routed, DisKept
<1> QED
  BY <1>2, <1>3, <1>4, <1>5, Same

LEMMA DisExpiresStep ==
    ASSUME Good(node), DisExpires
    PROVE  \E t : /\ Step(t) /\ Good(t) /\ (Leaves(node) => Leaves(t)) /\ RoutesKept(node, t)
                  /\ Dag(t) = Dag(node) /\ t.preferred_parent = node.preferred_parent
                  /\ t.defrt = node.defrt
                  /\ CanExpire(node.dis_timer) /\ t.dis_timer = Expired(node.dis_timer)
<1> DEFINE v == Expired(node.dis_timer)
           t == [node EXCEPT !.dis_timer = v]
<1>1. v \in CtimerState /\ Step(t) /\ CanExpire(node.dis_timer)
  BY DEF DisExpires, Expired, CtimerState
<1> HIDE DEF v
<1>2. /\ Good(t) /\ (Leaves(node) => Leaves(t)) /\ t.dis_timer = v
      /\ t.used = node.used /\ t.state = node.state
      /\ t.preferred_parent = node.preferred_parent /\ t.defrt = node.defrt
  BY <1>1, DisChange
<1> HIDE DEF t
<1> QED
  BY <1>1, <1>2 DEF RoutesKept, Routed, Dag, v

LEMMA DisIdleStep ==
    ASSUME Good(node), DisIdle
    PROVE  \E t : /\ Step(t) /\ Good(t) /\ (Leaves(node) => Leaves(t)) /\ RoutesKept(node, t)
                  /\ Dag(t) = Dag(node) /\ t.preferred_parent = node.preferred_parent
                  /\ t.defrt = node.defrt
                  /\ HasEvent(node.dis_timer) /\ t.dis_timer = Handled(node.dis_timer)
                  /\ ~(HasCallback(node.dis_timer) /\ node.preferred_parent = NULL)
<1> DEFINE v == Handled(node.dis_timer)
           t == [node EXCEPT !.dis_timer = v]
<1>1. /\ v \in CtimerState /\ Step(t) /\ HasEvent(node.dis_timer)
      /\ ~(HasCallback(node.dis_timer) /\ node.preferred_parent = NULL)
  BY NoParentIsNone DEF DisIdle, Handled, CtimerState
<1> HIDE DEF v
<1>2. /\ Good(t) /\ (Leaves(node) => Leaves(t)) /\ t.dis_timer = v
      /\ t.used = node.used /\ t.state = node.state
      /\ t.preferred_parent = node.preferred_parent /\ t.defrt = node.defrt
  BY <1>1, DisChange
<1> HIDE DEF t
<1> QED
  BY <1>1, <1>2 DEF RoutesKept, Routed, Dag, v

\* A DIS is sent by a node without a parent, which the update before may find, and the DIS
\* timer is set again.
LEMMA DisSentStep ==
    ASSUME Good(node), DisSent
    PROVE  \E t : /\ Step(t) /\ Good(t) /\ (Leaves(node) => Leaves(t)) /\ RoutesKept(node, t)
                  /\ \/ Dag(t) = Dag(node)
                     \/ Dag(node) = "INITIALIZED" /\ Dag(t) = "JOINED"
                  /\ HasCallback(node.dis_timer) /\ node.preferred_parent = NULL
                  /\ t.dis_timer = Join!rpl_timers_schedule_periodic_dis(Handled(node.dis_timer))
<1> DEFINE v == Handled(node.dis_timer)
           s == [node EXCEPT !.dis_timer = v]
<1>1. PICK cost \in Costs(node) :
         Step(rpl_timers_schedule_periodic_dis(rpl_dag_update_state(s, cost)))
  BY DEF DisSent
<1> DEFINE u == rpl_dag_update_state(s, cost)
           t == rpl_timers_schedule_periodic_dis(u)
<1>2. /\ v \in CtimerState /\ HasCallback(node.dis_timer) /\ node.preferred_parent = NULL
      /\ cost \in Orders /\ Step(t)
  BY <1>1, NoParentIsNone, CostsAreOrders DEF DisSent, Handled, CtimerState
<1> HIDE DEF v
<1>3. /\ Good(s) /\ (Leaves(node) => Leaves(s)) /\ s.dis_timer = v
      /\ s.used = node.used /\ s.state = node.state
      /\ s.preferred_parent = node.preferred_parent /\ s.defrt = node.defrt
  BY <1>2, DisChange
<1> HIDE DEF s
<1>4. /\ Keeps(s, u) /\ u.dis_timer = v
      /\ \/ u.state = s.state
         \/ s.used /\ s.state = "INITIALIZED" /\ u.state = "JOINED"
         \/ s.used /\ s.state \in {"JOINED", "REACHABLE"} /\ u.state = "INITIALIZED"
  BY <1>2, <1>3, Update
<1> HIDE DEF u
<1>5. /\ Keeps(u, t) /\ t.state = u.state
      /\ t.dis_timer = Join!rpl_timers_schedule_periodic_dis(v)
  BY <1>4, ScheduleDisKeeps DEF Keeps
<1> HIDE DEF t
<1>6. Keeps(s, t)
  BY <1>4, <1>5, KeepsTwice
<1>7. s.used => s.state \notin {"JOINED", "REACHABLE"}
  BY <1>2, <1>3 DEF Good, Matched
<1>8. \/ Dag(t) = Dag(node)
      \/ Dag(node) = "INITIALIZED" /\ Dag(t) = "JOINED"
  BY <1>3, <1>4, <1>5, <1>6, <1>7 DEF Dag, Keeps
<1>9. Good(t) /\ (Leaves(node) => Leaves(t)) /\ RoutesKept(node, t)
  BY <1>3, <1>6 DEF Keeps, RoutesKept, Routed
<1> QED
  BY <1>2, <1>5, <1>8, <1>9 DEF v

\* A period: a node without a parent sets its DIS timer.
LEMMA PeriodicTimerStep ==
    ASSUME Good(node), handle_periodic_timer
    PROVE  \E t : /\ Step(t) /\ Good(t) /\ (Leaves(node) => Leaves(t)) /\ RoutesKept(node, t)
                  /\ Goes(node, t)
                  /\ (Dag(t) = "REACHABLE" \/ Dag(t) = "OUT") => Dag(t) = Dag(node)
                  /\ DisKept(node, t)
                  /\ node.preferred_parent = NULL =>
                        t.dis_timer = Join!rpl_timers_schedule_periodic_dis(node.dis_timer)
<1>1. PICK cost \in Costs(node) :
         Step(rpl_dag_update_state(
                SolicitIfAlone(IF node.used THEN rpl_dag_periodic(node, cost) ELSE node), cost))
  BY DEF handle_periodic_timer
<1> DEFINE x == IF node.used THEN rpl_dag_periodic(node, cost) ELSE node
           y == SolicitIfAlone(x)
           t == rpl_dag_update_state(y, cost)
<1>2. cost \in Orders /\ Step(t)
  BY <1>1, CostsAreOrders
<1>3. /\ Keeps(node, x)
      /\ UpdateMoves(node, x) \/ x.state = "POISONING"
      /\ node.preferred_parent = NULL => x.dis_timer = node.dis_timer /\ x.preferred_parent = NULL
  BY <1>2, DagPeriodic, Same
<1> HIDE DEF x
<1>4. Good(x)
  BY <1>3 DEF Keeps
<1>5. /\ Keeps(x, y) /\ y.state = x.state /\ y.preferred_parent = x.preferred_parent
      /\ x.preferred_parent = NULL =>
            y.dis_timer = Join!rpl_timers_schedule_periodic_dis(x.dis_timer)
  BY <1>4, ScheduleDisKeeps, Same, NoParentIsNone DEF SolicitIfAlone
<1> HIDE DEF y
<1>6. Good(y)
  BY <1>5 DEF Keeps
<1>7. /\ Keeps(y, t) /\ UpdateMoves(y, t)
      /\ y.preferred_parent = NULL => t.dis_timer = y.dis_timer
  BY <1>2, <1>6, Update DEF UpdateMoves
<1> HIDE DEF t
<1>8. Keeps(node, y)
  BY <1>3, <1>5, KeepsTwice
<1>9. Keeps(node, t)
  BY <1>7, <1>8, KeepsTwice
<1>10. t.state = "REACHABLE" => node.state = "REACHABLE"
  BY <1>3, <1>5, <1>7 DEF UpdateMoves
<1>11. node \in NodeType /\ t \in NodeType /\ t.used = node.used
  BY <1>9 DEF Keeps, Good
<1>12. Goes(node, t)
  BY <1>10, <1>11, Going
<1>13. (Dag(t) = "REACHABLE" \/ Dag(t) = "OUT") => Dag(t) = Dag(node)
  BY <1>10, <1>11 DEF Dag, NodeType, DagState
<1> QED
  BY <1>2, <1>3, <1>5, <1>7, <1>9, <1>12, <1>13 DEF Keeps

\* A DIO.
LEMMA DioInputStep ==
    ASSUME Good(node), conf \in Confs, DioInput
    PROVE  \E t : \E newer \in BOOLEAN :
              /\ node' = t /\ repairing' = ((newer \/ repairing) /\ t.used /\ t.preferred_parent = NULL)
              /\ left' = ((left \cup IF newer THEN {node.preferred_parent} ELSE {}) \cap t.defrt)
                         \ {t.preferred_parent}
              /\ UNCHANGED conf
              /\ Good(t)
              /\ ~newer /\ node.used => Handles(node, t)
              /\ ~newer => /\ RoutesKept(node, t)
                           /\ Leaves(node) => Leaves(t)
              /\ ~node.used => /\ ~newer /\ Leaves(t) /\ t.dis_timer = node.dis_timer
                               /\ t.state \in {"INITIALIZED", "JOINED"}
              /\ newer => /\ DisKept(node, t) /\ Goes(node, t)
                          /\ t.defrt \ {t.preferred_parent} \subseteq node.defrt
                          /\ Fits => Routed(t)
<1>0. PICK n \in conf.near : \E d \in Dios(n), q \in HeardLink(node.link[n]) :
         LET s == [node EXCEPT !.link[n] = q]
             new == d.version = "newer"
         IN  /\ \E cost \in CostsWithDio(s, n, d) : node' = rpl_process_dio(s, n, d, cost)
             /\ repairing' = ((new \/ repairing) /\ node'.used /\ node'.preferred_parent = NULL)
             /\ left' = ((left \cup IF new THEN {node.preferred_parent} ELSE {}) \cap node'.defrt)
                        \ {node'.preferred_parent}
             /\ UNCHANGED conf
  BY DEF DioInput
<1>1. PICK d \in Dios(n), q \in HeardLink(node.link[n]) :
         LET s == [node EXCEPT !.link[n] = q]
             new == d.version = "newer"
         IN  /\ \E cost \in CostsWithDio(s, n, d) : node' = rpl_process_dio(s, n, d, cost)
             /\ repairing' = ((new \/ repairing) /\ node'.used /\ node'.preferred_parent = NULL)
             /\ left' = ((left \cup IF new THEN {node.preferred_parent} ELSE {}) \cap node'.defrt)
                        \ {node'.preferred_parent}
             /\ UNCHANGED conf
  BY <1>0
<1> DEFINE s == [node EXCEPT !.link[n] = q]
           new == d.version = "newer"
<1>2. PICK cost \in CostsWithDio(s, n, d) : node' = rpl_process_dio(s, n, d, cost)
  BY <1>1
<1> DEFINE t == rpl_process_dio(s, n, d, cost)
<1>3. /\ node' = t /\ repairing' = ((new \/ repairing) /\ t.used /\ t.preferred_parent = NULL)
      /\ left' = ((left \cup IF new THEN {node.preferred_parent} ELSE {}) \cap t.defrt)
                 \ {t.preferred_parent}
      /\ UNCHANGED conf
  BY <1>1, <1>2
<1>4. n \in Nbr /\ conf.ranks \subseteq AdvRank
  BY RplAssumption DEF ConfType
<1>5. /\ d.version \in {"older", "same", "newer"} /\ (d.version # "same" => node.used)
      /\ d.rank \in AdvRank \cup {RPL_INFINITE_RANK}
  BY <1>4 DEF Dios
<1>16. d.config \in DioConfig
  <2>1. conf.dios \subseteq DioConfig
    BY RplAssumption DEF ConfType
  <2>2. [valid |-> TRUE, downward |-> node.downward, infinite |-> node.infinite] \in DioConfig
    BY DEF Good, NodeType, DioConfig
  <2> QED
    BY <2>1, <2>2 DEF Dios
<1>6. q \in Link
  BY <1>4 DEF HeardLink, Link, Good, NodeType
<1>7. cost \in Orders
  BY <1>5, CostsAreOrders
<1>8. /\ Keeps(node, s) /\ s.state = node.state /\ s.defrt = node.defrt
      /\ s.preferred_parent = node.preferred_parent /\ s.dis_timer = node.dis_timer
  BY <1>4, <1>6, LinkChange
<1> HIDE DEF s
<1>9. Good(s) /\ s.used = node.used
  BY <1>8 DEF Keeps
<1>10. /\ Good(t)
       /\ s.used /\ d.version # "newer" => Keeps(s, t) /\ UpdateMoves(s, t)
       /\ ~s.used => /\ Leaves(t) /\ RoutesKept(s, t) /\ t.dis_timer = s.dis_timer
                     /\ t.state \in {"INITIALIZED", "JOINED"}
       /\ d.version = "newer" => /\ DisKept(s, t) /\ t.state \in {"INITIALIZED", "JOINED"}
                                 /\ t.defrt \ {t.preferred_parent} \subseteq s.defrt
                                 /\ Fits => Routed(t)
                                 /\ t.used => s.used
  BY <1>4, <1>5, <1>7, <1>9, <1>16, ProcessDio
<1> HIDE DEF t
<1>11. ASSUME ~new, node.used
       PROVE  Handles(node, t) /\ RoutesKept(node, t) /\ (Leaves(node) => Leaves(t))
  <2>1. Keeps(s, t) /\ UpdateMoves(node, t)
    BY <1>8, <1>9, <1>10, <1>11 DEF UpdateMoves
  <2>2. Keeps(node, t)
    BY <1>8, <2>1, KeepsTwice
  <2> QED
    BY <2>1, <2>2, KeepsHandles DEF Keeps
<1>12. ASSUME ~node.used
       PROVE  /\ ~new /\ Leaves(t) /\ t.dis_timer = node.dis_timer
              /\ t.state \in {"INITIALIZED", "JOINED"} /\ RoutesKept(node, t)
  BY <1>5, <1>8, <1>9, <1>10, <1>12 DEF RoutesKept, Routed
<1>13. ASSUME new
       PROVE  /\ DisKept(node, t) /\ Goes(node, t)
              /\ t.defrt \ {t.preferred_parent} \subseteq node.defrt
              /\ Fits => Routed(t)
  <2>1. /\ node \in NodeType /\ t \in NodeType /\ t.state # "REACHABLE"
        /\ ~t.used \/ t.used = node.used
    BY <1>5, <1>9, <1>10, <1>13 DEF Good, NodeType
  <2>2. Goes(node, t)
    BY <2>1, Going
  <2> QED
    BY <1>8, <1>10, <1>13, <2>2 DEF DisKept
<1>14. new \in BOOLEAN
  OBVIOUS
<1> HIDE DEF new
<1>15. /\ ~new /\ node.used => Handles(node, t)
       /\ ~new => RoutesKept(node, t) /\ (Leaves(node) => Leaves(t))
  BY <1>11, <1>12
<1> QED
  BY <1>3, <1>10, <1>12, <1>13, <1>14, <1>15

-----------------------------------------------------------------------------
(* The invariant.                                                          *)

NodeInv ==
    /\ Good(node) /\ conf \in Confs
    /\ repairing \in BOOLEAN /\ (repairing \/ Leaves(node))
    /\ left = node.defrt \ {node.preferred_parent}
    /\ Fits => Routed(node)

\* A boot.
LEMMA NodeInit == Init => NodeInv
<1> SUFFICES ASSUME Init PROVE NodeInv
  OBVIOUS
<1>1. node = Cleared /\ repairing = FALSE /\ left = {} /\ conf \in Confs
  BY DEF Init
<1>2. node \in NodeType
  <2> DEFINE absent == [n \in Nbr |-> Absent]
             bad == [n \in Nbr |-> "bad"]
  <2>1. /\ absent \in [Nbr -> AdvRank \cup {Absent, RPL_INFINITE_RANK}]
        /\ bad \in [Nbr -> Link] /\ {"on", "off"} \subseteq CtimerState
        /\ "INITIALIZED" \in DagState /\ 0 \in 0 .. MaxRtx /\ 0 \in 0 .. MaxLife
        /\ RPL_INFINITE_RANK \in Rank
    BY Bounds DEF Link, CtimerState
  <2> HIDE DEF absent, bad
  <2>2. Cleared = [used |-> FALSE, dis_timer |-> "on", rankOf |-> absent,
            link |-> bad, defrt |-> {}, state_update |-> FALSE,
            leave |-> "off", dio_timer |-> FALSE,
            dao_timer |-> FALSE, probing_timer |-> FALSE, state |-> "INITIALIZED",
            preferred_parent |-> NULL, rank |-> RPL_INFINITE_RANK,
            lowest_rank |-> RPL_INFINITE_RANK, lifetime |-> 0,
            downward |-> FALSE, infinite |-> FALSE,
            urgent_probing_target |-> NULL,
            daoNew |-> FALSE, daoAcked |-> TRUE, daoSent |-> FALSE, daoTx |-> 0,
            sentNext |-> FALSE, ackedNext |-> FALSE]
    BY DEF Cleared, absent, bad
  <2> QED
    BY <1>1, <2>1, <2>2 DEF NodeType
<1>3. /\ ~node.used /\ node.preferred_parent = NULL /\ node.urgent_probing_target = NULL
      /\ ~node.dao_timer /\ ~node.probing_timer /\ node.leave = "off" /\ node.defrt = {}
  BY <1>1 DEF Cleared
<1>4. Good(node) /\ Leaves(node) /\ Routed(node)
  BY <1>2, <1>3 DEF Good, Linked, Probes, Announces, Advertises, Ranked, Matched, Out, Leaves,
                    Routed
<1> QED
  BY <1>1, <1>3, <1>4 DEF NodeInv

\* Good speaks of conf, which does not change.
LEMMA GoodNext ==
    ASSUME NEW t, node' = t, conf' = conf, Good(t)
    PROVE  Good(node)'
BY DEF Good, Linked, Probes, Announces, Announced, Resting, Advertises, Ranked, Matched, Out,
       InTable

\* The history variables follow.
LEMMA StepKeepsInv ==
    ASSUME NodeInv, NEW t, Step(t), Good(t), Leaves(node) => Leaves(t), RoutesKept(node, t)
    PROVE  NodeInv'
<1>1. /\ node' = t /\ conf' = conf
      /\ repairing' = (repairing /\ t.used /\ t.preferred_parent = NULL)
      /\ left' = (left \cap t.defrt) \ {t.preferred_parent}
  BY DEF Step
<1>2. Good(node)' /\ conf' \in Confs
  BY <1>1, GoodNext DEF NodeInv
<1>3. repairing' \in BOOLEAN /\ (repairing' \/ Leaves(node)')
  BY <1>1 DEF NodeInv, Leaves
<1>4. left' = t.defrt \ {t.preferred_parent}
  BY <1>1 DEF NodeInv, RoutesKept
<1>5. Fits => Routed(t)
  BY DEF NodeInv, RoutesKept
<1> QED
  BY <1>1, <1>2, <1>3, <1>4, <1>5 DEF NodeInv, Routed, Fits

\* A good node is what RplJoin says of its state.
LEMMA JoinMove ==
    ASSUME NEW t, node' = t, Good(t), t.defrt \ {t.preferred_parent} \subseteq node.defrt
    PROVE  Join!MoveTo(Dag(t))
<1>1. t.defrt \subseteq Nbr /\ NULL \notin Nbr
  BY Bounds DEF Good, NodeType
<1>2. t.state \in {"INITIALIZED", "JOINED", "REACHABLE", "POISONING"}
  BY DEF Good, NodeType, DagState
<1>3. (IF node'.used THEN node'.state ELSE "OUT") = Dag(t)
  BY DEF Dag
<1>4. Dag(t) # "POISONING" => (t.preferred_parent # NULL <=> Dag(t) \in {"JOINED", "REACHABLE"})
  BY <1>2 DEF Dag, Good, Matched, Out
<1>5. node'.defrt # {} => node.defrt # {} \/ node'.preferred_parent # NULL
  BY <1>1
<1> QED
  BY <1>3, <1>4, <1>5, Zenon DEF Join!MoveTo

LEMMA HandlesJoins ==
    ASSUME NEW t, node' = t, Handles(node, t)
    PROVE  Join!Handle
<1>1. Join!MoveTo(Dag(t))
  BY JoinMove DEF Handles, RoutesKept
<1>2. Dag(t) \in {Dag(node)} \cup Join!Moves[Dag(node)]
  BY DEF Handles, Goes
<1>3. node'.dis_timer \in {node.dis_timer, Join!rpl_timers_schedule_periodic_dis(node.dis_timer)}
  BY DEF Handles, DisKept
<1> QED
  BY <1>1, <1>2, <1>3 DEF Join!Handle, Dag

LEMMA DioInputKeeps ==
    ASSUME NodeInv, DioInput
    PROVE  NodeInv' /\ Join!rpl_process_dio
<1>1. PICK t : \E newer \in BOOLEAN :
         /\ node' = t /\ repairing' = ((newer \/ repairing) /\ t.used /\ t.preferred_parent = NULL)
         /\ left' = ((left \cup IF newer THEN {node.preferred_parent} ELSE {}) \cap t.defrt)
                    \ {t.preferred_parent}
         /\ UNCHANGED conf
         /\ Good(t)
         /\ ~newer /\ node.used => Handles(node, t)
         /\ ~newer => /\ RoutesKept(node, t)
                      /\ Leaves(node) => Leaves(t)
         /\ ~node.used => /\ ~newer /\ Leaves(t) /\ t.dis_timer = node.dis_timer
                          /\ t.state \in {"INITIALIZED", "JOINED"}
         /\ newer => /\ DisKept(node, t) /\ Goes(node, t)
                     /\ t.defrt \ {t.preferred_parent} \subseteq node.defrt
                     /\ Fits => Routed(t)
  BY DioInputStep DEF NodeInv
<1>2. PICK newer \in BOOLEAN :
         /\ node' = t /\ repairing' = ((newer \/ repairing) /\ t.used /\ t.preferred_parent = NULL)
         /\ left' = ((left \cup IF newer THEN {node.preferred_parent} ELSE {}) \cap t.defrt)
                    \ {t.preferred_parent}
         /\ UNCHANGED conf
         /\ Good(t)
         /\ ~newer /\ node.used => Handles(node, t)
         /\ ~newer => /\ RoutesKept(node, t)
                      /\ Leaves(node) => Leaves(t)
         /\ ~node.used => /\ ~newer /\ Leaves(t) /\ t.dis_timer = node.dis_timer
                          /\ t.state \in {"INITIALIZED", "JOINED"}
         /\ newer => /\ DisKept(node, t) /\ Goes(node, t)
                     /\ t.defrt \ {t.preferred_parent} \subseteq node.defrt
                     /\ Fits => Routed(t)
  BY <1>1
<1>3. Good(node)' /\ conf' \in Confs
  BY <1>2, GoodNext DEF NodeInv
<1>4. repairing' \in BOOLEAN
  BY <1>2
<1>5. repairing' \/ Leaves(t)
  BY <1>2 DEF NodeInv, Leaves
<1>6. t.defrt \ {t.preferred_parent} \subseteq
         (IF newer THEN node.defrt ELSE node.defrt \ {node.preferred_parent})
  BY <1>2 DEF RoutesKept
<1>7. left' = t.defrt \ {t.preferred_parent}
  BY <1>2, <1>6 DEF NodeInv
<1>8. Fits => Routed(t)
  BY <1>2 DEF NodeInv, RoutesKept
<1>9. NodeInv'
  BY <1>2, <1>3, <1>4, <1>5, <1>7, <1>8 DEF NodeInv, Routed, Fits, Leaves
<1>10. Join!MoveTo(Dag(t))
  BY <1>2, <1>6, JoinMove
<1>11. CASE node.used /\ ~newer
  BY <1>2, <1>9, <1>11, HandlesJoins DEF Join!rpl_process_dio
<1>12. CASE node.used /\ newer
  <2>1. Dag(t) \in {Dag(node)} \cup Join!Moves[Dag(node)]
    BY <1>2, <1>12 DEF Goes
  <2>2. node'.dis_timer \in {node.dis_timer, Join!rpl_timers_schedule_periodic_dis(node.dis_timer)}
    BY <1>2, <1>12 DEF DisKept
  <2> QED
    BY <1>9, <1>10, <2>1, <2>2 DEF Join!rpl_process_dio, Join!Handle, Dag
<1>13. CASE ~node.used
  <2>1. Dag(t) \in {"OUT", "INITIALIZED", "JOINED"} /\ node'.dis_timer = node.dis_timer
    BY <1>2, <1>13 DEF Dag
  <2> QED
    BY <1>9, <1>10, <1>13, <2>1 DEF Join!rpl_process_dio, Join!Handle, Dag
<1> QED
  BY <1>11, <1>12, <1>13

\* The handlers that RplJoin has as one.
HandleNext ==
    \/ DisInput \/ HbhInput \/ DaoAckInputNext \/ \E ok \in BOOLEAN : DaoAckInput(ok)
    \/ Links \/ Calls \/ DagTimers

LEMMA HandleKeeps ==
    ASSUME NodeInv, HandleNext
    PROVE  NodeInv' /\ Join!rpl_process_dio
<1>1. Good(node) /\ conf \in Confs
  BY DEF NodeInv
<1>2. \E t : Step(t) /\ Handles(node, t)
  BY <1>1, DisInputHandles, HbhInputHandles, DaoAckInputNextHandles, DaoAckInputHandles,
     LinkCallbackHandles, LinkAgesHandles, EvictHandles, PoisonHandles, LocalRepairActionHandles,
     StateUpdateHandles, DioTimerHandles, DaoTimerHandles, ProbingTimerHandles,
     LeaveExpiresHandles, LeavingTimerHandles
     DEF HandleNext, Links, Calls, DagTimers
<1>3. PICK t : Step(t) /\ Handles(node, t)
  BY <1>2
<1>4. NodeInv'
  BY <1>3, StepKeepsInv DEF Handles
<1>5. Join!Handle
  BY <1>3, HandlesJoins DEF Step
<1> QED
  BY <1>4, <1>5 DEF Join!rpl_process_dio

LEMMA DisKeeps ==
    ASSUME NodeInv, DisExpires \/ handle_dis_timer
    PROVE  NodeInv' /\ (Join!DisExpires \/ Join!DisSent \/ Join!DisIdle)
<1>0. Good(node)
  BY DEF NodeInv
<1>1. CASE DisExpires
  <2>1. PICK t : /\ Step(t) /\ Good(t) /\ (Leaves(node) => Leaves(t)) /\ RoutesKept(node, t)
                 /\ Dag(t) = Dag(node) /\ t.preferred_parent = node.preferred_parent
                 /\ t.defrt = node.defrt
                 /\ CanExpire(node.dis_timer) /\ t.dis_timer = Expired(node.dis_timer)
    BY <1>0, <1>1, DisExpiresStep
  <2>2. NodeInv'
    BY <2>1, StepKeepsInv
  <2>3. Join!DisExpires
    BY <2>1 DEF Step, Dag, Join!DisExpires, Join!CanExpire, Join!Expired, CanExpire, Expired
  <2> QED
    BY <2>2, <2>3
<1>2. CASE DisIdle
  <2>1. PICK t : /\ Step(t) /\ Good(t) /\ (Leaves(node) => Leaves(t)) /\ RoutesKept(node, t)
                 /\ Dag(t) = Dag(node) /\ t.preferred_parent = node.preferred_parent
                 /\ t.defrt = node.defrt
                 /\ HasEvent(node.dis_timer) /\ t.dis_timer = Handled(node.dis_timer)
                 /\ ~(HasCallback(node.dis_timer) /\ node.preferred_parent = NULL)
    BY <1>0, <1>2, DisIdleStep
  <2>2. NodeInv'
    BY <2>1, StepKeepsInv
  <2>3. Join!DisIdle
    BY <2>1 DEF Step, Dag, Join!DisIdle, Join!HasEvent, Join!HasCallback, Join!Handled, HasEvent,
                HasCallback, Handled
  <2> QED
    BY <2>2, <2>3
<1>3. CASE DisSent
  <2>1. PICK t : /\ Step(t) /\ Good(t) /\ (Leaves(node) => Leaves(t)) /\ RoutesKept(node, t)
                 /\ \/ Dag(t) = Dag(node)
                    \/ Dag(node) = "INITIALIZED" /\ Dag(t) = "JOINED"
                 /\ HasCallback(node.dis_timer) /\ node.preferred_parent = NULL
                 /\ t.dis_timer = Join!rpl_timers_schedule_periodic_dis(Handled(node.dis_timer))
    BY <1>0, <1>3, DisSentStep
  <2>2. NodeInv'
    BY <2>1, StepKeepsInv
  <2>3. Join!MoveTo(Dag(t))
    BY <2>1, JoinMove DEF Step, RoutesKept
  <2>4. Dag(t) \in {Dag(node)} \cup (IF Dag(node) = "INITIALIZED" THEN {"JOINED"} ELSE {})
    BY <2>1
  <2>5. /\ Join!HasCallback(node.dis_timer)
        /\ node'.dis_timer = Join!rpl_timers_schedule_periodic_dis(Join!Handled(node.dis_timer))
    BY <2>1 DEF Step, Join!HasCallback, HasCallback, Join!Handled, Handled
  <2>6. Join!DisSent
    BY <2>1, <2>3, <2>4, <2>5 DEF Join!DisSent, Dag
  <2> QED
    BY <2>2, <2>6
<1> QED
  BY <1>1, <1>2, <1>3 DEF handle_dis_timer

LEMMA PeriodicKeeps ==
    ASSUME NodeInv, handle_periodic_timer
    PROVE  NodeInv' /\ Join!handle_periodic_timer
<1>1. PICK t : /\ Step(t) /\ Good(t) /\ (Leaves(node) => Leaves(t)) /\ RoutesKept(node, t)
               /\ Goes(node, t)
               /\ (Dag(t) = "REACHABLE" \/ Dag(t) = "OUT") => Dag(t) = Dag(node)
               /\ DisKept(node, t)
               /\ node.preferred_parent = NULL =>
                     t.dis_timer = Join!rpl_timers_schedule_periodic_dis(node.dis_timer)
  BY PeriodicTimerStep DEF NodeInv
<1>2. NodeInv'
  BY <1>1, StepKeepsInv
<1>3. Join!MoveTo(Dag(t))
  BY <1>1, JoinMove DEF Step, RoutesKept
<1>4. Dag(t) \in {Dag(node)} \cup (Join!Moves[Dag(node)] \ {"REACHABLE", "OUT"})
  BY <1>1 DEF Goes
<1>5. node'.dis_timer \in {Join!rpl_timers_schedule_periodic_dis(node.dis_timer)}
                          \cup (IF node.preferred_parent # NULL THEN {node.dis_timer} ELSE {})
  BY <1>1 DEF Step, DisKept
<1> QED
  BY <1>2, <1>3, <1>4, <1>5 DEF Join!handle_periodic_timer, Dag

\* Every step keeps the invariant and is one of RplJoin.
LEMMA NodeNext == NodeInv /\ [Next]_vars => NodeInv' /\ [Join!JoinNext]_(Join!joinVars)
<1> SUFFICES ASSUME NodeInv, [Next]_vars
             PROVE  NodeInv' /\ [Join!JoinNext]_(Join!joinVars)
  OBVIOUS
<1>1. CASE DioInput
  BY <1>1, DioInputKeeps DEF Join!JoinNext
<1>2. CASE HandleNext
  BY <1>2, HandleKeeps DEF Join!JoinNext
<1>3. CASE DisExpires \/ handle_dis_timer
  BY <1>3, DisKeeps DEF Join!JoinNext
<1>4. CASE handle_periodic_timer
  BY <1>4, PeriodicKeeps DEF Join!JoinNext
<1>5. CASE UNCHANGED vars
  <2>1. node' = node /\ repairing' = repairing /\ left' = left /\ conf' = conf
    BY <1>5 DEF vars
  <2>2. Good(node)'
    BY <2>1, GoodNext DEF NodeInv
  <2>3. NodeInv'
    BY <2>1, <2>2 DEF NodeInv, Leaves, Routed, Fits
  <2> QED
    BY <2>1, <2>3 DEF Join!joinVars
<1> QED
  BY <1>1, <1>2, <1>3, <1>4, <1>5 DEF Next, Input, HandleNext

LEMMA NodeInvariant == Spec => []NodeInv
BY NodeInit, NodeNext, PTL DEF Spec

-----------------------------------------------------------------------------
(* The theorems.                                                           *)

\* The types of the node at all times; in particular no DAO is transmitted more than
\* RPL_DAO_MAX_RETRANSMISSIONS times, whatever repairs and parent switches come between.
THEOREM RplTypeCorrect == Spec => []TypeOK
<1>1. NodeInv => TypeOK
  BY DEF NodeInv, Good, TypeOK, NodeType
<1> QED
  BY <1>1, NodeInvariant, PTL

\* The preferred parent and the urgent probing target are always in the neighbour table,
\* also after evictions, repairs and a change of the parent in the middle of a handler.
THEOREM RplNoDanglingNeighbor == Spec => []NoDanglingNeighbor
<1>1. NodeInv => NoDanglingNeighbor
  BY DEF NodeInv, Good, Linked, NoDanglingNeighbor
<1> QED
  BY <1>1, NodeInvariant, PTL

\* A neighbour that rpl_neighbor_select_best wants probed urgently is probed: the probing
\* timer is pending.
THEOREM RplProbingComes == Spec => []ProbingComes
<1>1. NodeInv => ProbingComes
  BY DEF NodeInv, Good, Probes, ProbingComes
<1> QED
  BY <1>1, NodeInvariant, PTL

\* No order of acknowledgements, retransmissions, repairs and parent switches leaves a node
\* with a parent and without a DAO timer, unless the DAG has no downward routes, or they do
\* not expire and the last DAO is out, and acknowledged where that is asked for.
THEOREM RplDaoTimerRuns == Spec => []DaoTimerRuns
<1>1. NodeInv => DaoTimerRuns
  BY DEF NodeInv, Good, Announces, Announced, Resting, DaoTimerRuns
<1> QED
  BY <1>1, NodeInvariant, PTL

\* A router that is reachable has its trickle timer pending, and so has every router of a
\* DAG without downward routes.
THEOREM RplAdvertisingTimerRuns == Spec => []AdvertisingTimerRuns
<1>1. NodeInv => AdvertisingTimerRuns
  BY DEF NodeInv, Good, Advertises, AdvertisingTimerRuns
<1> QED
  BY <1>1, NodeInvariant, PTL

\* A node without a parent leaves the DAG some day, but for one that a global repair has
\* left without a parent.
THEOREM RplLeavePending == Spec => []LeavePending
<1>1. NodeInv => LeavePending
  BY DEF NodeInv, Leaves, Pending, LeavePending
<1> QED
  BY <1>1, NodeInvariant, PTL

\* If the list of default routers has room for all neighbours, the default routes are the
\* preferred parent and what global repairs have left behind.
THEOREM RplDefaultRoute ==
    ASSUME Cardinality(Nbr) <= DefrtNb
    PROVE  Spec => []DefaultRouteIsParent
<1>1. NodeInv => DefaultRouteIsParent
  BY Bounds DEF NodeInv, Good, NodeType, Routed, Fits, DefaultRouteIsParent
<1> QED
  BY <1>1, NodeInvariant, PTL

\* Whatever the room, every default route is the parent's or one that a global repair has
\* left behind: a switch of the parent leaves none.
THEOREM RplNoOtherRoute == Spec => [](node.defrt \ {node.preferred_parent} = left)
<1>1. NodeInv => node.defrt \ {node.preferred_parent} = left
  BY DEF NodeInv
<1> QED
  BY <1>1, NodeInvariant, PTL

\* Every handler of RPL-lite, from the DIO to the expiration of its timers, is one move of
\* RplJoin, on which the application of the leaf is built.
THEOREM RplImplementsJoin == Spec => ImplementsJoin
<1>1. Init => Join!JoinInit
  BY DEF Init, Cleared, Join!JoinInit
<1>2. NodeInv /\ [Next]_vars => [Join!JoinNext]_(Join!joinVars)
  BY NodeNext
<1> QED
  BY <1>1, <1>2, NodeInvariant, PTL DEF Spec, ImplementsJoin, Join!JoinSpec
=============================================================================
