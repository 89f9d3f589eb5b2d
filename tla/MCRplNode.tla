----------------------------- MODULE MCRplNode -----------------------------
(* RplNode for TLC: see MCRpl.cfg. *)
EXTENDS RplNode, TLC

NbrSymmetry == Permutations(Nbr)

Conf(leaf, ack, S, delays, repairs, ranks, dios) ==
    [LeafOnly |-> leaf, DaoAck |-> ack, near |-> S, Delays |-> delays, Repairs |-> repairs,
     ranks |-> ranks, dios |-> dios]

Dio(valid, downward, infinite) == [valid |-> valid, downward |-> downward, infinite |-> infinite]
Usual == Dio(TRUE, TRUE, FALSE)
AllDios == {Usual, Dio(TRUE, TRUE, TRUE), Dio(TRUE, FALSE, FALSE), Dio(FALSE, FALSE, FALSE)}

\* Routers that switch between parents: with acknowledged DAOs, with global repairs.
AckedRouter == Conf(FALSE, TRUE, Nbr, FALSE, FALSE, {1}, {Usual})
RepairedRouter == Conf(FALSE, FALSE, Nbr, FALSE, TRUE, {1}, {Usual})

\* A router with one neighbour in range, which advertises the rank of a root, and a rank
\* that is more than MaxRankInc above the node's lowest one.  The DAG has downward routes
\* that expire, that do not, or none, and changes when it is repaired.
Router == {Conf(FALSE, TRUE, {n}, FALSE, TRUE, {1, 4}, AllDios) : n \in Nbr}

\* A leaf with one neighbour in range, as in examples/ZD-HM100.
Leaf == {Conf(TRUE, FALSE, {n}, TRUE, TRUE, {1}, AllDios) : n \in Nbr}

AllNodes == {AckedRouter, RepairedRouter} \cup Router \cup Leaf
=============================================================================
