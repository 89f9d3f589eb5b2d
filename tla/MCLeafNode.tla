----------------------------- MODULE MCLeafNode -----------------------------
(* LeafNode for TLC: see the MCLeaf*.cfg files. *)
EXTENDS LeafNode
=============================================================================
