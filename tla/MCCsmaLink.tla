----------------------------- MODULE MCCsmaLink -----------------------------
\* Small instances of CsmaLink.
EXTENDS CsmaLink, TLC

Symmetry == Permutations(Packet) \cup Permutations(Other)
=============================================================================
