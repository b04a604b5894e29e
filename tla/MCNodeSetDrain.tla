--------------------------- MODULE MCNodeSetDrain ---------------------------
(* Instances of NodeSetDrain for TLC. *)
EXTENDS NodeSetDrain, TLC

CONSTANTS p1, p2

OnePod == {p1}
TwoPods == {p1, p2}
PodSymmetry == Permutations(TwoPods)
=============================================================================
