------------------------ MODULE MCWorkloadProtection ------------------------
(* Two workers on two Kubernetes nodes, two job slots each. *)
EXTENDS WorkloadProtection

CONSTANTS p1, p2, n1, n2, rack

TwoPods == {p1, p2}
OnePod == {p1}
OneNode == {n1}
TwoNodes == {n1, n2}
JobEndTimes == 1..2
OneTopology == {rack}
=============================================================================
