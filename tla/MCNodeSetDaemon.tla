--------------------------- MODULE MCNodeSetDaemon ---------------------------
(* Instances of NodeSetDaemon for TLC. *)
EXTENDS NodeSetDaemon

CONSTANTS n1, n2

OneNode == {n1}
TwoNodes == {n1, n2}

FromDaemonSet == {"DaemonSet"}
FromStatefulSet == {"StatefulSet"}
=============================================================================
