--------------------------- MODULE MCNodeSetScale ---------------------------
(* Instances of NodeSetScale for TLC. *)
EXTENDS NodeSetScale

(* Errors after which expectations are left over or were never due, events  *)
(* that never reach the handler, restarts, and the expiry of expectations.  *)
Leaks == {"scale", "pvc", "uncordon", "delete", "namespace", "relist", "restart", "expire"}
=============================================================================
