----------------------------- MODULE Evacuation -----------------------------
(***************************************************************************)
(* What a NodeSet promises about the work on its Slurm nodes, whatever it   *)
(* does with the pods below them (docs/concepts/nodeset-controller.md: "A   *)
(* pod is never deleted until its Slurm node is fully drained, ensuring     *)
(* running jobs are not interrupted").  A pod serves, is emptied of its     *)
(* work, and only then stopped; once empty it gets no work without serving  *)
(* again.  covered says for which pods the promise is being made: it is an  *)
(* input, and changes as it likes.                                          *)
(***************************************************************************)
CONSTANT Pods

VARIABLES
    life,     \* "serving", "draining", "empty", "stopping" or "gone"
    covered   \* the pods that may only be stopped when empty

Init == life = [p \in Pods |-> "empty"]

Move(p, from, to) == life[p] = from /\ life' = [life EXCEPT ![p] = to]

Drain(p) == Move(p, "serving", "draining") \/ Move(p, "serving", "empty")

WorkEnds(p) == Move(p, "draining", "empty")

Serve(p) == Move(p, "draining", "serving") \/ Move(p, "empty", "serving")

(* Work is lost only with a pod that is not covered. *)
Stop(p) ==
    \/ Move(p, "empty", "stopping")
    \/ p \notin covered /\ (Move(p, "serving", "stopping") \/ Move(p, "draining", "stopping"))

Stopped(p) == Move(p, "stopping", "gone")

Create(p) == Move(p, "gone", "empty")

Next ==
    \E p \in Pods :
      Drain(p) \/ WorkEnds(p) \/ Serve(p) \/ Stop(p) \/ Stopped(p) \/ Create(p)

Safety == Init /\ [][Next]_life

(* A pod that is being stopped is gone in the end. *)
Spec == Safety /\ \A p \in Pods : WF_life(Stopped(p))
=============================================================================
