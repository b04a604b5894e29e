--------------------------- MODULE MCPodSelection ---------------------------
(***************************************************************************)
(* Checks PodSelection on every list of up to MaxPods pods with distinct   *)
(* names.  A behaviour builds the list the informer cache returns one pod  *)
(* at a time, in any order, and starts over.  Its scene says which         *)
(* attributes of the pods vary.                                            *)
(***************************************************************************)
EXTENDS PodSelection

CONSTANTS MaxPods,         \* longest list
          MaxUnavailable   \* spec.updateStrategy.rollingUpdate.maxUnavailable

ASSUME BoundsAssumption == MaxPods \in Nat \ {0} /\ MaxUnavailable \in Nat \ {0}

VARIABLES scene, pods

vars == <<scene, pods>>

-----------------------------------------------------------------------------
(* Universes *)

Pod(name, attrs) ==
    [name |-> name, assigned |-> attrs.phase # "Pending", phase |-> attrs.phase,
     ready |-> attrs.ready, term |-> attrs.term, cost |-> attrs.cost,
     deadline |-> attrs.deadline, cordon |-> attrs.cordon,
     ordinal |-> attrs.ordinal, readyTime |-> attrs.created,
     created |-> attrs.created, updated |-> attrs.updated]

Attrs(phaseReady, term, cost, deadline, cordon, created, updated) ==
    { [phase |-> pr[1], ready |-> pr[2], term |-> t, cost |-> c,
       deadline |-> d, cordon |-> k, created |-> ct, updated |-> u] :
        pr \in phaseReady, t \in term, c \in cost, d \in deadline,
        k \in cordon, ct \in created, u \in updated }

WithOrdinal(attrs, ordinal) ==
    [phase |-> attrs.phase, ready |-> attrs.ready, term |-> attrs.term,
     cost |-> attrs.cost, deadline |-> attrs.deadline, cordon |-> attrs.cordon,
     created |-> attrs.created, updated |-> attrs.updated, ordinal |-> ordinal]

(* StatefulSet mode: three ordinals, every criterion up to the ordinal. *)
RankUniverse ==
    { Pod(n, WithOrdinal(a, n)) : n \in 0..2,
        a \in Attrs({<<"Pending", FALSE>>, <<"Running", FALSE>>, <<"Running", TRUE>>},
                    {FALSE}, {0, 1}, {0, 1}, BOOLEAN, {1}, {TRUE}) }

(* DaemonSet mode: names end in a random suffix, so the ordinal is -1 and
   ready and creation times break the ties. *)
DaemonUniverse ==
    { Pod(n, WithOrdinal(a, -1)) : n \in 0..2,
        a \in Attrs({<<"Running", FALSE>>, <<"Running", TRUE>>,
                     <<"Failed", FALSE>>, <<"Succeeded", FALSE>>},
                    BOOLEAN, {0}, {0}, {FALSE}, {1, 2}, {TRUE}) }

(* Pods in the middle of a template change. *)
RolloutUniverse ==
    { Pod(n, WithOrdinal(a, n)) : n \in 0..2,
        a \in Attrs({<<"Running", FALSE>>, <<"Running", TRUE>>},
                    BOOLEAN, {0}, {0}, BOOLEAN, {1, 2}, BOOLEAN) }

-----------------------------------------------------------------------------
(* Specification *)

Universe == [rank |-> RankUniverse, daemon |-> DaemonUniverse,
             rollout |-> RolloutUniverse]

Init == scene \in DOMAIN Universe /\ pods = <<>>

AddPod(pod) ==
    /\ Len(pods) < MaxPods
    /\ \A i \in DOMAIN pods : pods[i].name # pod.name
    /\ pods' = Append(pods, pod)
    /\ UNCHANGED scene

StartOver == Len(pods) = MaxPods /\ pods' = <<>> /\ UNCHANGED scene

Next == StartOver \/ \E pod \in Universe[scene] : AddPod(pod)

Spec == Init /\ [][Next]_vars

-----------------------------------------------------------------------------
(* Reference definitions *)

Elements(list) == { list[i] : i \in DOMAIN list }
Orders(list) == { [i \in DOMAIN list |-> list[f[i]]] :
                    f \in { g \in [DOMAIN list -> DOMAIN list] :
                              \A i, j \in DOMAIN list : i # j => g[i] # g[j] } }
Cordoned(list) == { p \in Elements(list) : p.cordon }
Cordon(list, S) ==
    [i \in DOMAIN list |-> [list[i] EXCEPT !.cordon = @ \/ list[i] \in S]]
Names(list) == { p.name : p \in Elements(list) }

-----------------------------------------------------------------------------
(* Properties *)

(* The comparator handed to sort.Sort is a strict total order on pods with
   different ordinals as long as at most one of them is cordoned: with two
   cordoned pods Less answers TRUE both ways and the sort's contract is
   void. *)
LessIsStrictOrder ==
    Cardinality(Cordoned(pods)) <= 1 =>
      /\ \A p, q \in Elements(pods) :
           p # q /\ p.ordinal # q.ordinal => (Less(p, q) <=> ~Less(q, p))
      /\ \A p, q, r \in Elements(pods) :
           p # q /\ Less(p, q) /\ Less(q, r) => Less(p, r)

(* SplitActivePods selects the requested number of pods, clamped to the list,
   loses and duplicates none, and never selects a pod while keeping one that
   the comparator prefers for deletion. *)
SplitTakesMostDeletable ==
    Cardinality(Cordoned(pods)) <= 1 =>
      \A partition \in -1..(MaxPods + 1) :
        LET split == SplitActivePods(pods, partition)
        IN  /\ Len(split.pods1) = Max({0, Min({partition, Len(pods)})})
            /\ Elements(split.pods1) \union Elements(split.pods2) = Elements(pods)
            /\ Len(split.pods1) + Len(split.pods2) = Len(pods)
            /\ \A d \in Elements(split.pods1), k \in Elements(split.pods2) :
                 ~Less(k, d)

(* Scale-in takes several passes: the selected pods are cordoned and drained
   first, and the selection is computed again from scratch, over a list in
   any order, until they are drained.  It selects the same pods again, so a
   pod that is being drained is not put back to work and another one drained
   in its place. *)
SelectionIsSticky ==
    Cordoned(pods) = {} =>
      \A partition \in 1..Len(pods) :
        LET chosen == Elements(SplitActivePods(pods, partition).pods1)
        IN  \A again \in Orders(Cordon(pods, chosen)) :
              Names(SplitActivePods(again, partition).pods1)
                = { p.name : p \in chosen }

(* DaemonSet clean-up never leaves a node without its running pod, never
   leaves it with two, and leaves nothing on a node that must not run one. *)
OneDaemonPodSurvives ==
    \A shouldContinueRunning, inBackoff \in BOOLEAN :
      LET daemonPods == getNodesToDaemonPods(pods)
          plan == podsShouldBeOnNode(shouldContinueRunning, shouldContinueRunning,
                                     daemonPods, inBackoff)
          active == { p \in Elements(daemonPods) :
                        ~p.term /\ ~IsFailed(p) /\ ~IsSucceeded(p) }
          left == active \ Elements(plan.podsToDelete)
      IN  /\ Cardinality(left) =
               IF shouldContinueRunning THEN Min({1, Cardinality(active)}) ELSE 0
          /\ plan.needsPod => active = {}
          /\ \A p \in Elements(pods) :
               p.phase = "Succeeded" /\ ~p.term => p \in Elements(plan.podsToDelete)

(* A rolling-update pass deletes only live pods of an old revision, makes
   progress while there is one, and stays within maxUnavailable plus the
   pods that were unhealthy already. *)
RollingUpdateStep ==
    LET deleted == syncRollingUpdate(pods, MaxUnavailable)
        old == { p \in Elements(pods) : ~p.term /\ ~p.updated }
        unhealthyOld == { p \in old : ~IsHealthy(p) }
    IN  /\ Elements(deleted) \subseteq old
        /\ old # {} => deleted # <<>>
        /\ Len(deleted) = Cardinality(Elements(deleted))
        /\ Len(deleted) <= MaxUnavailable + Cardinality(unhealthyOld)

-----------------------------------------------------------------------------
(* A statement of a comment that the code contradicts *)

(* sort.go: "SplitUnhealthyPods returns lists of healthy and unhealthy pods." *)
UnhealthyPodsAreUnhealthy ==
    LET split == SplitUnhealthyPods(findUpdatedPods(pods).oldPods)
    IN  /\ \A p \in Elements(split.unhealthyPods) : ~IsHealthy(p)
        /\ \A p \in Elements(split.healthyPods) : IsHealthy(p)
=============================================================================
