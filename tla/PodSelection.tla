---------------------------- MODULE PodSelection ----------------------------
(***************************************************************************)
(* How the NodeSet controller ranks and partitions pods: the comparators   *)
(* and splits of internal/controller/nodeset/utils/sort.go, and the pure   *)
(* planning functions of nodeset_sync.go that rest on them (rolling update *)
(* budget, DaemonSet clean-up, ordinal choice).                            *)
(*                                                                         *)
(* A pod is a record                                                       *)
(*   [name, assigned, phase, ready, term, cost, deadline, cordon, ordinal, *)
(*    readyTime, created, updated]                                         *)
(* with times as natural numbers and 0 the zero time, "assigned" standing  *)
(* for a non-empty Spec.NodeName, "term" for a set DeletionTimestamp and   *)
(* "updated" for a controller-revision-hash label equal to the update      *)
(* revision.  A missing or malformed annotation yields the zero value, as  *)
(* structutils.Get*FromAnnotations does.                                   *)
(***************************************************************************)
EXTENDS Integers, SequencesExt

-----------------------------------------------------------------------------
(* Predicates of podutils *)

IsFailed(pod) == pod.phase = "Failed"
IsSucceeded(pod) == pod.phase = "Succeeded"
IsTerminating(pod) == pod.term
IsHealthy(pod) == pod.phase = "Running" /\ pod.ready /\ ~pod.term

(* podutil.IsPodAvailable with minReadySeconds = 0 (Kubernetes library). *)
IsPodAvailable(pod) == pod.ready

Clamp(val, a, b) ==
    LET lower == Min({a, b})
        upper == Max({a, b})
    IN  Min({Max({val, lower}), upper})

-----------------------------------------------------------------------------
(* ActivePods.Less *)

(* A phase missing from the Go map podPhaseToWeight weighs 0. *)
podPhaseToWeight(pod) ==
    CASE pod.phase = "Unknown" -> 1
      [] pod.phase = "Running" -> 2
      [] OTHER -> 0

podReadyTime(pod) == IF pod.ready THEN pod.readyTime ELSE 0

afterOrZero(t1, t2) == IF t1 = 0 \/ t2 = 0 THEN t1 = 0 ELSE t1 > t2

(* Each criterion of Less: whether it tells the two pods apart and, if it
   does, whether it prefers pod1 for deletion.  Their order is the code's. *)
\* mutant: the cordoned pod is the one to spare
UncordonedCriterion(pod1, pod2) ==
    [decides |-> pod1.cordon # pod2.cordon, first |-> ~pod1.cordon]

CordonCriterion(pod1, pod2) ==
    [decides |-> pod1.cordon \/ pod2.cordon, first |-> pod1.cordon]

Criteria(pod1, pod2) ==
    << [decides |-> pod1.assigned # pod2.assigned, first |-> ~pod1.assigned],
       [decides |-> podPhaseToWeight(pod1) # podPhaseToWeight(pod2),
        first   |-> podPhaseToWeight(pod1) < podPhaseToWeight(pod2)],
       [decides |-> pod1.ready # pod2.ready, first |-> ~pod1.ready],
       [decides |-> pod1.cost # pod2.cost, first |-> pod1.cost < pod2.cost],
       [decides |-> pod1.deadline # pod2.deadline,
        first   |-> pod1.deadline < pod2.deadline],
       CordonCriterion(pod1, pod2),
       [decides |-> pod1.ordinal # pod2.ordinal,
        first   |-> pod1.ordinal > pod2.ordinal],
       [decides |-> /\ pod1.ready /\ pod2.ready
                    /\ podReadyTime(pod1) # podReadyTime(pod2),
        first   |-> afterOrZero(podReadyTime(pod1), podReadyTime(pod2))],
       [decides |-> pod1.created # pod2.created,
        first   |-> afterOrZero(pod1.created, pod2.created)] >>

\* mutant: a criterion that prefers pod2 does not end the comparison
LessByAnyCriterion(pod1, pod2) ==
    LET c == Criteria(pod1, pod2)
    IN  \E i \in DOMAIN c : c[i].decides /\ c[i].first

(* The first criterion that tells the pods apart decides. *)
Less(pod1, pod2) ==
    LET c == Criteria(pod1, pod2)
        deciding == { i \in DOMAIN c : c[i].decides }
    IN  deciding # {} /\ c[Min(deciding)].first

(* PodsByCreationTimestamp.Less *)
CreatedBefore(pod1, pod2) ==
    IF pod1.created = pod2.created
    THEN pod1.name < pod2.name
    ELSE pod1.created < pod2.created

(* sort.Sort on at most 12 elements is an insertion sort: an element moves
   left for as long as it is less than its left neighbour. *)
Sort(less(_, _), pods) ==
    LET InsertPod(sorted, pod) ==
          LET stop == Max({0} \union
                          { i \in DOMAIN sorted : ~less(pod, sorted[i]) })
          IN  SubSeq(sorted, 1, stop) \o <<pod>>
                \o SubSeq(sorted, stop + 1, Len(sorted))
    IN  FoldLeft(InsertPod, <<>>, pods)

(* A loop that appends the pods it accepts, those in S, to a new list. *)
Keep(pods, S) ==
    LET Accept(kept, pod) == IF pod \in S THEN Append(kept, pod) ELSE kept
    IN  FoldLeft(Accept, <<>>, pods)

-----------------------------------------------------------------------------
(* Partitions *)

\* mutant: the order is reversed
SplitReversed(pods, partition) ==
    LET pivot == Clamp(partition, 0, Len(pods))
        sorted == Sort(LAMBDA p, q : Less(q, p), pods)
    IN  [pods1 |-> SubSeq(sorted, 1, pivot),
         pods2 |-> SubSeq(sorted, pivot + 1, Len(sorted))]

SplitActivePods(pods, partition) ==
    LET pivot == Clamp(partition, 0, Len(pods))
        sorted == Sort(Less, pods)
    IN  [pods1 |-> SubSeq(sorted, 1, pivot),
         pods2 |-> SubSeq(sorted, pivot + 1, Len(sorted))]

SplitUnhealthyPods(pods) ==
    LET numUnhealthy == Cardinality({ i \in DOMAIN pods : ~IsHealthy(pods[i]) })
        sorted == Sort(CreatedBefore, pods)
    IN  [unhealthyPods |-> SubSeq(sorted, 1, numUnhealthy),
         healthyPods   |-> SubSeq(sorted, numUnhealthy + 1, Len(sorted))]

\* mutant: terminating pods are not skipped
findUpdatedAndTerminating(pods) ==
    [newPods |-> Keep(pods, { p \in Range(pods) : p.updated }),
     oldPods |-> Keep(pods, { p \in Range(pods) : ~p.updated })]

findUpdatedPods(pods) ==
    [newPods |-> Keep(pods, { p \in Range(pods) : ~IsTerminating(p) /\ p.updated }),
     oldPods |-> Keep(pods, { p \in Range(pods) : ~IsTerminating(p) /\ ~p.updated })]

(* The RollingUpdate branch; maxUnavailable is the value already scaled from
   the integer or percentage.  OnDelete returns two empty lists. *)
splitUpdatePods(pods, maxUnavailable) ==
    LET split == findUpdatedPods(pods)
        numUnavailable == Cardinality({ i \in DOMAIN split.newPods :
                                          ~IsPodAvailable(split.newPods[i]) })
        remainingUnavailable ==
          Clamp(maxUnavailable - numUnavailable, 0, maxUnavailable)
        old == SplitActivePods(split.oldPods, remainingUnavailable)
    IN  [podsToDelete |-> old.pods1, podsToKeep |-> split.newPods \o old.pods2]

(* The pods one pass of syncRollingUpdate hands to doPodScale for deletion. *)
syncRollingUpdate(pods, maxUnavailable) ==
    LET old == SplitUnhealthyPods(findUpdatedPods(pods).oldPods)
    IN  old.unhealthyPods
          \o splitUpdatePods(old.healthyPods, maxUnavailable).podsToDelete

-----------------------------------------------------------------------------
(* DaemonSet mode: what one node needs.  daemonPods are the pods that
   getNodesToDaemonPods groups under the node, inBackoff the answer of
   failedPodsBackoff for it. *)

getNodesToDaemonPods(pods) ==
    Keep(pods, { p \in Range(pods) : ~(IsTerminating(p) /\ (IsFailed(p) \/ IsSucceeded(p))) })

(* A failed pod is deleted unless the node is in backoff; deleting one puts
   the node in backoff, so a second failed pod waits for a later pass. *)
FailedPodToKill(failed, inBackoff) ==
    IF inBackoff \/ failed = <<>> THEN <<>> ELSE <<failed[1]>>

\* mutant: the first pod is not spared
AllDaemonPods(daemonPodsRunning) == Sort(Less, daemonPodsRunning)

(* At most one running pod per node: the first in deletion order stays. *)
SurplusDaemonPods(daemonPodsRunning) ==
    LET sorted == Sort(Less, daemonPodsRunning)
    IN  SubSeq(sorted, 2, Len(sorted))

podsShouldBeOnNode(shouldRun, shouldContinueRunning, daemonPods, inBackoff) ==
    LET alive == Keep(daemonPods, { p \in Range(daemonPods) : ~IsTerminating(p) })
        needsPod == shouldRun /\ daemonPods = <<>>
        failed == { p \in Range(alive) : IsFailed(p) }
        succeeded == { p \in Range(alive) : IsSucceeded(p) }
        running == Range(alive) \ (failed \union succeeded)
    IN  [needsPod |-> needsPod,
         podsToDelete |->
           IF needsPod THEN <<>>
           ELSE IF shouldContinueRunning
                THEN FailedPodToKill(Keep(alive, failed), inBackoff)
                       \o Keep(alive, succeeded)
                       \o SurplusDaemonPods(Keep(alive, running))
                ELSE alive]
=============================================================================
