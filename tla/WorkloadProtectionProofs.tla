---------------------- MODULE WorkloadProtectionProofs ----------------------
(***************************************************************************)
(* For every set of pods and nodes, any job slots and any number of        *)
(* changes and faults: WorkloadProtection is type correct, and no          *)
(* reconcile takes the pod-protect label from a pod that works and that    *)
(* the Slurm client has seen working.                                      *)
(***************************************************************************)
EXTENDS WorkloadProtection, FiniteSetTheorems, WellFoundedInduction, TLAPS

-----------------------------------------------------------------------------
(* Operators *)

(* Every set of numbers has a least one. *)
LEMMA LeastNumber ==
  ASSUME NEW S \in SUBSET Nat, S # {}
  PROVE  \E x \in S : \A y \in S : x <= y
<1> DEFINE R == OpToRel(<, Nat)
<1>1. IsWellFoundedOn(R, Nat)
  BY NatLessThanWellFounded
<1>2. \A x, y \in Nat : y < x => <<y, x>> \in R
  BY DEF OpToRel
<1> HIDE DEF R
<1>3. PICK x \in S : \A y \in S : ~(<<y, x>> \in R)
  BY <1>1, WFMin
<1>4. ASSUME NEW y \in S PROVE x <= y
  <2>1. x \in Nat /\ y \in Nat /\ ~(<<y, x>> \in R)
    BY <1>3
  <2>2. ~(y < x)
    BY <1>2, <2>1, Zenon
  <2> QED
    BY <2>1, <2>2
<1> QED
  BY <1>4

(* The latest end of some jobs is the end of one of them: it is the one with *)
(* the fewest ends after it.                                                 *)
LEMMA LatestEnd ==
  ASSUME NEW J \in SUBSET Ends, J # {}
  PROVE  Max(J) \in J
<1> DEFINE after(x) == { y \in J : y > x }
           S == { Cardinality(after(x)) : x \in J }
<1>1. J \subseteq Nat /\ IsFiniteSet(J)
  BY EndsAssumption, FS_Subset
<1>2. ASSUME NEW x \in J PROVE IsFiniteSet(after(x)) /\ Cardinality(after(x)) \in Nat
  BY <1>1, FS_Subset, FS_CardinalityType
<1>3. PICK m \in S : \A n \in S : m <= n
  <2>1. S \in SUBSET Nat /\ S # {}
    BY <1>2
  <2> HIDE DEF S
  <2> QED
    BY <2>1, LeastNumber
<1>4. PICK x \in J : m = Cardinality(after(x))
  OBVIOUS
<1>5. ASSUME NEW y \in J PROVE x >= y
  <2> SUFFICES ASSUME y > x PROVE FALSE
    BY <1>1
  <2>1. after(y) \subseteq after(x) /\ y \in after(x) /\ y \notin after(y)
    <3>1. x \in Nat /\ y \in Nat /\ \A z \in J : z \in Nat
      BY <1>1
    <3>2. ASSUME NEW z \in J, z > y PROVE z > x
      BY <3>1, <3>2
    <3>3. ~(y > y)
      BY <3>1
    <3> QED
      BY <3>2, <3>3
  <2>2. Cardinality(after(x)) <= Cardinality(after(y))
    BY <1>3, <1>4
  <2>3. /\ Cardinality(after(y)) <= Cardinality(after(x))
        /\ Cardinality(after(y)) = Cardinality(after(x)) => after(y) = after(x)
    <3> DEFINE A == after(x)  B == after(y)
    <3>1. IsFiniteSet(A) /\ B \in SUBSET A
      BY <1>2, <2>1
    <3> HIDE DEF A, B
    <3>2. Cardinality(B) <= Cardinality(A) /\ (Cardinality(B) = Cardinality(A) => B = A)
      BY <3>1, FS_Subset
    <3> QED
      BY <3>2 DEF A, B
  <2>4. Cardinality(after(x)) = Cardinality(after(y))
    <3>1. Cardinality(after(x)) \in Nat /\ Cardinality(after(y)) \in Nat
      BY <1>2
    <3> HIDE DEF after
    <3> QED
      BY <2>2, <2>3, <3>1
  <2> QED
    BY <2>1, <2>3, <2>4
<1> QED
  BY <1>5, Zenon DEF Max

-----------------------------------------------------------------------------
(* The invariant: types, a plan that fits its phase, and nothing running on a  *)
(* node that is down.  The label is only ever set where protection is on.      *)

PodRecords == [conds : SUBSET NodeStates, protect : BOOLEAN,
               deadline : Ends \cup {0}, topology : TopologySpecs \cup {NoTopology},
               on : KubeNodes \cup {Unbound}, run : BOOLEAN]
NodeRecords == [jobs : SUBSET Ends, completing : BOOLEAN, down : BOOLEAN,
                topology : TopologySpecs \cup {NoTopology}, comment : KubeNodes \cup {Unbound}]

SeenRecords == [jobs : SUBSET Ends, completing : BOOLEAN, down : BOOLEAN]

PodsOnly(pods) == DOMAIN pods \subseteq Pods /\ \A p \in DOMAIN pods : pods[p] \in PodRecords

Labelled(pods) == \A p \in DOMAIN pods : pods[p].protect => Protection

DownIsQuiet == \A p \in Pods : slurm[p].down => slurm[p].jobs = {} /\ ~slurm[p].completing

WorldPart ==
    /\ slurm \in [Pods -> NodeRecords]
    /\ seen \in [Pods -> SeenRecords]
    /\ kube \in [KubeNodes -> [topology : TopologySpecs \cup {NoTopology}, taint : BOOLEAN]]
    /\ DownIsQuiet

PodsPart == PodsOnly(pod) /\ PodsOnly(cache) /\ Labelled(pod) /\ Labelled(cache)

ReconcilePart ==
    /\ PodsOnly(listed)
    /\ phase \in Phases
    /\ phase \in {"deadline", "topology", "podinfo", "conditions", "labels"} => todo \subseteq DOMAIN listed
    /\ phase = "deadline" => plan \in [Pods -> Ends \cup {0}]
    /\ phase = "conditions" => plan \in [Pods -> SUBSET NodeStates]

CounterPart ==
    /\ client \in BOOLEAN /\ queued \in BOOLEAN
    /\ changes \in 0..MaxChanges /\ faults \in 0..MaxFaults

ShieldInv == WorldPart /\ PodsPart /\ ReconcilePart /\ CounterPart

LEMMA ShieldInvType == ShieldInv => TypeOK
<1>1. \A f : PodsOnly(f) => IsPods(f)
  BY DEF PodsOnly, IsPods, PodRecords
<1> QED
  BY <1>1 DEF ShieldInv, WorldPart, PodsPart, ReconcilePart, CounterPart, TypeOK, NodeRecords,
              SeenRecords

LEMMA NewPodType == NewPod \in PodRecords /\ ~NewPod.protect
BY DEF NewPod, PodRecords

LEMMA NoPods == PodsOnly(<<>>) /\ Labelled(<<>>)
BY DEF PodsOnly, Labelled

(* The answer to a list request is a cache. *)
LEMMA AnswerType ==
  ASSUME slurm \in [Pods -> NodeRecords]
  PROVE  Answer \in [Pods -> SeenRecords]
BY DEF Answer, NodeRecords, SeenRecords

LEMMA ShieldInit == Init => ShieldInv
<1> SUFFICES ASSUME Init PROVE ShieldInv
  OBVIOUS
<1>1. PICK worker \in Pods :
         slurm = [p \in Pods |-> [jobs |-> IF p = worker THEN {Max(Ends)} ELSE {}, completing |-> FALSE,
                                  down |-> FALSE, topology |-> NoTopology, comment |-> Unbound]]
  BY DEF Init
<1>2. Max(Ends) \in Ends
  BY LatestEnd, EndsAssumption
<1>3. WorldPart
  <2>1. slurm \in [Pods -> NodeRecords] /\ DownIsQuiet
    BY <1>1, <1>2 DEF NodeRecords, DownIsQuiet
  <2>2. kube \in [KubeNodes -> [topology : TopologySpecs \cup {NoTopology}, taint : BOOLEAN]]
    BY DEF Init
  <2>3. seen \in [Pods -> SeenRecords]
    BY <2>1, AnswerType DEF Init
  <2> QED
    BY <2>1, <2>2, <2>3 DEF WorldPart
<1>4. PodsPart
  <2> DEFINE n == CHOOSE n \in KubeNodes : TRUE
             fresh == [NewPod EXCEPT !.on = n, !.run = TRUE]
  <2>1. n \in KubeNodes
    BY NodesAssumption
  <2> HIDE DEF n
  <2>2. fresh \in PodRecords /\ ~fresh.protect
    BY <2>1 DEF NewPod, PodRecords
  <2>3. pod = [p \in Workers |-> fresh] /\ cache = pod /\ Workers \subseteq Pods
    BY PodsAssumption DEF Init, Workers, n
  <2> HIDE DEF fresh
  <2> QED
    BY <2>2, <2>3 DEF PodsPart, PodsOnly, Labelled
<1>5. ReconcilePart
  BY NoPods DEF Init, ReconcilePart, Phases
<1>6. CounterPart
  <2>1. client = TRUE /\ queued = TRUE /\ changes = 0 /\ faults = 0
    BY DEF Init
  <2>2. 0 \in 0..MaxChanges /\ 0 \in 0..MaxFaults
    BY BoundAssumption
  <2> QED
    BY <2>1, <2>2 DEF CounterPart
<1> QED
  BY <1>3, <1>4, <1>5, <1>6 DEF ShieldInv

-----------------------------------------------------------------------------
(* What a step does to the pods in the API server *)

PatchedConditions(old, from, to) == (old \ (from \ to)) \cup (to \ from) \cup Resent(from, to)

PodWrite(q) ==
    \/ \E t \in Ends \cup {0} : pod' = [pod EXCEPT ![q].deadline = t]
    \/ \E t \in TopologySpecs \cup {NoTopology} : pod' = [pod EXCEPT ![q].topology = t]
    \/ /\ phase = "conditions" /\ q \in todo /\ q \in DOMAIN listed
       /\ pod' = [pod EXCEPT ![q].conds = PatchedConditions(@, listed[q].conds, plan[q])]
    \/ /\ q \in DOMAIN cache
       /\ pod' = [pod EXCEPT ![q].protect = Protection /\ IsNodeBusy(cache[q].conds)]
    \/ \E n \in KubeNodes, t \in TopologySpecs \cup {NoTopology} :
          pod' = [pod EXCEPT ![q].on = n, ![q].topology = t]
    \/ pod' = [pod EXCEPT ![q].run = TRUE]

PodRemoval(q) == pod' = [r \in DOMAIN pod \ {q} |-> pod[r]]

PodAddition(q) ==
    q \notin DOMAIN pod /\ pod' = [r \in DOMAIN pod \cup {q} |-> IF r = q THEN NewPod ELSE pod[r]]

PodMoves ==
    \/ UNCHANGED pod
    \/ \E q \in DOMAIN pod : PodWrite(q) \/ PodRemoval(q)
    \/ \E q \in Pods : PodAddition(q)

LEMMA FieldPatched ==
  ASSUME NEW q, NEW field, NEW from, NEW to, PatchField(q, field, from, to)
  PROVE  UNCHANGED pod \/ pod' = [pod EXCEPT ![q][field] = to]
BY DEF PatchField

LEMMA StepMovesPods == ShieldInv /\ [Next]_vars => PodMoves
<1> SUFFICES ASSUME ShieldInv, [Next]_vars PROVE PodMoves
  OBVIOUS
<1>1. /\ WorldPart /\ PodsOnly(pod) /\ PodsOnly(cache) /\ ReconcilePart
  BY DEF ShieldInv, PodsPart
<1>2. ASSUME NEW q \in Pods, syncSlurmDeadline(q) PROVE PodMoves
  <2>1. /\ q \in DOMAIN pod /\ plan[q] \in Ends \cup {0}
        /\ PatchField(q, "deadline", listed[q].deadline, plan[q])
    BY <1>1, <1>2 DEF syncSlurmDeadline, Exists, ReconcilePart
  <2>2. UNCHANGED pod \/ pod' = [pod EXCEPT ![q].deadline = plan[q]]
    BY <2>1, FieldPatched
  <2> QED
    BY <2>1, <2>2 DEF PodMoves, PodWrite
<1>3. ASSUME NEW q \in Pods, syncSlurmTopology(q) PROVE PodMoves
  <2>1. CASE listed[q].on = Unbound
    BY <1>3, <2>1 DEF syncSlurmTopology, PodMoves
  <2>2. CASE listed[q].on # Unbound
    <3> DEFINE t == kube[listed[q].on].topology
    <3>1. /\ q \in DOMAIN pod /\ q \in DOMAIN listed
          /\ PatchField(q, "topology", listed[q].topology, t)
      BY <1>1, <1>3, <2>2 DEF syncSlurmTopology, Exists, ReconcilePart, Turn
    <3>2. listed[q].on \in KubeNodes
      BY <1>1, <2>2, <3>1 DEF ReconcilePart, PodsOnly, PodRecords
    <3>3. t \in TopologySpecs \cup {NoTopology}
      BY <1>1, <3>2 DEF WorldPart
    <3>4. UNCHANGED pod \/ pod' = [pod EXCEPT ![q].topology = t]
      BY <3>1, FieldPatched
    <3> QED
      BY <3>1, <3>3, <3>4 DEF PodMoves, PodWrite
  <2> QED
    BY <2>1, <2>2
<1>4. ASSUME NEW q \in Pods, updateNodeSetPodConditions(q) PROVE PodMoves
  <2>1. CASE q \in DOMAIN pod
    <3>1. phase = "conditions" /\ q \in todo /\ q \in DOMAIN listed
      BY <1>1, <1>4 DEF updateNodeSetPodConditions, Turn, ReconcilePart
    <3>2. pod' = [pod EXCEPT ![q].conds = PatchedConditions(@, listed[q].conds, plan[q])]
      BY <1>4, <2>1 DEF updateNodeSetPodConditions, PatchConditions, PatchedConditions, Exists
    <3> QED
      BY <2>1, <3>1, <3>2 DEF PodMoves, PodWrite
  <2>2. CASE q \notin DOMAIN pod
    BY <1>4, <2>2 DEF updateNodeSetPodConditions, Exists, PodMoves
  <2> QED
    BY <2>1, <2>2
<1>5. ASSUME NEW q \in Pods, updateNodeSetPodPDBLabels(q) PROVE PodMoves
  <2>1. CASE q \in DOMAIN cache
    <3> DEFINE b == Protection /\ IsNodeBusy(cache[q].conds)
    <3>1. q \in DOMAIN pod /\ PatchField(q, "protect", cache[q].protect, b)
      BY <1>5, <2>1 DEF updateNodeSetPodPDBLabels, Exists
    <3>2. UNCHANGED pod \/ pod' = [pod EXCEPT ![q].protect = b]
      BY <3>1, FieldPatched
    <3> QED
      BY <2>1, <3>1, <3>2 DEF PodMoves, PodWrite
  <2>2. CASE q \notin DOMAIN cache
    BY <1>5, <2>2 DEF updateNodeSetPodPDBLabels, PodMoves
  <2> QED
    BY <2>1, <2>2
<1>6. ASSUME NEW q \in Pods, NEW n \in KubeNodes, PodBinding(q, n) PROVE PodMoves
  <2>1. kube[n].topology \in TopologySpecs \cup {NoTopology}
    BY <1>1 DEF WorldPart
  <2> QED
    BY <1>6, <2>1 DEF PodBinding, Exists, PodMoves, PodWrite
<1>7. ASSUME NEW q \in Pods, PodRuns(q) PROVE PodMoves
  BY <1>7 DEF PodRuns, Exists, PodMoves, PodWrite
<1>8. ASSUME NEW q \in Pods, PodKilled(q) PROVE PodMoves
  BY <1>8 DEF PodKilled, Exists, PodMoves, PodRemoval
<1>9. ASSUME NEW q \in Pods, PodRecreated(q) PROVE PodMoves
  BY <1>9 DEF PodRecreated, Exists, PodMoves, PodAddition
<1>10. CASE Start \/ NextPhase \/ Finish \/ syncNodeSetStatus \/ UNCHANGED vars
  BY <1>10 DEF Start, NextPhase, Finish, syncNodeSetStatus, vars, PodMoves
<1>11. CASE CallFails \/ RefreshFails \/ ClientLost \/ ClientFound \/ ClientPolls
  BY <1>11 DEF CallFails, RefreshFails, ClientLost, ClientFound, ClientPolls, PodMoves
<1>12. ASSUME NEW q \in Pods,
              \/ PodNotFound(q) \/ UpdateNodeWithPodInfo(q) \/ DeliverPod(q)
              \/ EpilogEnds(q) \/ PodInfoFails(q)
              \/ \E end \in Ends : JobStarts(q, end) \/ JobEnds(q, end)
       PROVE  UNCHANGED pod
  BY <1>12 DEF PodNotFound, UpdateNodeWithPodInfo, DeliverPod, EpilogEnds, PodInfoFails, JobStarts, JobEnds
<1>13. ASSUME NEW n \in KubeNodes,
              syncTaint(n) \/ \E line \in TopologySpecs : AdminSetsTopology(n, line)
       PROVE  UNCHANGED pod
  BY <1>13 DEF syncTaint, AdminSetsTopology
<1>14. UNCHANGED pod => PodMoves
  BY DEF PodMoves
<1> QED
  BY <1>2, <1>3, <1>4, <1>5, <1>6, <1>7, <1>8, <1>9, <1>10, <1>11, <1>12, <1>13, <1>14
     DEF Next, Reconciler, Platform, Environment

LEMMA PodsKept == ShieldInv /\ [Next]_vars => PodsOnly(pod)' /\ Labelled(pod)'
<1> SUFFICES ASSUME ShieldInv, [Next]_vars PROVE PodsOnly(pod') /\ Labelled(pod')
  BY DEF PodsOnly, Labelled
<1>1. PodsOnly(pod) /\ Labelled(pod) /\ PodsOnly(cache) /\ ReconcilePart
  BY DEF ShieldInv, PodsPart
<1>2. PodMoves
  BY StepMovesPods
<1>3. CASE UNCHANGED pod
  BY <1>1, <1>3
<1>4. ASSUME NEW q \in DOMAIN pod, PodWrite(q) PROVE PodsOnly(pod') /\ Labelled(pod')
  <2>1. pod[q] \in PodRecords /\ DOMAIN pod \subseteq Pods
    BY <1>1 DEF PodsOnly
  <2>2. /\ DOMAIN pod' = DOMAIN pod /\ \A p \in DOMAIN pod : p # q => pod'[p] = pod[p]
    BY <1>4 DEF PodWrite
  <2>3. pod'[q] \in PodRecords /\ (pod'[q].protect => pod[q].protect \/ Protection)
    <3>1. CASE \E t \in Ends \cup {0} : pod' = [pod EXCEPT ![q].deadline = t]
      BY <2>1, <3>1 DEF PodRecords
    <3>2. CASE \E t \in TopologySpecs \cup {NoTopology} : pod' = [pod EXCEPT ![q].topology = t]
      BY <2>1, <3>2 DEF PodRecords
    <3>3. CASE /\ phase = "conditions" /\ q \in todo /\ q \in DOMAIN listed
               /\ pod' = [pod EXCEPT ![q].conds = PatchedConditions(@, listed[q].conds, plan[q])]
      <4> DEFINE c == PatchedConditions(pod[q].conds, listed[q].conds, plan[q])
      <4>1. pod[q].conds \subseteq NodeStates
        BY <2>1 DEF PodRecords
      <4>2. listed[q].conds \subseteq NodeStates /\ plan[q] \subseteq NodeStates
        BY <1>1, <2>1, <3>3 DEF ReconcilePart, PodsOnly, PodRecords
      <4>3. c \in SUBSET NodeStates
        BY <4>1, <4>2 DEF PatchedConditions, Resent
      <4>4. pod' = [pod EXCEPT ![q].conds = c]
        BY <3>3
      <4> HIDE DEF c
      <4> QED
        BY <2>1, <4>3, <4>4 DEF PodRecords
    <3>4. CASE /\ q \in DOMAIN cache
               /\ pod' = [pod EXCEPT ![q].protect = Protection /\ IsNodeBusy(cache[q].conds)]
      <4> DEFINE b == Protection /\ IsNodeBusy(cache[q].conds)
      <4>1. b \in BOOLEAN /\ (b => Protection)
        OBVIOUS
      <4>2. pod' = [pod EXCEPT ![q].protect = b]
        BY <3>4
      <4> HIDE DEF b
      <4>3. pod'[q] \in PodRecords /\ pod'[q].protect = b
        BY <2>1, <4>1, <4>2 DEF PodRecords
      <4> QED
        BY <4>1, <4>3
    <3>5. CASE \E n \in KubeNodes, t \in TopologySpecs \cup {NoTopology} :
                  pod' = [pod EXCEPT ![q].on = n, ![q].topology = t]
      BY <2>1, <3>5 DEF PodRecords
    <3>6. CASE pod' = [pod EXCEPT ![q].run = TRUE]
      BY <2>1, <3>6 DEF PodRecords
    <3> QED
      BY <1>4, <3>1, <3>2, <3>3, <3>4, <3>5, <3>6 DEF PodWrite
  <2> QED
    BY <1>1, <2>1, <2>2, <2>3 DEF PodsOnly, Labelled
<1>5. ASSUME NEW q \in DOMAIN pod, PodRemoval(q) PROVE PodsOnly(pod') /\ Labelled(pod')
  BY <1>1, <1>5 DEF PodsOnly, Labelled, PodRemoval
<1>6. ASSUME NEW q \in Pods, PodAddition(q) PROVE PodsOnly(pod') /\ Labelled(pod')
  <2>1. /\ DOMAIN pod' = DOMAIN pod \cup {q} /\ pod'[q] = NewPod
        /\ \A p \in DOMAIN pod : pod'[p] = pod[p]
    BY <1>6 DEF PodAddition
  <2> QED
    BY <1>1, <2>1, NewPodType DEF PodsOnly, Labelled
<1> QED
  BY <1>2, <1>3, <1>4, <1>5, <1>6 DEF PodMoves

-----------------------------------------------------------------------------
(* What a step does to the informer cache, to Slurm and to the reconcile *)

CacheMoves ==
    \/ UNCHANGED cache
    \/ \E q \in DOMAIN pod :
          cache' = [r \in DOMAIN cache \cup {q} |-> IF r = q THEN pod[q] ELSE cache[r]]
    \/ \E q \in Pods \ DOMAIN pod : cache' = [r \in DOMAIN cache \ {q} |-> cache[r]]

LEMMA StepMovesCache == [Next]_vars => CacheMoves
<1> SUFFICES ASSUME [Next]_vars PROVE CacheMoves
  OBVIOUS
<1>1. ASSUME NEW q \in Pods, DeliverPod(q) PROVE CacheMoves
  BY <1>1 DEF DeliverPod, Exists, CacheMoves
<1>2. CASE Start \/ NextPhase \/ Finish \/ syncNodeSetStatus \/ UNCHANGED vars
  BY <1>2 DEF Start, NextPhase, Finish, syncNodeSetStatus, vars, CacheMoves
<1>3. CASE CallFails \/ RefreshFails \/ ClientLost \/ ClientFound \/ ClientPolls
  BY <1>3 DEF CallFails, RefreshFails, ClientLost, ClientFound, ClientPolls, CacheMoves
<1>4. ASSUME NEW q \in Pods,
             \/ PodNotFound(q) \/ UpdateNodeWithPodInfo(q) \/ syncSlurmDeadline(q)
             \/ syncSlurmTopology(q) \/ updateNodeSetPodConditions(q)
             \/ updateNodeSetPodPDBLabels(q)
      PROVE  UNCHANGED cache
  BY <1>4 DEF PodNotFound, UpdateNodeWithPodInfo, syncSlurmDeadline, syncSlurmTopology,
              updateNodeSetPodConditions, updateNodeSetPodPDBLabels
<1>5. ASSUME NEW q \in Pods,
             \/ EpilogEnds(q) \/ PodInfoFails(q) \/ PodRuns(q) \/ PodKilled(q) \/ PodRecreated(q)
             \/ \E end \in Ends : JobStarts(q, end) \/ JobEnds(q, end)
             \/ \E n \in KubeNodes : PodBinding(q, n)
      PROVE  UNCHANGED cache
  BY <1>5 DEF EpilogEnds, PodInfoFails, JobStarts, JobEnds, PodRuns, PodKilled, PodRecreated, PodBinding
<1>6. ASSUME NEW n \in KubeNodes,
             syncTaint(n) \/ \E line \in TopologySpecs : AdminSetsTopology(n, line)
      PROVE  UNCHANGED cache
  BY <1>6 DEF syncTaint, AdminSetsTopology
<1>7. UNCHANGED cache => CacheMoves
  BY DEF CacheMoves
<1> QED
  BY <1>1, <1>2, <1>3, <1>4, <1>5, <1>6, <1>7 DEF Next, Reconciler, Platform, Environment

LEMMA CacheKept == ShieldInv /\ [Next]_vars => PodsOnly(cache)' /\ Labelled(cache)'
<1> SUFFICES ASSUME ShieldInv, [Next]_vars PROVE PodsOnly(cache') /\ Labelled(cache')
  BY DEF PodsOnly, Labelled
<1>1. PodsOnly(pod) /\ Labelled(pod) /\ PodsOnly(cache) /\ Labelled(cache)
  BY DEF ShieldInv, PodsPart
<1>2. CacheMoves
  BY StepMovesCache
<1>3. CASE UNCHANGED cache
  BY <1>1, <1>3
<1>4. ASSUME NEW q \in DOMAIN pod,
             cache' = [r \in DOMAIN cache \cup {q} |-> IF r = q THEN pod[q] ELSE cache[r]]
      PROVE  PodsOnly(cache') /\ Labelled(cache')
  <2>1. /\ DOMAIN cache' = DOMAIN cache \cup {q} /\ cache'[q] = pod[q]
        /\ \A p \in DOMAIN cache : p # q => cache'[p] = cache[p]
    BY <1>4
  <2> QED
    BY <1>1, <2>1 DEF PodsOnly, Labelled
<1>5. ASSUME NEW q, cache' = [r \in DOMAIN cache \ {q} |-> cache[r]]
      PROVE  PodsOnly(cache') /\ Labelled(cache')
  BY <1>1, <1>5 DEF PodsOnly, Labelled
<1> QED
  BY <1>2, <1>3, <1>4, <1>5 DEF CacheMoves

LEMMA StatesType ==
  ASSUME WorldPart
  PROVE  /\ CalculateNodeStatus \in [Pods -> SUBSET NodeStates]
         /\ GetNodeDeadlines \in [Pods -> Ends \cup {0}]
<1>1. \A n : GetStateAsSet(n) \subseteq NodeStates
  BY DEF GetStateAsSet, NodeStates, BaseStates, FlagStates
<1>2. CalculateNodeStatus \in [Pods -> SUBSET NodeStates]
  BY <1>1 DEF CalculateNodeStatus
<1>3. ASSUME NEW p \in Pods, seen[p].jobs # {} PROVE Max(seen[p].jobs) \in Ends
  <2>1. seen[p].jobs \in SUBSET Ends
    BY DEF WorldPart, SeenRecords
  <2>2. Max(seen[p].jobs) \in seen[p].jobs
    BY <1>3, <2>1, LatestEnd
  <2> QED
    BY <2>1, <2>2
<1>4. GetNodeDeadlines \in [Pods -> Ends \cup {0}]
  BY <1>3 DEF GetNodeDeadlines
<1> QED
  BY <1>2, <1>4

LEMMA KeptFields ==
  ASSUME PodsOnly(listed), NEW fields, Keep(fields)
  PROVE  PodsOnly(listed') /\ DOMAIN listed' = DOMAIN listed
<1>1. DOMAIN listed' = DOMAIN listed
  BY DEF Keep
<1>2. ASSUME NEW p \in DOMAIN listed PROVE listed'[p] \in PodRecords
  <2>1. listed[p] \in PodRecords
    BY DEF PodsOnly
  <2>2. listed'[p] = [f \in DOMAIN NewPod |-> IF f \in fields THEN listed[p][f] ELSE NewPod[f]]
    BY DEF Keep
  <2> QED
    BY <2>1, <2>2 DEF PodRecords, NewPod
<1> QED
  BY <1>1, <1>2 DEF PodsOnly

LEMMA PhaseOpens ==
  ASSUME WorldPart, PodsOnly(listed),
         ToTopology \/ ToTaint \/ ToPodInfo \/ ToConditions \/ ToLabels
  PROVE  ReconcilePart'
<1> SUFFICES /\ PodsOnly(listed')
             /\ phase' \in Phases
             /\ phase' \in {"deadline", "topology", "podinfo", "conditions", "labels"}
                  => todo' \subseteq DOMAIN listed'
             /\ phase' = "deadline" => plan' \in [Pods -> Ends \cup {0}]
             /\ phase' = "conditions" => plan' \in [Pods -> SUBSET NodeStates]
  BY DEF ReconcilePart, PodsOnly
<1>1. CASE ToTopology
  BY <1>1 DEF ToTopology, Phases
<1>2. CASE ToTaint
  BY <1>2, KeptFields DEF ToTaint, Phases
<1>3. CASE ToPodInfo
  BY <1>3, KeptFields DEF ToPodInfo, Phases
<1>4. CASE ToConditions
  BY <1>4, KeptFields, StatesType DEF ToConditions, Phases
<1>5. CASE ToLabels
  BY <1>5, KeptFields DEF ToLabels, Phases
<1> QED
  BY <1>1, <1>2, <1>3, <1>4, <1>5

LEMMA ReconcileEnds ==
  ASSUME phase' = "idle", listed' = <<>>
  PROVE  ReconcilePart'
BY NoPods DEF ReconcilePart, PodsOnly, Phases

LEMMA ErrorKept ==
  ASSUME WorldPart, PodsOnly(listed), OnError
  PROVE  ReconcilePart'
<1>1. ToPodInfo \/ ToConditions \/ (phase' = "idle" /\ listed' = <<>>)
  BY DEF OnError
<1> QED
  BY <1>1, PhaseOpens, ReconcileEnds

(* A call is made, and everything but the list of calls to make stays. *)
Calls == todo' \subseteq todo /\ UNCHANGED <<phase, listed, plan>>

LEMMA CallsKeep == ReconcilePart /\ Calls => ReconcilePart'
BY DEF ReconcilePart, Calls, PodsOnly

LEMMA ReconcileKept == ShieldInv /\ [Next]_vars => ReconcilePart'
<1> SUFFICES ASSUME ShieldInv, [Next]_vars PROVE ReconcilePart'
  OBVIOUS
<1>1. WorldPart /\ PodsOnly(cache) /\ ReconcilePart /\ PodsOnly(listed)
  BY DEF ShieldInv, PodsPart, ReconcilePart
<1>2. CASE Start \/ RefreshFails
  <2>1. PodsOnly(listed')
    BY <1>1, <1>2 DEF Start, RefreshFails
  <2>2. /\ phase' \in Phases
        /\ phase' \in {"deadline", "topology", "podinfo", "conditions", "labels"}
             => todo' \subseteq DOMAIN listed'
        /\ phase' = "deadline" => plan' \in [Pods -> Ends \cup {0}]
        /\ phase' = "conditions" => plan' \in [Pods -> SUBSET NodeStates]
    BY <1>1, <1>2, StatesType DEF Start, RefreshFails, Phases
  <2> QED
    BY <2>1, <2>2 DEF ReconcilePart, PodsOnly
<1>3. CASE NextPhase
  BY <1>1, <1>3, PhaseOpens DEF NextPhase
<1>4. CASE Finish
  BY <1>4, ReconcileEnds DEF Finish
<1>5. CASE CallFails
  BY <1>1, <1>5, ErrorKept DEF CallFails
<1>6. ASSUME NEW q \in Pods, PodNotFound(q) \/ PodInfoFails(q) PROVE ReconcilePart'
  BY <1>1, <1>6, ErrorKept DEF PodNotFound, PodInfoFails
<1>7. ASSUME NEW q \in Pods,
             \/ UpdateNodeWithPodInfo(q) \/ syncSlurmDeadline(q) \/ syncSlurmTopology(q)
             \/ updateNodeSetPodConditions(q) \/ updateNodeSetPodPDBLabels(q)
      PROVE  Calls
  BY <1>7 DEF UpdateNodeWithPodInfo, syncSlurmDeadline, syncSlurmTopology,
              updateNodeSetPodConditions, updateNodeSetPodPDBLabels, Calls
<1>8. ASSUME NEW q \in Pods,
             \/ DeliverPod(q) \/ EpilogEnds(q) \/ PodRuns(q) \/ PodKilled(q) \/ PodRecreated(q)
             \/ \E end \in Ends : JobStarts(q, end) \/ JobEnds(q, end)
             \/ \E n \in KubeNodes : PodBinding(q, n)
      PROVE  Calls
  BY <1>8 DEF DeliverPod, EpilogEnds, JobStarts, JobEnds, PodRuns, PodKilled, PodRecreated, PodBinding,
              reconcile, Calls
<1>9. ASSUME NEW n \in KubeNodes,
             syncTaint(n) \/ \E line \in TopologySpecs : AdminSetsTopology(n, line)
      PROVE  Calls
  BY <1>9 DEF syncTaint, AdminSetsTopology, reconcile, Calls
<1>10. CASE syncNodeSetStatus \/ ClientLost \/ ClientFound \/ ClientPolls \/ UNCHANGED vars
  <2>1. Calls
    BY <1>10 DEF syncNodeSetStatus, ClientLost, ClientFound, ClientPolls, vars, reconcile, Calls
  <2> QED
    BY <1>1, <2>1, CallsKeep
<1>11. Calls => ReconcilePart'
  BY <1>1, CallsKeep
<1> QED
  BY <1>2, <1>3, <1>4, <1>5, <1>6, <1>7, <1>8, <1>9, <1>10, <1>11
     DEF Next, Reconciler, Platform, Environment

(* Slurm's nodes change one at a time. *)
SlurmWrite(q) ==
    \E m \in NodeRecords :
       /\ m.down => m.jobs = {} /\ ~m.completing
       /\ slurm' = [slurm EXCEPT ![q] = m]

LEMMA SlurmWritten ==
  ASSUME NEW q \in Pods, WorldPart, SlurmWrite(q)
  PROVE  slurm' \in [Pods -> NodeRecords] /\ DownIsQuiet'
<1>1. PICK m \in NodeRecords : /\ m.down => m.jobs = {} /\ ~m.completing
                               /\ slurm' = [slurm EXCEPT ![q] = m]
  BY DEF SlurmWrite
<1>2. slurm' \in [Pods -> NodeRecords] /\ slurm'[q] = m /\ \A p \in Pods : p # q => slurm'[p] = slurm[p]
  BY <1>1 DEF WorldPart
<1> QED
  BY <1>1, <1>2 DEF WorldPart, DownIsQuiet

(* One field of a node, or several, written. *)
LEMMA NodeWritten ==
  ASSUME NEW q \in Pods, WorldPart, NEW m, m \in NodeRecords,
         m.down => m.jobs = {} /\ ~m.completing, slurm' = [slurm EXCEPT ![q] = m]
  PROVE  SlurmWrite(q)
BY DEF SlurmWrite

LEMMA StepWritesSlurm ==
  ASSUME ShieldInv, [Next]_vars
  PROVE  UNCHANGED slurm \/ \E q \in Pods : SlurmWrite(q)
<1>1. WorldPart /\ ReconcilePart /\ \A q \in Pods : slurm[q] \in NodeRecords
  BY DEF ShieldInv, WorldPart
<1>2. \A q \in Pods : slurm[q].down => slurm[q].jobs = {} /\ ~slurm[q].completing
  BY <1>1 DEF WorldPart, DownIsQuiet
<1>3. ASSUME NEW q \in Pods, syncSlurmTopology(q) PROVE UNCHANGED slurm \/ SlurmWrite(q)
  <2>1. CASE listed[q].on = Unbound
    BY <1>3, <2>1 DEF syncSlurmTopology
  <2>2. CASE listed[q].on # Unbound
    <3> DEFINE t == kube[listed[q].on].topology
               m == [slurm[q] EXCEPT !.topology = t]
    <3>1. q \in DOMAIN listed /\ UpdateNodeTopology(q, t)
      BY <1>1, <1>3, <2>2 DEF syncSlurmTopology, ReconcilePart, Turn
    <3>2. listed[q].on \in KubeNodes
      BY <1>1, <2>2, <3>1 DEF ReconcilePart, PodsOnly, PodRecords
    <3>3. t \in TopologySpecs \cup {NoTopology}
      BY <1>1, <3>2 DEF WorldPart
    <3>4. UNCHANGED slurm \/ slurm' = [slurm EXCEPT ![q] = m]
      BY <3>1 DEF UpdateNodeTopology
    <3> HIDE DEF t
    <3>5. m \in NodeRecords /\ (m.down => m.jobs = {} /\ ~m.completing)
      BY <1>1, <1>2, <3>3 DEF NodeRecords
    <3> HIDE DEF m
    <3> QED
      BY <1>1, <3>4, <3>5, NodeWritten
  <2> QED
    BY <2>1, <2>2
<1>4. ASSUME NEW q \in Pods, UpdateNodeWithPodInfo(q) PROVE UNCHANGED slurm \/ SlurmWrite(q)
  <2> DEFINE m == [slurm[q] EXCEPT !.comment = listed[q].on,
                                   !.down = @ /\ slurm[q].comment = Unbound]
  <2>1. q \in DOMAIN listed
    BY <1>1, <1>4 DEF UpdateNodeWithPodInfo, ReconcilePart, Turn
  <2>2. listed[q].on \in KubeNodes \cup {Unbound}
    BY <1>1, <2>1 DEF ReconcilePart, PodsOnly, PodRecords
  <2>3. UNCHANGED slurm \/ slurm' = [slurm EXCEPT ![q] = m]
    BY <1>1, <1>4 DEF UpdateNodeWithPodInfo, NodeRecords, WorldPart
  <2>4. m \in NodeRecords /\ (m.down => m.jobs = {} /\ ~m.completing)
    BY <1>1, <1>2, <2>2 DEF NodeRecords
  <2> HIDE DEF m
  <2> QED
    BY <1>1, <2>3, <2>4, NodeWritten
<1>5. ASSUME NEW q \in Pods, PodInfoFails(q) PROVE SlurmWrite(q)
  <2> DEFINE m == [slurm[q] EXCEPT !.comment = listed[q].on]
  <2>1. q \in DOMAIN listed
    BY <1>1, <1>5 DEF PodInfoFails, ReconcilePart, Turn
  <2>2. listed[q].on \in KubeNodes \cup {Unbound}
    BY <1>1, <2>1 DEF ReconcilePart, PodsOnly, PodRecords
  <2>3. slurm' = [slurm EXCEPT ![q] = m]
    BY <1>5 DEF PodInfoFails
  <2>4. m \in NodeRecords /\ (m.down => m.jobs = {} /\ ~m.completing)
    BY <1>1, <1>2, <2>2 DEF NodeRecords
  <2> HIDE DEF m
  <2> QED
    BY <1>1, <2>3, <2>4, NodeWritten
<1>6. ASSUME NEW q \in Pods, PodRuns(q) PROVE SlurmWrite(q)
  <2> DEFINE m == [slurm[q] EXCEPT !.down = FALSE]
  <2>1. slurm' = [slurm EXCEPT ![q] = m]
    BY <1>6 DEF PodRuns
  <2>2. m \in NodeRecords /\ (m.down => m.jobs = {} /\ ~m.completing)
    BY <1>1 DEF NodeRecords
  <2> HIDE DEF m
  <2> QED
    BY <1>1, <2>1, <2>2, NodeWritten
<1>7. ASSUME NEW q \in Pods, PodKilled(q) PROVE SlurmWrite(q)
  <2> DEFINE m == [slurm[q] EXCEPT !.down = TRUE, !.jobs = {}, !.completing = FALSE]
  <2>1. slurm' = [slurm EXCEPT ![q] = m]
    BY <1>1, <1>7 DEF PodKilled, WorldPart, NodeRecords
  <2>2. m \in NodeRecords /\ (m.down => m.jobs = {} /\ ~m.completing)
    BY <1>1 DEF NodeRecords
  <2> HIDE DEF m
  <2> QED
    BY <1>1, <2>1, <2>2, NodeWritten
<1>8. ASSUME NEW q \in Pods, NEW end \in Ends, JobStarts(q, end) PROVE SlurmWrite(q)
  <2> DEFINE m == [slurm[q] EXCEPT !.jobs = @ \cup {end}]
  <2>1. slurm' = [slurm EXCEPT ![q] = m] /\ ~slurm[q].down
    BY <1>8 DEF JobStarts
  <2>2. m \in NodeRecords /\ (m.down => m.jobs = {} /\ ~m.completing)
    BY <1>1, <2>1 DEF NodeRecords
  <2> HIDE DEF m
  <2> QED
    BY <1>1, <2>1, <2>2, NodeWritten
<1>9. ASSUME NEW q \in Pods, NEW end \in Ends, JobEnds(q, end) PROVE SlurmWrite(q)
  <2> DEFINE m == [slurm[q] EXCEPT !.jobs = @ \ {end}, !.completing = TRUE]
  <2>1. slurm' = [slurm EXCEPT ![q] = m] /\ end \in slurm[q].jobs
    BY <1>1, <1>9 DEF JobEnds, WorldPart, NodeRecords
  <2>2. ~slurm[q].down
    BY <1>2, <2>1
  <2>3. m \in NodeRecords /\ (m.down => m.jobs = {} /\ ~m.completing)
    BY <1>1, <2>2 DEF NodeRecords
  <2> HIDE DEF m
  <2> QED
    BY <1>1, <2>1, <2>3, NodeWritten
<1>10. ASSUME NEW q \in Pods, EpilogEnds(q) PROVE SlurmWrite(q)
  <2> DEFINE m == [slurm[q] EXCEPT !.completing = FALSE]
  <2>1. slurm' = [slurm EXCEPT ![q] = m]
    BY <1>10 DEF EpilogEnds
  <2>2. m \in NodeRecords /\ (m.down => m.jobs = {} /\ ~m.completing)
    BY <1>1, <1>2 DEF NodeRecords
  <2> HIDE DEF m
  <2> QED
    BY <1>1, <2>1, <2>2, NodeWritten
<1>11. CASE Start \/ NextPhase \/ Finish \/ syncNodeSetStatus \/ UNCHANGED vars
  BY <1>11 DEF Start, NextPhase, Finish, syncNodeSetStatus, vars
<1>12. CASE CallFails \/ RefreshFails \/ ClientLost \/ ClientFound \/ ClientPolls
  BY <1>12 DEF CallFails, RefreshFails, ClientLost, ClientFound, ClientPolls
<1>13. ASSUME NEW q \in Pods,
              \/ PodNotFound(q) \/ syncSlurmDeadline(q) \/ updateNodeSetPodConditions(q)
              \/ updateNodeSetPodPDBLabels(q) \/ DeliverPod(q) \/ PodRecreated(q)
              \/ \E n \in KubeNodes : PodBinding(q, n)
       PROVE  UNCHANGED slurm
  BY <1>13 DEF PodNotFound, syncSlurmDeadline, updateNodeSetPodConditions,
               updateNodeSetPodPDBLabels, DeliverPod, PodRecreated, PodBinding
<1>14. ASSUME NEW n \in KubeNodes,
              syncTaint(n) \/ \E line \in TopologySpecs : AdminSetsTopology(n, line)
       PROVE  UNCHANGED slurm
  BY <1>14 DEF syncTaint, AdminSetsTopology
<1> QED
  BY <1>3, <1>4, <1>5, <1>6, <1>7, <1>8, <1>9, <1>10, <1>11, <1>12, <1>13, <1>14
     DEF Next, Reconciler, Platform, Environment

KubeMoves ==
    \/ UNCHANGED kube
    \/ \E n \in KubeNodes, b \in BOOLEAN : kube' = [kube EXCEPT ![n].taint = b]
    \/ \E n \in KubeNodes, line \in TopologySpecs : kube' = [kube EXCEPT ![n].topology = line]

LEMMA StepMovesKube == [Next]_vars => KubeMoves
<1> SUFFICES ASSUME [Next]_vars PROVE KubeMoves
  OBVIOUS
<1>1. ASSUME NEW n \in KubeNodes, syncTaint(n) PROVE KubeMoves
  <2> DEFINE b == \E p \in DOMAIN cache : cache[p].run /\ cache[p].on = n
  <2>1. b \in BOOLEAN /\ kube' = [kube EXCEPT ![n].taint = b]
    BY <1>1 DEF syncTaint
  <2> HIDE DEF b
  <2> QED
    BY <2>1 DEF KubeMoves
<1>2. ASSUME NEW n \in KubeNodes, NEW line \in TopologySpecs, AdminSetsTopology(n, line)
      PROVE  KubeMoves
  BY <1>2 DEF AdminSetsTopology, KubeMoves
<1>3. CASE Start \/ NextPhase \/ Finish \/ syncNodeSetStatus \/ UNCHANGED vars
  BY <1>3 DEF Start, NextPhase, Finish, syncNodeSetStatus, vars, KubeMoves
<1>4. CASE CallFails \/ RefreshFails \/ ClientLost \/ ClientFound \/ ClientPolls
  BY <1>4 DEF CallFails, RefreshFails, ClientLost, ClientFound, ClientPolls, KubeMoves
<1>5. ASSUME NEW q \in Pods,
             \/ PodNotFound(q) \/ UpdateNodeWithPodInfo(q) \/ syncSlurmDeadline(q)
             \/ syncSlurmTopology(q) \/ updateNodeSetPodConditions(q)
             \/ updateNodeSetPodPDBLabels(q)
      PROVE  UNCHANGED kube
  BY <1>5 DEF PodNotFound, UpdateNodeWithPodInfo, syncSlurmDeadline, syncSlurmTopology,
              updateNodeSetPodConditions, updateNodeSetPodPDBLabels
<1>6. ASSUME NEW q \in Pods,
             \/ DeliverPod(q) \/ EpilogEnds(q) \/ PodInfoFails(q) \/ PodRuns(q) \/ PodKilled(q)
             \/ PodRecreated(q)
             \/ \E end \in Ends : JobStarts(q, end) \/ JobEnds(q, end)
             \/ \E n \in KubeNodes : PodBinding(q, n)
      PROVE  UNCHANGED kube
  BY <1>6 DEF DeliverPod, EpilogEnds, PodInfoFails, JobStarts, JobEnds, PodRuns, PodKilled, PodRecreated,
              PodBinding
<1>7. UNCHANGED kube => KubeMoves
  BY DEF KubeMoves
<1> QED
  BY <1>1, <1>2, <1>3, <1>4, <1>5, <1>6, <1>7 DEF Next, Reconciler, Platform, Environment

(* The Slurm client's cache is only ever filled with what Slurm answers. *)
SeenMoves == UNCHANGED seen \/ (seen' = Answer /\ UNCHANGED slurm)

LEMMA StepMovesSeen == [Next]_vars => SeenMoves
<1> SUFFICES ASSUME [Next]_vars PROVE SeenMoves
  OBVIOUS
<1>1. CASE Start \/ NextPhase \/ Finish \/ syncNodeSetStatus \/ UNCHANGED vars
  BY <1>1 DEF Start, RefreshNodeCache, NextPhase, Finish, syncNodeSetStatus, vars, SeenMoves
<1>2. CASE CallFails \/ RefreshFails \/ ClientLost \/ ClientFound \/ ClientPolls
  BY <1>2 DEF CallFails, RefreshFails, ClientLost, ClientFound, ClientPolls, SeenMoves
<1>3. ASSUME NEW q \in Pods,
             \/ PodNotFound(q) \/ UpdateNodeWithPodInfo(q) \/ syncSlurmDeadline(q)
             \/ syncSlurmTopology(q) \/ updateNodeSetPodConditions(q)
             \/ updateNodeSetPodPDBLabels(q)
      PROVE  UNCHANGED seen
  BY <1>3 DEF PodNotFound, UpdateNodeWithPodInfo, syncSlurmDeadline, syncSlurmTopology,
              updateNodeSetPodConditions, updateNodeSetPodPDBLabels
<1>4. ASSUME NEW q \in Pods,
             \/ DeliverPod(q) \/ EpilogEnds(q) \/ PodInfoFails(q) \/ PodRuns(q) \/ PodKilled(q)
             \/ PodRecreated(q)
             \/ \E end \in Ends : JobStarts(q, end) \/ JobEnds(q, end)
             \/ \E n \in KubeNodes : PodBinding(q, n)
      PROVE  UNCHANGED seen
  BY <1>4 DEF DeliverPod, EpilogEnds, PodInfoFails, JobStarts, JobEnds, PodRuns, PodKilled, PodRecreated,
              PodBinding
<1>5. ASSUME NEW n \in KubeNodes,
             syncTaint(n) \/ \E line \in TopologySpecs : AdminSetsTopology(n, line)
      PROVE  UNCHANGED seen
  BY <1>5 DEF syncTaint, AdminSetsTopology
<1>6. UNCHANGED seen => SeenMoves
  BY DEF SeenMoves
<1> QED
  BY <1>1, <1>2, <1>3, <1>4, <1>5, <1>6 DEF Next, Reconciler, Platform, Environment

LEMMA WorldKept == ShieldInv /\ [Next]_vars => WorldPart'
<1> SUFFICES ASSUME ShieldInv, [Next]_vars PROVE WorldPart'
  OBVIOUS
<1>1. WorldPart
  BY DEF ShieldInv
<1>2. slurm' \in [Pods -> NodeRecords] /\ DownIsQuiet'
  <2>1. CASE UNCHANGED slurm
    BY <1>1, <2>1 DEF WorldPart, DownIsQuiet
  <2> QED
    BY <1>1, <2>1, StepWritesSlurm, SlurmWritten
<1>3. kube' \in [KubeNodes -> [topology : TopologySpecs \cup {NoTopology}, taint : BOOLEAN]]
  <2>1. KubeMoves
    BY StepMovesKube
  <2> QED
    BY <1>1, <2>1 DEF KubeMoves, WorldPart
<1>4. seen' \in [Pods -> SeenRecords]
  <2>1. Answer \in [Pods -> SeenRecords] /\ seen \in [Pods -> SeenRecords]
    BY <1>1, AnswerType DEF WorldPart
  <2> QED
    BY <2>1, StepMovesSeen DEF SeenMoves
<1> QED
  BY <1>2, <1>3, <1>4 DEF WorldPart

LEMMA CounterKept == ShieldInv /\ [Next]_vars => CounterPart'
<1> SUFFICES ASSUME ShieldInv, [Next]_vars PROVE CounterPart'
  OBVIOUS
<1> DEFINE more == changes < MaxChanges /\ changes' = changes + 1
           fault == faults < MaxFaults /\ faults' = faults + 1
           wakes == queued' = queued \/ queued' \in BOOLEAN
           stays == UNCHANGED client \/ client' \in BOOLEAN
           good == wakes /\ stays /\ (more \/ UNCHANGED changes) /\ (fault \/ UNCHANGED faults)
<1>1. CounterPart
  BY DEF ShieldInv
<1>2. ASSUME Start \/ NextPhase \/ Finish \/ syncNodeSetStatus \/ UNCHANGED vars PROVE good
  BY <1>2 DEF Start, NextPhase, Finish, syncNodeSetStatus, vars, Requeue, counters
<1>3. ASSUME CallFails \/ RefreshFails \/ ClientLost \/ ClientFound \/ ClientPolls PROVE good
  BY <1>3 DEF CallFails, RefreshFails, ClientLost, ClientFound, ClientPolls, OnError, Requeue, counters
<1>4. ASSUME NEW q \in Pods,
             \/ PodNotFound(q) \/ UpdateNodeWithPodInfo(q) \/ syncSlurmDeadline(q)
             \/ syncSlurmTopology(q) \/ updateNodeSetPodConditions(q)
             \/ updateNodeSetPodPDBLabels(q)
      PROVE  good
  BY <1>4 DEF PodNotFound, UpdateNodeWithPodInfo, syncSlurmDeadline, syncSlurmTopology,
              updateNodeSetPodConditions, updateNodeSetPodPDBLabels, OnError, Requeue, counters
<1>5. ASSUME NEW q \in Pods,
             \/ DeliverPod(q) \/ EpilogEnds(q) \/ PodInfoFails(q) \/ PodRuns(q) \/ PodKilled(q)
             \/ PodRecreated(q)
             \/ \E end \in Ends : JobStarts(q, end) \/ JobEnds(q, end)
             \/ \E n \in KubeNodes : PodBinding(q, n)
      PROVE  good
  BY <1>5 DEF DeliverPod, EpilogEnds, PodInfoFails, JobStarts, JobEnds, PodRuns, PodKilled, PodRecreated,
              PodBinding, OnError, Requeue, Change, counters
<1>6. ASSUME NEW n \in KubeNodes, syncTaint(n) PROVE good
  BY <1>6 DEF syncTaint, counters
<1>7. ASSUME NEW n \in KubeNodes, NEW line \in TopologySpecs, AdminSetsTopology(n, line) PROVE good
  <2> DEFINE w == queued \/ \E p \in DOMAIN cache : cache[p].on = n
  <2>1. queued' = w /\ w \in BOOLEAN
    BY <1>7 DEF AdminSetsTopology
  <2> HIDE DEF w
  <2> QED
    BY <1>7, <2>1 DEF AdminSetsTopology, Change
<1>8. good
  <2> HIDE DEF good
  <2> QED
    BY <1>2, <1>3, <1>4, <1>5, <1>6, <1>7 DEF Next, Reconciler, Platform, Environment
<1>9. client' \in BOOLEAN /\ queued' \in BOOLEAN
  BY <1>1, <1>8 DEF CounterPart
<1>10. changes' \in 0..MaxChanges /\ faults' \in 0..MaxFaults
  BY <1>1, <1>8, BoundAssumption DEF CounterPart
<1> QED
  BY <1>9, <1>10 DEF CounterPart

LEMMA ShieldStep == ShieldInv /\ [Next]_vars => ShieldInv'
BY WorldKept, PodsKept, CacheKept, ReconcileKept, CounterKept DEF ShieldInv, PodsPart

(***************************************************************************)
(* WorkloadProtection is type correct, and its reconcile works only on     *)
(* pods it listed (getNodeSetPods, syncStatus), whatever happens meanwhile. *)
(***************************************************************************)
THEOREM TypeCorrect == Spec => []TypeOK
<1>1. Spec => []ShieldInv
  BY ShieldInit, ShieldStep, PTL DEF Spec
<1> QED
  BY <1>1, ShieldInvType, PTL

-----------------------------------------------------------------------------
(* The shield *)

(* Two elements make a set too large for a copy whose kept states are not sent. *)
LEMMA OneState ==
  ASSUME NEW S \in SUBSET NodeStates, NEW x \in S, NEW y \in S, x # y
  PROVE  Cardinality(S) > 1
<1>1. IsFiniteSet(NodeStates)
  <2>1. \A z : IsFiniteSet({z})
    BY FS_Singleton
  <2>2. IsFiniteSet({"ALLOCATED"} \cup {"DOWN"})
    BY <2>1, FS_Union
  <2>3. IsFiniteSet({"IDLE"} \cup {"MIXED"})
    BY <2>1, FS_Union
  <2>4. IsFiniteSet(({"ALLOCATED"} \cup {"DOWN"}) \cup ({"IDLE"} \cup {"MIXED"}))
    BY <2>2, <2>3, FS_Union
  <2>5. IsFiniteSet((({"ALLOCATED"} \cup {"DOWN"}) \cup ({"IDLE"} \cup {"MIXED"})) \cup {"COMPLETING"})
    BY <2>1, <2>4, FS_Union
  <2>6. NodeStates = (({"ALLOCATED"} \cup {"DOWN"}) \cup ({"IDLE"} \cup {"MIXED"})) \cup {"COMPLETING"}
    BY DEF NodeStates, BaseStates, FlagStates
  <2> QED
    BY <2>5, <2>6
<1>2. IsFiniteSet(S) /\ Cardinality(S) \in Nat
  BY <1>1, FS_Subset, FS_CardinalityType
<1>3. IsFiniteSet({x}) /\ Cardinality({x}) = 1
  BY FS_Singleton
<1>4. {x} \in SUBSET S /\ {x} # S
  OBVIOUS
<1>5. Cardinality({x}) <= Cardinality(S) /\ (Cardinality({x}) = Cardinality(S) => {x} = S)
  BY <1>2, <1>4, FS_Subset
<1> QED
  BY <1>2, <1>3, <1>4, <1>5

(* A busy pod that is given busy states is busy after the patch, whatever the   *)
(* reconciler took the old states to be.                                        *)
LEMMA PatchKeepsBusy ==
  ASSUME NEW old, NEW from \in SUBSET NodeStates, NEW to,
         IsNodeBusy(old), IsNodeBusy(to)
  PROVE  IsNodeBusy(PatchedConditions(old, from, to))
<1> DEFINE B == {"ALLOCATED", "MIXED", "COMPLETING"}
           new == PatchedConditions(old, from, to)
<1>1. PICK x \in B : x \in to
  BY DEF IsNodeBusy
<1>2. PICK y \in B : y \in old
  BY DEF IsNodeBusy
<1>3. x \in new \/ y \in new
  <2>1. CASE x \notin from
    BY <1>1, <2>1 DEF PatchedConditions
  <2>2. CASE x \in from /\ Cardinality(from) > 1
    BY <1>1, <2>2 DEF PatchedConditions, Resent
  <2>3. CASE x \in from /\ ~(Cardinality(from) > 1)
    <3>1. from \ to = {}
      BY <1>1, <2>3, OneState
    <3> QED
      BY <1>2, <3>1 DEF PatchedConditions
  <2> QED
    BY <2>1, <2>2, <2>3
<1> HIDE DEF new
<1>4. IsNodeBusy(new)
  BY <1>1, <1>2, <1>3 DEF IsNodeBusy
<1> QED
  BY <1>4 DEF new

(* The label and the conditions of a shielded pod outlive every patch. *)
LEMMA PodStaysShielded ==
  ASSUME ShieldInv, [Next]_vars, NEW p \in Pods, Shielded(p), p \in DOMAIN pod'
  PROVE  pod'[p].protect /\ IsNodeBusy(pod'[p].conds)
<1>1. /\ PodsOnly(pod) /\ PodsOnly(listed) /\ Labelled(cache)
  BY DEF ShieldInv, PodsPart, ReconcilePart
<1>2. /\ p \in DOMAIN pod /\ pod[p].protect /\ IsNodeBusy(pod[p].conds)
      /\ p \in DOMAIN cache /\ cache[p].protect /\ IsNodeBusy(cache[p].conds)
      /\ phase = "conditions" /\ p \in todo => IsNodeBusy(plan[p])
  BY DEF Shielded, Exists
<1>3. Protection
  BY <1>1, <1>2 DEF Labelled
<1>4. pod[p] \in PodRecords
  BY <1>1, <1>2 DEF PodsOnly
<1>5. ASSUME pod'[p] = pod[p] PROVE pod'[p].protect /\ IsNodeBusy(pod'[p].conds)
  BY <1>2, <1>5
<1>6. CASE UNCHANGED pod
  BY <1>5, <1>6
<1>7. ASSUME NEW q \in DOMAIN pod, PodWrite(q)
      PROVE  pod'[p].protect /\ IsNodeBusy(pod'[p].conds)
  <2>1. CASE q # p
    <3>1. pod'[p] = pod[p]
      BY <1>2, <1>7, <2>1 DEF PodWrite
    <3> QED
      BY <1>5, <3>1
  <2>2. CASE q = p
    <3>1. CASE \E t \in Ends \cup {0} : pod' = [pod EXCEPT ![p].deadline = t]
      <4>1. pod'[p].protect = pod[p].protect /\ pod'[p].conds = pod[p].conds
        BY <1>2, <1>4, <3>1 DEF PodRecords
      <4> QED
        BY <1>2, <4>1
    <3>2. CASE \E t \in TopologySpecs \cup {NoTopology} : pod' = [pod EXCEPT ![p].topology = t]
      <4>1. pod'[p].protect = pod[p].protect /\ pod'[p].conds = pod[p].conds
        BY <1>2, <1>4, <3>2 DEF PodRecords
      <4> QED
        BY <1>2, <4>1
    <3>3. CASE /\ phase = "conditions" /\ p \in todo /\ p \in DOMAIN listed
               /\ pod' = [pod EXCEPT ![p].conds = PatchedConditions(@, listed[p].conds, plan[p])]
      <4>1. /\ pod'[p].protect = pod[p].protect
            /\ pod'[p].conds = PatchedConditions(pod[p].conds, listed[p].conds, plan[p])
        BY <1>2, <1>4, <3>3 DEF PodRecords
      <4>2. listed[p].conds \in SUBSET NodeStates
        BY <1>1, <3>3 DEF PodsOnly, PodRecords
      <4>3. IsNodeBusy(PatchedConditions(pod[p].conds, listed[p].conds, plan[p]))
        BY <1>2, <3>3, <4>2, PatchKeepsBusy
      <4> QED
        BY <1>2, <4>1, <4>3
    <3>4. CASE pod' = [pod EXCEPT ![p].protect = Protection /\ IsNodeBusy(cache[p].conds)]
      <4> DEFINE b == Protection /\ IsNodeBusy(cache[p].conds)
      <4>1. b
        BY <1>2, <1>3
      <4>2. pod' = [pod EXCEPT ![p].protect = b]
        BY <3>4
      <4> HIDE DEF b
      <4>3. pod'[p].protect = b /\ pod'[p].conds = pod[p].conds
        BY <1>2, <1>4, <4>2 DEF PodRecords
      <4> QED
        BY <1>2, <4>1, <4>3
    <3>5. CASE \E n \in KubeNodes, t \in TopologySpecs \cup {NoTopology} :
                  pod' = [pod EXCEPT ![p].on = n, ![p].topology = t]
      <4>1. pod'[p].protect = pod[p].protect /\ pod'[p].conds = pod[p].conds
        BY <1>2, <1>4, <3>5 DEF PodRecords
      <4> QED
        BY <1>2, <4>1
    <3>6. CASE pod' = [pod EXCEPT ![p].run = TRUE]
      <4>1. pod'[p].protect = pod[p].protect /\ pod'[p].conds = pod[p].conds
        BY <1>2, <1>4, <3>6 DEF PodRecords
      <4> QED
        BY <1>2, <4>1
    <3>7. PodWrite(p)
      BY <1>7, <2>2
    <3> QED
      BY <3>1, <3>2, <3>3, <3>4, <3>5, <3>6, <3>7, Zenon DEF PodWrite
  <2> QED
    BY <2>1, <2>2
<1>8. ASSUME NEW q, PodRemoval(q) \/ PodAddition(q)
      PROVE  pod'[p].protect /\ IsNodeBusy(pod'[p].conds)
  <2>1. pod'[p] = pod[p]
    BY <1>2, <1>8 DEF PodRemoval, PodAddition
  <2> QED
    BY <1>5, <2>1
<1> QED
  BY <1>6, <1>7, <1>8, StepMovesPods DEF PodMoves

(* The cache shows a pod as it was or as it is: both are labelled and busy. *)
LEMMA CacheStaysShielded ==
  ASSUME [Next]_vars, NEW p \in Pods, Shielded(p)
  PROVE  p \in DOMAIN cache' /\ cache'[p].protect /\ IsNodeBusy(cache'[p].conds)
<1>1. /\ p \in DOMAIN pod /\ pod[p].protect /\ IsNodeBusy(pod[p].conds)
      /\ p \in DOMAIN cache /\ cache[p].protect /\ IsNodeBusy(cache[p].conds)
  BY DEF Shielded, Exists
<1>2. p \in DOMAIN cache' /\ (cache'[p] = cache[p] \/ cache'[p] = pod[p])
  BY <1>1, StepMovesCache DEF CacheMoves
<1> QED
  BY <1>1, <1>2

(* A node that works is busy in an answer of Slurm. *)
LEMMA WorkIsBusy ==
  ASSUME WorldPart, NEW p \in Pods, WorkRuns(p)
  PROVE  IsNodeBusy(GetStateAsSet(Answer[p]))
<1> DEFINE n == Answer[p]
<1>1. n.jobs = slurm[p].jobs /\ n.completing = slurm[p].completing /\ n.down = slurm[p].down
  BY DEF Answer
<1>2. slurm[p].jobs # {} => ~slurm[p].down
  BY DEF WorldPart, DownIsQuiet
<1>3. slurm[p].jobs # {} \/ slurm[p].completing
  BY DEF WorkRuns
<1> HIDE DEF n
<1>4. IsNodeBusy(GetStateAsSet(n))
  BY <1>1, <1>2, <1>3 DEF GetStateAsSet, IsNodeBusy
<1> QED
  BY <1>4 DEF n

(* While its node works, a node once seen busy is seen busy. *)
LEMMA SeenStaysBusy ==
  ASSUME ShieldInv, [Next]_vars, NEW p \in Pods, Shielded(p)
  PROVE  IsNodeBusy(GetStateAsSet(seen'[p]))
<1>1. IsNodeBusy(GetStateAsSet(seen[p])) /\ IsNodeBusy(GetStateAsSet(Answer[p]))
  BY WorkIsBusy DEF Shielded, ShieldInv
<1>2. seen' = seen \/ seen' = Answer
  BY StepMovesSeen DEF SeenMoves
<1> QED
  BY <1>1, <1>2

(* A step goes on with the plan of its phase, reads a new one, or leaves the  *)
(* pod conditions alone.                                                      *)
LEMMA StepMovesPlan == [Next]_vars => Calls \/ ToConditions \/ phase' # "conditions"
<1> SUFFICES ASSUME [Next]_vars PROVE Calls \/ ToConditions \/ phase' # "conditions"
  OBVIOUS
<1>1. CASE Start \/ RefreshFails \/ NextPhase \/ Finish
  BY <1>1 DEF Start, RefreshFails, NextPhase, Finish, ToTopology, ToTaint, ToPodInfo, ToLabels
<1>2. OnError => ToConditions \/ phase' # "conditions"
  BY DEF OnError, ToPodInfo
<1>3. CASE CallFails
  BY <1>2, <1>3 DEF CallFails
<1>4. ASSUME NEW q \in Pods, PodNotFound(q) \/ PodInfoFails(q)
      PROVE  ToConditions \/ phase' # "conditions"
  BY <1>2, <1>4 DEF PodNotFound, PodInfoFails
<1>5. ASSUME NEW q \in Pods,
             \/ UpdateNodeWithPodInfo(q) \/ syncSlurmDeadline(q) \/ syncSlurmTopology(q)
             \/ updateNodeSetPodConditions(q) \/ updateNodeSetPodPDBLabels(q)
      PROVE  Calls
  BY <1>5 DEF UpdateNodeWithPodInfo, syncSlurmDeadline, syncSlurmTopology,
              updateNodeSetPodConditions, updateNodeSetPodPDBLabels, Calls
<1>6. ASSUME NEW q \in Pods,
             \/ DeliverPod(q) \/ EpilogEnds(q) \/ PodRuns(q) \/ PodKilled(q) \/ PodRecreated(q)
             \/ \E end \in Ends : JobStarts(q, end) \/ JobEnds(q, end)
             \/ \E n \in KubeNodes : PodBinding(q, n)
      PROVE  Calls
  BY <1>6 DEF DeliverPod, EpilogEnds, JobStarts, JobEnds, PodRuns, PodKilled, PodRecreated, PodBinding,
              reconcile, Calls
<1>7. ASSUME NEW n \in KubeNodes,
             syncTaint(n) \/ \E line \in TopologySpecs : AdminSetsTopology(n, line)
      PROVE  Calls
  BY <1>7 DEF syncTaint, AdminSetsTopology, reconcile, Calls
<1>8. CASE syncNodeSetStatus \/ ClientLost \/ ClientFound \/ ClientPolls \/ UNCHANGED vars
  BY <1>8 DEF syncNodeSetStatus, ClientLost, ClientFound, ClientPolls, vars, reconcile, Calls
<1> QED
  BY <1>1, <1>3, <1>4, <1>5, <1>6, <1>7, <1>8 DEF Next, Reconciler, Platform, Environment

LEMMA PlanStaysShielded ==
  ASSUME ShieldInv, [Next]_vars, NEW p \in Pods, Shielded(p), phase' = "conditions", p \in todo'
  PROVE  IsNodeBusy(plan'[p])
<1>1. CASE Calls
  BY <1>1 DEF Calls, Shielded
<1>2. CASE ToConditions
  <2>1. plan' = CalculateNodeStatus
    BY <1>2 DEF ToConditions
  <2>2. CalculateNodeStatus[p] = GetStateAsSet(seen[p])
    BY DEF CalculateNodeStatus, Shielded
  <2>3. IsNodeBusy(CalculateNodeStatus[p])
    BY <2>2 DEF Shielded
  <2> QED
    BY <2>1, <2>3
<1> QED
  BY <1>1, <1>2, StepMovesPlan

(***************************************************************************)
(* No reconcile takes the pod-protect label from a pod whose node runs     *)
(* work and was seen busy by the Slurm client (CalculateNodeStatus,        *)
(* updateNodeSetPodConditions, updateNodeSetPodPDBLabels), for any number  *)
(* of pods, jobs, lost calls, failed refreshes and stale reads.            *)
(***************************************************************************)
THEOREM ShieldCorrect == Spec => ShieldHolds
<1> DEFINE A == \A p \in Pods : Shielded(p) /\ WorkRuns(p)' /\ client' /\ Exists(p)' => Shielded(p)'
<1>1. ShieldInv /\ [Next]_vars => A
  <2> SUFFICES ASSUME ShieldInv, [Next]_vars, NEW p \in Pods,
                      Shielded(p), WorkRuns(p)', client', Exists(p)'
               PROVE  Shielded(p)'
    OBVIOUS
  <2>1. p \in DOMAIN pod'
    BY DEF Exists
  <2>2. pod'[p].protect /\ IsNodeBusy(pod'[p].conds)
    BY <2>1, PodStaysShielded
  <2>3. p \in DOMAIN cache' /\ cache'[p].protect /\ IsNodeBusy(cache'[p].conds)
    BY CacheStaysShielded
  <2>4. phase' = "conditions" /\ p \in todo' => IsNodeBusy(plan'[p])
    BY PlanStaysShielded
  <2>5. IsNodeBusy(GetStateAsSet(seen'[p]))
    BY SeenStaysBusy
  <2>6. IsNodeBusy(GetStateAsSet(seen[p]))'
    BY <2>5 DEF IsNodeBusy, GetStateAsSet
  <2> QED
    BY <2>1, <2>2, <2>3, <2>4, <2>6 DEF Shielded, IsNodeBusy
<1>2. Spec => []ShieldInv
  BY ShieldInit, ShieldStep, PTL DEF Spec
<1>3. ShieldInv /\ [Next]_vars => [A]_vars
  BY <1>1
<1>4. ShieldHolds <=> [][A]_vars
  BY PTL DEF ShieldHolds
<1> HIDE DEF A
<1> QED
  BY <1>2, <1>3, <1>4, PTL DEF Spec
=============================================================================
