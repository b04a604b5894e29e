------------------------- MODULE NodeSetDaemonProofs -------------------------
(***************************************************************************)
(* For any set of nodes, any number of replicas and any number of outside   *)
(* events: NodeSetDaemon is type correct, the daemon pods of a node are     *)
(* bounded, and a reconcile deletes no pod without a reason.                *)
(***************************************************************************)
EXTENDS NodeSetDaemon, FiniteSetTheorems, WellFoundedInduction, TLAPS

-----------------------------------------------------------------------------
(* Operators *)

ExpectationRecords ==
    [has : BOOLEAN, adds : Int, dels : Int, uids : SUBSET Pods, expired : BOOLEAN]

LEMMA DaemonsNat ==
  /\ DaemonPods \subseteq Nat /\ Ordinals \subseteq Nat /\ Pods \subseteq Nat
  /\ Ordinals \intersect DaemonPods = {}
BY BoundsAssumption DEF DaemonPods, Ordinals, Pods

LEMMA PodsFinite == IsFiniteSet(Pods) /\ IsFiniteSet(Nodes \union Ordinals)
<1>1. IsFiniteSet(Ordinals) /\ IsFiniteSet(DaemonPods)
  BY BoundsAssumption, FS_Interval DEF Ordinals, DaemonPods
<1> QED
  BY <1>1, NodesAssumption, FS_Union DEF Pods

LEMMA SmallSets ==
  ASSUME NEW S, S \subseteq Pods \/ S \subseteq Nodes \union Ordinals
  PROVE  /\ IsFiniteSet(S) /\ Cardinality(S) \in Nat
         /\ Cardinality(S) = 0 <=> S = {}
         /\ \A T \in SUBSET S : Cardinality(T) <= Cardinality(S) /\ Cardinality(T) \in Nat
<1>1. IsFiniteSet(S)
  BY PodsFinite, FS_Subset
<1> QED
  BY <1>1, FS_Subset, FS_CardinalityType, FS_EmptySet

LEMMA AddOne ==
  ASSUME NEW S, IsFiniteSet(S), NEW x
  PROVE  /\ IsFiniteSet(S \union {x}) /\ Cardinality(S \union {x}) \in Nat
         /\ Cardinality(S \union {x}) <= Cardinality(S) + 1
<1>1. Cardinality(S) \in Nat
  BY FS_CardinalityType
<1>2. IsFiniteSet(S \union {x})
      /\ Cardinality(S \union {x}) = IF x \in S THEN Cardinality(S) ELSE Cardinality(S) + 1
  BY FS_AddElement
<1> QED
  BY <1>1, <1>2

(* Min is the least of a set of naturals. *)
LEMMA MinIn ==
  ASSUME NEW S \in SUBSET Nat, S # {}
  PROVE  Min(S) \in S
<1> DEFINE R == { ss \in Nat \X Nat : ss[1] < ss[2] }
<1>1. IsWellFoundedOn(R, Nat)
  BY NatLessThanWellFounded DEF OpToRel
<1>2. \A x, y \in Nat : y < x => <<y, x>> \in R
  OBVIOUS
<1> HIDE DEF R
<1>3. PICK x \in S : \A y \in S : ~(<<y, x>> \in R)
  BY <1>1, WFMin
<1>4. ASSUME NEW y \in S PROVE x =< y
  <2>1. x \in Nat /\ y \in Nat /\ ~(<<y, x>> \in R)
    BY <1>3
  <2>2. ~(y < x)
    BY <1>2, <2>1, Zenon
  <2> QED
    BY <2>1, <2>2
<1> QED
  BY <1>4 DEF Min

LEMMA ExpectationTypes ==
  ASSUME NEW e \in ExpectationRecords
  PROVE  /\ NoExpectations \in ExpectationRecords
         /\ SetExpectations(e, 0, 0) \in ExpectationRecords
         /\ \A times \in Int : CreationsObserved(e, times) \in ExpectationRecords
<1> USE DEF ExpectationRecords
<1>1. NoExpectations \in ExpectationRecords
  BY DEF NoExpectations
<1>2. SetExpectations(e, 0, 0) \in ExpectationRecords
  BY DEF SetExpectations
<1>3. ASSUME NEW times \in Int PROVE CreationsObserved(e, times) \in ExpectationRecords
  BY DEF CreationsObserved
<1> QED
  BY <1>1, <1>2, <1>3

LEMMA DeletionObservedType ==
  ASSUME NEW e \in ExpectationRecords, NEW p \in Pods, NEW r, r = DeletionObserved(e, p)
  PROVE  /\ r \in ExpectationRecords
         /\ r.has = e.has /\ r.adds = e.adds /\ r.expired = e.expired
<1> USE DEF ExpectationRecords
<1>1. CASE p \in e.uids
  <2>1. r = [has |-> e.has, adds |-> e.adds, dels |-> IF e.has THEN e.dels - 1 ELSE e.dels,
             uids |-> e.uids \ {p}, expired |-> e.expired]
    BY <1>1 DEF DeletionObserved
  <2>2. (IF e.has THEN e.dels - 1 ELSE e.dels) \in Int
    OBVIOUS
  <2> QED
    BY <2>1, <2>2
<1>2. CASE p \notin e.uids
  BY <1>2 DEF DeletionObserved
<1> QED
  BY <1>1, <1>2

(* What doPodScale expects replaces all that was expected before. *)
LEMMA ScaleExpectationsType ==
  ASSUME exp \in ExpectationRecords,
         NEW create \in SUBSET (Nodes \union Ordinals), NEW delete \in SUBSET Pods,
         NEW r, r = ScaleExpectations(create, delete)
  PROVE  /\ r \in ExpectationRecords
         /\ r.has /\ r.adds = Cardinality(create) /\ ~r.expired
<1> DEFINE n == Cardinality(create)
           d == [has |-> TRUE, adds |-> 0, dels |-> Cardinality(delete), uids |-> delete,
                 expired |-> FALSE]
<1>1. [exp EXCEPT !.uids = delete].uids = delete
  BY DEF ExpectationRecords
<1>2. ExpectDeletions(exp, delete) = d
  BY <1>1 DEF ExpectDeletions, SetExpectations
<1>3. n \in Nat /\ Cardinality(delete) \in Int
  BY SmallSets
<1>4. r = [d EXCEPT !.adds = 0 + n]
  BY <1>2 DEF ScaleExpectations, RaiseExpectations
<1> HIDE DEF n
<1>5. d \in ExpectationRecords /\ 0 + n \in Int
  BY <1>3 DEF ExpectationRecords
<1>6. r \in ExpectationRecords
  BY <1>4, <1>5 DEF ExpectationRecords
<1>7. r.has /\ r.adds = n /\ ~r.expired
  BY <1>3, <1>4
<1> QED
  BY <1>6, <1>7 DEF n

-----------------------------------------------------------------------------
(* Type correctness, one part of the state after the other *)

PodPart ==
    /\ pod \in [Pods -> PodRecords] /\ cache \in [Pods -> PodRecords]
    /\ \A p \in Pods : pod[p].st = "none" => pod[p] = NoPod
    /\ \A p \in Pods : cache[p].st = "none" => cache[p] = NoPod

WorldPart ==
    /\ nodes \in [Nodes -> NodeStates] /\ mode \in Modes
    /\ slurm \in [SlurmNames -> SlurmStates]
    /\ backoff \in [Nodes -> 0..MaxBackoff] /\ budget \in 0..MaxDisturbances

PlanPart ==
    /\ pc \in {"idle", "check", "uncordon", "create", "delete"}
    /\ wmode \in Modes /\ snap \in [Pods -> PodRecords]
    /\ keep \in SUBSET Pods /\ toCreate \in SUBSET (Nodes \union Ordinals)
    /\ toDelete \in SUBSET Pods /\ unwanted \in SUBSET Pods

TypeInv ==
    /\ PodPart /\ WorldPart /\ PlanPart
    /\ exp \in ExpectationRecords /\ process \in BOOLEAN /\ slips \in Nat

LEMMA TypeInvType == TypeInv => TypeOK
BY DEF TypeInv, TypeOK, PodPart, WorldPart, PlanPart, ExpectationRecords

LEMMA NoPodsType == NoPods \in [Pods -> PodRecords] /\ \A p \in Pods : NoPods[p] = NoPod
BY DEF NoPods, NoPod, PodRecords, PodStates

LEMMA TypeInit == Init => TypeInv
<1> SUFFICES ASSUME Init PROVE TypeInv
  OBVIOUS
<1>1. PodPart
  BY NoPodsType DEF Init, PodPart
<1>2. WorldPart
  BY BoundsAssumption DEF Init, WorldPart, SlurmStates
<1>3. PlanPart /\ process \in BOOLEAN
  BY NoPodsType DEF Init, PlanPart, Modes
<1>4. exp \in ExpectationRecords /\ slips \in Nat
  BY DEF Init, ExpectationRecords, NoExpectations
<1> QED
  BY <1>1, <1>2, <1>3, <1>4 DEF TypeInv

Live == {"pending", "running", "failed"}

(* What may become of a pod, apart from its creation. *)
Ages(r, s, p) ==
    \/ s = r
    \/ s = NoPod
    \/ /\ r.st \in Live /\ s \in PodRecords
       /\ s.st \in {"running", "failed", "term", "dead"}
       /\ p \in DaemonPods => s.node = r.node

LEMMA DeletedAges ==
  ASSUME NEW r \in PodRecords, NEW p
  PROVE  Ages(r, Deleted(r), p)
<1>1. CASE r.st \in {"pending", "running"}
  <2>1. Deleted(r) = [r EXCEPT !.st = "term"]
    BY <1>1 DEF Deleted
  <2> QED
    BY <1>1, <2>1 DEF Ages, Live, PodRecords, PodStates
<1>2. CASE r.st = "failed"
  <2>1. Deleted(r) = [r EXCEPT !.st = "dead"]
    BY <1>2 DEF Deleted
  <2> QED
    BY <1>2, <2>1 DEF Ages, Live, PodRecords, PodStates
<1>3. CASE r.st \notin Live
  <2>1. Deleted(r) = r
    BY <1>3 DEF Deleted, Live
  <2> QED
    BY <1>3, <2>1 DEF Ages, Live
<1> QED
  BY <1>1, <1>2, <1>3 DEF Live

(* A step of the reconcile that makes a pod, reported or not. *)
Creates(t) == CreateNodeSetPod(t) \/ CreateReportsError(t)

(* Only a create brings a pod into being, and a daemon pod stays with its   *)
(* node.                                                                    *)
LEMMA PodStep ==
  ASSUME PodPart, [Next]_vars
  PROVE  \/ \E t \in Nodes \union Ordinals : Creates(t)
         \/ /\ pod' \in [Pods -> PodRecords]
            /\ \A p \in Pods : Ages(pod[p], pod'[p], p)
<1> DEFINE Aged == /\ pod' \in [Pods -> PodRecords]
                   /\ \A p \in Pods : Ages(pod[p], pod'[p], p)
<1>t. pod \in [Pods -> PodRecords]
  BY DEF PodPart
<1>0. ASSUME UNCHANGED pod PROVE Aged
  BY <1>0, <1>t DEF Ages
<1>n. NoPod \in PodRecords
  BY DEF NoPod, PodRecords, PodStates
<1>1. ASSUME NEW p \in Pods, NEW r \in PodRecords, Ages(pod[p], r, p),
             pod' = [pod EXCEPT ![p] = r]
      PROVE  Aged
  <2>1. \A q \in Pods : pod'[q] = pod[q] \/ (q = p /\ pod'[q] = r)
    BY <1>1, <1>t
  <2> QED
    BY <1>1, <1>t, <2>1 DEF Ages
<1>2. ASSUME NEW p \in Pods, ProcessCondemned(p) PROVE Aged
  <2>1. UNCHANGED pod \/ pod' = [pod EXCEPT ![p] = Deleted(pod[p])]
    <3>1. CASE cache[p].st = "none" \/ cache[p].st \in {"term", "dead"}
      BY <1>2, <3>1 DEF ProcessCondemned
    <3>2. CASE ~(cache[p].st = "none" \/ cache[p].st \in {"term", "dead"})
      BY <1>2, <3>2 DEF ProcessCondemned
    <3> QED
      BY <3>1, <3>2
  <2>2. Ages(pod[p], Deleted(pod[p]), p) /\ pod[p] \in PodRecords
    BY <1>t, DeletedAges
  <2>3. Deleted(pod[p]) \in PodRecords
    BY <2>2, <1>n DEF Ages
  <2> QED
    BY <1>0, <1>1, <1>t, <2>1, <2>2, <2>3
<1>3. ASSUME DeletesOver PROVE Aged
  <2>1. \A p \in Pods : pod[p] \in PodRecords /\ Ages(pod[p], Deleted(pod[p]), p)
    BY <1>t, DeletedAges
  <2>2. \A p \in Pods : Deleted(pod[p]) \in PodRecords
    BY <1>n, <2>1 DEF Ages
  <2>3. pod' = [p \in Pods |-> IF process /\ p \in podsNewScaling /\ snap[p].st = "failed"
                               THEN Deleted(pod[p]) ELSE pod[p]]
    BY <1>3 DEF DeletesOver
  <2>4. \A p \in Pods : pod'[p] = pod[p] \/ pod'[p] = Deleted(pod[p])
    BY <2>3
  <2>5. pod' \in [Pods -> PodRecords]
    BY <1>t, <2>2, <2>3
  <2> QED
    BY <2>1, <2>4, <2>5 DEF Ages
<1>4. ASSUME NEW p \in Pods, Schedule(p) PROVE Aged
  <2>1. PICK n \in Nodes : /\ p \in DaemonPods => n = pod[p].node
                           /\ pod' = [pod EXCEPT ![p] = [st |-> "running", node |-> n]]
    BY <1>4 DEF Schedule
  <2> DEFINE r == [st |-> "running", node |-> n]
  <2>2. r \in PodRecords /\ r.st = "running" /\ r.node = n
    BY DEF PodRecords, PodStates
  <2>3. pod[p].st \in Live
    BY <1>4 DEF Schedule, Live
  <2> HIDE DEF r
  <2>4. Ages(pod[p], r, p)
    BY <2>1, <2>2, <2>3 DEF Ages
  <2> QED
    BY <1>1, <2>1, <2>2, <2>4 DEF r
<1>5. ASSUME NEW p \in Pods, PodFails(p) PROVE Aged
  <2> DEFINE r == [pod[p] EXCEPT !.st = "failed"]
  <2>1. r \in PodRecords /\ r.st = "failed" /\ r.node = pod[p].node
    BY <1>t DEF PodRecords, PodStates
  <2>2. pod' = [pod EXCEPT ![p] = r] /\ pod[p].st \in Live
    BY <1>5, <1>t DEF PodFails, Live
  <2> HIDE DEF r
  <2>3. Ages(pod[p], r, p)
    BY <2>1, <2>2 DEF Ages
  <2> QED
    BY <1>1, <2>1, <2>2, <2>3
<1>6. ASSUME NEW p \in Pods, PodEvicted(p) PROVE Aged
  <2>1. pod' = [pod EXCEPT ![p] = Deleted(@)]
    BY <1>6 DEF PodEvicted
  <2>2. Ages(pod[p], Deleted(pod[p]), p) /\ pod[p] \in PodRecords
    BY <1>t, DeletedAges
  <2>3. Deleted(pod[p]) \in PodRecords
    BY <2>2, <1>n DEF Ages
  <2> QED
    BY <1>1, <1>t, <2>1, <2>2, <2>3
<1>7. ASSUME NEW p \in Pods, PodStops(p) PROVE Aged
  BY <1>1, <1>7, <1>n DEF PodStops, Ages
<1>8. ASSUME SyncSlurmNodes PROVE Aged
  <2>1. \A p \in Pods : pod[p] \in PodRecords /\ Ages(pod[p], Deleted(pod[p]), p)
    BY <1>t, DeletedAges
  <2>2. \A p \in Pods : Deleted(pod[p]) \in PodRecords
    BY <1>n, <2>1 DEF Ages
  <2>3. pod' = [p \in Pods |-> IF Unregistered(p) THEN Deleted(pod[p]) ELSE pod[p]]
    BY <1>8 DEF SyncSlurmNodes
  <2>4. \A p \in Pods : pod'[p] = pod[p] \/ pod'[p] = Deleted(pod[p])
    BY <2>3
  <2>5. pod' \in [Pods -> PodRecords]
    BY <1>t, <2>2, <2>3
  <2> QED
    BY <2>1, <2>4, <2>5 DEF Ages
<1>9. ASSUME DaemonScale \/ OrdinalScale \/ DoPodProcessing PROVE Aged
  BY <1>8, <1>9 DEF DaemonScale, OrdinalScale, DoPodProcessing, SyncCordon
<1> QED
  BY <1>0, <1>2, <1>3, <1>4, <1>5, <1>6, <1>7, <1>9
     DEF Next, vars, world, Sync, Environment, SyncList, SyncUnsatisfied, SyncPodUncordon,
         UncordonFails, UserSwitchesMode, ExpectationsExpire, ExpectationsExpireEarly,
         Expire, SyncFails, SlurmForgets, OperatorRestarts, UserChangesNode, CreateFails,
         CondemnedFails, Register, JobStarts, JobEnds, SlurmChanges, PodCacheSync, Creates

(* The pod that is created is new, to the API server and, if it is a daemon *)
(* pod, to the cache.                                                       *)
LEMMA CreatedPod ==
  ASSUME PodPart, NEW t \in Nodes \union Ordinals, CreateThisPod(t)
  PROVE  \E p \in Pods :
           /\ pod[p] = NoPod
           /\ pod' \in [Pods -> PodRecords]
           /\ pod'[p].st = "pending"
           /\ \A q \in Pods \ {p} : pod'[q] = pod[q]
           /\ \/ t \in Nodes /\ p \in DaemonPods /\ cache[p] = NoPod /\ pod'[p].node = t
              \/ t \in Ordinals /\ p \in Ordinals
<1>t. pod \in [Pods -> PodRecords]
  BY DEF PodPart
<1>1. CASE t \in Nodes
  <2> DEFINE free == { p \in DaemonPods : pod[p] = NoPod /\ cache[p] = NoPod }
             r == [st |-> "pending", node |-> t]
  <2>1. free # {} /\ pod' = [pod EXCEPT ![Min(free)] = r]
    BY <1>1, NodesAssumption DEF CreateThisPod
  <2>2. Min(free) \in free
    BY <2>1, MinIn, DaemonsNat
  <2>3. Min(free) \in Pods /\ r \in PodRecords /\ r.st = "pending" /\ r.node = t
    BY <1>1, <2>2 DEF Pods, PodRecords, PodStates
  <2> HIDE DEF r
  <2>4. PICK p \in Pods : p = Min(free)
    BY <2>3
  <2>5. /\ pod' \in [Pods -> PodRecords] /\ pod'[p] = r
        /\ \A q \in Pods \ {p} : pod'[q] = pod[q]
    BY <1>t, <2>1, <2>3, <2>4
  <2>6. p \in DaemonPods /\ pod[p] = NoPod /\ cache[p] = NoPod
    BY <2>2, <2>4
  <2> QED
    BY <1>1, <2>3, <2>5, <2>6
<1>2. CASE t \in Ordinals
  <2> DEFINE r == [st |-> "pending", node |-> "none"]
  <2>1. pod[t] = NoPod /\ pod' = [pod EXCEPT ![t] = r]
    BY <1>2, NodesAssumption DEF CreateThisPod
  <2>2. t \in Pods /\ r \in PodRecords /\ r.st = "pending"
    BY <1>2 DEF Pods, PodRecords, PodStates
  <2> HIDE DEF r
  <2>3. /\ pod' \in [Pods -> PodRecords] /\ pod'[t] = r
        /\ \A q \in Pods \ {t} : pod'[q] = pod[q]
    BY <1>t, <2>1, <2>2
  <2> QED
    BY <1>2, <2>1, <2>2, <2>3
<1> QED
  BY <1>1, <1>2

LEMMA CreatesAPod ==
  ASSUME NEW t, Creates(t)
  PROVE  /\ CreateThisPod(t) /\ pc = "create" /\ t \in toCreate
         /\ UNCHANGED cache /\ pc' \in {"create", "delete"}
         /\ \/ toCreate' = toCreate \ {t} /\ UNCHANGED <<exp, slips>>
            \/ /\ toCreate' = {} /\ slips' = slips + 1 /\ pc' = "delete"
               /\ exp' = CreationsObserved(exp, Cardinality(toCreate))
BY DEF Creates, CreateNodeSetPod, CreateReportsError, SkipCreates, AfterCreates

LEMMA PodPartStep ==
  ASSUME PodPart, [Next]_vars
  PROVE  PodPart'
<1>t. pod \in [Pods -> PodRecords] /\ cache \in [Pods -> PodRecords]
  BY DEF PodPart
<1>1. /\ pod' \in [Pods -> PodRecords]
      /\ \A p \in Pods : pod'[p].st = "none" => pod'[p] = NoPod
  <2>1. CASE \E t \in Nodes \union Ordinals : Creates(t)
    <3>1. PICK p \in Pods : /\ pod' \in [Pods -> PodRecords] /\ pod'[p].st = "pending"
                            /\ \A q \in Pods \ {p} : pod'[q] = pod[q]
      BY <2>1, CreatedPod, CreatesAPod
    <3> QED
      BY <3>1 DEF PodPart
  <2>2. CASE /\ pod' \in [Pods -> PodRecords]
             /\ \A p \in Pods : Ages(pod[p], pod'[p], p)
    BY <2>2 DEF Ages, PodPart
  <2> QED
    BY <2>1, <2>2, PodStep
<1>2. /\ cache' \in [Pods -> PodRecords]
      /\ \A p \in Pods : cache'[p].st = "none" => cache'[p] = NoPod
  <2>1. CASE UNCHANGED cache
    BY <2>1 DEF PodPart
  <2>2. CASE cache' = pod
    BY <2>2 DEF PodPart
  <2>3. ASSUME NEW p \in Pods, cache' = [cache EXCEPT ![p] = pod[p]]
        PROVE  /\ cache' \in [Pods -> PodRecords]
               /\ \A q \in Pods : cache'[q].st = "none" => cache'[q] = NoPod
    <3>1. \A q \in Pods : cache'[q] = cache[q] \/ cache'[q] = pod[q]
      BY <1>t, <2>3
    <3> QED
      BY <1>t, <2>3, <3>1 DEF PodPart
  <2> QED
    BY <2>1, <2>2, <2>3
       DEF Next, vars, Sync, Environment, SyncList, SyncUnsatisfied, DaemonScale,
           OrdinalScale, doPodScale, DoPodProcessing, SyncPodUncordon, UncordonFails,
           UserSwitchesMode, ExpectationsExpire, ExpectationsExpireEarly, Expire, SyncFails,
           SlurmForgets, OperatorRestarts, UserChangesNode, CreateFails, SkipCreates,
           CondemnedFails, Register, JobStarts, JobEnds, SlurmChanges, PodCacheSync,
           CreateNodeSetPod, CreateReportsError, ProcessCondemned, DeletesOver, Schedule,
           PodFails, PodEvicted, PodStops, Idle
<1> QED
  BY <1>1, <1>2 DEF PodPart

(* What the operator asks of Slurm and what happens there. *)
LEMMA SlurmStep ==
  ASSUME WorldPart, [Next]_vars
  PROVE  slurm' \in [SlurmNames -> SlurmStates]
<1>t. slurm \in [SlurmNames -> SlurmStates]
  BY DEF WorldPart
<1>0. CASE UNCHANGED slurm
  BY <1>0, <1>t
<1>1. ASSUME NEW S, MakeNodesDrain(S) \/ MakeNodesUndrain(S)
      PROVE  slurm' \in [SlurmNames -> SlurmStates]
  BY <1>1, <1>t DEF MakeNodesDrain, MakeNodesUndrain, Drained, Undrained, SlurmStates
<1>2. ASSUME NEW s, NEW to \in SlurmStates, slurm' = [slurm EXCEPT ![s] = to]
      PROVE  slurm' \in [SlurmNames -> SlurmStates]
  BY <1>2, <1>t
<1>3. ASSUME NEW p \in Pods, ProcessCondemned(p) PROVE slurm' \in [SlurmNames -> SlurmStates]
  <2>1. UNCHANGED slurm \/ MakeNodesDrain({p})
    <3>1. CASE cache[p].st = "none" \/ cache[p].st \in {"term", "dead"}
      BY <1>3, <3>1 DEF ProcessCondemned
    <3>2. CASE ~(cache[p].st = "none" \/ cache[p].st \in {"term", "dead"})
      BY <1>3, <3>2 DEF ProcessCondemned
    <3> QED
      BY <3>1, <3>2
  <2> QED
    BY <1>0, <1>1, <2>1
<1>4. ASSUME NEW p \in Pods, \/ Register(p) \/ JobStarts(p) \/ JobEnds(p)
                             \/ SlurmForgets(p) \/ PodStops(p)
      PROVE  slurm' \in [SlurmNames -> SlurmStates]
  <2>1. \E to \in {"none", "up", "busy", "drained", "lost"} :
          slurm' = [slurm EXCEPT ![GetSlurmNodeName(p, pod[p])] = to]
    BY <1>4 DEF Register, JobStarts, JobEnds, SlurmChanges, SlurmForgets, PodStops
  <2> QED
    BY <1>2, <2>1 DEF SlurmStates
<1> QED
  BY <1>0, <1>1, <1>3, <1>4
     DEF Next, vars, world, Sync, Environment, SyncList, SyncUnsatisfied, SyncCordon,
         DaemonScale, OrdinalScale, doPodScale, DoPodProcessing, SyncPodUncordon,
         UncordonFails, UserSwitchesMode, ExpectationsExpire, ExpectationsExpireEarly,
         Expire, SyncFails, SlurmForgets, OperatorRestarts, UserChangesNode, CreateFails,
         SkipCreates, CondemnedFails, PodCacheSync, CreateNodeSetPod, CreateReportsError,
         DeletesOver, Schedule, PodFails, PodEvicted

LEMMA BackoffStep ==
  ASSUME WorldPart, [Next]_vars
  PROVE  backoff' \in [Nodes -> 0..MaxBackoff]
<1>t. backoff \in [Nodes -> 0..MaxBackoff]
  BY DEF WorldPart
<1>0. CASE UNCHANGED backoff
  BY <1>0, <1>t
<1>1. CASE backoff' = [n \in Nodes |-> 0]
  BY <1>1, BoundsAssumption
<1>2. ASSUME NEW killed \in Killable, NextBackoff(killed)
      PROVE  backoff' \in [Nodes -> 0..MaxBackoff]
  <2>1. ASSUME NEW n \in Nodes, killed \intersect FailedOn(n) # {}
        PROVE  backoff[n] + 1 \in 0..MaxBackoff
    <3>1. backoff[n] # MaxBackoff /\ backoff[n] \in 0..MaxBackoff
      BY <1>t, <2>1 DEF Killable
    <3> QED
      BY <3>1, BoundsAssumption
  <2> QED
    BY <1>2, <1>t, <2>1 DEF NextBackoff
<1> QED
  BY <1>0, <1>1, <1>2
     DEF Next, vars, Sync, Environment, SyncList, SyncUnsatisfied, DaemonScale,
         OrdinalScale, doPodScale, DoPodProcessing, SyncPodUncordon, UncordonFails,
         UserSwitchesMode, ExpectationsExpire, ExpectationsExpireEarly, Expire, SyncFails,
         SlurmForgets, OperatorRestarts, UserChangesNode, CreateFails, SkipCreates,
         CondemnedFails, Register, JobStarts, JobEnds, SlurmChanges, PodCacheSync,
         CreateNodeSetPod, CreateReportsError, ProcessCondemned, DeletesOver, Schedule,
         PodFails, PodEvicted, PodStops, Idle

LEMMA BudgetStep ==
  ASSUME WorldPart, [Next]_vars
  PROVE  budget' \in 0..MaxDisturbances
<1>0. ASSUME UNCHANGED budget \/ Change \/ Fault PROVE budget' \in 0..MaxDisturbances
  BY <1>0, BoundsAssumption DEF WorldPart, Change, Fault
<1> QED
  BY <1>0
     DEF Next, vars, Sync, Environment, SyncList, SyncUnsatisfied, DaemonScale,
         OrdinalScale, doPodScale, DoPodProcessing, SyncPodUncordon, UncordonFails,
         UserSwitchesMode, ExpectationsExpire, ExpectationsExpireEarly, Expire, SyncFails,
         SlurmForgets, OperatorRestarts, UserChangesNode, CreateFails, SkipCreates,
         CondemnedFails, Register, JobStarts, JobEnds, SlurmChanges, PodCacheSync,
         CreateNodeSetPod, CreateReportsError, ProcessCondemned, DeletesOver, Schedule,
         PodFails, PodEvicted, PodStops

LEMMA WorldStep ==
  ASSUME WorldPart, [Next]_vars
  PROVE  WorldPart'
<1>1. nodes' \in [Nodes -> NodeStates] /\ mode' \in Modes
  <2>1. ASSUME NEW n \in Nodes, NEW state \in NodeStates, UserChangesNode(n, state)
        PROVE  nodes' \in [Nodes -> NodeStates] /\ mode' \in Modes
    BY <2>1 DEF UserChangesNode, WorldPart
  <2>2. CASE UserSwitchesMode
    BY <2>2 DEF UserSwitchesMode, WorldPart
  <2>3. CASE UNCHANGED <<nodes, mode>>
    BY <2>3 DEF WorldPart
  <2> QED
    BY <2>1, <2>2, <2>3
       DEF Next, vars, world, Sync, Environment, SyncList, SyncUnsatisfied, DaemonScale,
           OrdinalScale, doPodScale, DoPodProcessing, SyncPodUncordon, UncordonFails,
           ExpectationsExpire, ExpectationsExpireEarly, Expire, SyncFails, SlurmForgets,
           OperatorRestarts, CreateFails, SkipCreates, CondemnedFails, Register, JobStarts,
           JobEnds, SlurmChanges, PodCacheSync, CreateNodeSetPod, CreateReportsError,
           ProcessCondemned, DeletesOver, Schedule, PodFails, PodEvicted, PodStops
<1> QED
  BY <1>1, SlurmStep, BackoffStep, BudgetStep DEF WorldPart

LEMMA PlanTypes ==
  /\ podsNewScaling \in SUBSET Pods /\ podsOldScaling \in SUBSET Pods
  /\ \A delete : Unwanted(delete) \in SUBSET Pods
  /\ nodesNeedingDaemonPods \in SUBSET (Nodes \union Ordinals)
  /\ Ordinals \ Exists(snap) \in SUBSET (Nodes \union Ordinals)
  /\ \A killed : PodsToDelete(killed) \in SUBSET Pods
<1>1. \A n : nodeToDaemonPods(n) \in SUBSET Pods
  BY DEF nodeToDaemonPods, podsNewScaling, Exists
<1>2. ASSUME NEW n, NEW killed PROVE podsToDeleteOn(n, killed) \in SUBSET Pods
  BY <1>1 DEF podsToDeleteOn, Surplus, FailedOn
<1> QED
  BY <1>2 DEF podsNewScaling, podsOldScaling, Unwanted, nodesNeedingDaemonPods,
              PodsToDelete, Exists

(* The plan of doPodScale, whichever mode it is made in. *)
LEMMA ScalePlan ==
  ASSUME DaemonScale \/ OrdinalScale
  PROVE  \E create \in SUBSET (Nodes \union Ordinals), delete \in SUBSET Pods :
           doPodScale(podsNewScaling, create, delete)
BY PlanTypes DEF DaemonScale, OrdinalScale

LEMMA PlanStep ==
  ASSUME TypeInv, [Next]_vars
  PROVE  PlanPart' /\ process' \in BOOLEAN
<1>t. PlanPart /\ process \in BOOLEAN
  BY DEF TypeInv
<1>c. cache \in [Pods -> PodRecords] /\ mode \in Modes
  BY DEF TypeInv, PodPart, WorldPart
<1>0. ASSUME UNCHANGED plan,
             pc' \in {"idle", "check", "uncordon", "create", "delete"}
      PROVE  PlanPart' /\ process' \in BOOLEAN
  BY <1>0, <1>t DEF plan, PlanPart
<1>1. ASSUME Return PROVE PlanPart' /\ process' \in BOOLEAN
  <2>1. process' \in BOOLEAN
    BY <1>1 DEF Return
  <2> QED
    BY <1>1, <2>1, NoPodsType DEF Return, PlanPart, Modes
<1>2. CASE SyncList
  BY <1>2, <1>t, <1>c DEF SyncList, PlanPart
<1>3. CASE DaemonScale \/ OrdinalScale
  <2>1. PICK create \in SUBSET (Nodes \union Ordinals), delete \in SUBSET Pods :
          doPodScale(podsNewScaling, create, delete)
    BY <1>3, ScalePlan
  <2>2. process' \in BOOLEAN
    BY <2>1 DEF doPodScale
  <2> QED
    BY <1>t, <2>1, <2>2, PlanTypes DEF doPodScale, PlanPart
<1>4. CASE DoPodProcessing
  <2>1. process' \in BOOLEAN
    BY <1>4 DEF DoPodProcessing
  <2> QED
    BY <1>4, <1>t, <2>1, PlanTypes DEF DoPodProcessing, PodsOfOtherMode, PlanPart
<1>5. CASE SyncPodUncordon
  BY <1>0, <1>5 DEF SyncPodUncordon, AfterCreates
<1>6. CASE UncordonFails
  BY <1>0, <1>1, <1>6 DEF UncordonFails, AfterCreates
<1>7. ASSUME NEW t \in Nodes \union Ordinals,
             CreateNodeSetPod(t) \/ CreateReportsError(t) \/ CreateFails(t)
      PROVE  PlanPart' /\ process' \in BOOLEAN
  <2>1. /\ toCreate' \in SUBSET (Nodes \union Ordinals) /\ pc' \in {"create", "delete"}
        /\ UNCHANGED <<wmode, snap, keep, toDelete, process, unwanted>>
    BY <1>7, <1>t DEF CreateNodeSetPod, CreateReportsError, CreateFails, SkipCreates,
                      AfterCreates, PlanPart
  <2> QED
    BY <1>t, <2>1 DEF PlanPart
<1>8. ASSUME NEW p \in Pods, ProcessCondemned(p) \/ CondemnedFails(p)
      PROVE  PlanPart' /\ process' \in BOOLEAN
  <2>1. toDelete' \in SUBSET Pods
        /\ UNCHANGED <<pc, wmode, snap, keep, toCreate, process, unwanted>>
    BY <1>8, <1>t DEF ProcessCondemned, CondemnedFails, PlanPart
  <2> QED
    BY <1>t, <2>1 DEF PlanPart
<1>p. pc \in {"idle", "check", "uncordon", "create", "delete"}
  BY <1>t DEF PlanPart
<1> QED
  BY <1>0, <1>p, <1>1, <1>2, <1>3, <1>4, <1>5, <1>6, <1>7, <1>8
     DEF Next, vars, Sync, Environment, SyncUnsatisfied, UserSwitchesMode,
         ExpectationsExpire, ExpectationsExpireEarly, Expire, SyncFails, SlurmForgets,
         OperatorRestarts, UserChangesNode, Register, JobStarts, JobEnds, SlurmChanges,
         PodCacheSync, DeletesOver, Schedule, PodFails, PodEvicted, PodStops, Idle

(* The ways a step may change the expectations. *)
LEMMA ExpStep ==
  ASSUME TypeInv, [Next]_vars
  PROVE  exp' \in ExpectationRecords
<1>e. exp \in ExpectationRecords
  BY DEF TypeInv
<1>0. CASE UNCHANGED exp
  BY <1>0, <1>e
<1>1. CASE DaemonScale \/ OrdinalScale
  <2>1. PICK create \in SUBSET (Nodes \union Ordinals), delete \in SUBSET Pods :
          doPodScale(podsNewScaling, create, delete)
    BY <1>1, ScalePlan
  <2> QED
    BY <1>e, <2>1, ScaleExpectationsType DEF doPodScale
<1>2. CASE DoPodProcessing
  BY <1>2, <1>e, ExpectationTypes DEF DoPodProcessing
<1>3. ASSUME NEW t \in Nodes \union Ordinals, CreateFails(t) \/ CreateReportsError(t)
      PROVE  exp' \in ExpectationRecords
  <2>1. Cardinality(toCreate) \in Int
    BY SmallSets DEF TypeInv, PlanPart
  <2> QED
    BY <1>3, <1>e, <2>1, ExpectationTypes DEF CreateFails, CreateReportsError, SkipCreates
<1>4. ASSUME NEW p \in Pods, exp' = exp \/ exp' = DeletionObserved(exp, p)
      PROVE  exp' \in ExpectationRecords
  BY <1>4, <1>e, DeletionObservedType
<1>5. ASSUME NEW p \in Pods, ProcessCondemned(p) PROVE exp' = exp \/ exp' = DeletionObserved(exp, p)
  <2>1. CASE cache[p].st = "none" \/ cache[p].st \in {"term", "dead"}
    BY <1>5, <2>1 DEF ProcessCondemned
  <2>2. CASE ~(cache[p].st = "none" \/ cache[p].st \in {"term", "dead"})
    BY <1>5, <2>2 DEF ProcessCondemned
  <2> QED
    BY <2>1, <2>2
<1>6. ASSUME NEW p \in Pods, PodCacheSync(p) PROVE exp' \in ExpectationRecords
  <2>1. exp' = exp \/ exp' = DeletionObserved(exp, p) \/ exp' = CreationsObserved(exp, 1)
    BY <1>6 DEF PodCacheSync
  <2> QED
    BY <1>4, <1>e, <2>1, ExpectationTypes
<1>7. CASE ExpectationsExpire \/ ExpectationsExpireEarly
  BY <1>7, <1>e DEF ExpectationsExpire, ExpectationsExpireEarly, Expire, ExpectationRecords
<1>8. CASE OperatorRestarts
  BY <1>8, <1>e, ExpectationTypes DEF OperatorRestarts
<1> QED
  BY <1>0, <1>1, <1>2, <1>3, <1>4, <1>5, <1>6, <1>7, <1>8
     DEF Next, vars, Sync, Environment, SyncList, SyncUnsatisfied, SyncFails, SlurmForgets,
         SyncPodUncordon, UncordonFails, UserSwitchesMode, UserChangesNode, CondemnedFails,
         Register, JobStarts, JobEnds, SlurmChanges, CreateNodeSetPod, CreateReportsError,
         DeletesOver, Schedule, PodFails, PodEvicted, PodStops, Idle

LEMMA SlipsStep ==
  ASSUME slips \in Nat, [Next]_vars
  PROVE  slips' \in Nat /\ slips' >= slips
<1>1. Cardinality(Unseen) \in Nat
  BY SmallSets DEF Unseen
<1>2. CASE UNCHANGED slips
  BY <1>2
<1>3. CASE slips' = slips + 1 \/ slips' = slips + Cardinality(Unseen)
  BY <1>1, <1>3
<1> QED
  BY <1>2, <1>3
     DEF Next, vars, Sync, Environment, SyncList, SyncUnsatisfied, DaemonScale,
         OrdinalScale, doPodScale, DoPodProcessing, SyncPodUncordon, UncordonFails,
         UserSwitchesMode, ExpectationsExpire, ExpectationsExpireEarly, Expire, SyncFails,
         SlurmForgets, OperatorRestarts, UserChangesNode, CreateFails, CondemnedFails,
         Register, JobStarts, JobEnds, SlurmChanges, PodCacheSync, CreateNodeSetPod,
         CreateReportsError, ProcessCondemned, DeletesOver, Schedule, PodFails, PodEvicted,
         PodStops, Idle

LEMMA TypeStep == TypeInv /\ [Next]_vars => TypeInv'
<1> SUFFICES ASSUME TypeInv, [Next]_vars PROVE TypeInv'
  OBVIOUS
<1>1. /\ PodPart' /\ WorldPart' /\ PlanPart'
      /\ exp' \in ExpectationRecords /\ process' \in BOOLEAN /\ slips' \in Nat
  BY PodPartStep, WorldStep, PlanStep, ExpStep, SlipsStep DEF TypeInv
<1> QED
  BY <1>1 DEF TypeInv, ExpectationRecords

(* NodeSetDaemon is type correct: in particular the backoff of a node never *)
(* exceeds its bound, and no plan names a pod or node that is not one.      *)
THEOREM TypeCorrect == Spec => []TypeOK
<1>1. Spec => []TypeInv
  BY TypeInit, TypeStep, PTL DEF Spec
<1> QED
  BY <1>1, TypeInvType, PTL

-----------------------------------------------------------------------------
(* The reconcile deletes no pod without a reason *)

(* Of pods that share a node, one is not surplus. *)
LEMMA SurplusSpares ==
  ASSUME NEW S, NEW p \in Surplus(S)
  PROVE  p \in S /\ \E c \in S : c # p /\ c \notin Surplus(S)
<1> DEFINE First(c) == \A q \in S : snap[q].st = "pending" => snap[c].st = "pending"
<1>1. \E c \in S : First(c)
  <2>1. p \in S
    BY DEF Surplus
  <2>2. CASE \E c \in S : snap[c].st = "pending"
    BY <2>2
  <2>3. CASE ~\E c \in S : snap[c].st = "pending"
    BY <2>1, <2>3
  <2> QED
    BY <2>2, <2>3
<1>2. PICK c \in S : Surplus(S) = S \ {c}
  BY <1>1 DEF Surplus
<1> QED
  BY <1>2

LEMMA PlannedForAReason ==
  ASSUME WorldPart, wmode = "DaemonSet", NEW killed
  PROVE  PodsToDelete(killed) \subseteq Unwanted(PodsToDelete(killed))
<1> DEFINE D == PodsToDelete(killed)
<1> SUFFICES ASSUME NEW n \in Nodes, NEW p \in podsToDeleteOn(n, killed)
             PROVE  p \in Unwanted(D)
  BY DEF PodsToDelete
<1> DEFINE listed(sts) == { q \in nodeToDaemonPods(n) : snap[q].st \in sts }
<1>1. /\ nodeToDaemonPods(n) \subseteq Exists(snap) /\ Exists(snap) \subseteq Pods
      /\ \A m : \A q \in nodeToDaemonPods(m) : snap[q].node = m
  BY DEF nodeToDaemonPods, podsNewScaling, Exists
<1>2. CASE p \in FailedOn(n)
  BY <1>1, <1>2 DEF Unwanted, FailedOn
<1>3. CASE shouldContinueRunning(n) /\ p \in Surplus(listed({"pending", "running"}))
  <2> DEFINE S == listed({"pending", "running"})
  <2>1. p \in S /\ \E c \in S : c # p /\ c \notin Surplus(S)
    BY <1>3, SurplusSpares
  <2>2. PICK c \in S : c # p /\ c \notin Surplus(S)
    BY <2>1
  <2>3. ASSUME NEW m \in Nodes, c \in podsToDeleteOn(m, killed) PROVE FALSE
    <3>1. podsToDeleteOn(m, killed) \subseteq nodeToDaemonPods(m)
      BY DEF podsToDeleteOn, Surplus, FailedOn
    <3>2. m = n
      BY <1>1, <2>3, <3>1
    <3>3. c \notin FailedOn(n)
      BY DEF FailedOn
    <3> QED
      BY <1>3, <2>2, <2>3, <3>2, <3>3 DEF podsToDeleteOn
  <2>4. c \notin D
    BY <2>3 DEF PodsToDelete
  <2>5. snap[p].node = n /\ p \in Exists(snap) /\ c \in nodeToDaemonPods(n)
        /\ snap[c].st \in {"pending", "running"}
    BY <1>1, <2>1
  <2> HIDE DEF D, S
  <2> QED
    BY <2>2, <2>4, <2>5 DEF Unwanted
<1>4. CASE ~shouldContinueRunning(n)
  <2>1. nodes[n] \in {"left", "unlabelled"}
    BY <1>4, BoundsAssumption DEF shouldContinueRunning, WorldPart, AllNodeStates
  <2>2. snap[p].node = n /\ p \in Exists(snap)
    BY <1>1, <1>4 DEF podsToDeleteOn
  <2> QED
    BY <2>1, <2>2 DEF Unwanted
<1> QED
  BY <1>2, <1>3, <1>4 DEF podsToDeleteOn

ReasonInv ==
    /\ toDelete \subseteq unwanted
    /\ process => { p \in podsNewScaling : snap[p].st = "failed" } \subseteq unwanted
    /\ pc \in {"idle", "check"} => ~process

LEMMA ReasonStep ==
  ASSUME TypeInv, ReasonInv, [Next]_vars
  PROVE  ReasonInv'
<1>0. ASSUME UNCHANGED <<wmode, snap, process, unwanted>>, toDelete' \subseteq toDelete,
             pc' \in {"idle", "check"} => UNCHANGED pc
      PROVE  ReasonInv'
  BY <1>0 DEF ReasonInv, podsNewScaling, Exists
<1>1. ASSUME Return PROVE ReasonInv'
  BY <1>1 DEF Return, ReasonInv
<1>2. CASE SyncList
  BY <1>2 DEF SyncList, ReasonInv
<1>3. CASE DaemonScale
  <2>1. PICK killed : /\ toDelete' = PodsToDelete(killed)
                      /\ unwanted' = Unwanted(PodsToDelete(killed))
                      /\ process' = FALSE /\ pc' = "uncordon"
    BY <1>3 DEF DaemonScale, doPodScale
  <2>2. PodsToDelete(killed) \subseteq Unwanted(PodsToDelete(killed))
    BY <1>3, PlannedForAReason DEF DaemonScale, TypeInv
  <2> QED
    BY <2>1, <2>2 DEF ReasonInv
<1>4. CASE OrdinalScale
  BY <1>4 DEF OrdinalScale, doPodScale, ReasonInv
<1>5. CASE DoPodProcessing
  <2>1. podsOldScaling \subseteq Unwanted(podsOldScaling)
        /\ { p \in podsNewScaling : snap[p].st = "failed" } \subseteq Unwanted(podsOldScaling)
    BY DEF podsOldScaling, podsNewScaling, Unwanted
  <2>2. podsNewScaling' = podsNewScaling /\ snap' = snap
    BY <1>5 DEF DoPodProcessing, podsNewScaling, Exists
  <2> QED
    BY <1>5, <2>1, <2>2 DEF DoPodProcessing, PodsOfOtherMode, ReasonInv
<1>6. CASE SyncPodUncordon \/ UncordonFails
  BY <1>0, <1>1, <1>6 DEF SyncPodUncordon, UncordonFails, AfterCreates, plan
<1>7. ASSUME NEW t \in Nodes \union Ordinals,
             CreateNodeSetPod(t) \/ CreateReportsError(t) \/ CreateFails(t)
      PROVE  ReasonInv'
  BY <1>0, <1>7 DEF CreateNodeSetPod, CreateReportsError, CreateFails, SkipCreates, AfterCreates
<1>8. ASSUME NEW p \in Pods, ProcessCondemned(p) \/ CondemnedFails(p) PROVE ReasonInv'
  <2>1. toDelete' \subseteq toDelete /\ UNCHANGED <<wmode, snap, process, unwanted, pc>>
    BY <1>8 DEF ProcessCondemned, CondemnedFails
  <2> QED
    BY <1>0, <2>1
<1> QED
  BY <1>0, <1>1, <1>2, <1>3, <1>4, <1>5, <1>6, <1>7, <1>8
     DEF Next, vars, plan, Sync, Environment, SyncUnsatisfied, UserSwitchesMode,
         ExpectationsExpire, ExpectationsExpireEarly, Expire, SyncFails, SlurmForgets,
         OperatorRestarts, UserChangesNode, Register, JobStarts, JobEnds, SlurmChanges,
         PodCacheSync, DeletesOver, Schedule, PodFails, PodEvicted, PodStops, Idle

(* The cache shows a daemon pod, once it shows it, on its node. *)
SeenInv ==
    \A p \in DaemonPods :
      pod[p].st \in Live /\ cache[p] # NoPod =>
        cache[p].st \in Live /\ cache[p].node = pod[p].node

LEMMA SeenStep ==
  ASSUME PodPart, SeenInv, [Next]_vars
  PROVE  SeenInv'
<1>c. cache \in [Pods -> PodRecords] /\ pod \in [Pods -> PodRecords] /\ DaemonPods \subseteq Pods
  BY DEF PodPart, Pods
<1>1. ASSUME NEW t \in Nodes \union Ordinals, Creates(t) PROVE SeenInv'
  <2>1. cache' = cache
    BY <1>1, CreatesAPod
  <2>2. PICK p \in Pods : /\ \A q \in Pods \ {p} : pod'[q] = pod[q]
                          /\ cache[p] = NoPod \/ p \in Ordinals
    BY <1>1, CreatedPod, CreatesAPod
  <2> QED
    BY <1>c, <2>1, <2>2, DaemonsNat DEF SeenInv
<1>2. CASE OperatorRestarts
  BY <1>2 DEF OperatorRestarts, world, SeenInv
<1>3. ASSUME NEW q \in Pods, PodCacheSync(q) PROVE SeenInv'
  <2>1. cache' = [cache EXCEPT ![q] = pod[q]] /\ pod' = pod
    BY <1>3 DEF PodCacheSync, world
  <2>2. \A p \in Pods : cache'[p] = cache[p] \/ cache'[p] = pod[p]
    BY <1>c, <2>1
  <2> QED
    BY <1>c, <2>1, <2>2 DEF SeenInv
<1>4. ASSUME UNCHANGED cache, pod' \in [Pods -> PodRecords],
             \A p \in Pods : Ages(pod[p], pod'[p], p)
      PROVE  SeenInv'
  <2>1. ASSUME NEW p \in DaemonPods, pod'[p].st \in Live
        PROVE  pod[p].st \in Live /\ pod'[p].node = pod[p].node
    BY <1>c, <1>4, <2>1 DEF Ages, NoPod, Live
  <2> QED
    BY <1>4, <2>1 DEF SeenInv
<1> QED
  BY <1>1, <1>2, <1>3, <1>4, PodStep
     DEF Next, vars, Sync, Environment, SyncList, SyncUnsatisfied, DaemonScale,
         OrdinalScale, doPodScale, DoPodProcessing, SyncPodUncordon, UncordonFails,
         UserSwitchesMode, ExpectationsExpire, ExpectationsExpireEarly, Expire, SyncFails,
         SlurmForgets, UserChangesNode, CreateFails, SkipCreates, CondemnedFails, Register,
         JobStarts, JobEnds, SlurmChanges, CreateNodeSetPod, CreateReportsError,
         ProcessCondemned, DeletesOver, Schedule, PodFails, PodEvicted, PodStops, Idle

(* Before the plan is made, the list shows it on its node as well. *)
ListedInv ==
    pc = "check" =>
      \A p \in DaemonPods :
        pod[p].st \in Live /\ snap[p] # NoPod => snap[p].node = pod[p].node

LEMMA ListedStep ==
  ASSUME PodPart, SeenInv, ListedInv, [Next]_vars
  PROVE  ListedInv'
<1> SUFFICES ASSUME pc' = "check", NEW p \in DaemonPods, pod'[p].st \in Live, snap'[p] # NoPod
             PROVE  snap'[p].node = pod'[p].node
  BY DEF ListedInv
<1>p. p \in Pods
  BY DEF Pods
<1>1. ~\E t \in Nodes \union Ordinals : Creates(t)
  BY CreatesAPod
<1>2. Ages(pod[p], pod'[p], p)
  BY <1>1, <1>p, PodStep
<1>3. pod[p].st \in Live /\ pod'[p].node = pod[p].node
  BY <1>2 DEF Ages, NoPod, Live
<1>4. CASE SyncList
  BY <1>3, <1>4 DEF SyncList, SeenInv
<1>5. CASE pc = "check" /\ UNCHANGED snap
  BY <1>3, <1>5 DEF ListedInv
<1> QED
  BY <1>4, <1>5
     DEF Next, vars, plan, Sync, Environment, SyncUnsatisfied, SyncPodUncordon, DaemonScale,
         OrdinalScale, doPodScale, DoPodProcessing, AfterCreates, UncordonFails, Return,
         CreateNodeSetPod, CreateReportsError, CreateFails, SkipCreates, CondemnedFails,
         ProcessCondemned, DeletesOver, OperatorRestarts, ExpectationsExpire,
         ExpectationsExpireEarly, Expire, SyncFails, SlurmForgets, PodCacheSync,
         UserSwitchesMode, UserChangesNode, Register, JobStarts, JobEnds, SlurmChanges,
         Schedule, PodFails, PodEvicted, PodStops, Idle

(* A pod that serves is deleted by no reconcile, unless the reconcile found *)
(* a reason when it was planned - its node or its mode is not the NodeSet's *)
(* any more, or another pod of its node was spared - or Slurm has lost its  *)
(* node.                                                                    *)
THEOREM ServingCorrect == Spec => ServingPodsStay
<1> DEFINE Stays == \A p \in Pods :
                      pod[p].st = "running" /\ pod'[p].st = "term" /\ pc # "idle"
                        /\ budget' = budget
                        => \/ p \in unwanted
                           \/ slurm[GetSlurmNodeName(p, pod[p])] = "lost"
           ServeInv == ReasonInv /\ SeenInv /\ ListedInv
<1>1. Init => ServeInv
  BY NoPodsType DEF Init, ReasonInv, SeenInv, ListedInv, Pods
<1>2. ASSUME TypeInv, ServeInv, [Next]_vars PROVE [Stays]_vars
  <2> SUFFICES ASSUME NEW p \in Pods, pod[p].st = "running", pod'[p].st = "term",
                      budget' = budget
               PROVE  p \in unwanted \/ slurm[GetSlurmNodeName(p, pod[p])] = "lost"
    OBVIOUS
  <2>t. pod \in [Pods -> PodRecords] /\ budget \in Nat
    BY <1>2, BoundsAssumption DEF TypeInv, PodPart, WorldPart
  <2>1. ASSUME NEW q \in Pods, ProcessCondemned(q) PROVE p \in unwanted
    <3>1. q \in toDelete /\ \A r \in Pods \ {q} : pod'[r] = pod[r]
      <4>1. CASE cache[q].st = "none" \/ cache[q].st \in {"term", "dead"}
        BY <2>1, <4>1 DEF ProcessCondemned
      <4>2. CASE ~(cache[q].st = "none" \/ cache[q].st \in {"term", "dead"})
        BY <2>1, <2>t, <4>2 DEF ProcessCondemned
      <4> QED
        BY <4>1, <4>2
    <3> QED
      BY <1>2, <3>1 DEF ReasonInv
  <2>2. CASE DeletesOver
    <3>1. pod'[p] # pod[p]
      OBVIOUS
    <3>2. process /\ p \in podsNewScaling /\ snap[p].st = "failed"
      BY <2>2, <3>1 DEF DeletesOver
    <3> QED
      BY <1>2, <3>2 DEF ReasonInv
  <2>3. ASSUME NEW t \in Nodes \union Ordinals, Creates(t) PROVE FALSE
    <3>1. PICK q \in Pods : pod'[q].st = "pending" /\ \A r \in Pods \ {q} : pod'[r] = pod[r]
      BY <1>2, <2>3, CreatedPod, CreatesAPod DEF TypeInv
    <3> QED
      BY <3>1
  <2>4. ASSUME NEW q \in Pods, Schedule(q) \/ PodStops(q) PROVE FALSE
    <3>1. PICK r : (r.st = "running" \/ r = NoPod) /\ pod' = [pod EXCEPT ![q] = r]
      BY <2>4 DEF Schedule, PodStops
    <3> QED
      BY <2>t, <3>1 DEF NoPod
  <2>5. ASSUME NEW q \in Pods, PodFails(q) \/ PodEvicted(q) PROVE FALSE
    BY <2>5, <2>t, BoundsAssumption DEF PodFails, PodEvicted, Fault
  <2>6. pod' # pod
    OBVIOUS
  <2>7. ASSUME SyncCordon PROVE slurm[GetSlurmNodeName(p, pod[p])] = "lost"
    <3>1. pod'[p] # pod[p]
      OBVIOUS
    <3>2. Unregistered(p)
      BY <2>7, <3>1 DEF SyncCordon, SyncSlurmNodes
    <3>3. p \in DaemonPods => snap[p].node = pod[p].node
      BY <1>2, <2>7, <3>2 DEF ListedInv, SyncCordon, Unregistered, NoPod, Live
    <3>4. GetSlurmNodeName(p, pod[p]) = GetSlurmNodeName(p, snap[p])
      BY <3>3 DEF GetSlurmNodeName, Pods
    <3> QED
      BY <3>2, <3>4 DEF Unregistered
  <2>8. CASE DaemonScale \/ OrdinalScale \/ DoPodProcessing
    BY <2>7, <2>8 DEF DaemonScale, OrdinalScale, DoPodProcessing
  <2> QED
    BY <1>2, <2>1, <2>2, <2>3, <2>4, <2>5, <2>6, <2>8
       DEF Next, vars, world, Sync, Environment, SyncList, SyncUnsatisfied, SyncPodUncordon,
           UncordonFails, UserSwitchesMode, ExpectationsExpire, ExpectationsExpireEarly,
           Expire, SyncFails, SlurmForgets, OperatorRestarts, UserChangesNode, CreateFails,
           CondemnedFails, Register, JobStarts, JobEnds, SlurmChanges, PodCacheSync, Creates
<1>3. TypeInv /\ ServeInv /\ [Next]_vars => [Stays]_vars
  BY <1>2
<1>4. TypeInv /\ ServeInv /\ [Next]_vars => ServeInv'
  BY ReasonStep, SeenStep, ListedStep DEF TypeInv
<1> QED
  BY <1>1, <1>3, <1>4, TypeInit, TypeStep, PTL DEF Spec, ServingPodsStay

-----------------------------------------------------------------------------
(* The pods of a node are bounded *)

(* What the reconcile has still to create. *)
Expected == IF pc \in {"uncordon", "create"} THEN Cardinality(toCreate) ELSE 0

(* Unless they expired, the expectations cover that and the pods that are   *)
(* still unseen, but for the ones that slipped; they expire, or are lost in *)
(* a restart, with nothing else left to cover.                              *)
AwaitedInv ==
    /\ exp.has /\ ~exp.expired => Cardinality(Unseen) + Expected <= exp.adds + slips
    /\ ~exp.has \/ exp.expired => Cardinality(Unseen) <= slips /\ pc \in {"idle", "check"}

NotListed(n) == \A p \in DaemonPods : snap[p].node = n => snap[p].st \in {"none", "dead"}
Planned(n) == pc \in {"uncordon", "create"} /\ n \in toCreate
UnseenOn(n) == LiveOn(n) \intersect Unseen

(* A list that shows no pod on a node is behind by one pod and those that   *)
(* slipped at the most, and so is the plan that is made with it.            *)
TwinInv ==
    \A n \in Nodes :
      /\ Cardinality(LiveOn(n)) <= 2 + slips
      /\ Cardinality(UnseenOn(n)) <= 1 + slips
      /\ Planned(n) => Cardinality(UnseenOn(n)) <= slips /\ Cardinality(LiveOn(n)) <= 1 + slips
      /\ pc = "check" /\ NotListed(n) => Cardinality(LiveOn(n)) <= 1 + slips

DaemonInv == TypeInv /\ AwaitedInv /\ SeenInv /\ TwinInv

LEMMA UnseenFinite ==
  /\ IsFiniteSet(Unseen) /\ Cardinality(Unseen) \in Nat
  /\ \A n : IsFiniteSet(LiveOn(n)) /\ Cardinality(LiveOn(n)) \in Nat
  /\ \A n : IsFiniteSet(UnseenOn(n)) /\ Cardinality(UnseenOn(n)) \in Nat
<1>1. Unseen \subseteq Pods /\ \A n : LiveOn(n) \subseteq Pods /\ UnseenOn(n) \subseteq Pods
  BY DEF Unseen, LiveOn, UnseenOn, Pods
<1> QED
  BY <1>1, SmallSets

LEMMA DaemonInit == Init => DaemonInv
<1> SUFFICES ASSUME Init PROVE DaemonInv
  OBVIOUS
<1>1. Unseen = {} /\ \A n : LiveOn(n) = {} /\ UnseenOn(n) = {}
  BY NoPodsType DEF Init, Unseen, LiveOn, UnseenOn, NoPod, Pods
<1>2. Cardinality({}) = 0 /\ slips = 0
  BY FS_EmptySet DEF Init
<1>3. AwaitedInv
  BY <1>1, <1>2 DEF Init, AwaitedInv, NoExpectations
<1>4. SeenInv
  BY NoPodsType DEF Init, SeenInv, Pods
<1>5. TwinInv
  BY <1>1, <1>2 DEF Init, TwinInv, Planned
<1> QED
  BY <1>3, <1>4, <1>5, TypeInit DEF DaemonInv

(* Nothing but a create adds to what is unseen, or to the pods of a node. *)
LEMMA NothingNew ==
  ASSUME PodPart, [Next]_vars
  PROVE  \/ \E t \in Nodes \union Ordinals : Creates(t)
         \/ Unseen' \subseteq Unseen /\ \A n : LiveOn(n)' \subseteq LiveOn(n)
<1> SUFFICES ASSUME pod' \in [Pods -> PodRecords],
                    \A p \in Pods : Ages(pod[p], pod'[p], p)
             PROVE  Unseen' \subseteq Unseen /\ \A n : LiveOn(n)' \subseteq LiveOn(n)
  BY PodStep
<1>1. ASSUME NEW p \in Pods, pod'[p].st \in Live
      PROVE  pod[p].st \in Live /\ (p \in DaemonPods => pod'[p].node = pod[p].node)
  BY <1>1 DEF Ages, NoPod, Live
<1>2. \A n : LiveOn(n)' \subseteq LiveOn(n)
  BY <1>1 DEF LiveOn, Live, Pods
<1>3. ASSUME NEW p \in Pods, pod'[p].st \in Live, cache'[p] = NoPod
      PROVE  cache[p] = NoPod
  <2>1. CASE UNCHANGED cache
    BY <1>3, <2>1
  <2>2. CASE OperatorRestarts
    BY <1>3, <2>2 DEF OperatorRestarts, world, NoPod, Live
  <2>3. ASSUME NEW q \in Pods, PodCacheSync(q) PROVE cache[p] = NoPod
    <3>1. cache' = [cache EXCEPT ![q] = pod[q]] /\ pod' = pod
      BY <2>3 DEF PodCacheSync, world
    <3>2. p # q
      BY <1>3, <3>1 DEF PodPart, NoPod, Live
    <3> QED
      BY <1>3, <3>1, <3>2 DEF PodPart
  <2> QED
    BY <2>1, <2>2, <2>3
       DEF Next, vars, Sync, Environment, SyncList, SyncUnsatisfied, DaemonScale,
           OrdinalScale, doPodScale, DoPodProcessing, SyncPodUncordon, UncordonFails,
           UserSwitchesMode, ExpectationsExpire, ExpectationsExpireEarly, Expire, SyncFails,
           SlurmForgets, UserChangesNode, CreateFails, SkipCreates, CondemnedFails,
           Register, JobStarts, JobEnds, SlurmChanges, CreateNodeSetPod, CreateReportsError,
           ProcessCondemned, DeletesOver, Schedule, PodFails, PodEvicted, PodStops, Idle
<1>4. Unseen' \subseteq Unseen
  BY <1>1, <1>3 DEF Unseen, Live
<1> QED
  BY <1>2, <1>4

(* The pod that is created is the only one that is new. *)
LEMMA CreateAdds ==
  ASSUME PodPart, NEW t \in Nodes \union Ordinals, Creates(t)
  PROVE  \E p \in Pods :
           /\ Unseen' \subseteq Unseen \union {p}
           /\ \A n : n # t => LiveOn(n)' \subseteq LiveOn(n) /\ UnseenOn(n)' \subseteq UnseenOn(n)
           /\ LiveOn(t)' \subseteq LiveOn(t) \union {p}
           /\ UnseenOn(t)' \subseteq UnseenOn(t) \union {p}
<1>1. CreateThisPod(t) /\ UNCHANGED cache
  BY CreatesAPod
<1>2. PICK p \in Pods :
        /\ \A q \in Pods \ {p} : pod'[q] = pod[q]
        /\ \/ t \in Nodes /\ p \in DaemonPods /\ pod'[p].node = t
           \/ t \in Ordinals /\ p \in Ordinals
  BY <1>1, CreatedPod
<1>3. ASSUME NEW n, n # t PROVE p \notin LiveOn(n)'
  BY <1>2, <1>3, DaemonsNat DEF LiveOn
<1>4. Unseen' \subseteq Unseen \union {p}
  BY <1>1, <1>2 DEF Unseen
<1>5. \A n : LiveOn(n)' \subseteq LiveOn(n) \union {p}
  BY <1>2 DEF LiveOn, Pods
<1> QED
  BY <1>3, <1>4, <1>5 DEF UnseenOn

(* Where syncNodeSet makes its plan, everything created before is in the    *)
(* cache, but for what slipped - though not necessarily in the list.        *)
LEMMA SatisfiedMeansSeen ==
  ASSUME exp \in ExpectationRecords, slips \in Nat, AwaitedInv, pc = "check",
         SatisfiedExpectations(exp)
  PROVE  Cardinality(Unseen) <= slips
<1>1. CASE ~exp.has \/ exp.expired
  BY <1>1 DEF AwaitedInv
<1>2. CASE exp.has /\ ~exp.expired
  <2>1. Cardinality(Unseen) + 0 <= exp.adds + slips /\ exp.adds <= 0 /\ exp.adds \in Int
    BY <1>2 DEF AwaitedInv, Expected, SatisfiedExpectations, ExpectationRecords
  <2> QED
    BY <2>1, UnseenFinite
<1> QED
  BY <1>1, <1>2

LEMMA AwaitedStep ==
  ASSUME TypeInv, AwaitedInv, [Next]_vars
  PROVE  AwaitedInv'
<1>t. PodPart /\ exp \in ExpectationRecords /\ exp' \in ExpectationRecords
      /\ toCreate \in SUBSET (Nodes \union Ordinals)
  BY TypeStep DEF TypeInv, PlanPart, ExpectationRecords
<1>n. /\ Cardinality(toCreate) \in Nat /\ Expected \in Nat
      /\ IsFiniteSet(Unseen) /\ Cardinality(Unseen) \in Nat
      /\ exp.adds \in Int
  BY <1>t, SmallSets, UnseenFinite DEF Expected, ExpectationRecords
<1>s. slips \in Nat /\ slips' \in Nat /\ slips' >= slips
  BY SlipsStep DEF TypeInv
<1>1. ASSUME NEW t \in Nodes \union Ordinals, Creates(t) PROVE AwaitedInv'
  <2>1. /\ pc = "create" /\ t \in toCreate /\ pc' \in {"create", "delete"}
        /\ \/ toCreate' = toCreate \ {t} /\ UNCHANGED <<exp, slips>>
           \/ /\ toCreate' = {} /\ slips' = slips + 1 /\ pc' = "delete"
              /\ exp' = CreationsObserved(exp, Cardinality(toCreate))
    BY <1>1, CreatesAPod
  <2>2. PICK p \in Pods : Unseen' \subseteq Unseen \union {p}
    BY <1>1, <1>t, CreateAdds
  <2>3. /\ Cardinality(Unseen') <= Cardinality(Unseen) + 1
        /\ Cardinality(Unseen') \in Nat
    <3>1. /\ IsFiniteSet(Unseen \union {p}) /\ Cardinality(Unseen \union {p}) \in Nat
          /\ Cardinality(Unseen \union {p}) <= Cardinality(Unseen) + 1
      BY <1>n, AddOne
    <3>2. Cardinality(Unseen') <= Cardinality(Unseen \union {p}) /\ IsFiniteSet(Unseen')
      BY <2>2, <3>1, FS_Subset
    <3> QED
      BY <1>n, <3>1, <3>2, FS_CardinalityType
  <2>4. exp.has /\ ~exp.expired
        /\ Cardinality(Unseen) + Cardinality(toCreate) <= exp.adds + slips
    BY <2>1 DEF AwaitedInv, Expected
  <2>5. CASE toCreate' = toCreate \ {t} /\ UNCHANGED <<exp, slips>>
    <3>1. IsFiniteSet(toCreate) /\ Cardinality(toCreate') \in Nat
      BY <1>t, <2>5, SmallSets
    <3>2. Cardinality(toCreate') = Cardinality(toCreate) - 1
      BY <2>1, <2>5, <3>1, FS_RemoveElement
    <3>3. Expected' \in Nat /\ Expected' <= Cardinality(toCreate) - 1
      BY <1>n, <2>1, <3>1, <3>2 DEF Expected
    <3> QED
      BY <1>n, <1>s, <2>3, <2>4, <2>5, <3>3 DEF AwaitedInv
  <2>6. CASE /\ slips' = slips + 1 /\ pc' = "delete"
             /\ exp' = CreationsObserved(exp, Cardinality(toCreate))
    <3>1. exp'.has /\ ~exp'.expired /\ exp'.adds = exp.adds - Cardinality(toCreate)
      BY <1>t, <2>4, <2>6 DEF CreationsObserved, ExpectationRecords
    <3>2. Expected' = 0
      BY <2>6 DEF Expected
    <3> QED
      BY <1>n, <1>s, <2>3, <2>4, <2>6, <3>1, <3>2 DEF AwaitedInv
  <2> QED
    BY <2>1, <2>5, <2>6
<1>2. ASSUME Unseen' \subseteq Unseen PROVE AwaitedInv'
  <2>u. Cardinality(Unseen') \in Nat /\ Cardinality(Unseen') <= Cardinality(Unseen)
    BY <1>2, <1>n, FS_Subset, FS_CardinalityType
  <2>0. ASSUME exp'.has = exp.has, exp'.adds = exp.adds, exp'.expired = exp.expired,
               Expected' = 0 \/ Expected' = Expected,
               pc \in {"idle", "check"} => pc' \in {"idle", "check"}
        PROVE  AwaitedInv'
    BY <1>n, <1>s, <2>0, <2>u DEF AwaitedInv
  <2>p. ASSUME UNCHANGED <<exp, pc, toCreate>> PROVE AwaitedInv'
    BY <2>0, <2>p DEF Expected
  <2>1. CASE \/ SyncList \/ SyncUnsatisfied \/ SyncFails \/ DeletesOver \/ SyncPodUncordon
             \/ UncordonFails
    BY <2>0, <2>1 DEF SyncList, SyncUnsatisfied, SyncFails, DeletesOver, SyncPodUncordon,
                      UncordonFails, Return, AfterCreates, Expected, plan
  <2>s. ASSUME SyncCordon PROVE Cardinality(Unseen') <= slips'
    <3>1. Cardinality(Unseen) <= slips
      BY <1>s, <1>t, <2>s, SatisfiedMeansSeen DEF SyncCordon
    <3> QED
      BY <1>n, <1>s, <2>u, <3>1
  <2>2. CASE DaemonScale \/ OrdinalScale
    <3>1. PICK create \in SUBSET (Nodes \union Ordinals), delete \in SUBSET Pods :
            doPodScale(podsNewScaling, create, delete)
      BY <2>2, ScalePlan
    <3>2. /\ exp'.has /\ exp'.adds = Cardinality(create) /\ ~exp'.expired
          /\ toCreate' = create /\ pc' = "uncordon"
      BY <1>t, <3>1, ScaleExpectationsType DEF doPodScale
    <3>3. Cardinality(Unseen') <= slips' /\ Cardinality(create) \in Nat
      BY <2>2, <2>s, SmallSets DEF DaemonScale, OrdinalScale
    <3>4. Expected' = Cardinality(create)
      BY <3>2 DEF Expected
    <3>5. Cardinality(Unseen') + Expected' <= exp'.adds + slips'
      BY <1>s, <2>u, <3>2, <3>3, <3>4
    <3> QED
      BY <3>2, <3>5 DEF AwaitedInv
  <2>3. CASE DoPodProcessing
    <3>1. exp'.has /\ exp'.adds = 0 /\ ~exp'.expired /\ toCreate' = {}
      BY <2>3 DEF DoPodProcessing, SetExpectations
    <3>2. Cardinality(Unseen') <= slips' /\ Expected' = 0
      BY <2>3, <2>s, <3>1, FS_EmptySet DEF DoPodProcessing, Expected
    <3>3. Cardinality(Unseen') + Expected' <= exp'.adds + slips'
      BY <1>s, <2>u, <3>1, <3>2
    <3> QED
      BY <3>1, <3>3 DEF AwaitedInv
  <2>4. ASSUME NEW t \in Nodes \union Ordinals, CreateFails(t) PROVE AwaitedInv'
    <3>1. pc = "create" /\ pc' = "delete" /\ slips' = slips
          /\ exp' = CreationsObserved(exp, Cardinality(toCreate))
      BY <2>4 DEF CreateFails, SkipCreates, AfterCreates
    <3>2. exp.has /\ ~exp.expired
          /\ Cardinality(Unseen) + Cardinality(toCreate) <= exp.adds + slips
      BY <3>1 DEF AwaitedInv, Expected
    <3>3. exp'.has /\ ~exp'.expired /\ exp'.adds = exp.adds - Cardinality(toCreate)
      BY <1>t, <3>1, <3>2 DEF CreationsObserved, ExpectationRecords
    <3>4. Expected' = 0
      BY <3>1 DEF Expected
    <3> QED
      BY <1>n, <1>s, <2>u, <3>1, <3>2, <3>3, <3>4 DEF AwaitedInv
  <2>5. ASSUME NEW p \in Pods, exp' = exp \/ exp' = DeletionObserved(exp, p),
               UNCHANGED <<pc, toCreate>>
        PROVE  AwaitedInv'
    <3>1. exp'.has = exp.has /\ exp'.adds = exp.adds /\ exp'.expired = exp.expired
      BY <1>t, <2>5, DeletionObservedType
    <3> QED
      BY <2>0, <2>5, <3>1 DEF Expected
  <2>6. ASSUME NEW p \in Pods, ProcessCondemned(p) \/ CondemnedFails(p) PROVE AwaitedInv'
    <3>1. CASE CondemnedFails(p)
      BY <2>5, <3>1 DEF CondemnedFails
    <3>2. CASE ProcessCondemned(p) /\ (cache[p].st = "none" \/ cache[p].st \in {"term", "dead"})
      BY <2>5, <3>2 DEF ProcessCondemned
    <3>3. CASE ProcessCondemned(p) /\ ~(cache[p].st = "none" \/ cache[p].st \in {"term", "dead"})
      BY <2>5, <3>3 DEF ProcessCondemned
    <3> QED
      BY <2>6, <3>1, <3>2, <3>3
  <2>7. ASSUME NEW p \in Pods, PodCacheSync(p) PROVE AwaitedInv'
    <3>1. /\ UNCHANGED <<pc, toCreate, pod, slips>> /\ cache' = [cache EXCEPT ![p] = pod[p]]
          /\ cache[p] # pod[p]
      BY <2>7 DEF PodCacheSync, plan, world
    <3>2. CASE pod[p].st \in {"none", "term", "dead"} \/ cache[p] # NoPod
      BY <2>5, <2>7, <3>1, <3>2 DEF PodCacheSync
    <3>3. CASE pod[p].st \notin {"none", "term", "dead"} /\ cache[p] = NoPod
      <4>1. pod[p].st \in Live
        BY <1>t, <3>3 DEF PodPart, PodRecords, PodStates, Live
      <4>2. p \in Unseen /\ p \notin Unseen'
        BY <1>t, <3>1, <3>3, <4>1 DEF Unseen, PodPart, Live
      <4>3. Unseen' \subseteq Unseen \ {p} /\ Cardinality(Unseen \ {p}) = Cardinality(Unseen) - 1
            /\ IsFiniteSet(Unseen \ {p})
        BY <1>2, <1>n, <4>2, FS_RemoveElement
      <4>4. Cardinality(Unseen') <= Cardinality(Unseen) - 1
        BY <4>3, FS_Subset
      <4>5. exp' = CreationsObserved(exp, 1) /\ Expected' = Expected
        BY <2>7, <3>1, <3>3 DEF PodCacheSync, Expected
      <4>6. CASE exp.has /\ ~exp.expired
        <5>1. exp'.has /\ ~exp'.expired /\ exp'.adds = exp.adds - 1
          BY <1>t, <4>5, <4>6 DEF CreationsObserved, ExpectationRecords
        <5> QED
          BY <1>n, <1>s, <2>u, <3>1, <4>4, <4>5, <4>6, <5>1 DEF AwaitedInv
      <4>7. CASE ~(exp.has /\ ~exp.expired)
        <5>1. exp'.has = exp.has /\ exp'.expired = exp.expired
          BY <1>t, <4>5, <4>7 DEF CreationsObserved, ExpectationRecords
        <5> QED
          BY <1>n, <1>s, <2>u, <3>1, <4>7, <5>1 DEF AwaitedInv
      <4> QED
        BY <4>6, <4>7
    <3> QED
      BY <3>2, <3>3
  <2>8. CASE ExpectationsExpire \/ ExpectationsExpireEarly
    <3>1. slips' = slips + Cardinality(Unseen) /\ pc' \in {"idle", "check"}
      BY <2>8 DEF ExpectationsExpire, ExpectationsExpireEarly, Expire
    <3>2. exp'.expired
      BY <1>t, <2>8 DEF ExpectationsExpire, ExpectationsExpireEarly, Expire, ExpectationRecords
    <3>3. Cardinality(Unseen') <= slips'
      BY <1>n, <1>s, <2>u, <3>1
    <3> QED
      BY <3>1, <3>2, <3>3 DEF AwaitedInv
  <2>9. CASE OperatorRestarts
    <3>1. Unseen' = {} /\ pc' = "idle"
      BY <1>t, <2>9 DEF OperatorRestarts, Return, world, Unseen, PodPart, NoPod
    <3>2. ~exp'.has
      BY <2>9 DEF OperatorRestarts, NoExpectations
    <3>3. Cardinality(Unseen') <= slips'
      BY <1>s, <3>1, FS_EmptySet
    <3> QED
      BY <3>1, <3>2, <3>3 DEF AwaitedInv
  <2> QED
    BY <1>1, <2>p, <2>1, <2>2, <2>3, <2>4, <2>6, <2>7, <2>8, <2>9
       DEF Next, vars, plan, Sync, Environment, UserSwitchesMode, UserChangesNode, Register,
           JobStarts, JobEnds, SlurmChanges, SlurmForgets, Schedule, PodFails, PodEvicted,
           PodStops, Idle, Creates
<1> QED
  BY <1>1, <1>2, <1>t, NothingNew

LEMMA TwinStep ==
  ASSUME DaemonInv, [Next]_vars
  PROVE  TwinInv'
<1>t. /\ PodPart /\ PlanPart /\ exp \in ExpectationRecords /\ AwaitedInv /\ SeenInv /\ TwinInv
      /\ toCreate \in SUBSET (Nodes \union Ordinals)
  BY DEF DaemonInv, TypeInv, PlanPart
<1>f. /\ \A n : IsFiniteSet(LiveOn(n)) /\ Cardinality(LiveOn(n)) \in Nat
      /\ \A n : IsFiniteSet(UnseenOn(n)) /\ Cardinality(UnseenOn(n)) \in Nat
      /\ IsFiniteSet(Unseen) /\ Cardinality(Unseen) \in Nat
  BY UnseenFinite
<1>s. slips \in Nat /\ slips' \in Nat /\ slips' >= slips
  BY SlipsStep DEF DaemonInv, TypeInv
<1>m. ASSUME NEW n, LiveOn(n)' \subseteq LiveOn(n), UnseenOn(n)' \subseteq UnseenOn(n)
      PROVE  /\ Cardinality(LiveOn(n)') <= Cardinality(LiveOn(n))
             /\ Cardinality(LiveOn(n)') \in Nat
             /\ Cardinality(UnseenOn(n)') <= Cardinality(UnseenOn(n))
             /\ Cardinality(UnseenOn(n)') \in Nat
  BY <1>m, <1>f, FS_Subset, FS_CardinalityType
<1>1. ASSUME NEW t \in Nodes \union Ordinals, Creates(t) PROVE TwinInv'
  <2>1. /\ pc = "create" /\ t \in toCreate /\ toCreate' \subseteq toCreate \ {t}
        /\ pc' \in {"create", "delete"}
    BY <1>1, CreatesAPod
  <2>2. PICK p \in Pods :
          /\ \A n : n # t => LiveOn(n)' \subseteq LiveOn(n) /\ UnseenOn(n)' \subseteq UnseenOn(n)
          /\ LiveOn(t)' \subseteq LiveOn(t) \union {p}
          /\ UnseenOn(t)' \subseteq UnseenOn(t) \union {p}
    BY <1>1, <1>t, CreateAdds
  <2>3. ASSUME NEW n \in Nodes, n # t
        PROVE  /\ Cardinality(LiveOn(n)') <= 2 + slips'
               /\ Cardinality(UnseenOn(n)') <= 1 + slips'
               /\ Planned(n)' => /\ Cardinality(UnseenOn(n)') <= slips'
                                 /\ Cardinality(LiveOn(n)') <= 1 + slips'
    <3>1. /\ Cardinality(LiveOn(n)') <= Cardinality(LiveOn(n))
          /\ Cardinality(LiveOn(n)') \in Nat
          /\ Cardinality(UnseenOn(n)') <= Cardinality(UnseenOn(n))
          /\ Cardinality(UnseenOn(n)') \in Nat
      BY <1>m, <2>2, <2>3
    <3>2. Planned(n)' => Planned(n)
      BY <2>1 DEF Planned
    <3>3. /\ Cardinality(LiveOn(n)) <= 2 + slips
          /\ Cardinality(UnseenOn(n)) <= 1 + slips
          /\ Planned(n) => Cardinality(UnseenOn(n)) <= slips /\ Cardinality(LiveOn(n)) <= 1 + slips
      BY <1>t DEF TwinInv
    <3> QED
      BY <1>f, <1>s, <3>1, <3>2, <3>3
  <2>4. ASSUME t \in Nodes
        PROVE  /\ Cardinality(LiveOn(t)') <= 2 + slips'
               /\ Cardinality(UnseenOn(t)') <= 1 + slips'
               /\ ~Planned(t)'
    <3>1. Cardinality(UnseenOn(t)) <= slips /\ Cardinality(LiveOn(t)) <= 1 + slips
      BY <1>t, <2>1, <2>4 DEF TwinInv, Planned
    <3>2. ASSUME NEW S, IsFiniteSet(S), Cardinality(S) \in Nat, NEW T, T \subseteq S \union {p}
          PROVE  Cardinality(T) <= Cardinality(S) + 1 /\ Cardinality(T) \in Nat
      <4>1. /\ IsFiniteSet(S \union {p}) /\ Cardinality(S \union {p}) \in Nat
            /\ Cardinality(S \union {p}) <= Cardinality(S) + 1
        BY <3>2, AddOne
      <4>2. Cardinality(T) <= Cardinality(S \union {p}) /\ Cardinality(T) \in Nat
        BY <3>2, <4>1, FS_Subset, FS_CardinalityType
      <4> QED
        BY <3>2, <4>1, <4>2
    <3>3. /\ Cardinality(LiveOn(t)') <= Cardinality(LiveOn(t)) + 1
          /\ Cardinality(LiveOn(t)') \in Nat
      BY <1>f, <2>2, <3>2
    <3>4. /\ Cardinality(UnseenOn(t)') <= Cardinality(UnseenOn(t)) + 1
          /\ Cardinality(UnseenOn(t)') \in Nat
      BY <1>f, <2>2, <3>2
    <3>5. ~Planned(t)'
      BY <2>1 DEF Planned
    <3> QED
      BY <1>f, <1>s, <3>1, <3>3, <3>4, <3>5
  <2>5. pc' # "check"
    BY <2>1
  <2> QED
    BY <2>3, <2>4, <2>5 DEF TwinInv
<1>2. ASSUME Unseen' \subseteq Unseen, \A n : LiveOn(n)' \subseteq LiveOn(n) PROVE TwinInv'
  <2>1. ASSUME NEW n \in Nodes
        PROVE  /\ Cardinality(LiveOn(n)') <= Cardinality(LiveOn(n))
               /\ Cardinality(LiveOn(n)') \in Nat
               /\ Cardinality(UnseenOn(n)') <= Cardinality(UnseenOn(n))
               /\ Cardinality(UnseenOn(n)') \in Nat
    <3>1. LiveOn(n)' \subseteq LiveOn(n) /\ UnseenOn(n)' \subseteq UnseenOn(n)
      BY <1>2 DEF UnseenOn
    <3> QED
      BY <1>m, <3>1
  <2>2. ASSUME NEW n \in Nodes
        PROVE  /\ Cardinality(LiveOn(n)') <= 2 + slips'
               /\ Cardinality(UnseenOn(n)') <= 1 + slips'
    <3>1. Cardinality(LiveOn(n)) <= 2 + slips /\ Cardinality(UnseenOn(n)) <= 1 + slips
      BY <1>t DEF TwinInv
    <3> QED
      BY <1>f, <1>s, <2>1, <3>1
  <2>3. ASSUME NEW n \in Nodes, Planned(n)'
        PROVE  Cardinality(UnseenOn(n)') <= slips' /\ Cardinality(LiveOn(n)') <= 1 + slips'
    <3>0. ASSUME Cardinality(UnseenOn(n)) <= slips, Cardinality(LiveOn(n)) <= 1 + slips
          PROVE  Cardinality(UnseenOn(n)') <= slips' /\ Cardinality(LiveOn(n)') <= 1 + slips'
      BY <1>f, <1>s, <2>1, <3>0
    <3>1. CASE Planned(n)
      BY <1>t, <3>0, <3>1 DEF TwinInv
    <3>2. CASE DaemonScale
      <4>1. pc = "check" /\ n \in nodesNeedingDaemonPods /\ wmode = "DaemonSet"
        BY <2>3, <3>2 DEF DaemonScale, SyncCordon, doPodScale, Planned
      <4>2. NotListed(n)
        BY <4>1, DaemonsNat DEF nodesNeedingDaemonPods, nodeToDaemonPods, podsNewScaling,
                               Exists, ModeOf, NotListed, Pods
      <4>3. Cardinality(Unseen) <= slips
        BY <1>s, <1>t, <3>2, <4>1, SatisfiedMeansSeen DEF DaemonScale, SyncCordon
      <4>4. Cardinality(UnseenOn(n)) <= Cardinality(Unseen)
        BY <1>f, FS_Subset DEF UnseenOn
      <4>5. Cardinality(LiveOn(n)) <= 1 + slips
        BY <1>t, <4>1, <4>2 DEF TwinInv
      <4>6. Cardinality(UnseenOn(n)) <= slips
        BY <1>f, <1>s, <4>3, <4>4
      <4> QED
        BY <3>0, <4>5, <4>6
    <3>3. CASE OrdinalScale
      BY <2>3, <3>3, NodesAssumption DEF OrdinalScale, doPodScale, Planned
    <3>4. CASE DoPodProcessing
      BY <2>3, <3>4 DEF DoPodProcessing, Planned
    <3>5. ASSUME UNCHANGED toCreate, pc' \in {"uncordon", "create"} => pc \in {"uncordon", "create"}
          PROVE  Planned(n)
      BY <2>3, <3>5 DEF Planned
    <3>6. ASSUME toCreate' = {} PROVE Planned(n)
      BY <2>3, <3>6 DEF Planned
    <3>7. ASSUME NEW t \in Nodes \union Ordinals, Creates(t)
          PROVE  Cardinality(UnseenOn(n)') <= slips' /\ Cardinality(LiveOn(n)') <= 1 + slips'
      BY <1>1, <2>3, <3>7 DEF TwinInv
    <3> QED
      BY <2>3, <3>1, <3>2, <3>3, <3>4, <3>5, <3>6, <3>7
         DEF Next, vars, plan, Sync, Environment, SyncList, SyncUnsatisfied,
             SyncPodUncordon, UncordonFails, Return, CreateFails, SkipCreates, Creates,
             CondemnedFails, ProcessCondemned, DeletesOver, OperatorRestarts,
             ExpectationsExpire, ExpectationsExpireEarly, Expire, SyncFails, SlurmForgets,
             PodCacheSync, UserSwitchesMode, UserChangesNode, Register, JobStarts, JobEnds,
             SlurmChanges, Schedule, PodFails, PodEvicted, PodStops, Idle, Planned
  <2>4. ASSUME NEW n \in Nodes, pc' = "check", NotListed(n)'
        PROVE  Cardinality(LiveOn(n)') <= 1 + slips'
    <3>0. ASSUME Cardinality(LiveOn(n)) <= 1 + slips
          PROVE  Cardinality(LiveOn(n)') <= 1 + slips'
      BY <1>f, <1>s, <2>1, <3>0
    <3>1. CASE SyncList
      <4>1. ASSUME NEW p \in LiveOn(n) PROVE p \in Unseen
        <5>1. p \in DaemonPods /\ pod[p].node = n /\ pod[p].st \in Live /\ p \in Pods
          BY DEF LiveOn, Live, Pods
        <5>2. cache[p].node = n => cache[p].st \in {"none", "dead"}
          BY <2>4, <3>1, <5>1 DEF NotListed, SyncList
        <5>3. cache[p] = NoPod
          BY <1>t, <5>1, <5>2 DEF SeenInv, Live
        <5> QED
          BY <5>1, <5>3 DEF Unseen, Live
      <4>2. LiveOn(n) = UnseenOn(n)
        BY <4>1 DEF UnseenOn
      <4>3. Cardinality(LiveOn(n)) <= 1 + slips
        BY <1>t, <4>2 DEF TwinInv
      <4> QED
        BY <3>0, <4>3
    <3>2. CASE pc = "check" /\ UNCHANGED snap
      <4>1. NotListed(n)
        BY <2>4, <3>2 DEF NotListed
      <4>2. Cardinality(LiveOn(n)) <= 1 + slips
        BY <1>t, <3>2, <4>1 DEF TwinInv
      <4> QED
        BY <3>0, <4>2
    <3> QED
      BY <1>t, <2>4, <3>1, <3>2
         DEF Next, vars, plan, Sync, Environment, SyncUnsatisfied, SyncPodUncordon,
             DaemonScale, OrdinalScale, doPodScale, DoPodProcessing, AfterCreates,
             UncordonFails, Return, CreateNodeSetPod, CreateReportsError, CreateFails,
             SkipCreates, CondemnedFails, ProcessCondemned, DeletesOver, OperatorRestarts,
             ExpectationsExpire, ExpectationsExpireEarly, Expire, SyncFails, SlurmForgets,
             PodCacheSync, UserSwitchesMode, UserChangesNode, Register, JobStarts, JobEnds,
             SlurmChanges, Schedule, PodFails, PodEvicted, PodStops, Idle
  <2> QED
    BY <2>2, <2>3, <2>4 DEF TwinInv
<1> QED
  BY <1>1, <1>2, <1>t, NothingNew

(* However stale the list of pods is when it is used, whatever fails and    *)
(* whoever changes the nodes or the mode, a node has at most two daemon     *)
(* pods that are not on their way out, and one more for every create that   *)
(* happened though an error was reported and for every pod still unseen     *)
(* when the expectations expired.                                           *)
THEOREM TwinsCorrect == Spec => []PodsPerNodeBounded
<1>1. ASSUME DaemonInv, [Next]_vars PROVE DaemonInv'
  BY <1>1, TypeStep, AwaitedStep, SeenStep, TwinStep DEF DaemonInv, TypeInv
<1>2. DaemonInv => PodsPerNodeBounded
  BY DEF DaemonInv, TwinInv, PodsPerNodeBounded
<1>3. DaemonInv /\ [Next]_vars => DaemonInv'
  BY <1>1
<1> QED
  BY <1>2, <1>3, DaemonInit, PTL DEF Spec
=============================================================================
