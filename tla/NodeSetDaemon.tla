---------------------------- MODULE NodeSetDaemon ----------------------------
(***************************************************************************)
(* A NodeSet in DaemonSet mode, and the switch between the two scaling      *)
(* modes: syncNodeSet with podsShouldBeOnNode, doPodScale, doPodProcessing  *)
(* and processCondemned of nodeset_sync.go, one reconcile after the other,  *)
(* against a stale pod cache, nodes that are cordoned, leave and come back, *)
(* pods that fail or are evicted, failing calls and operator restarts.      *)
(*                                                                         *)
(* Pods 0 .. Replicas - 1 are those of StatefulSet mode, named by ordinal;  *)
(* the others are pods of DaemonSet mode, whose names are generated.  All   *)
(* pods have the current revision (NodeSetRollout has the others), no burst *)
(* is reached (NodeSetScale), and what the operator asks of Slurm is taken  *)
(* to be known at once (NodeSetDrain); a pod's cordon annotation and the    *)
(* drain of its Slurm node are one flag here.                               *)
(***************************************************************************)
EXTENDS Expectations, FiniteSetsExt

CONSTANTS
    Nodes,            \* Kubernetes nodes
    Replicas,         \* spec.replicas, for StatefulSet mode
    MaxDaemons,       \* bound: generated pod names in use at a time
    MaxBackoff,       \* bound: failures until the backoff outgrows the requeue
    NodeStates,       \* what may become of a node
    InitialModes,     \* the scaling modes a NodeSet is created with
    MaxDisturbances,  \* bound: what outside events may cost in a behaviour
    FaultCost         \* cost of a failure, eviction or restart; a user's change costs 1

VARIABLES
    nodes,     \* state of each Kubernetes node
    mode,      \* spec.scalingMode
    pod,       \* API server: [st, node] of each pod
    cache,     \* informer cache
    slurm,     \* slurmctld: the Slurm node of each name
    exp,       \* expectations of this NodeSet
    backoff,   \* failedPodsBackoff: attempts to kill failed pods on a node
    pc,        \* where the reconcile is
    wmode,     \* spec.scalingMode as the reconcile read it
    snap,      \* the pods it listed
    keep,      \* podsToKeep
    toCreate,  \* podsToCreate: nodes or ordinals
    toDelete,  \* podsToDelete
    process,   \* doPodProcessing rather than doPodScale
    unwanted,  \* history: pods the reconcile had a reason to delete
    slips,     \* history: pods whose creation ceased to be expected before it was observed
    budget     \* what is left of MaxDisturbances

world == <<nodes, mode, pod, slurm>>
plan == <<wmode, snap, keep, toCreate, toDelete, process, unwanted>>
vars == <<world, cache, exp, backoff, pc, plan, slips, budget>>

AllNodeStates == {"open", "cordoned", "left", "unlabelled"}
Modes == {"DaemonSet", "StatefulSet"}
Ordinals == 0..(Replicas - 1)
DaemonPods == Replicas..(Replicas + MaxDaemons - 1)
Pods == Ordinals \union DaemonPods
PodStates == {"none", "pending", "running", "failed", "term", "dead"}
(* A node that was registered and is no more is "lost" until its pod goes. *)
SlurmStates == {"none", "up", "busy", "draining", "drained", "lost"}

ASSUME BoundsAssumption ==
    /\ Replicas \in Nat /\ MaxDaemons \in Nat
    /\ MaxBackoff \in Nat \ {0} /\ MaxDisturbances \in Nat /\ FaultCost \in Nat \ {0}
    /\ NodeStates \subseteq AllNodeStates /\ "open" \in NodeStates
    /\ InitialModes \subseteq Modes

(* Nodes have names of their own, and pods that are not bound have none. *)
ASSUME NodesAssumption ==
    IsFiniteSet(Nodes) /\ Nodes \intersect Ordinals = {} /\ "none" \notin Nodes

NoPod == [st |-> "none", node |-> "none"]
PodRecords == [st : PodStates, node : Nodes \union {"none"}]
ModeOf(p) == IF p \in Ordinals THEN "StatefulSet" ELSE "DaemonSet"

(* The Slurm node of a daemon pod has the name of its Kubernetes node, that *)
(* of an ordinal pod the pod's name.                                        *)
SlurmNames == Nodes \union Ordinals
GetSlurmNodeName(p, r) == IF p \in Ordinals THEN p ELSE r.node

TypeOK ==
    /\ nodes \in [Nodes -> NodeStates]
    /\ mode \in Modes
    /\ pod \in [Pods -> PodRecords]
    /\ cache \in [Pods -> PodRecords]
    /\ slurm \in [SlurmNames -> SlurmStates]
    /\ exp \in [has : BOOLEAN, adds : Int, dels : Int, uids : SUBSET Pods,
                expired : BOOLEAN]
    /\ backoff \in [Nodes -> 0..MaxBackoff]
    /\ pc \in {"idle", "check", "uncordon", "create", "delete"}
    /\ wmode \in Modes
    /\ snap \in [Pods -> PodRecords]
    /\ keep \in SUBSET Pods
    /\ toCreate \in SUBSET (Nodes \union Ordinals)
    /\ toDelete \in SUBSET Pods
    /\ process \in BOOLEAN
    /\ unwanted \in SUBSET Pods
    /\ slips \in Nat
    /\ budget \in 0..MaxDisturbances

NoPods == [p \in Pods |-> NoPod]
Exists(pods) == { p \in Pods : pods[p].st # "none" }

Init ==
    /\ nodes \in [Nodes -> {"open"}]
    /\ mode \in InitialModes
    /\ pod = NoPods
    /\ cache = NoPods
    /\ slurm = [s \in SlurmNames |-> "none"]
    /\ exp = NoExpectations
    /\ backoff = [n \in Nodes |-> 0]
    /\ pc = "idle"
    /\ wmode = "StatefulSet"
    /\ snap = NoPods
    /\ keep = {} /\ toCreate = {} /\ toDelete = {}
    /\ process = FALSE
    /\ unwanted = {}
    /\ slips = 0
    /\ budget = MaxDisturbances

Change == budget > 0 /\ budget' = budget - 1
Fault == budget >= FaultCost /\ budget' = budget - FaultCost

-----------------------------------------------------------------------------
(* What the operator asks of Slurm and of the API server *)

Drained(s) == IF s = "up" THEN "drained" ELSE IF s = "busy" THEN "draining" ELSE s
Undrained(s) == IF s = "drained" THEN "up" ELSE IF s = "draining" THEN "busy" ELSE s

NamesOf(S) == { GetSlurmNodeName(p, snap[p]) : p \in S }

MakeNodesDrain(S) ==
    slurm' = [s \in SlurmNames |-> IF s \in NamesOf(S) THEN Drained(slurm[s]) ELSE slurm[s]]

\* mutant: the request is not sent
UndrainDropped(S) == UNCHANGED slurm

MakeNodesUndrain(S) ==
    slurm' = [s \in SlurmNames |-> IF s \in NamesOf(S) THEN Undrained(slurm[s]) ELSE slurm[s]]

(* A node that is not registered is tolerated as drained. *)
IsNodeDrained(p) == slurm[GetSlurmNodeName(p, snap[p])] \in {"none", "drained", "lost"}

Deleted(r) ==
    CASE r.st \in {"pending", "running"} -> [r EXCEPT !.st = "term"]
      [] r.st = "failed" -> [r EXCEPT !.st = "dead"]
      [] OTHER -> r

-----------------------------------------------------------------------------
(* Which pods should be where: NodeShouldRunDaemonPod, podsShouldBeOnNode.  *)
(* A cordoned node has the unschedulable:NoSchedule taint, which a pod that *)
(* already runs may ignore; a node that left, or lost its label, no longer  *)
(* matches the affinity of the template.                                    *)

shouldRun(n) == nodes[n] = "open"

\* mutant: a pod is not allowed to stay behind a NoSchedule taint
shouldRunOnly(n) == nodes[n] = "open"

shouldContinueRunning(n) == nodes[n] \in {"open", "cordoned"}

\* mutant: the cordon is not looked at
NeverCordoned(n) == FALSE

isNodeCordoned(n) == n \in Nodes /\ nodes[n] \in {"cordoned", "left"}

podsNewScaling == { p \in Exists(snap) : ModeOf(p) = wmode }
podsOldScaling == Exists(snap) \ podsNewScaling

(* Pods that are terminal and being deleted are left out. *)
nodeToDaemonPods(n) ==
    { p \in podsNewScaling : snap[p].node = n /\ snap[p].st # "dead" }

nodesNeedingDaemonPods ==
    { n \in Nodes : shouldRun(n) /\ nodeToDaemonPods(n) = {} }

(* All but the first in the order of ActivePods, which puts pods that have  *)
(* no node yet before those that run.                                       *)
Surplus(S) ==
    IF S = {} THEN {}
    ELSE S \ {CHOOSE p \in S : \A q \in S : snap[q].st = "pending" => snap[p].st = "pending"}

FailedOn(n) == { p \in nodeToDaemonPods(n) : snap[p].st = "failed" }

(* killed: the failed pods that the backoff lets through. *)
podsToDeleteOn(n, killed) ==
    LET listed(sts) == { p \in nodeToDaemonPods(n) : snap[p].st \in sts }
    IN  IF shouldContinueRunning(n)
        THEN Surplus(listed({"pending", "running"})) \union (killed \intersect FailedOn(n))
        ELSE listed({"pending", "running", "failed"})

PodsToDelete(killed) == UNION { podsToDeleteOn(n, killed) : n \in Nodes }

(* The first failed pod of a node puts the others of the pass into backoff. *)
(* Delays double from one second; after MaxBackoff failures the delay is    *)
(* longer than the 30 seconds between two reconciles.                       *)
Killable ==
    { K \in SUBSET Exists(snap) :
        \A n \in Nodes :
          /\ \A p, q \in K \intersect FailedOn(n) : p = q
          /\ backoff[n] = MaxBackoff => K \intersect FailedOn(n) = {}
          /\ backoff[n] = 0 /\ FailedOn(n) # {} => K \intersect FailedOn(n) # {} }

NextBackoff(killed) ==
    backoff' = [n \in Nodes |->
                  IF shouldContinueRunning(n) /\ killed \intersect FailedOn(n) # {}
                  THEN backoff[n] + 1 ELSE backoff[n]]

-----------------------------------------------------------------------------
(* The reconcile, up to syncNodeSet *)

SyncList ==
    /\ pc = "idle"
    /\ pc' = "check"
    /\ wmode' = mode
    /\ snap' = cache
    /\ UNCHANGED <<world, cache, exp, backoff, keep, toCreate, toDelete, process,
                   unwanted, slips, budget>>

(* The locals of the reconcile go with it. *)
Return ==
    /\ pc' = "idle"
    /\ wmode' = "StatefulSet"
    /\ snap' = NoPods
    /\ keep' = {} /\ toCreate' = {} /\ toDelete' = {}
    /\ process' = FALSE
    /\ unwanted' = {}

SyncUnsatisfied ==
    /\ pc = "check"
    /\ ~SatisfiedExpectations(exp)
    /\ Return
    /\ UNCHANGED <<world, cache, exp, backoff, slips, budget>>

SyncFails ==
    /\ pc = "check"
    /\ SatisfiedExpectations(exp)
    /\ Fault
    /\ Return
    /\ UNCHANGED <<world, cache, exp, backoff, slips>>

(* syncSlurmNodes: pods that are ready though Slurm has lost their node. *)
Unregistered(p) ==
    snap[p].st = "running" /\ slurm[GetSlurmNodeName(p, snap[p])] = "lost"

SyncSlurmNodes ==
    pod' = [p \in Pods |-> IF Unregistered(p) THEN Deleted(pod[p]) ELSE pod[p]]

(* On the way to syncNodeSet, the pods of a cordoned node are drained. *)
SyncCordon ==
    /\ pc = "check"
    /\ SatisfiedExpectations(exp)
    /\ SyncSlurmNodes
    /\ MakeNodesDrain({ p \in Exists(snap) :
                          snap[p].st # "pending" /\ isNodeCordoned(snap[p].node) })

-----------------------------------------------------------------------------
(* syncNodeSet *)

\* mutant: the creations are not awaited
ExpectDeletionsOnly(create, delete) == ExpectDeletions(exp, delete)

ScaleExpectations(create, delete) ==
    RaiseExpectations(ExpectDeletions(exp, delete), Cardinality(create))

(* What a reconcile that plans to delete these pods may delete: pods of the *)
(* other mode, pods where none should run, failed ones, and a pod that      *)
(* shares its node with another one which the plan spares.                  *)
Unwanted(delete) ==
    { p \in Exists(snap) :
        \/ ModeOf(p) # wmode
        \/ snap[p].st = "failed"
        \/ /\ wmode = "DaemonSet"
           /\ \/ nodes[snap[p].node] \in {"left", "unlabelled"}
              \/ \E q \in nodeToDaemonPods(snap[p].node) \ delete :
                   q # p /\ snap[q].st \in {"pending", "running"} }

doPodScale(kept, create, delete) ==
    /\ exp' = ScaleExpectations(create, delete)
    /\ keep' = kept
    /\ toCreate' = create
    /\ toDelete' = delete
    /\ process' = FALSE
    /\ unwanted' = Unwanted(delete)
    /\ pc' = "uncordon"
    /\ UNCHANGED <<nodes, mode, cache, wmode, snap, slips, budget>>

(* Every listed pod of the mode is kept, those to be deleted too. *)
DaemonScale ==
    /\ SyncCordon
    /\ wmode = "DaemonSet"
    /\ \E killed \in Killable :
         /\ nodesNeedingDaemonPods # {} \/ PodsToDelete(killed) # {}
         /\ doPodScale(podsNewScaling, nodesNeedingDaemonPods, PodsToDelete(killed))
         /\ NextBackoff(killed)

(* Too few ordinals; too many never are, as spec.replicas does not change. *)
OrdinalScale ==
    /\ SyncCordon
    /\ wmode = "StatefulSet"
    /\ Cardinality(podsNewScaling) < Replicas
    /\ doPodScale(podsNewScaling, Ordinals \ Exists(snap), {})
    /\ UNCHANGED backoff

NothingToScale ==
    IF wmode = "DaemonSet"
    THEN nodesNeedingDaemonPods = {} /\ \E killed \in Killable : PodsToDelete(killed) = {}
    ELSE Cardinality(podsNewScaling) = Replicas

\* mutant: the pods of the other scaling mode are forgotten
NoPodsToDelete == {}

PodsOfOtherMode == podsOldScaling

DoPodProcessing ==
    /\ SyncCordon
    /\ NothingToScale
    /\ exp' = SetExpectations(exp, 0, 0)
    /\ keep' = { p \in podsNewScaling : snap[p].st \notin {"term", "dead"} }
    /\ toCreate' = {}
    /\ toDelete' = PodsOfOtherMode
    /\ process' = TRUE
    /\ unwanted' = Unwanted(PodsOfOtherMode)
    /\ pc' = "uncordon"
    /\ UNCHANGED <<nodes, mode, cache, backoff, wmode, snap, slips, budget>>

-----------------------------------------------------------------------------
(* doPodScale and doPodProcessing *)

AfterCreates(left) == pc' = IF left = {} THEN "delete" ELSE "create"

SyncPodUncordon ==
    /\ pc = "uncordon"
    /\ MakeNodesUndrain({ p \in keep : snap[p].st = "pending" \/ ~isNodeCordoned(snap[p].node) })
    /\ AfterCreates(toCreate)
    /\ UNCHANGED <<nodes, mode, pod, cache, exp, backoff, plan, slips, budget>>

(* An error ends doPodScale, but not doPodProcessing. *)
UncordonFails ==
    /\ pc = "uncordon"
    /\ keep # {}
    /\ Fault
    /\ IF process THEN AfterCreates(toCreate) /\ UNCHANGED plan ELSE Return
    /\ UNCHANGED <<world, cache, exp, backoff, slips>>

(* A daemon pod gets a name nobody uses; an ordinal pod may already exist. *)
CreateThisPod(t) ==
    \/ /\ t \in Nodes
       /\ LET free == { p \in DaemonPods : pod[p] = NoPod /\ cache[p] = NoPod }
          IN  /\ free # {}
              /\ pod' = [pod EXCEPT ![Min(free)] = [st |-> "pending", node |-> t]]
    \/ /\ t \in Ordinals /\ pod[t] = NoPod
       /\ pod' = [pod EXCEPT ![t] = [st |-> "pending", node |-> "none"]]

CreateNodeSetPod(t) ==
    /\ pc = "create" /\ t \in toCreate
    /\ toCreate' = toCreate \ {t}
    /\ AfterCreates(toCreate')
    /\ CreateThisPod(t)
    /\ UNCHANGED <<nodes, mode, slurm, cache, exp, backoff, wmode, snap, keep,
                   toDelete, process, unwanted, slips, budget>>

(* A create that fails takes the ones not attempted with it: none of them   *)
(* is expected any longer.                                                  *)
SkipCreates ==
    /\ exp' = CreationsObserved(exp, Cardinality(toCreate))
    /\ toCreate' = {}
    /\ AfterCreates({})
    /\ UNCHANGED <<nodes, mode, slurm, cache, backoff, wmode, snap, keep, toDelete, process,
                   unwanted>>

CreateFails(t) ==
    /\ pc = "create" /\ t \in toCreate
    /\ \/ t \in Ordinals /\ pod[t] # NoPod /\ UNCHANGED budget
       \/ Fault
    /\ SkipCreates
    /\ UNCHANGED <<pod, slips>>

(* CreateNodeSetPod reports an error although the pod was created: what     *)
(* failed is the owner reference of a claim, or the answer was lost.        *)
CreateReportsError(t) ==
    /\ pc = "create" /\ t \in toCreate
    /\ Fault
    /\ CreateThisPod(t)
    /\ SkipCreates
    /\ slips' = slips + 1

(* The pod is read again from the cache. *)
ProcessCondemned(p) ==
    /\ pc = "delete" /\ p \in toDelete
    /\ toDelete' = toDelete \ {p}
    /\ CASE cache[p].st = "none" ->
              exp' = DeletionObserved(exp, p) /\ UNCHANGED <<pod, slurm>>
         [] cache[p].st \in {"term", "dead"} ->
              UNCHANGED <<exp, pod, slurm>>
         [] cache[p].st \in {"pending", "running", "failed"} /\ IsNodeDrained(p) ->
              pod' = [pod EXCEPT ![p] = Deleted(@)] /\ UNCHANGED <<exp, slurm>>
         [] OTHER ->
              exp' = DeletionObserved(exp, p) /\ MakeNodesDrain({p}) /\ UNCHANGED pod
    /\ UNCHANGED <<nodes, mode, cache, backoff, pc, wmode, snap, keep, toCreate, process,
                   unwanted, slips, budget>>

(* The deletions not attempted stay expected, until they expire. *)
CondemnedFails(p) ==
    /\ pc = "delete" /\ p \in toDelete
    /\ Fault
    /\ exp' = DeletionObserved(exp, p)
    /\ toDelete' = {}
    /\ UNCHANGED <<world, cache, backoff, pc, wmode, snap, keep, toCreate, process, unwanted,
                   slips>>

(* processNodeSetPod deletes the failed pods of the list, in backoff or not. *)
DeletesOver ==
    /\ pc = "delete" /\ toDelete = {}
    /\ pod' = [p \in Pods |->
                 IF process /\ p \in podsNewScaling /\ snap[p].st = "failed"
                 THEN Deleted(pod[p]) ELSE pod[p]]
    /\ Return
    /\ UNCHANGED <<nodes, mode, slurm, cache, exp, backoff, slips, budget>>

Sync ==
    \/ SyncList \/ SyncUnsatisfied
    \/ DaemonScale \/ OrdinalScale \/ DoPodProcessing
    \/ SyncPodUncordon \/ DeletesOver
    \/ \E t \in Nodes \union Ordinals : CreateNodeSetPod(t)
    \/ \E p \in Pods : ProcessCondemned(p)

-----------------------------------------------------------------------------
(* Everything else *)

Idle == UNCHANGED <<cache, exp, backoff, pc, plan, slips>>

(* A node is cordoned or uncordoned, or loses what the template asks for or *)
(* gets it back.                                                            *)
NodeMoves ==
    { {"open", "cordoned"}, {"open", "unlabelled"},
      {"cordoned", "left"}, {"unlabelled", "left"} }

UserChangesNode(n, state) ==
    /\ Change
    /\ {nodes[n], state} \in NodeMoves
    /\ nodes' = [nodes EXCEPT ![n] = state]
    /\ UNCHANGED <<mode, pod, slurm>> /\ Idle

(* The backoff is kept per generation of the NodeSet. *)
UserSwitchesMode ==
    /\ Change
    /\ mode' \in Modes \ {mode}
    /\ backoff' = [n \in Nodes |-> 0]
    /\ UNCHANGED <<nodes, pod, slurm, cache, exp, pc, plan, slips>>

(* NodeSet pods repel each other, and a daemon pod goes to its node only. *)
Schedule(p) ==
    /\ pod[p].st = "pending"
    /\ \E n \in Nodes :
         /\ nodes[n] = "open"
         /\ p \in DaemonPods => n = pod[p].node
         /\ \A q \in Pods : pod[q].node = n => pod[q].st \in {"pending", "none"}
         /\ pod' = [pod EXCEPT ![p] = [st |-> "running", node |-> n]]
    /\ UNCHANGED <<nodes, mode, slurm, budget>> /\ Idle

PodFails(p) ==
    /\ pod[p].st = "running"
    /\ Fault
    /\ pod' = [pod EXCEPT ![p].st = "failed"]
    /\ UNCHANGED <<nodes, mode, slurm>> /\ Idle

PodEvicted(p) ==
    /\ pod[p].st \in {"pending", "running"}
    /\ Fault
    /\ pod' = [pod EXCEPT ![p] = Deleted(@)]
    /\ UNCHANGED <<nodes, mode, slurm>> /\ Idle

(* The preStop hook deletes the Slurm node. *)
PodStops(p) ==
    /\ pod[p].st \in {"term", "dead"}
    /\ pod' = [pod EXCEPT ![p] = NoPod]
    /\ slurm' = [slurm EXCEPT ![GetSlurmNodeName(p, pod[p])] = "none"]
    /\ UNCHANGED <<nodes, mode, budget>> /\ Idle

SlurmChanges(p, from, to) ==
    /\ pod[p].st \in {"running", "failed"}
    /\ slurm[GetSlurmNodeName(p, pod[p])] = from
    /\ slurm' = [slurm EXCEPT ![GetSlurmNodeName(p, pod[p])] = to]
    /\ UNCHANGED <<nodes, mode, pod, budget>> /\ Idle

Register(p) == pod[p].st = "running" /\ SlurmChanges(p, "none", "up")
JobStarts(p) == pod[p].st = "running" /\ SlurmChanges(p, "up", "busy")
JobEnds(p) == SlurmChanges(p, "busy", "up") \/ SlurmChanges(p, "draining", "drained")

(* The Slurm node is deleted under a pod that goes on running. *)
SlurmForgets(p) ==
    /\ pod[p].st = "running"
    /\ slurm[GetSlurmNodeName(p, pod[p])] # "none"
    /\ Fault
    /\ slurm' = [slurm EXCEPT ![GetSlurmNodeName(p, pod[p])] = "lost"]
    /\ UNCHANGED <<nodes, mode, pod>> /\ Idle

(* The informer catches up with a pod and the event handler counts it. *)
PodCacheSync(p) ==
    /\ cache[p] # pod[p]
    /\ cache' = [cache EXCEPT ![p] = pod[p]]
    /\ exp' = IF pod[p].st \in {"none", "term", "dead"} THEN DeletionObserved(exp, p)
              ELSE IF cache[p] = NoPod THEN CreationsObserved(exp, 1)
              ELSE exp
    /\ UNCHANGED <<world, backoff, pc, plan, slips, budget>>

(* Pods whose creation the handler has not counted yet. *)
Unseen == { p \in Pods : pod[p].st \in {"pending", "running", "failed"} /\ cache[p] = NoPod }

(* Five minutes pass; no doPodScale takes that long. *)
Expire ==
    /\ pc \in {"idle", "check"}
    /\ ~SatisfiedExpectations(exp)
    /\ exp' = [exp EXCEPT !.expired = TRUE]
    /\ slips' = slips + Cardinality(Unseen)
    /\ UNCHANGED <<world, cache, backoff, pc, plan>>

ExpectationsExpire == Unseen = {} /\ Expire /\ UNCHANGED budget

(* The watch is behind by more than that. *)
ExpectationsExpireEarly == Unseen # {} /\ Expire /\ Fault

(* A new process syncs its cache before it reconciles anything. *)
OperatorRestarts ==
    /\ Fault
    /\ cache' = pod
    /\ exp' = NoExpectations
    /\ backoff' = [n \in Nodes |-> 0]
    /\ Return
    /\ UNCHANGED <<world, slips>>

Environment ==
    \/ SyncFails \/ UncordonFails \/ UserSwitchesMode \/ OperatorRestarts
    \/ ExpectationsExpire \/ ExpectationsExpireEarly
    \/ \E n \in Nodes, state \in NodeStates : UserChangesNode(n, state)
    \/ \E t \in Nodes \union Ordinals : CreateFails(t) \/ CreateReportsError(t)
    \/ \E p \in Pods :
         \/ CondemnedFails(p) \/ Schedule(p) \/ PodFails(p) \/ PodEvicted(p) \/ PodStops(p)
         \/ Register(p) \/ JobStarts(p) \/ JobEnds(p) \/ SlurmForgets(p) \/ PodCacheSync(p)

Next == Sync \/ Environment

Spec == Init /\ [][Next]_vars

(* The NodeSet is queued again 30 seconds after every reconcile, or by the  *)
(* rate limiter; that is also what makes up for the node event handler,     *)
(* which has nothing to say about taints and new nodes.  Watches deliver,   *)
(* jobs end, pods are scheduled, register and stop, time passes.            *)
Fairness ==
    /\ WF_vars(Sync \/ \E t \in Ordinals : CreateFails(t) /\ UNCHANGED budget)
    /\ WF_vars(ExpectationsExpire)
    /\ WF_vars(\E p \in Pods : Schedule(p) \/ Register(p) \/ PodStops(p))
    /\ WF_vars(\E p \in Pods : JobEnds(p))
    /\ WF_vars(\E p \in Pods : PodCacheSync(p))

LiveSpec == Spec /\ Fairness

-----------------------------------------------------------------------------
(* Properties *)

LiveOn(n) ==
    { p \in DaemonPods : pod[p].node = n /\ pod[p].st \in {"pending", "running", "failed"} }

(* Generated names do not collide, so a list that is stale when it is used  *)
(* gives a node a second daemon pod.  The expectations do not prevent that  *)
(* (below), but they keep it at one: every further pod on a node is the     *)
(* price of a create that was reported as failed and happened, or of        *)
(* expectations that expired before the watch showed what they awaited, and *)
(* each of those costs one pod at the most.                                 *)
PodsPerNodeBounded == \A n \in Nodes : Cardinality(LiveOn(n)) <= 2 + slips

(* A pod that serves is not deleted by the reconcile unless, when it was    *)
(* planned, its node no longer matched, its mode was no longer the          *)
(* NodeSet's or another pod of its node was spared (which need not be the   *)
(* one that serves), or Slurm has lost its node: neither a cordon, nor a    *)
(* failed pod elsewhere, nor a switch of mode back and forth costs a pod    *)
(* that should be running, and of twins one is left.                        *)
ServingPodsStay ==
    [][\A p \in Pods :
         pod[p].st = "running" /\ pod'[p].st = "term" /\ pc # "idle" /\ budget' = budget
           => \/ p \in unwanted
              \/ slurm[GetSlurmNodeName(p, pod[p])] = "lost"]_vars

NoTwins == \A n \in Nodes : Cardinality(LiveOn(n)) <= 1

(* A node that goes on matching gets a daemon pod that takes jobs, unless   *)
(* twins go on fighting over it.                                            *)
FitNodesServed ==
    \A n \in Nodes :
      <>[](mode = "DaemonSet" /\ nodes[n] = "open" /\ NoTwins) =>
        <>[](/\ \E p \in LiveOn(n) : pod[p].st = "running"
             /\ slurm[n] \in {"up", "busy"})

Labelled == \A n \in Nodes : nodes[n] # "unlabelled"

(* Whichever way scalingMode is switched, and however often, the pods of    *)
(* the other mode all leave; though with twins about, or a pod on a node    *)
(* that lost its label (below), DaemonSet mode has always something to      *)
(* scale and never gets to them.                                            *)
ModeSwitchCompletes ==
    \A m \in Modes :
      <>[](mode = m /\ (m = "DaemonSet" => NoTwins /\ Labelled)) =>
        <>[](\A p \in Pods : pod[p].st # "none" => ModeOf(p) = m)

(* A node that was cordoned and taken out loses its daemon pod; of twins,   *)
(* the one that was never scheduled has the Slurm node they share undrained *)
(* in every reconcile.  A node that only lost its label is not promised     *)
(* that: every pass undrains its pod, as one to keep, before it drains it.  *)
LeftNodesCleared ==
    \A n \in Nodes :
      <>[](mode = "DaemonSet" /\ nodes[n] = "left" /\ NoTwins) =>
        <>[](\A p \in DaemonPods : pod[p].node # n)

-----------------------------------------------------------------------------
(* A statement of the API that the code contradicts *)

(* nodeset_types.go: "DaemonSet" schedules one pod per matching node.  Sync *)
(* lists the pods before it looks at the expectations; a pod that arrives   *)
(* in between satisfies them and is missing from the list.                  *)
OnePodPerNode == NoTwins
=============================================================================
