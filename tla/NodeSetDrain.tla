---------------------------- MODULE NodeSetDrain ----------------------------
(***************************************************************************)
(* Draining Slurm nodes around pod deletion and node cordons: the part of  *)
(* the NodeSet reconcile loop (nodeset_sync.go) that talks to Slurm through *)
(* slurmcontrol.go, against everything that moves meanwhile - jobs, Slurm   *)
(* administrators, kubectl cordon, spec.replicas, the kubelet, the slurm    *)
(* client that comes and goes, stale pod and Slurm caches.                  *)
(*                                                                         *)
(* One NodeSet, Pods its pods.  NodeSet pods repel each other, so pod p     *)
(* stands also for the Kubernetes node it runs on and for the Slurm node it *)
(* registers.  One reconcile per NodeSet runs at a time (workqueue); inside *)
(* it SlowStartBatch runs the per-pod functions concurrently, so every pod  *)
(* has a program counter of its own.                                        *)
(***************************************************************************)
EXTENDS Integers, FiniteSets

CONSTANTS
    Pods,               \* pods of the NodeSet
    UpdateStrategy,     \* "RollingUpdate" or "OnDelete"
    Disturbances,       \* kinds of outside events that may happen
    MaxDisturbances     \* bound: how many of them in a behaviour

AllDisturbances ==
    { "cordon", "podcordon", "scale", "drain", "undrain", "unresponsive",
      "error", "client", "restart" }

ASSUME PodsAssumption == IsFiniteSet(Pods)
ASSUME UpdateStrategyAssumption == UpdateStrategy \in {"RollingUpdate", "OnDelete"}
ASSUME DisturbancesAssumption ==
    Disturbances \subseteq AllDisturbances /\ MaxDisturbances \in Nat

VARIABLES
    nodeCordon,  \* Kubernetes node of p: Spec.Unschedulable
    condemned,   \* pods in excess of spec.replicas, the ones SplitActivePods picks
    pod,         \* API server: [st, cordon, by] of pod p
    podCache,    \* informer cache: what r.Get and r.List return
    slurm,       \* slurmctld: [reg, drain, base, reason] of node p
    client,      \* a slurm client for the cluster is in the ClientMap
    slurmCache,  \* the node cache of that client
    phase,       \* where the reconcile is
    step,        \* program counter of pod p in the current phase
    snap,        \* cordon annotation of the worker's copy of pod p
    cond,        \* pods the reconcile is to delete, chosen when it started
    scaling,     \* the listed pods are more or fewer than wanted
    registered,  \* GetNodesForPods, as read after the refresh
    budget,      \* disturbances left
    quietSeen,   \* history: node p had no work to lose at some moment of this reconcile
    oursSeen,    \* history: its reason was not external at some moment of it
    blind,       \* history: there was no client at some moment of it
    resumed      \* history: somebody but the worker undrained node p during it

world == <<nodeCordon, condemned, pod, podCache, slurm, client, slurmCache>>
worker == <<phase, step, snap, cond, scaling, registered>>
history == <<quietSeen, oursSeen, blind, resumed>>
vars == <<world, worker, budget, history>>

-----------------------------------------------------------------------------
(* State *)

PodStates == {"running", "term", "gone"}
Reasons == {"none", "ours", "ext"}  \* ours: prefixed "slurm-operator:"
Phases == {"idle", "slurmNodes", "cordon", "keep", "condemn"}
MidSteps == {"patch", "drain", "redrain", "unpatch", "undrain", "delete"}
Steps == {"off", "todo", "done", "failed"} \union MidSteps

PodRecords == [st : PodStates, cordon : BOOLEAN, by : {"user", "operator"}]
SlurmNodes == [reg : BOOLEAN, drain : BOOLEAN, base : {"idle", "busy", "down"},
               reason : Reasons]

NewPod == [st |-> "running", cordon |-> FALSE, by |-> "operator"]
Unregistered == [reg |-> FALSE, drain |-> FALSE, base |-> "idle", reason |-> "none"]

TypeOK ==
    /\ nodeCordon \in [Pods -> BOOLEAN]
    /\ condemned \in SUBSET Pods
    /\ pod \in [Pods -> PodRecords]
    /\ podCache \in [Pods -> PodRecords]
    /\ slurm \in [Pods -> SlurmNodes]
    /\ client \in BOOLEAN
    /\ slurmCache \in [Pods -> SlurmNodes]
    /\ phase \in Phases
    /\ step \in [Pods -> Steps]
    /\ snap \in [Pods -> BOOLEAN]
    /\ cond \in SUBSET Pods
    /\ scaling \in BOOLEAN
    /\ registered \in SUBSET Pods
    /\ budget \in 0..MaxDisturbances
    /\ quietSeen \in [Pods -> BOOLEAN]
    /\ oursSeen \in [Pods -> BOOLEAN]
    /\ blind \in BOOLEAN
    /\ resumed \in [Pods -> BOOLEAN]

(* No job, job step, prolog or epilog that stopping slurmd would kill. *)
Quiet(node) == ~node.reg \/ (node.drain /\ node.base # "busy")

NotExternal(node) == ~node.reg \/ node.reason # "ext"

Init ==
    /\ nodeCordon = [p \in Pods |-> FALSE]
    /\ condemned = {}
    /\ pod = [p \in Pods |-> NewPod]
    /\ podCache = pod
    /\ slurm = [p \in Pods |-> Unregistered]
    /\ client \in BOOLEAN
    /\ slurmCache = slurm
    /\ phase = "idle"
    /\ step = [p \in Pods |-> "off"]
    /\ snap = [p \in Pods |-> FALSE]
    /\ cond = {}
    /\ scaling = FALSE
    /\ registered = {}
    /\ budget = MaxDisturbances
    /\ quietSeen = [p \in Pods |-> TRUE]
    /\ oursSeen = [p \in Pods |-> TRUE]
    /\ blind = ~client
    /\ resumed = [p \in Pods |-> FALSE]

-----------------------------------------------------------------------------
(* slurmcontrol.go.  lookupClient fails without a client; Get answers from  *)
(* the client's cache; a node that is not found is tolerated (tolerateError)*)
(* exactly like a missing client.                                           *)

Known(p) == client /\ slurmCache[p].reg

IsNodeDrain(p) == Known(p) => slurmCache[p].drain

IsNodeDrained(p) ==
    Known(p) => slurmCache[p].drain /\ slurmCache[p].base # "busy"

IsNodeDownForUnresponsive(p) == Known(p) => slurmCache[p].base = "down"

\* mutant: the prefix is not looked at
EveryReasonIsOurs(p) == TRUE

IsNodeReasonOurs(p) == Known(p) => slurmCache[p].reason # "ext"

(* slurmClient.Update: Slurm applies the change, a vanished node is         *)
(* tolerated, and the client refreshes its copy of the node.                *)
SlurmUpdate(p, drain) ==
    LET updated == IF slurm[p].reg
                   THEN [slurm[p] EXCEPT !.drain = drain, !.reason = "ours"]
                   ELSE slurm[p]
    IN  /\ slurm' = [slurm EXCEPT ![p] = updated]
        /\ slurmCache' = [slurmCache EXCEPT ![p] = updated]

\* mutant: the request is not sent
RequestDropped(p) == UNCHANGED <<slurm, slurmCache>>

\* mutant: the reason is written without a prefix
MakeNodeDrainBareReason(p) ==
    /\ Known(p)
    /\ slurm' = [slurm EXCEPT ![p].drain = TRUE, ![p].reason = "bare"]
    /\ slurmCache' = [slurmCache EXCEPT ![p] = slurm'[p]]

(* A drain request is skipped only if the node is drained for the very same *)
(* reason; two of the operator's own reasons may or may not be the same.    *)
MakeNodeDrain(p) ==
    \/ /\ ~Known(p) \/ (slurmCache[p].drain /\ slurmCache[p].reason = "ours")
       /\ UNCHANGED <<slurm, slurmCache>>
    \/ /\ Known(p)
       /\ SlurmUpdate(p, TRUE)

MakeNodeUndrain(p) ==
    IF Known(p) /\ slurmCache[p].drain
    THEN SlurmUpdate(p, FALSE)
    ELSE UNCHANGED <<slurm, slurmCache>>

-----------------------------------------------------------------------------
(* History: what was true at some moment since the reconcile started.      *)

Track ==
    /\ quietSeen' = [p \in Pods |-> Quiet(slurm'[p])
                                     \/ (phase # "idle" /\ quietSeen[p])]
    /\ oursSeen' = [p \in Pods |-> NotExternal(slurm'[p])
                                    \/ (phase # "idle" /\ oursSeen[p])]
    /\ blind' = (~client' \/ (phase # "idle" /\ blind))
    /\ resumed' = [p \in Pods |->
                     \/ phase # "idle" /\ resumed[p]
                     \/ /\ slurm[p].drain /\ slurm'[p].reg /\ ~slurm'[p].drain
                        /\ step'[p] = step[p]]

-----------------------------------------------------------------------------
(* The reconcile: Sync and sync *)

Goto(p, s) == step' = [step EXCEPT ![p] = s]

MidFlight == \E p \in Pods : step[p] \in MidSteps
Failed == \E p \in Pods : step[p] = "failed"
PhaseDone(ph) == phase = ph /\ \A p \in Pods : step[p] \in {"off", "done"}

(* The pods the worker listed are the ones whose step is not "off". *)
Begin(S) == step' = [p \in Pods |-> IF p \in S THEN "todo" ELSE "off"]

\* mutant: the cache is used as it is
NoRefresh == UNCHANGED slurmCache

(* Sync reads the NodeSet, lists its pods from the cache, and sync refreshes *)
(* the node cache; the registered nodes are listed right after.             *)
RefreshNodeCache ==
    slurmCache' = IF client THEN slurm ELSE slurmCache

(* Read from the cache just refreshed; without a client syncSlurmNodes      *)
(* cannot use the result and deletes nothing.                               *)
GetNodesForPods == IF client THEN { p \in Pods : slurm[p].reg } ELSE Pods

(* syncNodeSet deletes the listed pods in excess of spec.replicas; while a  *)
(* wanted pod is missing, a condemned one makes up for it.                  *)
SplitListed(listed) ==
    LET diff == Cardinality(listed) - Cardinality(Pods \ condemned)
    IN  /\ scaling' = (diff # 0)
        /\ \E S \in SUBSET (listed \intersect condemned) :
             /\ Cardinality(S) = IF diff > 0 THEN diff ELSE 0
             /\ cond' = S

SyncStart ==
    /\ phase = "idle"
    /\ RefreshNodeCache
    /\ registered' = GetNodesForPods
    /\ snap' = [p \in Pods |-> podCache[p].cordon]
    /\ LET listed == { p \in Pods : podCache[p].st # "gone" }
       IN  SplitListed(listed) /\ Begin(listed)
    /\ phase' = "slurmNodes"
    /\ UNCHANGED <<nodeCordon, condemned, pod, podCache, slurm, client, budget>>
    /\ Track

(* Worker steps on one pod that leave the outside world alone. *)
Local == UNCHANGED <<world, phase, snap, cond, scaling, registered, budget>>

(* syncSlurmNodes: a pod that is healthy without being registered is deleted;*)
(* its health is not tracked here, so either outcome is possible.           *)
SyncSlurmNode(p) ==
    /\ phase = "slurmNodes"
    /\ step[p] = "todo"
    /\ Goto(p, "done")
    /\ \/ UNCHANGED pod
       \/ /\ p \notin registered
          /\ pod[p].st = "running"
          /\ pod' = [pod EXCEPT ![p].st = "term"]
    /\ UNCHANGED <<nodeCordon, condemned, podCache, slurm, client, slurmCache,
                   phase, snap, cond, scaling, registered, budget>>
    /\ Track

(* syncCordon, up to the branch it takes. *)
CordonBranch(p) ==
    IF IsNodeDownForUnresponsive(p) \/ ~IsNodeReasonOurs(p) THEN "done"
    ELSE IF nodeCordon[p] THEN "patch"
    ELSE IF snap[p] THEN "redrain"
    ELSE "undrain"

SyncCordon(p) ==
    /\ phase = "cordon"
    /\ step[p] = "todo"
    /\ Goto(p, CordonBranch(p))
    /\ Local
    /\ Track

(* syncPodUncordon, up to makePodUncordonAndUndrain. *)
SyncPodUncordon(p) ==
    /\ phase = "keep"
    /\ step[p] = "todo"
    /\ Goto(p, IF nodeCordon[p] \/ ~IsNodeReasonOurs(p) THEN "done" ELSE "unpatch")
    /\ Local
    /\ Track

(* processCondemned, up to DeleteNodeSetPod or makePodCordonAndDrain.  The  *)
(* pod is read again from the cache, so its cordon is current.              *)
ProcessCondemned(p) ==
    /\ phase = "condemn"
    /\ step[p] = "todo"
    /\ Goto(p, IF podCache[p].st # "running" THEN "done"
               ELSE IF IsNodeDrained(p) THEN "delete"
               ELSE "patch")
    /\ snap' = [snap EXCEPT ![p] = podCache[p].cordon]
    /\ UNCHANGED <<world, phase, cond, scaling, registered, budget>>
    /\ Track

(* Patch the pod-cordon annotation unless the worker's copy already has the *)
(* value, then read the pod back from the cache.  Patching a pod that is    *)
(* gone fails, which doPodScale ignores for a condemned pod.                *)
PatchCordon(p, value, next) ==
    \/ /\ snap[p] = value
       /\ Goto(p, next)
       /\ UNCHANGED <<pod, snap>>
    \/ /\ snap[p] # value
       /\ pod[p].st # "gone"
       /\ Goto(p, next)
       /\ pod' = [pod EXCEPT ![p].cordon = value, ![p].by = "operator"]
       /\ snap' = [snap EXCEPT ![p] = podCache[p].cordon]
    \/ /\ snap[p] # value
       /\ pod[p].st = "gone"
       /\ Goto(p, IF phase = "condemn" THEN "done" ELSE "failed")
       /\ UNCHANGED <<pod, snap>>

MakePodCordon(p) ==
    /\ step[p] = "patch"
    /\ PatchCordon(p, TRUE, "drain")
    /\ UNCHANGED <<nodeCordon, condemned, podCache, slurm, client, slurmCache,
                   phase, cond, scaling, registered, budget>>
    /\ Track

MakePodUncordon(p) ==
    /\ step[p] = "unpatch"
    /\ PatchCordon(p, FALSE, "undrain")
    /\ UNCHANGED <<nodeCordon, condemned, podCache, slurm, client, slurmCache,
                   phase, cond, scaling, registered, budget>>
    /\ Track

SyncSlurmNodeDrain(p) ==
    /\ step[p] = "drain"
    /\ Goto(p, "done")
    /\ IF IsNodeDrain(p) THEN UNCHANGED <<slurm, slurmCache>> ELSE MakeNodeDrain(p)
    /\ UNCHANGED <<nodeCordon, condemned, pod, podCache, client,
                   phase, snap, cond, scaling, registered, budget>>
    /\ Track

DrainCordonedPod(p) ==
    /\ step[p] = "redrain"
    /\ Goto(p, "done")
    /\ MakeNodeDrain(p)
    /\ UNCHANGED <<nodeCordon, condemned, pod, podCache, client,
                   phase, snap, cond, scaling, registered, budget>>
    /\ Track

SyncSlurmNodeUndrain(p) ==
    /\ step[p] = "undrain"
    /\ Goto(p, "done")
    /\ MakeNodeUndrain(p)
    /\ UNCHANGED <<nodeCordon, condemned, pod, podCache, client,
                   phase, snap, cond, scaling, registered, budget>>
    /\ Track

(* A delete of a pod that is already terminating or gone changes nothing. *)
DeleteNodeSetPod(p) ==
    /\ step[p] = "delete"
    /\ Goto(p, "done")
    /\ pod' = [pod EXCEPT ![p].st = IF @ = "running" THEN "term" ELSE @]
    /\ UNCHANGED <<nodeCordon, condemned, podCache, slurm, client, slurmCache,
                   phase, snap, cond, scaling, registered, budget>>
    /\ Track

Listed == { p \in Pods : step[p] # "off" }

(* Order of sync: syncSlurmNodes, syncCordon, then syncNodeSet, which either *)
(* scales (doPodScale: uncordon the kept pods, then process the condemned)  *)
(* or, with nothing to scale, uncordons what splitUpdatePods keeps: every   *)
(* pod of the current revision under RollingUpdate, none under OnDelete.    *)
KeepSet ==
    IF scaling \/ UpdateStrategy = "RollingUpdate" THEN Listed \ cond ELSE {}

(* The worker keeps its list: a pod outside S waits as "done". *)
NextPhase(from, to, S) ==
    /\ PhaseDone(from)
    /\ phase' = to
    /\ step' = [p \in Pods |-> IF step[p] = "off" THEN "off"
                               ELSE IF p \in S THEN "todo" ELSE "done"]
    /\ UNCHANGED <<world, snap, cond, scaling, registered, budget>>
    /\ Track

ToCordon == NextPhase("slurmNodes", "cordon", Listed)
ToKeep == NextPhase("cordon", "keep", KeepSet)
ToCondemn == NextPhase("keep", "condemn", Listed \intersect cond)

Finish ==
    /\ phase' = "idle"
    /\ step' = [p \in Pods |-> "off"]
    /\ UNCHANGED <<world, snap, cond, scaling, registered, budget>>
    /\ Track

SyncEnd == PhaseDone("condemn") /\ Finish

(* A failed call ends the batch once the calls in flight are back; later    *)
(* batches and phases are skipped and the error ends the reconcile.         *)
SyncAbort == Failed /\ ~MidFlight /\ Finish

Disturb(kind) == kind \in Disturbances /\ budget > 0 /\ budget' = budget - 1

(* Any call to the API server or to slurmrestd may return an error. *)
CallFails(p) ==
    /\ Disturb("error")
    /\ phase # "idle"
    /\ step[p] \in MidSteps \union {"todo"}
    /\ Goto(p, "failed")
    /\ UNCHANGED <<world, phase, snap, cond, scaling, registered>>
    /\ Track

PodStep(p) ==
    \/ SyncSlurmNode(p) \/ SyncCordon(p) \/ SyncPodUncordon(p) \/ ProcessCondemned(p)
    \/ MakePodCordon(p) \/ MakePodUncordon(p) \/ SyncSlurmNodeDrain(p)
    \/ DrainCordonedPod(p) \/ SyncSlurmNodeUndrain(p) \/ DeleteNodeSetPod(p)

Reconcile ==
    \/ SyncStart \/ ToCordon \/ ToKeep \/ ToCondemn \/ SyncEnd \/ SyncAbort
    \/ \E p \in Pods : PodStep(p)

-----------------------------------------------------------------------------
(* Everything else.  Users and administrators act within the budget.       *)

UserCordonsNode(p) ==
    /\ Disturb("cordon")
    /\ nodeCordon' = [nodeCordon EXCEPT ![p] = ~@]
    /\ UNCHANGED <<condemned, pod, podCache, slurm, client, slurmCache, worker>>
    /\ Track

UserCordonsPod(p) ==
    /\ Disturb("podcordon")
    /\ pod[p].st = "running"
    /\ pod' = [pod EXCEPT ![p].cordon = ~@, ![p].by = "user"]
    /\ UNCHANGED <<nodeCordon, condemned, podCache, slurm, client, slurmCache, worker>>
    /\ Track

UserScales(p) ==
    /\ Disturb("scale")
    /\ condemned' = IF p \in condemned THEN condemned \ {p} ELSE condemned \union {p}
    /\ UNCHANGED <<nodeCordon, pod, podCache, slurm, client, slurmCache, worker>>
    /\ Track

SlurmChanges(p, node) ==
    /\ slurm' = [slurm EXCEPT ![p] = node]
    /\ UNCHANGED <<nodeCordon, condemned, pod, podCache, client, slurmCache, worker>>
    /\ Track

AdminDrains(p) ==
    /\ Disturb("drain")
    /\ slurm[p].reg
    /\ SlurmChanges(p, [slurm[p] EXCEPT !.drain = TRUE, !.reason = "ext"])

AdminUndrains(p) ==
    /\ Disturb("undrain")
    /\ slurm[p].reg /\ slurm[p].drain
    /\ SlurmChanges(p, [slurm[p] EXCEPT !.drain = FALSE, !.reason = "none"])

(* slurmctld marks an unresponsive node DOWN and appends "Not responding"   *)
(* to its reason; only an empty reason loses the operator's prefix by it.   *)
NodeUnresponsive(p) ==
    /\ Disturb("unresponsive")
    /\ slurm[p].reg /\ slurm[p].base # "down"
    /\ SlurmChanges(p, [slurm[p] EXCEPT !.base = "down",
                          !.reason = IF @ = "none" THEN "ext" ELSE @])

NodeResponds(p) ==
    /\ slurm[p].base = "down"
    /\ SlurmChanges(p, [slurm[p] EXCEPT !.base = "idle",
                          !.reason = IF slurm[p].drain THEN @ ELSE "none"])
    /\ UNCHANGED budget

JobStarts(p) ==
    /\ slurm[p].reg /\ ~slurm[p].drain /\ slurm[p].base = "idle"
    /\ SlurmChanges(p, [slurm[p] EXCEPT !.base = "busy"])
    /\ UNCHANGED budget

JobEnds(p) ==
    /\ slurm[p].base = "busy"
    /\ SlurmChanges(p, [slurm[p] EXCEPT !.base = "idle"])
    /\ UNCHANGED budget

(* slurmd of a started pod registers its node. *)
Register(p) ==
    /\ pod[p].st = "running" /\ ~slurm[p].reg
    /\ SlurmChanges(p, [Unregistered EXCEPT !.reg = TRUE])
    /\ UNCHANGED budget

(* The kubelet stops the pod; its preStop hook deletes the Slurm node. *)
PodTerminates(p) ==
    /\ pod[p].st = "term"
    /\ pod' = [pod EXCEPT ![p] = [NewPod EXCEPT !.st = "gone"]]
    /\ slurm' = [slurm EXCEPT ![p] = Unregistered]
    /\ UNCHANGED <<nodeCordon, condemned, podCache, client, slurmCache, worker, budget>>
    /\ Track

(* NodeSetScale's part: a missing pod that is wanted is created again, by a *)
(* reconcile of this NodeSet that scales out and so deletes nothing.        *)
PodCreated(p) ==
    /\ phase = "idle"
    /\ podCache[p].st = "gone" /\ pod[p].st = "gone" /\ p \notin condemned
    /\ pod' = [pod EXCEPT ![p] = NewPod]
    /\ UNCHANGED <<nodeCordon, condemned, podCache, slurm, client, slurmCache,
                   worker, budget>>
    /\ Track

PodCacheSync(p) ==
    /\ podCache[p] # pod[p]
    /\ podCache' = [podCache EXCEPT ![p] = pod[p]]
    /\ UNCHANGED <<nodeCordon, condemned, pod, slurm, client, slurmCache, worker, budget>>
    /\ Track

(* The client polls slurmrestd in the background. *)
SlurmCacheSync(p) ==
    /\ client /\ slurmCache[p] # slurm[p]
    /\ slurmCache' = [slurmCache EXCEPT ![p] = slurm[p]]
    /\ UNCHANGED <<nodeCordon, condemned, pod, podCache, slurm, client, worker, budget>>
    /\ Track

(* The slurm client controller removes the client of a deleted Controller, *)
(* and adds one when it reconciles a cluster that lacks it.                *)
ClientRemoved ==
    /\ Disturb("client")
    /\ client
    /\ client' = FALSE
    /\ UNCHANGED <<nodeCordon, condemned, pod, podCache, slurm, slurmCache, worker>>
    /\ Track

ClientAdded ==
    /\ ~client
    /\ client' = TRUE
    /\ slurmCache' = slurm
    /\ UNCHANGED <<nodeCordon, condemned, pod, podCache, slurm, worker, budget>>
    /\ Track

(* The operator process dies at any point of a reconcile and starts again: *)
(* the ClientMap is empty, the informer caches are synced before any       *)
(* controller runs, and nothing of the reconcile is left.                  *)
OperatorRestarts ==
    /\ Disturb("restart")
    /\ phase' = "idle"
    /\ step' = [p \in Pods |-> "off"]
    /\ client' = FALSE
    /\ podCache' = pod
    /\ UNCHANGED <<nodeCordon, condemned, pod, slurm, slurmCache,
                   snap, cond, scaling, registered>>
    /\ Track

PodEvent(p) ==
    \/ UserCordonsNode(p) \/ UserCordonsPod(p) \/ UserScales(p)
    \/ AdminDrains(p) \/ AdminUndrains(p) \/ NodeUnresponsive(p) \/ NodeResponds(p)
    \/ JobStarts(p) \/ JobEnds(p) \/ Register(p)
    \/ PodTerminates(p) \/ PodCreated(p)
    \/ PodCacheSync(p) \/ SlurmCacheSync(p)

-----------------------------------------------------------------------------
(* Specification *)

Next ==
    \/ Reconcile
    \/ ClientRemoved \/ ClientAdded \/ OperatorRestarts
    \/ \E p \in Pods : CallFails(p) \/ PodEvent(p)

Spec == Init /\ [][Next]_vars

(* The workqueue hands the NodeSet to a worker again after every reconcile  *)
(* (durationStore: 30 seconds, or the rate limiter after an error), so the  *)
(* worker never stops.  Watches deliver, jobs end, the kubelet stops        *)
(* terminating pods, slurmd registers, and the slurm client controller adds *)
(* a client for a cluster that lacks one.                                   *)
Fairness ==
    /\ WF_vars(Reconcile)
    /\ WF_vars(ClientAdded)
    /\ \A p \in Pods :
         /\ WF_vars(PodCacheSync(p))
         /\ WF_vars(JobEnds(p))
         /\ WF_vars(PodTerminates(p))
         /\ WF_vars(Register(p))

LiveSpec == Spec /\ Fairness

-----------------------------------------------------------------------------
(* Safety *)

(* processCondemned decides to delete a pod only on evidence of this very   *)
(* reconcile: at some moment since it started, the Slurm node was drained   *)
(* of all work or not registered - or the operator was blind, having had no *)
(* client at some moment.  RefreshNodeCache at the head of sync is what     *)
(* makes it so: the answer of IsNodeDrained may be stale, but not older.    *)
DeleteDecisionIsFresh ==
    \A p \in Pods : step[p] = "delete" => quietSeen[p] \/ blind

(* An undrain is on its way only if at some moment of this reconcile the    *)
(* node's reason was not an external one (or the operator was blind).       *)
UndrainDecisionIsFresh ==
    \A p \in Pods : step[p] \in {"unpatch", "undrain"} => oursSeen[p] \/ blind

(* The inductive strengthening of the two.  Between refreshes the client's  *)
(* cache lags behind Slurm, but what it says was true at some moment of the *)
(* current reconcile.                                                       *)
HistoryInv ==
    /\ ~client => blind
    /\ \A p \in Pods : /\ Quiet(slurm[p]) => quietSeen[p]
                       /\ NotExternal(slurm[p]) => oursSeen[p]

CacheInv ==
    phase # "idle" /\ ~blind =>
      \A p \in Pods : /\ Quiet(slurmCache[p]) => quietSeen[p]
                      /\ NotExternal(slurmCache[p]) => oursSeen[p]

IdleInv == phase = "idle" => \A p \in Pods : step[p] = "off"

FreshInv ==
    /\ TypeOK
    /\ HistoryInv
    /\ CacheInv
    /\ IdleInv
    /\ DeleteDecisionIsFresh
    /\ UndrainDecisionIsFresh

(* With the client at hand, no work runs on a node when its pod is deleted, *)
(* up to and including the very instant of the delete, unless somebody else *)
(* undrained the node during the reconcile: neither a stale cache nor the   *)
(* operator's own cordon and uncordon paths put work back between the       *)
(* decision and the delete.  A node that registers only after the reconcile *)
(* started is not covered.                                                  *)
NoWorkWhenDeleted ==
    \A p \in Pods :
      step[p] = "delete" /\ p \in registered /\ ~blind /\ ~resumed[p]
        => Quiet(slurm[p])

(* Its inductive strengthening.  A pod that is gone has no Slurm node.  A   *)
(* node that was registered when the reconcile started loses its            *)
(* registration only with its pod, and whatever the cache says of its being *)
(* drained still holds in Slurm, unless somebody else resumed it.           *)
GoneInv == \A p \in Pods : pod[p].st = "gone" => ~slurm[p].reg

RegisteredInv ==
    phase # "idle" /\ ~blind =>
      \A p \in registered : slurm[p].reg \/ pod[p].st = "gone"

DrainedInv ==
    phase # "idle" /\ ~blind =>
      \A p \in registered :
        ~resumed[p] /\ Quiet(slurmCache[p]) => Quiet(slurm[p])

(* All of it together: what a reconcile has read of Slurm is as old as the   *)
(* reconcile, and a node that it has seen drained is drained until its pod   *)
(* is deleted, unless somebody else resumes it.                             *)
EvacuationInv ==
    /\ FreshInv
    /\ GoneInv
    /\ RegisteredInv
    /\ DrainedInv
    /\ NoWorkWhenDeleted

-----------------------------------------------------------------------------
(* Liveness *)

(* A pod that stays condemned leaves: drained first, whatever runs on it.   *)
CondemnedIsDeleted ==
    \A p \in Pods : <>[](p \in condemned) => <>[](pod[p].st # "running")

(* A Slurm node whose Kubernetes node stays cordoned ends up drained.       *)
CordonedNodeIsDrained ==
    \A p \in Pods :
      <>[](/\ nodeCordon[p] /\ pod[p].st = "running"
           /\ slurm[p].reg /\ slurm[p].base # "down")
        => <>[](slurm[p].drain)

(* A wanted pod on a schedulable Kubernetes node gets its Slurm node back,  *)
(* unless somebody else drained it.                                         *)
UncordonedNodeIsUndrained ==
    \A p \in Pods :
      <>[](/\ ~nodeCordon[p] /\ p \notin condemned /\ pod[p].st = "running"
           /\ slurm[p].reg /\ slurm[p].base # "down" /\ slurm[p].reason # "ext")
        => <>[](~slurm[p].drain)

-----------------------------------------------------------------------------
(* Refinement *)

LifeOf(p) ==
    CASE pod[p].st = "gone" -> "gone"
      [] pod[p].st = "term" -> "stopping"
      [] pod[p].st = "running" /\ Quiet(slurm[p]) -> "empty"
      [] pod[p].st = "running" /\ ~Quiet(slurm[p]) /\ slurm[p].drain -> "draining"
      [] OTHER -> "serving"

(* The promise is kept while the client is at hand, for the nodes that were *)
(* registered when the reconcile started and that nobody else resumes.      *)
Covered == { p \in Pods : p \in registered /\ ~blind /\ ~resumed[p] }

Life == [p \in Pods |-> LifeOf(p)]

Contract == INSTANCE Evacuation WITH life <- Life, covered <- Covered

(* Cordons, drains, uncordons, deletions by syncSlurmNodes and by           *)
(* processCondemned, stale caches, failing calls and restarts together do   *)
(* nothing that Evacuation does not allow.                                  *)
KeepsContract == Contract!Spec

(* Its safety part: work is lost only with a pod that is not covered. *)
KeepsContractSafety == Contract!Safety

-----------------------------------------------------------------------------
(* Statements of the documentation that the code contradicts *)

(* docs/concepts/nodeset-controller.md: "A pod is never deleted until its   *)
(* Slurm node is fully drained, ensuring running jobs are not interrupted." *)
DrainedBeforeDelete ==
    \A p \in Pods : step[p] = "delete" => quietSeen[p]

(* docs/usage/nodeset-operations.md: "To reverse the drain, remove the      *)
(* annotation": a pod-cordon set by the user is the user's to remove.       *)
UserCordonKept ==
    [][\A p \in Pods :
         /\ pod[p].cordon /\ pod[p].by = "user" /\ pod'[p].st = "running"
         /\ step[p] = "unpatch"
         => pod'[p].cordon]_vars
=============================================================================
