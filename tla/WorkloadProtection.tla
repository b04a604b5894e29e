------------------------- MODULE WorkloadProtection -------------------------
(***************************************************************************)
(* What a NodeSet reconcile copies between Slurm and Kubernetes: the       *)
(* deadline of the running work, the topology line and the node taints     *)
(* (sync), then the comment of the Slurm node, the NodeSet's counters, the *)
(* pod conditions and the pod-protect label (syncStatus).  The label is    *)
(* what the PodDisruptionBudget of the cluster selects, so it alone keeps  *)
(* a node that runs work from being evicted.                               *)
(*                                                                         *)
(* Slurm tells the operator nothing: work starts and ends between two      *)
(* reads, and only the 30 s requeue makes the reconciler look again.  It   *)
(* reads the cache of the Slurm client, of which it refreshes the nodes    *)
(* when a half begins and the jobs never.  Pods are read from the informer *)
(* cache, which may lag; every write is a patch that holds the difference  *)
(* to the copy the reconciler read.                                        *)
(*                                                                         *)
(* The two halves of the reconcile read and write disjoint parts of the    *)
(* state; "half" says which of them a behaviour follows.                   *)
(***************************************************************************)
EXTENDS Naturals, FiniteSets, FiniteSetsExt

CONSTANTS
    Pods,             \* pods of the NodeSet; a pod and its Slurm node share a name
    KubeNodes,        \* Kubernetes nodes
    Unbound,          \* the nodeName of a pod that is not scheduled
    Ends,             \* when a job ends at the latest: startTime + timeLimit
    TopologySpecs,    \* values of the node's topology-spec annotation
    NoTopology,       \* the annotation is absent or empty
    Protection,       \* spec.workloadDisruptionProtection
    SyncPods,         \* the pods among them that the sync half is followed for
    Losses,           \* the operator may lose its Slurm client
    MaxChanges,       \* bound: steps of jobs, users and kubelets
    MaxFaults         \* bound: failed calls and lost clients

ASSUME EndsAssumption == Ends \subseteq Nat \ {0} /\ IsFiniteSet(Ends) /\ Ends # {}
ASSUME PodsAssumption == IsFiniteSet(Pods) /\ SyncPods \subseteq Pods
ASSUME FlagAssumption == Protection \in BOOLEAN /\ Losses \in BOOLEAN
ASSUME BoundAssumption == MaxChanges \in Nat /\ MaxFaults \in Nat
ASSUME NodesAssumption == KubeNodes # {}
ASSUME NameAssumption == Unbound \notin KubeNodes /\ NoTopology \notin TopologySpecs

VARIABLES
    half,      \* "sync" or "status"
    slurm,     \* the Slurm nodes, kept by slurmctld
    seen,      \* their work as the cache of the Slurm client shows it
    kube,      \* the Kubernetes nodes
    pod,       \* the pods in the API server: a function on those that exist
    cache,     \* the same pods as the informer cache shows them
    status,    \* the NodeSet's counters
    client,    \* the ClientMap holds a client for the NodeSet's Controller
    queued,    \* the NodeSet is in the workqueue, or its timer is running
    phase,     \* where the reconcile is; "idle" between two
    todo,      \* what is left of the phase
    listed,    \* getNodeSetPods: the pods this reconcile works on
    plan,      \* what the phase read from Slurm, per pod
    changes, faults

vars == <<half, slurm, seen, kube, pod, cache, status, client, queued, phase, todo,
          listed, plan, changes, faults>>
reconcile == <<phase, todo, listed, plan>>
counters == <<changes, faults>>

-----------------------------------------------------------------------------
(* Slurm's view of a node, and what the operator makes of it. *)

BaseStates == {"ALLOCATED", "DOWN", "IDLE", "MIXED"}
FlagStates == {"COMPLETING"}
NodeStates == BaseStates \cup FlagStates

\* V0044Node.GetStateAsSet: a node with one of two job slots taken is MIXED.
GetStateAsSet(n) ==
    (IF n.down THEN {"DOWN"}
     ELSE IF n.jobs = {} THEN {"IDLE"}
     ELSE IF n.jobs = Ends THEN {"ALLOCATED"} ELSE {"MIXED"})
    \cup (IF n.completing THEN {"COMPLETING"} ELSE {})

\* The condition set of a pod holds Slurm states; Ready and its like are left out.
BusyIgnoringEpilog(conditions) == conditions \cap {"ALLOCATED", "MIXED"} # {}

IsNodeBusy(conditions) ==
    conditions \cap {"ALLOCATED", "MIXED", "COMPLETING"} # {}

\* Work is on the node: a job runs, or its epilog does.
WorkRuns(p) == slurm[p].jobs # {} \/ slurm[p].completing

\* What a list request of the Slurm client puts in its cache.
Answer == [p \in Pods |-> [jobs |-> slurm[p].jobs, completing |-> slurm[p].completing,
                           down |-> slurm[p].down]]

\* The list comes from the cache.  Without a client, and for an answer it
\* tolerates, there are no states at all.
CalculateNodeStatus ==
    [p \in Pods |-> IF client THEN GetStateAsSet(seen[p]) ELSE {}]

\* The job list comes from the cache too; timestore.Greater keeps the latest end,
\* and 0 is the zero time.
GetNodeDeadlines ==
    [p \in Pods |-> IF client /\ seen[p].jobs # {} THEN Max(seen[p].jobs) ELSE 0]

Count(P, Test(_)) == Cardinality({p \in P : Test(p)})

\* syncNodeSetStatus: pods from the list, Slurm counts from the second read.
calculateReplicaStatus(pods, states) ==
    [replicas  |-> Cardinality(DOMAIN pods),
     ready     |-> Count(DOMAIN pods, LAMBDA p : pods[p].run),
     idle      |-> Count(DOMAIN pods, LAMBDA p : "IDLE" \in states[p]),
     allocated |-> Count(DOMAIN pods, LAMBDA p : states[p] \cap {"ALLOCATED", "MIXED"} # {}),
     down      |-> Count(DOMAIN pods, LAMBDA p : "DOWN" \in states[p])]

Workers == IF half = "sync" THEN SyncPods ELSE Pods

NewPod == [conds |-> {}, protect |-> FALSE, deadline |-> 0, topology |-> NoTopology,
           on |-> Unbound, run |-> FALSE]

IsPods(pods) ==
    /\ DOMAIN pods \subseteq Pods
    /\ \A p \in DOMAIN pods :
          pods[p] \in [conds : SUBSET NodeStates, protect : BOOLEAN,
                       deadline : Ends \cup {0}, topology : TopologySpecs \cup {NoTopology},
                       on : KubeNodes \cup {Unbound}, run : BOOLEAN]

Phases == {"idle", "deadline", "topology", "taint", "podinfo", "counts",
           "conditions", "labels"}

Init ==
    /\ half \in {"sync", "status"}
    /\ \E worker \in Pods :
          slurm = [p \in Pods |-> [jobs |-> IF p = worker THEN {Max(Ends)} ELSE {},
                                   completing |-> FALSE, down |-> FALSE,
                                   topology |-> NoTopology, comment |-> Unbound]]
    /\ seen = Answer
    /\ kube = [n \in KubeNodes |-> [topology |-> NoTopology, taint |-> FALSE]]
    /\ pod = [p \in Workers |-> [NewPod EXCEPT !.on = CHOOSE n \in KubeNodes : TRUE, !.run = TRUE]]
    /\ cache = pod
    /\ status = calculateReplicaStatus(<<>>, <<>>)
    /\ client = TRUE
    /\ queued = TRUE
    /\ phase = "idle" /\ todo = {} /\ listed = <<>> /\ plan = <<>>
    /\ changes = 0 /\ faults = 0

-----------------------------------------------------------------------------
(* The API server.  A patch changes what differs from the copy it was made *)
(* from and leaves the rest of the stored object alone.                    *)

PatchField(p, field, from, to) ==
    pod' = IF from = to THEN pod ELSE [pod EXCEPT ![p][field] = to]

\* The loop over the old conditions keeps a state that is still there once for
\* every state the old copy had.  The patch takes what is twice in the new list
\* for an addition, so from two old states on it sends the kept ones again.
Resent(from, to) == IF Cardinality(from) > 1 THEN from \cap to ELSE {}

PatchConditions(p, from, to) ==
    pod' = [pod EXCEPT ![p].conds = (@ \ (from \ to)) \cup (to \ from) \cup Resent(from, to)]

Exists(p) == p \in DOMAIN pod

-----------------------------------------------------------------------------
(* The reconcile.  sync walks deadline, topology and taint and stops at the *)
(* first error; syncStatus follows in either case, and goes on to its next *)
(* part after an error of the first two.                                   *)

\* What the rest of the reconcile no longer reads of its list is dropped, which
\* only saves states.
Keep(fields) ==
    listed' = [p \in DOMAIN listed |->
                  [f \in DOMAIN NewPod |-> IF f \in fields THEN listed[p][f] ELSE NewPod[f]]]

ToTopology == phase' = "topology" /\ todo' = DOMAIN listed /\ plan' = <<>> /\ UNCHANGED listed

ToTaint == phase' = "taint" /\ todo' = KubeNodes /\ plan' = <<>> /\ Keep({"conds", "on", "run"})

\* syncStatus refreshes the node cache and sends the pod's place to Slurm.
ToPodInfo ==
    /\ phase' = "podinfo"
    /\ todo' = {p \in DOMAIN listed : listed[p].run}
    /\ plan' = <<>>
    /\ Keep({"conds", "on", "run"})

\* syncNodeSetPodStatus asks Slurm a second time.
ToConditions ==
    /\ phase' = "conditions" /\ todo' = DOMAIN listed /\ plan' = CalculateNodeStatus
    /\ Keep({"conds"})

ToLabels == phase' = "labels" /\ todo' = DOMAIN listed /\ plan' = <<>> /\ Keep({})

\* The calls of one batch touch different objects and commute: one order will do.
Turn(i) == todo # {} /\ i = CHOOSE j \in todo : TRUE

\* A list with RefreshCache; without a client it does nothing.
RefreshNodeCache == seen' = IF client THEN Answer ELSE seen

\* The sync half follows the job list, which no refresh concerns.
Start ==
    /\ phase = "idle" /\ queued
    /\ queued' = FALSE
    /\ listed' = cache
    /\ \/ /\ half = "sync" /\ phase' = "deadline" /\ todo' = DOMAIN cache
          /\ plan' = GetNodeDeadlines /\ UNCHANGED seen
       \/ /\ half = "status" /\ phase' = "counts" /\ todo' = {"nodeset"}
          /\ plan' = <<>> /\ RefreshNodeCache
    /\ UNCHANGED <<half, slurm, kube, pod, cache, status, client, counters>>

\* syncStatus notes a failed refresh and goes on with the cache as it is.
RefreshFails ==
    /\ phase = "idle" /\ queued /\ half = "status" /\ client
    /\ faults < MaxFaults /\ faults' = faults + 1
    /\ queued' = FALSE /\ listed' = cache
    /\ phase' = "counts" /\ todo' = {"nodeset"} /\ plan' = <<>>
    /\ UNCHANGED <<half, slurm, seen, kube, pod, cache, status, client, changes>>

\* A finished batch opens the next phase.
NextPhase ==
    /\ todo = {}
    /\ \/ phase = "deadline" /\ ToTopology
       \/ phase = "topology" /\ ToTaint
       \/ phase = "taint" /\ ToPodInfo
       \/ phase = "counts" /\ ToConditions
       \/ phase = "conditions" /\ ToLabels
    /\ UNCHANGED <<half, slurm, seen, kube, pod, cache, status, client, queued, counters>>

NoRequeue == queued' = queued

\* Reconcile returns RequeueAfter: 30 s; an error is retried sooner.
Requeue == queued' = TRUE

Finish ==
    /\ phase \in {"podinfo", "labels"} /\ todo = {}
    /\ phase' = "idle" /\ listed' = <<>> /\ plan' = <<>>
    /\ Requeue
    /\ UNCHANGED <<half, slurm, seen, kube, pod, cache, status, client, todo, counters>>

\* An error of sync skips to syncStatus, of the counters to the pod status, and
\* of the pod status (or of a half's last part) ends the reconcile.
OnError ==
    \/ phase \in {"deadline", "topology", "taint"} /\ ToPodInfo /\ UNCHANGED queued
    \/ phase = "counts" /\ ToConditions /\ UNCHANGED queued
    \/ /\ phase \in {"podinfo", "conditions", "labels"}
       /\ phase' = "idle" /\ todo' = {} /\ listed' = <<>> /\ plan' = <<>>
       /\ Requeue

CallFails ==
    /\ faults < MaxFaults /\ phase # "idle"
    /\ faults' = faults + 1
    /\ OnError
    /\ UNCHANGED <<half, slurm, seen, kube, pod, cache, status, client, changes>>

\* A patch of a pod that is gone is an error everywhere but in the conditions.
PodNotFound(p) ==
    /\ phase \in {"deadline", "topology", "labels"}
    /\ Turn(p) /\ ~Exists(p)
    /\ phase = "topology" => listed[p].on # Unbound
    /\ phase = "labels" => p \in DOMAIN cache
    /\ OnError
    /\ UNCHANGED <<half, slurm, seen, kube, pod, cache, status, client, counters>>

syncSlurmDeadline(p) ==
    /\ phase = "deadline" /\ Turn(p) /\ Exists(p)
    /\ PatchField(p, "deadline", listed[p].deadline, plan[p])
    /\ todo' = todo \ {p}
    /\ UNCHANGED <<half, slurm, seen, kube, cache, status, client, queued, phase, listed, plan, counters>>

\* The pod's annotation, then Slurm's node; Slurm's refusal is only logged.
UpdateNodeTopology(p, topologyLine) ==
    slurm' = IF client THEN [slurm EXCEPT ![p].topology = topologyLine] ELSE slurm

syncSlurmTopology(p) ==
    /\ phase = "topology" /\ Turn(p)
    /\ IF listed[p].on = Unbound
       THEN UNCHANGED <<slurm, pod>>
       ELSE /\ Exists(p)
            /\ PatchField(p, "topology", listed[p].topology, kube[listed[p].on].topology)
            /\ UpdateNodeTopology(p, kube[listed[p].on].topology)
    /\ todo' = todo \ {p}
    /\ UNCHANGED <<half, seen, kube, cache, status, client, queued, phase, listed, plan, counters>>

\* Pods are listed afresh from the cache; terminating ones are out of the model.
syncTaint(n) ==
    /\ phase = "taint" /\ Turn(n)
    /\ kube' = [kube EXCEPT ![n].taint =
                    \E p \in DOMAIN cache : cache[p].run /\ cache[p].on = n]
    /\ todo' = todo \ {n}
    /\ UNCHANGED <<half, slurm, seen, pod, cache, status, client, queued, phase, listed, plan, counters>>

\* The comment names the pod's place; a place that changed also asks for IDLE,
\* which ends DOWN.
UpdateNodeWithPodInfo(p) ==
    /\ phase = "podinfo" /\ Turn(p)
    /\ slurm' = IF client /\ slurm[p].comment # listed[p].on
                THEN [slurm EXCEPT ![p].comment = listed[p].on,
                                   ![p].down = @ /\ slurm[p].comment = Unbound]
                ELSE slurm
    /\ todo' = todo \ {p}
    /\ UNCHANGED <<half, seen, kube, pod, cache, status, client, queued, phase, listed, plan, counters>>

\* The first of the two updates succeeds and the second does not.
PodInfoFails(p) ==
    /\ phase = "podinfo" /\ Turn(p)
    /\ client /\ slurm[p].comment \notin {listed[p].on, Unbound}
    /\ faults < MaxFaults /\ faults' = faults + 1
    /\ slurm' = [slurm EXCEPT ![p].comment = listed[p].on]
    /\ OnError
    /\ UNCHANGED <<half, seen, kube, pod, cache, status, client, changes>>

syncNodeSetStatus ==
    /\ phase = "counts" /\ todo # {}
    /\ status' = calculateReplicaStatus(listed, CalculateNodeStatus)
    /\ todo' = {}
    /\ UNCHANGED <<half, slurm, seen, kube, pod, cache, client, queued, phase, listed, plan, counters>>

\* One pod after the other; a pod that is gone ends the loop without an error.
updateNodeSetPodConditions(p) ==
    /\ phase = "conditions" /\ Turn(p)
    /\ IF Exists(p)
       THEN PatchConditions(p, listed[p].conds, plan[p]) /\ todo' = todo \ {p}
       ELSE todo' = {} /\ UNCHANGED pod
    /\ UNCHANGED <<half, slurm, seen, kube, cache, status, client, queued, phase, listed, plan, counters>>

\* The pod is read again, from the cache: it may lack the conditions just written.
updateNodeSetPodPDBLabels(p) ==
    /\ phase = "labels" /\ Turn(p)
    /\ IF p \in DOMAIN cache
       THEN /\ Exists(p)
            /\ PatchField(p, "protect", cache[p].protect, Protection /\ IsNodeBusy(cache[p].conds))
       ELSE UNCHANGED pod
    /\ todo' = todo \ {p}
    /\ UNCHANGED <<half, slurm, seen, kube, cache, status, client, queued, phase, listed, plan, counters>>

-----------------------------------------------------------------------------
(* Informers, the scheduler, the binding webhook and the kubelet. *)

\* An event of an owned pod wakes the NodeSet.
DeliverPod(p) ==
    /\ \/ /\ Exists(p) /\ (p \in DOMAIN cache => cache[p] # pod[p])
          /\ cache' = [q \in DOMAIN cache \cup {p} |-> IF q = p THEN pod[p] ELSE cache[q]]
       \/ /\ ~Exists(p) /\ p \in DOMAIN cache
          /\ cache' = [q \in DOMAIN cache \ {p} |-> cache[q]]
    /\ queued' = TRUE
    /\ UNCHANGED <<half, slurm, seen, kube, pod, status, client, reconcile, counters>>

\* PodBindingWebhook.Default: the topology line is there before the pod starts.
PodBinding(p, n) ==
    /\ Exists(p) /\ pod[p].on = Unbound
    /\ half = "status" => n = CHOOSE m \in KubeNodes : TRUE
    /\ pod' = [pod EXCEPT ![p].on = n, ![p].topology = kube[n].topology]
    /\ UNCHANGED <<half, slurm, seen, kube, cache, status, client, queued, reconcile, counters>>

\* slurmd registers: ReturnToService=2 brings a DOWN node back.
PodRuns(p) ==
    /\ Exists(p) /\ pod[p].on # Unbound /\ ~pod[p].run
    /\ pod' = [pod EXCEPT ![p].run = TRUE]
    /\ slurm' = [slurm EXCEPT ![p].down = FALSE]
    /\ UNCHANGED <<half, seen, kube, cache, status, client, queued, reconcile, counters>>

\* The pod is deleted behind the operator's back; its work is lost.
PodKilled(p) ==
    /\ changes < MaxChanges /\ changes' = changes + 1
    /\ Exists(p) /\ pod[p].run
    /\ pod' = [q \in DOMAIN pod \ {p} |-> pod[q]]
    /\ slurm' = [slurm EXCEPT ![p].down = TRUE, ![p].jobs = {}, ![p].completing = FALSE]
    /\ UNCHANGED <<half, seen, kube, cache, status, client, queued, reconcile, faults>>

\* syncNodeSet, which NodeSetScale models, puts a pod of the same name back.
PodRecreated(p) ==
    /\ p \in Workers /\ ~Exists(p) /\ p \notin DOMAIN cache
    /\ pod' = [q \in DOMAIN pod \cup {p} |-> IF q = p THEN NewPod ELSE pod[q]]
    /\ UNCHANGED <<half, slurm, seen, kube, cache, status, client, queued, reconcile, counters>>

-----------------------------------------------------------------------------
(* Slurm, administrators and the Slurm client controller. *)

Change == changes < MaxChanges /\ changes' = changes + 1

JobStarts(p, end) ==
    /\ Change /\ Exists(p) /\ pod[p].run /\ ~slurm[p].down /\ end \notin slurm[p].jobs
    /\ slurm' = [slurm EXCEPT ![p].jobs = @ \cup {end}]
    /\ UNCHANGED <<half, seen, kube, pod, cache, status, client, queued, reconcile, faults>>

\* The epilog runs: the node is COMPLETING until EpilogEnds.
JobEnds(p, end) ==
    /\ end \in slurm[p].jobs
    /\ slurm' = [slurm EXCEPT ![p].jobs = @ \ {end}, ![p].completing = TRUE]
    /\ Change
    /\ UNCHANGED <<half, seen, kube, pod, cache, status, client, queued, reconcile, faults>>

EpilogEnds(p) ==
    /\ slurm[p].completing
    /\ slurm' = [slurm EXCEPT ![p].completing = FALSE]
    /\ UNCHANGED <<half, seen, kube, pod, cache, status, client, queued, reconcile, counters>>

\* NodeEventHandler.Update: a changed annotation wakes the NodeSets whose pods,
\* as cached, are on the node.
AdminSetsTopology(n, line) ==
    /\ Change /\ half = "sync" /\ kube[n].topology # line
    /\ kube' = [kube EXCEPT ![n].topology = line]
    /\ queued' = (queued \/ \E p \in DOMAIN cache : cache[p].on = n)
    /\ UNCHANGED <<half, slurm, seen, pod, cache, status, client, reconcile, faults>>

\* The operator restarts, or the Controller's token is rotated: the ClientMap is
\* empty until the Slurm client controller has reconciled.
ClientLost ==
    /\ Losses /\ client /\ faults < MaxFaults
    /\ faults' = faults + 1
    /\ client' = FALSE
    /\ UNCHANGED <<half, slurm, seen, kube, pod, cache, status, queued, reconcile, changes>>

\* The first lists of a new client fill its cache.
ClientFound ==
    /\ ~client /\ client' = TRUE
    /\ seen' = Answer
    /\ UNCHANGED <<half, slurm, kube, pod, cache, status, queued, reconcile, counters>>

\* The Slurm client's own informers list nodes and jobs every so often.
ClientPolls ==
    /\ client /\ seen # Answer
    /\ seen' = Answer
    /\ UNCHANGED <<half, slurm, kube, pod, cache, status, client, queued, reconcile, counters>>

-----------------------------------------------------------------------------
Reconciler ==
    \/ Start \/ NextPhase \/ Finish \/ syncNodeSetStatus
    \/ \E p \in Pods : \/ syncSlurmDeadline(p) \/ syncSlurmTopology(p)
                       \/ UpdateNodeWithPodInfo(p) \/ updateNodeSetPodConditions(p)
                       \/ updateNodeSetPodPDBLabels(p) \/ PodNotFound(p)
    \/ \E n \in KubeNodes : syncTaint(n)

Platform ==
    \E p \in Pods : \/ DeliverPod(p) \/ PodRuns(p) \/ PodRecreated(p)
                    \/ \E n \in KubeNodes : PodBinding(p, n)

Environment ==
    \/ CallFails \/ RefreshFails \/ ClientLost \/ ClientFound \/ ClientPolls
    \/ \E p \in Pods : \/ PodKilled(p) \/ EpilogEnds(p) \/ PodInfoFails(p)
                       \/ \E end \in Ends : JobStarts(p, end) \/ JobEnds(p, end)
    \/ \E n \in KubeNodes, line \in TopologySpecs : AdminSetsTopology(n, line)

Next == Reconciler \/ Platform \/ Environment

Spec == Init /\ [][Next]_vars

\* The manager runs queued requests, the platform delivers and schedules, the
\* client controller reconnects, the Slurm client polls; nothing forces jobs,
\* users or faults.
LiveSpec ==
    /\ Spec
    /\ WF_vars(Reconciler)
    /\ \A p \in Pods : WF_vars(DeliverPod(p)) /\ WF_vars(PodRuns(p)) /\ WF_vars(PodRecreated(p))
                       /\ WF_vars(\E n \in KubeNodes : PodBinding(p, n))
    /\ WF_vars(ClientFound) /\ WF_vars(ClientPolls)

-----------------------------------------------------------------------------
(* Types, and the shape of a reconcile: it works only on pods it listed. *)
TypeOK ==
    /\ slurm \in [Pods -> [jobs : SUBSET Ends, completing : BOOLEAN, down : BOOLEAN,
                           topology : TopologySpecs \cup {NoTopology},
                           comment : KubeNodes \cup {Unbound}]]
    /\ seen \in [Pods -> [jobs : SUBSET Ends, completing : BOOLEAN, down : BOOLEAN]]
    /\ kube \in [KubeNodes -> [topology : TopologySpecs \cup {NoTopology}, taint : BOOLEAN]]
    /\ IsPods(pod) /\ IsPods(cache) /\ IsPods(listed)
    /\ client \in BOOLEAN /\ queued \in BOOLEAN
    /\ phase \in Phases
    /\ phase \in {"deadline", "topology", "podinfo", "conditions", "labels"} => todo \subseteq DOMAIN listed
    /\ changes \in 0..MaxChanges /\ faults \in 0..MaxFaults

\* Pod p is shielded from eviction: its node runs work, the Slurm client has seen
\* it busy, the label is set, and nothing the operator still holds says otherwise.
Shielded(p) ==
    /\ client /\ WorkRuns(p) /\ Exists(p) /\ pod[p].protect
    /\ IsNodeBusy(GetStateAsSet(seen[p]))
    /\ IsNodeBusy(pod[p].conds)
    /\ p \in DOMAIN cache /\ cache[p].protect /\ IsNodeBusy(cache[p].conds)
    /\ phase = "conditions" /\ p \in todo => IsNodeBusy(plan[p])

(***************************************************************************)
(* A shielded pod stays shielded while it exists, its node runs work and   *)
(* the client is there: no reconcile, however it is interleaved with jobs  *)
(* that start and end, failed calls and refreshes, and updates of either   *)
(* cache, takes the label from it (CalculateNodeStatus,                    *)
(* updateNodeSetPodConditions, updateNodeSetPodPDBLabels).  Work that      *)
(* starts on a node the client's cache shows at rest is not shielded yet:  *)
(* until the next refresh a label that is still there may go.              *)
(***************************************************************************)
ShieldHolds ==
    [][\A p \in Pods :
          Shielded(p) /\ WorkRuns(p)' /\ client' /\ Exists(p)' => Shielded(p)']_vars

(***************************************************************************)
(* The same without the proviso on the client: "A PodDisruptionBudget      *)
(* matches this label to prevent Kubernetes from evicting pods that are    *)
(* actively running Slurm work".  A reconcile that runs before the client  *)
(* is back reads no states, and takes conditions and label from busy pods. *)
(***************************************************************************)
WorkStaysProtected ==
    [][\A p \in Pods :
          /\ Exists(p) /\ pod[p].protect /\ WorkRuns(p)
          /\ WorkRuns(p)' /\ Exists(p)'
          => pod'[p].protect]_vars

Mirrors(p) ==
    /\ Exists(p) /\ pod[p].run
    /\ half = "status" => /\ pod[p].conds = GetStateAsSet(slurm[p])
                          /\ pod[p].protect = (Protection /\ WorkRuns(p))
    /\ half = "sync" => /\ pod[p].deadline = Max(slurm[p].jobs \cup {0})
                        /\ pod[p].topology = kube[pod[p].on].topology
                        /\ slurm[p].topology = kube[pod[p].on].topology
                        /\ slurm[p].comment = pod[p].on
                        /\ kube[pod[p].on].taint

(***************************************************************************)
(* When jobs, users and faults stop, the pods come to mirror Slurm, Slurm  *)
(* to mirror the pods, the taints to cover the nodes that run workers and  *)
(* the counters to tell the truth, and so they stay: protection is given   *)
(* to every pod that works and taken from every pod at rest.               *)
(***************************************************************************)
Settles ==
    <>[](/\ \A p \in Workers : Mirrors(p)
         /\ \A n \in KubeNodes : kube[n].taint => \E p \in Workers : pod[p].on = n
         /\ half = "status" =>
              status = calculateReplicaStatus(pod, [p \in Pods |-> GetStateAsSet(slurm[p])]))
=============================================================================
