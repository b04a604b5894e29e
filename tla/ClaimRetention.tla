--------------------------- MODULE ClaimRetention ---------------------------
(***************************************************************************)
(* The PersistentVolumeClaims of one pod of a NodeSet: how podcontrol.go   *)
(* creates them before the pod and rewrites their owner references, one by *)
(* one, to carry out persistentVolumeClaimRetentionPolicy, while the pod   *)
(* is scaled, updated, cordoned and re-created under the same name.  What  *)
(* finally deletes a claim is the garbage collector, once every owner it   *)
(* names is gone.                                                          *)
(*                                                                         *)
(* The pod and the claims are read from caches that lag; a stale NodeSet   *)
(* is one that changes later.  An update of a claim fails if the cached    *)
(* version is not the current one.                                         *)
(* A pod is drained as soon as it is cordoned: a longer drain is a longer  *)
(* pause between two reconciles.                                           *)
(***************************************************************************)
EXTENDS Naturals, FiniteSets

CONSTANTS
    NumClaims,        \* volumeClaimTemplates of the NodeSet
    Policies,         \* records [scaled, deleted] the user may choose
    MaxPods,          \* bound: pods created under the name
    MaxDisturbances   \* bound: changes by users, evictions, failed calls, restarts

ASSUME PolicyAssumption ==
    Policies \subseteq [scaled : {"Retain", "Delete"}, deleted : {"Retain", "Delete"}]
ASSUME BoundAssumption == NumClaims \in Nat /\ MaxPods \in Nat \ {0} /\ MaxDisturbances \in Nat

VARIABLES
    spec,                   \* the NodeSet
    pod, podCache,          \* the pod of the name
    claims, claimCache,     \* its claims
    nodeCordon,             \* the Kubernetes node is cordoned
    owed,                   \* an expected creation or deletion is not observed yet
    pc, todo,               \* where the reconcile is, and the claims it still visits
    nodeset, held, failed,  \* its copies of the NodeSet and the pod; a claim was not created
    allowed,                \* every policy the NodeSet has had
    budget

world == <<spec, nodeCordon, allowed>>
podVars == <<pod, podCache, owed>>
claimVars == <<claims, claimCache>>
worker == <<pc, todo, nodeset, held, failed>>
vars == <<world, podVars, claimVars, worker, budget>>

-----------------------------------------------------------------------------
(* State.  A claim's owners are the NodeSet, number 0, and pods by UID. *)

Claims == 1..NumClaims
NodeSetUID == 0
UIDs == 1..MaxPods

Specs == [exists : BOOLEAN, policy : Policies, wanted : BOOLEAN, template : {1, 2}]
Pods == [st : {"none", "pending", "running", "term"}, uid : 0..MaxPods,
         cordon : BOOLEAN, template : {1, 2}]
ClaimRecords == [st : {"none", "bound", "deleting"}, refs : SUBSET ({NodeSetUID} \union UIDs)]

NoPod(uid) == [st |-> "none", uid |-> uid, cordon |-> FALSE, template |-> 1]
NoNodeSet == [exists |-> FALSE, policy |-> CHOOSE p \in Policies : TRUE, wanted |-> FALSE,
              template |-> 1]
NoClaim == [st |-> "none", refs |-> {}]
NewClaim == [st |-> "bound", refs |-> {}]

Alive(p) == p.st \in {"pending", "running"}

TypeOK ==
    /\ spec \in Specs /\ nodeset \in Specs /\ pod \in Pods /\ podCache \in Pods
    /\ claims \in [Claims -> ClaimRecords] /\ claimCache \in [Claims -> ClaimRecords]
    /\ nodeCordon \in BOOLEAN /\ owed \in BOOLEAN
    /\ pc \in {"idle", "claims", "refs", "process", "fix"}
    /\ todo \subseteq Claims /\ held \in Pods /\ failed \in BOOLEAN
    /\ allowed \subseteq Policies /\ budget \in 0..MaxDisturbances
    /\ \A c \in Claims : claims[c].st = "none" => claims[c] = NoClaim
    /\ pod.st = "running" => \A c \in Claims : claims[c].st # "none"

\* mutant: the two policies are confused
OwnersSwapped(policy, p) ==
    (IF policy.deleted = "Delete" /\ p.cordon THEN {p.uid} ELSE {})
      \union (IF policy.scaled = "Delete" /\ ~(policy.deleted = "Delete" /\ p.cordon)
              THEN {NodeSetUID} ELSE {})

(* The owner references a policy asks for.  IsPodCordon stands for "scaled   *)
(* down", whatever the pod was cordoned for.                                 *)
OwnersFor(policy, p) ==
    (IF policy.scaled = "Delete" /\ p.cordon THEN {p.uid} ELSE {})
      \union (IF policy.deleted = "Delete" /\ ~(policy.scaled = "Delete" /\ p.cordon)
              THEN {NodeSetUID} ELSE {})

(* A NodeSet whose pod runs, on claims that match the policy. *)
Init ==
    /\ \E p \in Policies :
          spec = [exists |-> TRUE, policy |-> p, wanted |-> TRUE, template |-> 1]
    /\ nodeset = NoNodeSet /\ allowed = {spec.policy}
    /\ pod = [st |-> "running", uid |-> 1, cordon |-> FALSE, template |-> 1] /\ podCache = pod
    /\ claims = [c \in Claims |-> [NewClaim EXCEPT !.refs = OwnersFor(spec.policy, pod)]]
    /\ claimCache = claims
    /\ nodeCordon = FALSE /\ owed = FALSE
    /\ pc = "idle" /\ todo = {} /\ held = NoPod(0) /\ failed = FALSE /\ budget = MaxDisturbances

-----------------------------------------------------------------------------
(* podcontrol.go *)

(* hasStaleOwnerRef: a reference to this pod's name with another UID. *)
hasStaleOwnerRef(claim, p) == \E uid \in claim.refs : uid \in UIDs /\ uid # p.uid

\* mutant: a claim that has owners is left alone
isClaimOwned(claim, p) == claim.refs # {} \/ claim.refs = OwnersFor(nodeset.policy, p)

(* isClaimOwnerUpToDate, which leaves claims with a stale reference alone. *)
isClaimOwnerUpToDate(claim, p) ==
    hasStaleOwnerRef(claim, p) \/ claim.refs = OwnersFor(nodeset.policy, p)

(* updateClaimOwnerRefForSetAndPod *)
updateClaimOwnerRef(claim, p) == [claim EXCEPT !.refs = OwnersFor(nodeset.policy, p)]

Stop == pc' = "idle" /\ todo' = {} /\ nodeset' = NoNodeSet /\ held' = NoPod(0) /\ failed' = FALSE

(* Templates are visited in their order. *)
Turn(c) == c \in todo /\ \A d \in todo : c <= d

Visited(c) == todo' = todo \ {c} /\ UNCHANGED <<pc, nodeset, held>>

\* mutant: a claim that is missing is written
UpdateMissingClaim(c) ==
    /\ pc \in {"refs", "process", "fix"} /\ Turn(c)
    /\ claims' = [claims EXCEPT ![c] = updateClaimOwnerRef(claimCache[c], held)]
    /\ Visited(c) /\ UNCHANGED failed
    /\ UNCHANGED <<world, podVars, claimCache, budget>>

(* An update fails: the claims after it are not visited.  fixPodPVCsFn leaves *)
(* it at that, and the pod is deleted all the same; otherwise the pass ends.  *)
UpdateFails ==
    IF pc = "fix" THEN todo' = {} /\ UNCHANGED <<pc, nodeset, held, failed>> ELSE Stop

(* One round of UpdatePodPVCsForRetentionPolicy: a missing claim is passed    *)
(* over, an update of a version that is not current fails.                    *)
UpdatePodPVCsForRetentionPolicy(c) ==
    /\ pc \in {"refs", "process", "fix"} /\ Turn(c)
    /\ LET claim == claimCache[c]
       IN  IF claim.st = "none" \/ isClaimOwnerUpToDate(claim, held)
           THEN UNCHANGED claims /\ Visited(c) /\ UNCHANGED failed
           ELSE IF claims[c] = claim
           THEN /\ claims' = [claims EXCEPT ![c] = updateClaimOwnerRef(claim, held)]
                /\ Visited(c) /\ UNCHANGED failed
           ELSE UNCHANGED claims /\ UpdateFails
    /\ UNCHANGED <<world, podVars, claimCache, budget>>

\* mutant: a claim left from an earlier pod is an error
CreateFreshClaim(c) ==
    /\ pc = "claims" /\ Turn(c)
    /\ claims' = IF claims[c].st = "none" THEN [claims EXCEPT ![c] = NewClaim] ELSE claims
    /\ failed' = (failed \/ claims[c].st # "none")
    /\ Visited(c)
    /\ UNCHANGED <<world, podVars, claimCache, budget>>

(* createPersistentVolumeClaims: an existing claim is taken as it is, one     *)
(* that is being deleted or that the cache does not show yet is an error.     *)
CreatePersistentVolumeClaim(c) ==
    /\ pc = "claims" /\ Turn(c)
    /\ claims' = IF claimCache[c].st = "none" /\ claims[c].st = "none"
                 THEN [claims EXCEPT ![c] = NewClaim] ELSE claims
    /\ failed' = (failed \/ claimCache[c].st = "deleting"
                         \/ (claimCache[c].st = "none" /\ claims[c].st # "none"))
    /\ Visited(c)
    /\ UNCHANGED <<world, podVars, claimCache, budget>>

NewPod == [st |-> "pending", uid |-> pod.uid + 1, cordon |-> FALSE,
           template |-> nodeset.template]

(* The claims are there: the pod is created.  IsPodPVCsStale is not asked. *)
CreateNodeSetPod ==
    /\ pc = "claims" /\ todo = {}
    /\ IF failed \/ pod.st # "none"
       THEN Stop /\ UNCHANGED <<pod, owed>>
       ELSE /\ pod.uid < MaxPods
            /\ pod' = NewPod
            /\ owed' = TRUE
            /\ held' = pod' /\ pc' = "refs" /\ todo' = Claims
            /\ UNCHANGED <<nodeset, failed>>
    /\ UNCHANGED <<world, podCache, claimVars, budget>>

-----------------------------------------------------------------------------
(* The reconcile, as far as it concerns this pod *)

(* syncCordon follows the node; doPodProcessing uncordons a pod it keeps. *)
Cordoned ==
    IF ~Alive(podCache) \/ ~Alive(pod) THEN pod
    ELSE IF nodeCordon THEN [pod EXCEPT !.cordon = TRUE]
    ELSE IF spec.wanted /\ podCache.template = spec.template /\ podCache.cordon
    THEN [pod EXCEPT !.cordon = FALSE] ELSE pod

(* Sync works on the pods once every expected event is observed. *)
SyncStart ==
    /\ pc = "idle" /\ spec.exists /\ ~owed
    /\ spec.wanted \/ podCache.st # "none"
    /\ pod' = Cordoned
    /\ nodeset' = spec /\ held' = podCache /\ todo' = Claims
    /\ pc' = IF podCache.st = "none" THEN "claims"
             ELSE IF spec.wanted THEN "process" ELSE "fix"
    /\ UNCHANGED <<world, podCache, owed, claimVars, failed, budget>>

(* UpdateNodeSetPod is done; syncUpdate condemns a pod of another template. *)
ProcessDone ==
    /\ pc = "process" /\ todo = {}
    /\ IF Alive(held) /\ held.template # nodeset.template
       THEN pc' = "fix" /\ todo' = Claims /\ UNCHANGED <<nodeset, held, failed>>
       ELSE Stop
    /\ UNCHANGED <<world, podVars, claimVars, budget>>

RefsDone ==
    /\ pc = "refs" /\ todo = {} /\ Stop
    /\ UNCHANGED <<world, podVars, claimVars, budget>>

(* processCondemned, after fixPodPVCsFn: a pod whose Slurm node is drained,   *)
(* or that never had one, is deleted, another one cordoned.                   *)
ProcessCondemned ==
    /\ pc = "fix" /\ todo = {} /\ Stop
    /\ IF ~Alive(podCache) \/ ~Alive(pod) THEN UNCHANGED <<pod, owed>>
       ELSE IF pod.st = "pending" \/ pod.cordon
       THEN pod' = [pod EXCEPT !.st = "term"] /\ owed' = TRUE
       ELSE pod' = [pod EXCEPT !.cordon = TRUE] /\ UNCHANGED owed
    /\ UNCHANGED <<world, podCache, claimVars, budget>>

Disturb == budget > 0 /\ budget' = budget - 1

(* CreateThisPod fails, other than because the pod exists; it may have been   *)
(* created.  The references are set all the same, for a pod without a UID.    *)
CreateFails ==
    /\ pc = "claims" /\ todo = {} /\ ~failed /\ Disturb
    /\ \/ UNCHANGED pod
       \/ pod.st = "none" /\ pod.uid < MaxPods /\ pod' = NewPod
    /\ pc' = "refs" /\ todo' = Claims /\ held' = NoPod(0)
    /\ UNCHANGED <<world, podCache, owed, claimVars, nodeset, failed>>

CallFails ==
    /\ pc # "idle" /\ Disturb
    /\ IF todo # {} THEN UpdateFails ELSE Stop
    /\ UNCHANGED <<world, podVars, claimVars>>

Reconcile ==
    \/ SyncStart \/ CreateNodeSetPod \/ ProcessDone \/ RefsDone \/ ProcessCondemned
    \/ \E c \in Claims : CreatePersistentVolumeClaim(c) \/ UpdatePodPVCsForRetentionPolicy(c)

-----------------------------------------------------------------------------
(* Users, Kubernetes and the informers *)

UserChanges ==
    /\ spec.exists /\ Disturb
    /\ \/ \E p \in Policies \ {spec.policy} : spec' = [spec EXCEPT !.policy = p]
       \/ spec' = [spec EXCEPT !.wanted = ~@]
       \/ spec' = [spec EXCEPT !.template = 3 - @]
       \/ spec' = [spec EXCEPT !.exists = FALSE]
    /\ allowed' = allowed \union {spec'.policy}
    /\ UNCHANGED <<nodeCordon, podVars, claimVars, worker>>

NodeCordoned ==
    /\ Disturb /\ nodeCordon' = ~nodeCordon
    /\ UNCHANGED <<spec, allowed, podVars, claimVars, worker>>

(* The scheduler waits for the claims of a pod. *)
PodRuns ==
    /\ pod.st = "pending" /\ \A c \in Claims : claims[c].st = "bound"
    /\ pod' = [pod EXCEPT !.st = "running"]
    /\ UNCHANGED <<world, podCache, owed, claimVars, worker, budget>>

PodEvicted ==
    /\ Alive(pod) /\ Disturb
    /\ pod' = [pod EXCEPT !.st = "term"]
    /\ UNCHANGED <<world, podCache, owed, claimVars, worker>>

(* The garbage collector: the pod follows its NodeSet, a claim the last of   *)
(* its owners; a claim that a scheduled pod uses is kept until the pod ends. *)
PodCollected ==
    /\ ~spec.exists /\ Alive(pod)
    /\ pod' = [pod EXCEPT !.st = "term"]
    /\ UNCHANGED <<world, podCache, owed, claimVars, worker, budget>>

PodTerminates ==
    /\ pod.st = "term" /\ pod' = NoPod(pod.uid)
    /\ UNCHANGED <<world, podCache, owed, claimVars, worker, budget>>

Gone(uid) == IF uid = NodeSetUID THEN ~spec.exists ELSE uid # pod.uid \/ pod.st = "none"

ClaimCollected(c) ==
    /\ claims[c].st = "bound" /\ claims[c].refs # {}
    /\ \A uid \in claims[c].refs : Gone(uid)
    /\ claims' = [claims EXCEPT ![c].st = "deleting"]
    /\ UNCHANGED <<world, podVars, claimCache, worker, budget>>

ClaimRemoved(c) ==
    /\ claims[c].st = "deleting" /\ pod.st \in {"none", "pending"}
    /\ claims' = [claims EXCEPT ![c] = NoClaim]
    /\ UNCHANGED <<world, podVars, claimCache, worker, budget>>

(* An addition or a deletion is observed. *)
PodCacheSync ==
    /\ podCache # pod /\ podCache' = pod
    /\ owed' = (owed /\ podCache.st # "none" /\ Alive(pod) /\ podCache.uid = pod.uid)
    /\ UNCHANGED <<world, pod, claimVars, worker, budget>>

ClaimCacheSync(c) ==
    /\ claimCache[c] # claims[c] /\ claimCache' = [claimCache EXCEPT ![c] = claims[c]]
    /\ UNCHANGED <<world, podVars, claims, worker, budget>>

OperatorRestarts ==
    /\ Disturb /\ Stop
    /\ podCache' = pod /\ claimCache' = claims /\ owed' = FALSE
    /\ UNCHANGED <<spec, nodeCordon, allowed, pod, claims>>

Kubernetes ==
    \/ PodRuns \/ PodCollected \/ PodTerminates \/ PodCacheSync
    \/ \E c \in Claims : ClaimCollected(c) \/ ClaimRemoved(c) \/ ClaimCacheSync(c)

Next ==
    \/ Reconcile \/ Kubernetes
    \/ CreateFails \/ CallFails \/ UserChanges \/ NodeCordoned \/ PodEvicted \/ OperatorRestarts

Spec == Init /\ [][Next]_vars

(* A Sync asks for the next one after 30 seconds; Kubernetes does its part. *)
Fairness ==
    /\ WF_vars(Reconcile)
    /\ WF_vars(PodRuns) /\ WF_vars(PodCollected) /\ WF_vars(PodTerminates)
    /\ WF_vars(PodCacheSync)
    /\ \A c \in Claims : /\ WF_vars(ClaimCollected(c)) /\ WF_vars(ClaimRemoved(c))
                         /\ WF_vars(ClaimCacheSync(c))

LiveSpec == Spec /\ Fairness

-----------------------------------------------------------------------------
(* Properties *)

(* A claim is deleted only if a policy the NodeSet has had lets it: when the  *)
(* NodeSet still exists, whenScaled was Delete at some time, otherwise one of *)
(* the two was.  Scaling, updates, evictions and failures do not lose data    *)
(* under Retain.                                                              *)
RetainKeepsClaims ==
    [][\A c \in Claims : claims[c].st = "bound" /\ claims'[c].st # "bound"
          => \E p \in allowed : p.scaled = "Delete" \/ (~spec.exists /\ p.deleted = "Delete")]_vars

(* In the end the owners of every claim of a running pod are those the       *)
(* policy asks for, although they are rewritten one at a time, from caches,   *)
(* and any of the writes may fail.                                            *)
OwnersSettle ==
    <>[](spec.exists /\ pod.st = "running"
           => \A c \in Claims : claims[c].st = "bound" => claims[c].refs = OwnersFor(spec.policy, pod))

(* Under whenScaled Retain a pod that is wanted ends up running on its claims. *)
PodGetsClaims ==
    [](\A p \in allowed : p.scaled = "Retain")
      => <>[](spec.exists /\ spec.wanted => pod.st = "running")

(* "The Delete policy causes the associated PVCs for any excess pods to be   *)
(* deleted": those of a pod that is still wanted stay.                       *)
OnlyExcessClaimsGo ==
    [][\A c \in Claims : spec.exists /\ claims[c].st = "bound" /\ claims'[c].st # "bound"
                          => ~spec.wanted]_vars
=============================================================================
