------------------------ MODULE ClaimRetentionProofs ------------------------
(***************************************************************************)
(* For any number of claims, pods and disturbances and every set of        *)
(* policies: ClaimRetention is type correct, and a claim is lost only to a *)
(* policy that asks for it.                                                 *)
(***************************************************************************)
EXTENDS ClaimRetention, TLAPS

(* A pod that was ever created has a UID; the worker's copy that is none is *)
(* not cordoned, and so no owner.                                           *)
UIDInv ==
    /\ pod.uid # 0 /\ podCache.uid # 0
    /\ held.cordon => held.uid # 0

(* Whoever owns a claim does so under a policy the NodeSet has had. *)
Justified(refs) ==
    /\ NodeSetUID \in refs => \E p \in allowed : p.deleted = "Delete"
    /\ refs \ {NodeSetUID} # {} => \E p \in allowed : p.scaled = "Delete"

OwnersInv == \A c \in Claims : Justified(claims[c].refs)

PolicyInv ==
    /\ spec.policy \in allowed
    /\ pc # "idle" => nodeset.policy \in allowed

RetentionInv == TypeOK /\ UIDInv /\ PolicyInv /\ OwnersInv

-----------------------------------------------------------------------------
(* Operators *)

LEMMA OwnersForType ==
  ASSUME NEW policy, NEW p \in Pods
  PROVE  OwnersFor(policy, p) \in SUBSET ({NodeSetUID} \union UIDs)
<1>1. p.uid \in 0..MaxPods
  BY DEF Pods
<1>2. p.uid \in {NodeSetUID} \union UIDs
  BY <1>1, BoundAssumption DEF NodeSetUID, UIDs
<1> QED
  BY <1>2 DEF OwnersFor

(* The owners a policy asks for are justified by it. *)
LEMMA OwnersForJustified ==
  ASSUME NEW policy \in allowed, NEW p \in Pods, p.cordon => p.uid # 0
  PROVE  Justified(OwnersFor(policy, p))
BY DEF OwnersFor, Justified, NodeSetUID

LEMMA NoPodType ==
  ASSUME NEW uid \in 0..MaxPods
  PROVE  NoPod(uid) \in Pods
BY DEF NoPod, Pods

LEMMA NoNodeSetType ==
  ASSUME Policies # {}
  PROVE  NoNodeSet \in Specs
<1>1. (CHOOSE p \in Policies : TRUE) \in Policies
  OBVIOUS
<1> QED
  BY <1>1 DEF NoNodeSet, Specs

LEMMA NoClaimType == NoClaim \in ClaimRecords /\ NewClaim \in ClaimRecords
BY DEF NoClaim, NewClaim, ClaimRecords

(* Ending a reconcile leaves nothing of it. *)
LEMMA StopType ==
  ASSUME TypeOK, Stop
  PROVE  /\ pc' = "idle" /\ todo' \subseteq Claims /\ nodeset' \in Specs
         /\ held' \in Pods /\ failed' \in BOOLEAN
         /\ ~held'.cordon
<1>1. Policies # {}
  BY DEF TypeOK, Specs
<1>2. NoPod(0) \in Pods /\ ~NoPod(0).cordon
  BY NoPodType, BoundAssumption DEF NoPod
<1> QED
  BY <1>1, <1>2, NoNodeSetType DEF Stop

LEMMA RetentionInit == Init => RetentionInv
<1> SUFFICES ASSUME Init PROVE RetentionInv
  OBVIOUS
<1>1. PICK p \in Policies :
        spec = [exists |-> TRUE, policy |-> p, wanted |-> TRUE, template |-> 1]
  BY DEF Init
<1>2. spec \in Specs /\ spec.policy = p
  BY <1>1 DEF Specs
<1>3. pod \in Pods /\ podCache = pod /\ pod.uid = 1 /\ pod.cordon = FALSE
  BY BoundAssumption DEF Init, Pods
<1>4. nodeset \in Specs
  BY NoNodeSetType DEF Init
<1>5. held \in Pods /\ held.cordon = FALSE
  BY NoPodType, BoundAssumption DEF Init, NoPod
<1>6. OwnersFor(spec.policy, pod) \in SUBSET ({NodeSetUID} \union UIDs)
  BY <1>3, OwnersForType
<1>7. \A c \in Claims : claims[c] = [NewClaim EXCEPT !.refs = OwnersFor(spec.policy, pod)]
  BY DEF Init
<1>8. claims \in [Claims -> ClaimRecords] /\ \A c \in Claims : claims[c].st = "bound"
  BY <1>6 DEF Init, NewClaim, ClaimRecords
<1>9. TypeOK
  <2>1. /\ nodeCordon \in BOOLEAN /\ owed \in BOOLEAN /\ failed \in BOOLEAN
        /\ pc = "idle" /\ todo \subseteq Claims /\ claimCache = claims
    BY DEF Init
  <2>2. allowed \subseteq Policies /\ budget \in 0..MaxDisturbances
    BY <1>2, BoundAssumption DEF Init
  <2> QED
    BY <1>2, <1>3, <1>4, <1>5, <1>8, <2>1, <2>2 DEF TypeOK
<1>10. UIDInv /\ PolicyInv
  BY <1>3, <1>5 DEF Init, UIDInv, PolicyInv
<1>11. OwnersInv
  BY <1>3, <1>7, OwnersForJustified DEF Init, OwnersInv, NewClaim
<1> QED
  BY <1>9, <1>10, <1>11 DEF RetentionInv

-----------------------------------------------------------------------------
(* Every step keeps the invariant, one part of the state after the other *)

WorldPart ==
    /\ spec \in Specs /\ nodeCordon \in BOOLEAN
    /\ allowed \subseteq Policies /\ spec.policy \in allowed
    /\ budget \in 0..MaxDisturbances

PodPart ==
    /\ pod \in Pods /\ podCache \in Pods /\ owed \in BOOLEAN
    /\ pod.uid # 0 /\ podCache.uid # 0

WorkerPart ==
    /\ pc \in {"idle", "claims", "refs", "process", "fix"}
    /\ todo \subseteq Claims /\ nodeset \in Specs /\ held \in Pods /\ failed \in BOOLEAN
    /\ held.cordon => held.uid # 0
    /\ pc # "idle" => nodeset.policy \in allowed

ClaimPart ==
    /\ claims \in [Claims -> ClaimRecords] /\ claimCache \in [Claims -> ClaimRecords]
    /\ \A c \in Claims : claims[c].st = "none" => claims[c] = NoClaim
    /\ pod.st = "running" => \A c \in Claims : claims[c].st # "none"
    /\ OwnersInv

LEMMA Parts == RetentionInv <=> WorldPart /\ PodPart /\ WorkerPart /\ ClaimPart
BY DEF RetentionInv, TypeOK, UIDInv, PolicyInv, WorldPart, PodPart, WorkerPart, ClaimPart

LEMMA DisturbType ==
  ASSUME budget \in 0..MaxDisturbances, Disturb
  PROVE  budget' \in 0..MaxDisturbances
BY BoundAssumption DEF Disturb

(* The policies the NodeSet has had are never forgotten. *)
LEMMA WorldStep ==
  ASSUME WorldPart, [Next]_vars
  PROVE  WorldPart' /\ allowed \subseteq allowed'
<1> USE DEF WorldPart
<1>1. CASE UNCHANGED <<world, budget>>
  BY <1>1 DEF world
<1>2. CASE UNCHANGED world /\ Disturb
  BY <1>2, DisturbType DEF world
<1>3. CASE UserChanges
  <2>1. spec' \in Specs
    <3> USE DEF Specs
    <3>1. CASE \E p \in Policies : spec' = [spec EXCEPT !.policy = p]
      BY <3>1
    <3>2. CASE spec' = [spec EXCEPT !.wanted = ~@]
      BY <3>2
    <3>3. CASE spec' = [spec EXCEPT !.template = 3 - @]
      BY <3>3
    <3>4. CASE spec' = [spec EXCEPT !.exists = FALSE]
      BY <3>4
    <3> QED
      BY <1>3, <3>1, <3>2, <3>3, <3>4 DEF UserChanges
  <2>2. spec'.policy \in Policies /\ allowed' = allowed \union {spec'.policy}
    BY <1>3, <2>1 DEF UserChanges, Specs
  <2>3. budget' \in 0..MaxDisturbances /\ UNCHANGED nodeCordon
    BY <1>3, DisturbType DEF UserChanges
  <2> QED
    BY <2>1, <2>2, <2>3
<1>4. CASE NodeCordoned
  <2>1. nodeCordon' \in BOOLEAN
    BY <1>4 DEF NodeCordoned
  <2> QED
    BY <1>4, <2>1, DisturbType DEF NodeCordoned
<1>5. CASE OperatorRestarts
  BY <1>5, DisturbType DEF OperatorRestarts
<1> QED
  BY <1>1, <1>2, <1>3, <1>4, <1>5
     DEF Next, vars, Reconcile, Kubernetes, SyncStart, CreateNodeSetPod, ProcessDone,
         RefsDone, ProcessCondemned, CreatePersistentVolumeClaim,
         UpdatePodPVCsForRetentionPolicy, CreateFails, CallFails, PodRuns, PodEvicted, PodCollected,
         PodTerminates, ClaimCollected, ClaimRemoved, PodCacheSync, ClaimCacheSync

LEMMA PodStep ==
  ASSUME WorldPart, PodPart, WorkerPart, [Next]_vars
  PROVE  PodPart'
<1> USE DEF PodPart
<1>0. CASE UNCHANGED podVars
  BY <1>0 DEF podVars
<1>1. ASSUME UNCHANGED podCache, owed' \in BOOLEAN,
             \/ UNCHANGED pod
             \/ \E v \in BOOLEAN : pod' = [pod EXCEPT !.cordon = v]
             \/ \E st \in {"running", "term"} : pod' = [pod EXCEPT !.st = st]
      PROVE  PodPart'
  BY <1>1 DEF Pods
<1>2. CASE SyncStart
  <2>1. UNCHANGED pod \/ \E v \in BOOLEAN : pod' = [pod EXCEPT !.cordon = v]
    BY <1>2 DEF SyncStart, Cordoned
  <2> QED
    BY <1>1, <1>2, <2>1 DEF SyncStart
<1>3. CASE ProcessCondemned
  BY <1>1, <1>3 DEF ProcessCondemned
<1>4. CASE PodRuns \/ PodEvicted \/ PodCollected
  BY <1>1, <1>4 DEF PodRuns, PodEvicted, PodCollected
<1>5. CASE CreateNodeSetPod \/ CreateFails
  <2>1. CASE UNCHANGED <<pod, owed>>
    BY <1>1, <1>5, <2>1 DEF CreateNodeSetPod, CreateFails
  <2>2. CASE pod.uid < MaxPods /\ pod' = NewPod /\ owed' \in {TRUE, owed}
    <3>1. pod.uid + 1 \in 0..MaxPods /\ pod.uid + 1 # 0
      BY <2>2, BoundAssumption DEF Pods
    <3>2. nodeset.template \in {1, 2}
      BY DEF WorkerPart, Specs
    <3>3. pod' \in Pods /\ pod'.uid # 0
      BY <2>2, <3>1, <3>2 DEF Pods, NewPod
    <3>4. owed' \in BOOLEAN
      BY <2>2
    <3>5. UNCHANGED podCache
      BY <1>5 DEF CreateNodeSetPod, CreateFails
    <3> QED
      BY <3>3, <3>4, <3>5
  <2> QED
    BY <1>5, <2>1, <2>2 DEF CreateNodeSetPod, CreateFails
<1>6. CASE PodTerminates
  <2>1. pod' \in Pods /\ pod'.uid = pod.uid
    BY <1>6 DEF PodTerminates, NoPod, Pods
  <2> QED
    BY <1>6, <2>1 DEF PodTerminates
<1>7. CASE PodCacheSync
  BY <1>7 DEF PodCacheSync
<1>8. CASE OperatorRestarts
  BY <1>8 DEF OperatorRestarts
<1> QED
  BY <1>0, <1>2, <1>3, <1>4, <1>5, <1>6, <1>7, <1>8
     DEF Next, vars, Reconcile, Kubernetes, ProcessDone, RefsDone,
         CreatePersistentVolumeClaim, UpdatePodPVCsForRetentionPolicy, CallFails,
         UserChanges, NodeCordoned, ClaimCollected, ClaimRemoved, ClaimCacheSync

LEMMA WorkerStep ==
  ASSUME RetentionInv, [Next]_vars
  PROVE  WorkerPart'
<1>p. WorldPart /\ PodPart /\ WorkerPart /\ ClaimPart
  BY Parts
<1>w. PodPart' /\ allowed \subseteq allowed'
  BY <1>p, WorldStep, PodStep
<1>s. ASSUME Stop PROVE WorkerPart'
  BY <1>s, StopType DEF WorkerPart, RetentionInv
<1>f. ASSUME UpdateFails PROVE WorkerPart'
  BY <1>p, <1>s, <1>w, <1>f DEF UpdateFails, WorkerPart
<1>0. CASE UNCHANGED worker
  BY <1>p, <1>w, <1>0 DEF worker, WorkerPart
<1>1. CASE SyncStart
  <2>1. /\ todo' = Claims /\ nodeset' = spec /\ held' = podCache
        /\ UNCHANGED <<failed, allowed>>
        /\ pc' \in {"claims", "process", "fix"}
    BY <1>1 DEF SyncStart, world
  <2> QED
    BY <1>p, <2>1 DEF WorldPart, PodPart, WorkerPart
<1>2. CASE CreateNodeSetPod
  <2>1. CASE ~Stop
    BY <1>p, <1>w, <1>2, <2>1 DEF CreateNodeSetPod, NewPod, WorkerPart, PodPart, world
  <2> QED
    BY <1>s, <2>1
<1>3. CASE ProcessDone
  BY <1>p, <1>s, <1>w, <1>3 DEF ProcessDone, WorkerPart
<1>4. ASSUME NEW c \in Claims, CreatePersistentVolumeClaim(c) PROVE WorkerPart'
  <2>1. failed' \in BOOLEAN
    BY <1>4 DEF CreatePersistentVolumeClaim
  <2> QED
    BY <1>p, <1>w, <1>4, <2>1 DEF CreatePersistentVolumeClaim, Visited, WorkerPart
<1>5. ASSUME NEW c \in Claims, UpdatePodPVCsForRetentionPolicy(c) PROVE WorkerPart'
  <2>1. CASE Visited(c) /\ UNCHANGED failed
    BY <1>p, <1>w, <2>1 DEF Visited, WorkerPart
  <2> QED
    BY <1>f, <1>5, <2>1 DEF UpdatePodPVCsForRetentionPolicy
<1>6. CASE RefsDone \/ ProcessCondemned \/ CallFails \/ OperatorRestarts
  BY <1>s, <1>f, <1>6 DEF RefsDone, ProcessCondemned, CallFails, OperatorRestarts
<1>7. CASE CreateFails
  <2>1. held' \in Pods /\ ~held'.cordon
    BY <1>7, NoPodType, BoundAssumption DEF CreateFails, NoPod
  <2> QED
    BY <1>p, <1>7, <2>1 DEF CreateFails, WorkerPart, world
<1> QED
  BY <1>0, <1>1, <1>2, <1>3, <1>4, <1>5, <1>6, <1>7
     DEF Next, vars, Reconcile, Kubernetes, UserChanges, NodeCordoned, PodRuns, PodEvicted,
         PodCollected, PodTerminates, ClaimCollected, ClaimRemoved, PodCacheSync,
         ClaimCacheSync

(* Owners stay justified as policies come and go. *)
LEMMA JustifiedKept ==
  ASSUME NEW refs, Justified(refs), allowed \subseteq allowed'
  PROVE  Justified(refs)'
BY DEF Justified

(* A pod starts to run only on claims that are bound. *)
LEMMA RunsOnClaims ==
  ASSUME PodPart, [Next]_vars, pod'.st = "running", pod.st # "running"
  PROVE  (\A c \in Claims : claims[c].st = "bound") /\ UNCHANGED claims
<1>1. CASE PodRuns
  BY <1>1 DEF PodRuns, claimVars
<1>2. CASE SyncStart
  BY <1>2 DEF SyncStart, Cordoned, PodPart, Pods
<1>3. CASE ProcessCondemned
  BY <1>3 DEF ProcessCondemned, PodPart, Pods
<1>4. CASE CreateNodeSetPod \/ CreateFails
  BY <1>4 DEF CreateNodeSetPod, CreateFails, NewPod
<1>5. CASE PodEvicted \/ PodCollected \/ PodTerminates
  BY <1>5 DEF PodEvicted, PodCollected, PodTerminates, PodPart, Pods, NoPod
<1> QED
  BY <1>1, <1>2, <1>3, <1>4, <1>5
     DEF Next, vars, podVars, Reconcile, Kubernetes, ProcessDone, RefsDone,
         CreatePersistentVolumeClaim, UpdatePodPVCsForRetentionPolicy, CallFails,
         UserChanges, NodeCordoned, ClaimCollected, ClaimRemoved, PodCacheSync,
         ClaimCacheSync, OperatorRestarts

(* How one claim may change: created, given other owners, collected,        *)
(* removed.  Only a claim with justified owners is collected.               *)
ClaimChange(old, new) ==
    \/ old.st = "none" /\ new = NewClaim
    \/ old.st # "none" /\ new.st = old.st
    \/ old.st = "bound" /\ new.st = "deleting" /\ old.refs # {}
         /\ \A uid \in old.refs : Gone(uid)
    \/ old.st = "deleting" /\ new = NoClaim /\ pod.st # "running"

(* What a step does to the claims: at most one changes, in one of those ways. *)
LEMMA ClaimsChange ==
  ASSUME RetentionInv, [Next]_vars, claims' # claims
  PROVE  \E c \in Claims, new \in ClaimRecords :
            /\ claims' = [claims EXCEPT ![c] = new]
            /\ ClaimChange(claims[c], new)
            /\ Justified(new.refs)
            /\ UNCHANGED <<allowed, spec, pod, claimCache>>
<1>p. WorldPart /\ PodPart /\ WorkerPart /\ ClaimPart
  BY Parts
<1>1. ASSUME NEW c \in Claims, CreatePersistentVolumeClaim(c)
      PROVE  /\ claims' = [claims EXCEPT ![c] = NewClaim]
             /\ ClaimChange(claims[c], NewClaim)
             /\ Justified(NewClaim.refs)
             /\ UNCHANGED <<allowed, spec, pod, claimCache>>
  BY <1>1 DEF CreatePersistentVolumeClaim, ClaimChange, Justified, NewClaim, world, podVars
<1>2. ASSUME NEW c \in Claims, UpdatePodPVCsForRetentionPolicy(c)
      PROVE  \E new \in ClaimRecords :
                /\ claims' = [claims EXCEPT ![c] = new]
                /\ ClaimChange(claims[c], new)
                /\ Justified(new.refs)
                /\ UNCHANGED <<allowed, spec, pod, claimCache>>
  <2> DEFINE owners == OwnersFor(nodeset.policy, held)
             new == [claims[c] EXCEPT !.refs = owners]
  <2>1. claims[c] \in ClaimRecords
    BY <1>p DEF ClaimPart
  <2>2. /\ claimCache[c].st # "none" /\ claims[c] = claimCache[c] /\ pc # "idle"
        /\ claims' = [claims EXCEPT ![c] = new]
        /\ UNCHANGED <<allowed, spec, pod, claimCache>>
    BY <1>2 DEF UpdatePodPVCsForRetentionPolicy, updateClaimOwnerRef, world, podVars
  <2>3. owners \in SUBSET ({NodeSetUID} \union UIDs) /\ Justified(owners)
    BY <1>p, <2>2, OwnersForType, OwnersForJustified DEF WorkerPart
  <2>4. new \in ClaimRecords /\ new.refs = owners /\ new.st = claims[c].st
    BY <2>1, <2>3 DEF ClaimRecords
  <2> QED
    BY <2>2, <2>3, <2>4 DEF ClaimChange
<1>3. ASSUME NEW c \in Claims, ClaimCollected(c)
      PROVE  \E new \in ClaimRecords :
                /\ claims' = [claims EXCEPT ![c] = new]
                /\ ClaimChange(claims[c], new)
                /\ Justified(new.refs)
                /\ UNCHANGED <<allowed, spec, pod, claimCache>>
  <2> DEFINE new == [claims[c] EXCEPT !.st = "deleting"]
  <2>1. claims[c] \in ClaimRecords /\ Justified(claims[c].refs)
    BY <1>p DEF ClaimPart, OwnersInv
  <2>2. new \in ClaimRecords /\ new.refs = claims[c].refs /\ new.st = "deleting"
    BY <2>1 DEF ClaimRecords
  <2>3. claims' = [claims EXCEPT ![c] = new] /\ UNCHANGED <<allowed, spec, pod, claimCache>>
    BY <1>3 DEF ClaimCollected, world, podVars
  <2>4. ClaimChange(claims[c], new)
    BY <1>3, <2>2 DEF ClaimCollected, ClaimChange
  <2> QED
    BY <2>1, <2>2, <2>3, <2>4
<1>4. ASSUME NEW c \in Claims, ClaimRemoved(c)
      PROVE  /\ claims' = [claims EXCEPT ![c] = NoClaim]
             /\ ClaimChange(claims[c], NoClaim)
             /\ Justified(NoClaim.refs)
             /\ UNCHANGED <<allowed, spec, pod, claimCache>>
  BY <1>4 DEF ClaimRemoved, ClaimChange, Justified, NoClaim, world, podVars
<1>5. \E c \in Claims : \/ CreatePersistentVolumeClaim(c)
                        \/ UpdatePodPVCsForRetentionPolicy(c)
                        \/ ClaimCollected(c) \/ ClaimRemoved(c)
  BY DEF Next, vars, claimVars, Reconcile, Kubernetes, SyncStart, CreateNodeSetPod,
         ProcessDone, RefsDone, ProcessCondemned, CreateFails, CallFails, UserChanges, NodeCordoned,
         PodRuns, PodEvicted, PodCollected, PodTerminates, PodCacheSync, ClaimCacheSync,
         OperatorRestarts
<1> QED
  BY <1>1, <1>2, <1>3, <1>4, <1>5, NoClaimType

LEMMA CacheStep ==
  ASSUME ClaimPart, [Next]_vars
  PROVE  claimCache' \in [Claims -> ClaimRecords]
<1> USE DEF ClaimPart
<1>1. CASE UNCHANGED claimCache
  BY <1>1
<1>2. ASSUME NEW c \in Claims, ClaimCacheSync(c)
      PROVE  claimCache' \in [Claims -> ClaimRecords]
  BY <1>2 DEF ClaimCacheSync
<1>3. CASE OperatorRestarts
  BY <1>3 DEF OperatorRestarts
<1> QED
  BY <1>1, <1>2, <1>3
     DEF Next, vars, claimVars, Reconcile, Kubernetes, SyncStart, CreateNodeSetPod,
         ProcessDone, RefsDone, ProcessCondemned, CreatePersistentVolumeClaim,
         UpdatePodPVCsForRetentionPolicy, CreateFails, CallFails, UserChanges, NodeCordoned,
         PodRuns, PodEvicted, PodCollected, PodTerminates, ClaimCollected, ClaimRemoved,
         PodCacheSync

LEMMA ClaimStep ==
  ASSUME RetentionInv, [Next]_vars
  PROVE  ClaimPart'
<1>p. WorldPart /\ PodPart /\ WorkerPart /\ ClaimPart
  BY Parts
<1>a. allowed \subseteq allowed'
  BY <1>p, WorldStep
<1>c. claimCache' \in [Claims -> ClaimRecords]
  BY <1>p, CacheStep
<1>1. CASE UNCHANGED claims
  <2>1. OwnersInv'
    <3> SUFFICES ASSUME NEW c \in Claims PROVE Justified(claims[c].refs)'
      BY DEF OwnersInv
    <3>1. Justified(claims[c].refs)
      BY <1>p DEF ClaimPart, OwnersInv
    <3> QED
      BY <1>1, <1>a, <3>1 DEF Justified
  <2>2. pod'.st = "running" => \A c \in Claims : claims'[c].st # "none"
    BY <1>p, <1>1, RunsOnClaims DEF ClaimPart
  <2> QED
    BY <1>p, <1>1, <1>c, <2>1, <2>2 DEF ClaimPart
<1>2. CASE claims' # claims
  <2>1. PICK c \in Claims, new \in ClaimRecords :
            /\ claims' = [claims EXCEPT ![c] = new]
            /\ ClaimChange(claims[c], new)
            /\ Justified(new.refs)
            /\ UNCHANGED <<allowed, spec, pod, claimCache>>
    BY <1>2, ClaimsChange
  <2>2. claims'[c] = new /\ \A d \in Claims \ {c} : claims'[d] = claims[d]
    BY <1>p, <2>1 DEF ClaimPart
  <2>3. claims' \in [Claims -> ClaimRecords]
    BY <1>p, <2>1 DEF ClaimPart
  <2>4. OwnersInv'
    BY <1>p, <2>1, <2>2 DEF ClaimPart, OwnersInv, Justified
  <2>5. new.st = "none" => new = NoClaim /\ pod.st # "running"
    BY <2>1 DEF ClaimChange, NewClaim, NoClaim
  <2> QED
    BY <1>p, <1>c, <2>1, <2>2, <2>3, <2>4, <2>5 DEF ClaimPart
<1> QED
  BY <1>1, <1>2

LEMMA RetentionStep == RetentionInv /\ [Next]_vars => RetentionInv'
<1> SUFFICES ASSUME RetentionInv, [Next]_vars PROVE RetentionInv'
  OBVIOUS
<1>1. WorldPart' /\ PodPart' /\ WorkerPart' /\ ClaimPart'
  BY Parts, WorldStep, PodStep, WorkerStep, ClaimStep
<1> QED
  BY <1>1 DEF RetentionInv, TypeOK, UIDInv, PolicyInv, WorldPart, PodPart, WorkerPart,
              ClaimPart

(* RetentionInv is an invariant of ClaimRetention. *)
THEOREM RetentionCorrect == Spec => []RetentionInv
BY RetentionInit, RetentionStep, PTL DEF Spec

(* ClaimRetention is type correct; in particular a running pod has all its *)
(* claims.                                                                 *)
THEOREM TypeCorrect == Spec => []TypeOK
<1>1. RetentionInv => TypeOK
  BY DEF RetentionInv
<1> QED
  BY <1>1, RetentionCorrect, PTL

(* A claim is given up only under a policy the NodeSet has had that lets it *)
(* go, however the owner references of the claims are rewritten one by one, *)
(* from stale caches, and between failures and re-creations of the pod.     *)
THEOREM RetainCorrect == Spec => RetainKeepsClaims
<1> DEFINE Keeps ==
      \A c \in Claims : claims[c].st = "bound" /\ claims'[c].st # "bound"
          => \E p \in allowed : p.scaled = "Delete" \/ (~spec.exists /\ p.deleted = "Delete")
<1>1. ASSUME RetentionInv, [Next]_vars PROVE Keeps
  <2> SUFFICES ASSUME NEW c \in Claims, claims[c].st = "bound", claims'[c].st # "bound"
               PROVE  \E p \in allowed :
                         p.scaled = "Delete" \/ (~spec.exists /\ p.deleted = "Delete")
    OBVIOUS
  <2>p. ClaimPart
    BY <1>1, Parts
  <2>1. PICK d \in Claims, new \in ClaimRecords :
            /\ claims' = [claims EXCEPT ![d] = new]
            /\ ClaimChange(claims[d], new)
    BY <1>1, ClaimsChange
  <2>2. d = c /\ claims'[c] = new
    BY <2>p, <2>1 DEF ClaimPart
  <2>3. claims[c].refs # {} /\ \A uid \in claims[c].refs : Gone(uid)
    BY <2>1, <2>2 DEF ClaimChange
  <2>4. Justified(claims[c].refs)
    BY <2>p DEF ClaimPart, OwnersInv
  <2>5. CASE claims[c].refs \ {NodeSetUID} # {}
    BY <2>4, <2>5 DEF Justified
  <2>6. CASE NodeSetUID \in claims[c].refs
    BY <2>3, <2>4, <2>6 DEF Justified, Gone
  <2> QED
    BY <2>3, <2>5, <2>6
<1>2. RetentionInv /\ [Next]_vars => [Keeps]_vars
  BY <1>1
<1> QED
  BY <1>2, RetentionCorrect, PTL DEF Spec, RetainKeepsClaims
=============================================================================
