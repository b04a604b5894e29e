------------------------- MODULE NodeSetDrainProofs -------------------------
(***************************************************************************)
(* For every set of pods, every update strategy and any number of outside  *)
(* disturbances: NodeSetDrain is type correct, its delete and undrain      *)
(* decisions rest on what was true during the same reconcile, no work runs *)
(* on a covered node when its pod is deleted, and NodeSetDrain implements  *)
(* the safety part of Evacuation.                                          *)
(***************************************************************************)
EXTENDS NodeSetDrain, TLAPS

(* What the client's cache answers, in terms of the cached node. *)
LEMMA DrainedAnswer ==
  ASSUME NEW p \in Pods, TypeOK, client, IsNodeDrained(p)
  PROVE  Quiet(slurmCache[p])
BY DEF TypeOK, IsNodeDrained, Known, Quiet, SlurmNodes

LEMMA OursAnswer ==
  ASSUME NEW p \in Pods, TypeOK, client, IsNodeReasonOurs(p)
  PROVE  NotExternal(slurmCache[p])
BY DEF TypeOK, IsNodeReasonOurs, Known, NotExternal, SlurmNodes

(* The initial states satisfy the inductive invariant. *)
LEMMA FreshInit == Init => FreshInv
<1> SUFFICES ASSUME Init PROVE FreshInv
  OBVIOUS
<1> USE DEF Init
<1>1. TypeOK
  <2>1. NewPod \in PodRecords /\ Unregistered \in SlurmNodes
    BY DEF PodRecords, SlurmNodes, NewPod, Unregistered, PodStates, Reasons
  <2>2. budget \in 0..MaxDisturbances
    BY DisturbancesAssumption
  <2>3. phase \in Phases /\ step \in [Pods -> Steps]
    BY DEF Phases, Steps
  <2>4. /\ client \in BOOLEAN /\ blind \in BOOLEAN /\ scaling \in BOOLEAN
        /\ snap \in [Pods -> BOOLEAN] /\ nodeCordon \in [Pods -> BOOLEAN]
        /\ quietSeen \in [Pods -> BOOLEAN] /\ oursSeen \in [Pods -> BOOLEAN]
        /\ resumed \in [Pods -> BOOLEAN]
    OBVIOUS
  <2> QED
    BY <2>1, <2>2, <2>3, <2>4 DEF TypeOK
<1>2. HistoryInv
  BY DEF HistoryInv
<1>3. CacheInv /\ IdleInv
  BY DEF CacheInv, IdleInv
<1>4. DeleteDecisionIsFresh /\ UndrainDecisionIsFresh
  BY DEF DeleteDecisionIsFresh, UndrainDecisionIsFresh
<1> QED
  BY <1>1, <1>2, <1>3, <1>4 DEF FreshInv

-----------------------------------------------------------------------------
(* Type correctness *)

(* A Slurm write and a drain or undrain request keep the types. *)
LEMMA SlurmUpdateType ==
  ASSUME TypeOK, NEW p \in Pods, NEW drain \in BOOLEAN, SlurmUpdate(p, drain)
  PROVE  slurm' \in [Pods -> SlurmNodes] /\ slurmCache' \in [Pods -> SlurmNodes]
<1> DEFINE updated == IF slurm[p].reg
                      THEN [slurm[p] EXCEPT !.drain = drain, !.reason = "ours"]
                      ELSE slurm[p]
<1>1. slurm[p] \in SlurmNodes
  BY DEF TypeOK
<1>2. updated \in SlurmNodes
  BY <1>1 DEF SlurmNodes, Reasons
<1>3. slurm' = [slurm EXCEPT ![p] = updated]
      /\ slurmCache' = [slurmCache EXCEPT ![p] = updated]
  BY DEF SlurmUpdate
<1> HIDE DEF updated
<1> QED
  BY <1>2, <1>3 DEF TypeOK

LEMMA MakeNodeType ==
  ASSUME TypeOK, NEW p \in Pods, MakeNodeDrain(p) \/ MakeNodeUndrain(p)
  PROVE  slurm' \in [Pods -> SlurmNodes] /\ slurmCache' \in [Pods -> SlurmNodes]
<1>1. CASE SlurmUpdate(p, TRUE)
  BY <1>1, SlurmUpdateType
<1>2. CASE SlurmUpdate(p, FALSE)
  BY <1>2, SlurmUpdateType
<1>3. CASE UNCHANGED <<slurm, slurmCache>>
  BY <1>3 DEF TypeOK
<1> QED
  BY <1>1, <1>2, <1>3 DEF MakeNodeDrain, MakeNodeUndrain

LEMMA TrackType ==
  ASSUME Track
  PROVE  /\ quietSeen' \in [Pods -> BOOLEAN]
         /\ oursSeen' \in [Pods -> BOOLEAN]
         /\ blind' \in BOOLEAN
         /\ resumed' \in [Pods -> BOOLEAN]
BY DEF Track, Quiet, NotExternal

(* An outside disturbance is paid for from the budget. *)
LEMMA DisturbType ==
  ASSUME TypeOK, NEW kind, Disturb(kind)
  PROVE  budget' \in 0..MaxDisturbances
BY DisturbancesAssumption DEF TypeOK, Disturb

(* A pod record of the right type may replace any other. *)
LEMMA PodUpdateType ==
  ASSUME TypeOK, NEW p \in Pods, NEW r \in PodRecords, pod' = [pod EXCEPT ![p] = r]
  PROVE  pod' \in [Pods -> PodRecords]
BY DEF TypeOK

LEMMA PatchCordonType ==
  ASSUME TypeOK, NEW p \in Pods, NEW value \in BOOLEAN, NEW next \in Steps,
         PatchCordon(p, value, next)
  PROVE  /\ pod' \in [Pods -> PodRecords]
         /\ snap' \in [Pods -> BOOLEAN]
         /\ step' \in [Pods -> Steps]
<1>1. step' \in [Pods -> Steps]
  BY DEF TypeOK, PatchCordon, Goto, Steps
<1>2. snap' \in [Pods -> BOOLEAN]
  BY DEF TypeOK, PatchCordon, PodRecords
<1>3. CASE UNCHANGED pod
  BY <1>1, <1>2, <1>3 DEF TypeOK
<1>4. CASE pod' = [pod EXCEPT ![p].cordon = value, ![p].by = "operator"]
  <2> DEFINE r == [pod[p] EXCEPT !.cordon = value, !.by = "operator"]
  <2>1. pod[p] \in PodRecords
    BY DEF TypeOK
  <2>2. r \in PodRecords
    BY <2>1 DEF PodRecords
  <2>3. pod' = [pod EXCEPT ![p] = r]
    BY <1>4 DEF TypeOK
  <2> QED
    BY <1>1, <1>2, <2>2, <2>3, PodUpdateType
<1> QED
  BY <1>3, <1>4 DEF PatchCordon

(* Every step keeps the types. *)
LEMMA TypeStep == TypeOK /\ [Next]_vars => TypeOK'
<1> SUFFICES ASSUME TypeOK, [Next]_vars PROVE TypeOK'
  OBVIOUS
<1> USE DEF TypeOK, Steps, MidSteps, Phases, Goto, Local, world, worker
<1>0. CASE UNCHANGED vars
  BY <1>0 DEF vars, history
<1>1. CASE SyncStart
  BY <1>1, TrackType DEF SyncStart, RefreshNodeCache, GetNodesForPods,
                          SplitListed, Begin, PodRecords
<1>2. CASE ToCordon \/ ToKeep \/ ToCondemn
  BY <1>2, TrackType DEF ToCordon, ToKeep, ToCondemn, NextPhase
<1>3. CASE SyncEnd \/ SyncAbort
  BY <1>3, TrackType DEF SyncEnd, SyncAbort, Finish
<1>4. ASSUME NEW p \in Pods, PodStep(p) PROVE TypeOK'
  <2>1. CASE SyncSlurmNode(p)
    <3> DEFINE r == [pod[p] EXCEPT !.st = "term"]
    <3>1. r \in PodRecords
      BY DEF PodRecords, PodStates
    <3>2. UNCHANGED pod \/ pod' = [pod EXCEPT ![p] = r]
      BY <2>1 DEF SyncSlurmNode
    <3>3. pod' \in [Pods -> PodRecords]
      BY <3>1, <3>2, PodUpdateType
    <3> QED
      BY <2>1, <3>3, TrackType DEF SyncSlurmNode
  <2>2. CASE SyncCordon(p)
    BY <2>2, TrackType DEF SyncCordon, CordonBranch
  <2>3. CASE SyncPodUncordon(p)
    BY <2>3, TrackType DEF SyncPodUncordon
  <2>4. CASE ProcessCondemned(p)
    BY <2>4, TrackType DEF ProcessCondemned, PodRecords
  <2>5. CASE MakePodCordon(p)
    <3>1. PatchCordon(p, TRUE, "drain")
      BY <2>5 DEF MakePodCordon
    <3>2. /\ pod' \in [Pods -> PodRecords]
          /\ snap' \in [Pods -> BOOLEAN]
          /\ step' \in [Pods -> Steps]
      BY <3>1, PatchCordonType
    <3> QED
      BY <2>5, <3>2, TrackType DEF MakePodCordon
  <2>6. CASE MakePodUncordon(p)
    <3>1. PatchCordon(p, FALSE, "undrain")
      BY <2>6 DEF MakePodUncordon
    <3>2. /\ pod' \in [Pods -> PodRecords]
          /\ snap' \in [Pods -> BOOLEAN]
          /\ step' \in [Pods -> Steps]
      BY <3>1, PatchCordonType
    <3> QED
      BY <2>6, <3>2, TrackType DEF MakePodUncordon
  <2>7. CASE SyncSlurmNodeDrain(p)
    <3>1. slurm' \in [Pods -> SlurmNodes] /\ slurmCache' \in [Pods -> SlurmNodes]
      BY <2>7, MakeNodeType DEF SyncSlurmNodeDrain
    <3> QED
      BY <2>7, <3>1, TrackType DEF SyncSlurmNodeDrain
  <2>8. CASE DrainCordonedPod(p)
    <3>1. slurm' \in [Pods -> SlurmNodes] /\ slurmCache' \in [Pods -> SlurmNodes]
      BY <2>8, MakeNodeType DEF DrainCordonedPod
    <3> QED
      BY <2>8, <3>1, TrackType DEF DrainCordonedPod
  <2>9. CASE SyncSlurmNodeUndrain(p)
    <3>1. slurm' \in [Pods -> SlurmNodes] /\ slurmCache' \in [Pods -> SlurmNodes]
      BY <2>9, MakeNodeType DEF SyncSlurmNodeUndrain
    <3> QED
      BY <2>9, <3>1, TrackType DEF SyncSlurmNodeUndrain
  <2>10. CASE DeleteNodeSetPod(p)
    <3> DEFINE r == [pod[p] EXCEPT !.st = IF @ = "running" THEN "term" ELSE @]
    <3>0. pod[p] \in PodRecords
      OBVIOUS
    <3>1. r \in PodRecords
      BY <3>0 DEF PodRecords, PodStates
    <3>2. pod' = [pod EXCEPT ![p] = r]
      BY <2>10 DEF DeleteNodeSetPod
    <3>3. pod' \in [Pods -> PodRecords]
      BY <3>1, <3>2, PodUpdateType
    <3> QED
      BY <2>10, <3>3, TrackType DEF DeleteNodeSetPod
  <2> QED
    BY <1>4, <2>1, <2>2, <2>3, <2>4, <2>5, <2>6, <2>7, <2>8, <2>9, <2>10 DEF PodStep
<1>5. ASSUME NEW p \in Pods, CallFails(p) PROVE TypeOK'
  BY <1>5, TrackType, DisturbType DEF CallFails
<1>6. ASSUME NEW p \in Pods, PodEvent(p) PROVE TypeOK'
  <2>0. slurm[p] \in SlurmNodes /\ pod[p] \in PodRecords
    OBVIOUS
  <2>1. CASE UserCordonsNode(p)
    BY <2>1, TrackType, DisturbType DEF UserCordonsNode
  <2>2. CASE UserCordonsPod(p)
    <3> DEFINE r == [pod[p] EXCEPT !.cordon = ~@, !.by = "user"]
    <3>1. r \in PodRecords
      BY <2>0 DEF PodRecords
    <3>2. pod' = [pod EXCEPT ![p] = r]
      BY <2>2 DEF UserCordonsPod
    <3>3. pod' \in [Pods -> PodRecords]
      BY <3>1, <3>2, PodUpdateType
    <3> QED
      BY <2>2, <3>3, TrackType, DisturbType DEF UserCordonsPod
  <2>3. CASE UserScales(p)
    BY <2>3, TrackType, DisturbType DEF UserScales
  <2>4. ASSUME NEW node \in SlurmNodes, SlurmChanges(p, node),
               budget' \in 0..MaxDisturbances
        PROVE  TypeOK'
    BY <2>4, TrackType DEF SlurmChanges
  <2>5. CASE AdminDrains(p)
    <3>1. [slurm[p] EXCEPT !.drain = TRUE, !.reason = "ext"] \in SlurmNodes
      BY <2>0 DEF SlurmNodes, Reasons
    <3> QED
      BY <2>4, <2>5, <3>1, DisturbType DEF AdminDrains
  <2>6. CASE AdminUndrains(p)
    <3>1. [slurm[p] EXCEPT !.drain = FALSE, !.reason = "none"] \in SlurmNodes
      BY <2>0 DEF SlurmNodes, Reasons
    <3> QED
      BY <2>4, <2>6, <3>1, DisturbType DEF AdminUndrains
  <2>7. CASE NodeUnresponsive(p)
    <3>1. [slurm[p] EXCEPT !.base = "down",
                           !.reason = IF @ = "none" THEN "ext" ELSE @] \in SlurmNodes
      BY <2>0 DEF SlurmNodes, Reasons
    <3> QED
      BY <2>4, <2>7, <3>1, DisturbType DEF NodeUnresponsive
  <2>8. CASE NodeResponds(p)
    <3>1. [slurm[p] EXCEPT !.base = "idle",
                           !.reason = IF slurm[p].drain THEN @ ELSE "none"] \in SlurmNodes
      BY <2>0 DEF SlurmNodes, Reasons
    <3> QED
      BY <2>4, <2>8, <3>1 DEF NodeResponds
  <2>9. CASE JobStarts(p)
    <3>1. [slurm[p] EXCEPT !.base = "busy"] \in SlurmNodes
      BY <2>0 DEF SlurmNodes
    <3> QED
      BY <2>4, <2>9, <3>1 DEF JobStarts
  <2>10. CASE JobEnds(p)
    <3>1. [slurm[p] EXCEPT !.base = "idle"] \in SlurmNodes
      BY <2>0 DEF SlurmNodes
    <3> QED
      BY <2>4, <2>10, <3>1 DEF JobEnds
  <2>11. CASE Register(p)
    <3>1. [Unregistered EXCEPT !.reg = TRUE] \in SlurmNodes
      BY DEF SlurmNodes, Unregistered, Reasons
    <3> QED
      BY <2>4, <2>11, <3>1 DEF Register
  <2>12. CASE PodTerminates(p)
    <3>1. [NewPod EXCEPT !.st = "gone"] \in PodRecords /\ Unregistered \in SlurmNodes
      BY DEF NewPod, PodRecords, PodStates, Unregistered, SlurmNodes, Reasons
    <3> QED
      BY <2>12, <3>1, TrackType DEF PodTerminates
  <2>13. CASE PodCreated(p)
    <3>1. NewPod \in PodRecords
      BY DEF NewPod, PodRecords, PodStates
    <3> QED
      BY <2>13, <3>1, TrackType DEF PodCreated
  <2>14. CASE PodCacheSync(p)
    BY <2>14, <2>0, TrackType DEF PodCacheSync
  <2>15. CASE SlurmCacheSync(p)
    BY <2>15, <2>0, TrackType DEF SlurmCacheSync
  <2> QED
    BY <1>6, <2>1, <2>2, <2>3, <2>5, <2>6, <2>7, <2>8, <2>9, <2>10, <2>11, <2>12,
       <2>13, <2>14, <2>15 DEF PodEvent
<1>7. CASE ClientRemoved
  BY <1>7, TrackType, DisturbType DEF ClientRemoved
<1>8. CASE ClientAdded
  BY <1>8, TrackType DEF ClientAdded
<1>9. CASE OperatorRestarts
  BY <1>9, TrackType, DisturbType DEF OperatorRestarts
<1> QED
  BY <1>0, <1>1, <1>2, <1>3, <1>4, <1>5, <1>6, <1>7, <1>8, <1>9 DEF Next, Reconcile

(* NodeSetDrain is type correct. *)
THEOREM TypeCorrect == Spec => []TypeOK
<1>1. Init => TypeOK
  BY FreshInit DEF FreshInv
<1> QED
  BY <1>1, TypeStep, PTL DEF Spec

-----------------------------------------------------------------------------
(* Decisions are fresh *)

(* Track records the present and, inside a reconcile, forgets nothing. *)
LEMMA TrackHistory ==
  ASSUME Track
  PROVE  HistoryInv'
BY DEF Track, HistoryInv

LEMMA TrackKeeps ==
  ASSUME Track, phase # "idle"
  PROVE  /\ blind => blind'
         /\ \A p \in Pods : quietSeen[p] => quietSeen'[p]
         /\ \A p \in Pods : oursSeen[p] => oursSeen'[p]
BY DEF Track

(* A step may bring the client's cache up to date but never invents a node. *)
CacheFollows ==
    \A p \in Pods : slurmCache'[p] \in {slurmCache[p], slurm[p], slurm'[p]}

(* A pod is newly on its way to a delete or an undrain only upon an answer *)
(* that the client's cache gives now.                                      *)
DecisionsFollow ==
    \A p \in Pods :
      /\ step'[p] = "delete" => step[p] = "delete" \/ IsNodeDrained(p)
      /\ step'[p] \in {"unpatch", "undrain"} =>
           step[p] \in {"unpatch", "undrain"} \/ IsNodeReasonOurs(p)

LEMMA CacheInvKept ==
  ASSUME HistoryInv, CacheInv, Track, phase # "idle", CacheFollows
  PROVE  CacheInv'
<1> SUFFICES ASSUME ~blind', NEW p \in Pods
             PROVE  /\ Quiet(slurmCache[p])' => quietSeen'[p]
                    /\ NotExternal(slurmCache[p])' => oursSeen'[p]
  BY DEF CacheInv
<1>1. ~blind
  BY TrackKeeps
<1>2. CASE slurmCache'[p] = slurmCache[p]
  BY <1>1, <1>2, TrackKeeps DEF CacheInv, Quiet, NotExternal
<1>3. CASE slurmCache'[p] = slurm[p]
  BY <1>3, TrackKeeps DEF HistoryInv, Quiet, NotExternal
<1>4. CASE slurmCache'[p] = slurm'[p]
  BY <1>4, TrackHistory DEF HistoryInv, Quiet, NotExternal
<1> QED
  BY <1>2, <1>3, <1>4 DEF CacheFollows

LEMMA DecisionsKept ==
  ASSUME FreshInv, Track, phase # "idle", DecisionsFollow
  PROVE  DeleteDecisionIsFresh' /\ UndrainDecisionIsFresh'
<1> USE DEF FreshInv
<1>1. ASSUME NEW p \in Pods, step'[p] = "delete"
      PROVE  quietSeen'[p] \/ blind'
  <2>1. CASE step[p] = "delete"
    BY <2>1, TrackKeeps DEF DeleteDecisionIsFresh
  <2>2. CASE IsNodeDrained(p) /\ client /\ ~blind
    BY <2>2, DrainedAnswer, TrackKeeps DEF CacheInv
  <2>3. CASE ~client \/ blind
    BY <2>3, TrackKeeps DEF HistoryInv
  <2> QED
    BY <1>1, <2>1, <2>2, <2>3 DEF DecisionsFollow
<1>2. ASSUME NEW p \in Pods, step'[p] \in {"unpatch", "undrain"}
      PROVE  oursSeen'[p] \/ blind'
  <2>1. CASE step[p] \in {"unpatch", "undrain"}
    BY <2>1, TrackKeeps DEF UndrainDecisionIsFresh
  <2>2. CASE IsNodeReasonOurs(p) /\ client /\ ~blind
    BY <2>2, OursAnswer, TrackKeeps DEF CacheInv
  <2>3. CASE ~client \/ blind
    BY <2>3, TrackKeeps DEF HistoryInv
  <2> QED
    BY <1>2, <2>1, <2>2, <2>3 DEF DecisionsFollow
<1> QED
  BY <1>1, <1>2 DEF DeleteDecisionIsFresh, UndrainDecisionIsFresh

(* Every step but the start of a reconcile keeps the invariant this way. *)
LEMMA FreshKept ==
  ASSUME FreshInv, TypeOK', Track, IdleInv', CacheFollows, DecisionsFollow,
         phase = "idle" => phase' = "idle"
  PROVE  FreshInv'
<1>1. HistoryInv'
  BY TrackHistory
<1>2. CASE phase # "idle"
  BY <1>1, <1>2, CacheInvKept, DecisionsKept DEF FreshInv
<1>3. CASE phase' = "idle"
  BY <1>1, <1>3 DEF FreshInv, IdleInv, CacheInv, DeleteDecisionIsFresh,
                    UndrainDecisionIsFresh
<1> QED
  BY <1>2, <1>3

(* The answer of a drain or undrain request is what Slurm then holds. *)
LEMMA MakeNodeCache ==
  ASSUME TypeOK, NEW p \in Pods, MakeNodeDrain(p) \/ MakeNodeUndrain(p)
  PROVE  CacheFollows
<1>1. CASE SlurmUpdate(p, TRUE) \/ SlurmUpdate(p, FALSE)
  BY <1>1 DEF SlurmUpdate, CacheFollows, TypeOK
<1>2. CASE UNCHANGED <<slurm, slurmCache>>
  BY <1>2 DEF CacheFollows
<1> QED
  BY <1>1, <1>2 DEF MakeNodeDrain, MakeNodeUndrain

(* Every step but the start of a reconcile goes by these rules. *)
Follows ==
    /\ Track
    /\ IdleInv'
    /\ CacheFollows
    /\ DecisionsFollow
    /\ phase = "idle" => phase' = "idle"

LEMMA StepFollows ==
  ASSUME FreshInv, Next, ~SyncStart
  PROVE  Follows
<1> USE DEF FreshInv
<1>i. \A p \in Pods : step[p] # "off" => phase # "idle"
  BY DEF IdleInv
<1>2. CASE ToCordon \/ ToKeep \/ ToCondemn
  <2>1. Track /\ phase # "idle" /\ phase' # "idle" /\ UNCHANGED slurmCache
    BY <1>2 DEF ToCordon, ToKeep, ToCondemn, NextPhase, PhaseDone, world
  <2>2. \A p \in Pods : step'[p] \in {"off", "todo", "done"}
    BY <1>2 DEF ToCordon, ToKeep, ToCondemn, NextPhase
  <2>3. IdleInv' /\ CacheFollows /\ DecisionsFollow
    BY <2>1, <2>2 DEF IdleInv, CacheFollows, DecisionsFollow
  <2> QED
    BY <2>1, <2>3 DEF Follows
<1>3. CASE SyncEnd \/ SyncAbort \/ OperatorRestarts
  <2>1. Track /\ phase' = "idle" /\ UNCHANGED slurmCache
    BY <1>3 DEF SyncEnd, SyncAbort, OperatorRestarts, Finish, world
  <2>2. \A p \in Pods : step'[p] = "off"
    BY <1>3 DEF SyncEnd, SyncAbort, OperatorRestarts, Finish
  <2>3. IdleInv' /\ CacheFollows /\ DecisionsFollow
    BY <2>1, <2>2 DEF IdleInv, CacheFollows, DecisionsFollow
  <2> QED
    BY <2>1, <2>3 DEF Follows
<1>4. ASSUME NEW p \in Pods, PodStep(p) PROVE Follows
  <2>1. Track /\ step[p] # "off" /\ UNCHANGED phase
    BY <1>4 DEF PodStep, SyncSlurmNode, SyncCordon, SyncPodUncordon, ProcessCondemned,
                MakePodCordon, MakePodUncordon, SyncSlurmNodeDrain, DrainCordonedPod,
                SyncSlurmNodeUndrain, DeleteNodeSetPod, Local
  <2>2. phase # "idle" /\ IdleInv'
    BY <1>i, <2>1 DEF IdleInv
  <2>3. CacheFollows
    <3>1. CASE SyncSlurmNodeDrain(p) \/ DrainCordonedPod(p) \/ SyncSlurmNodeUndrain(p)
      BY <3>1, MakeNodeCache DEF SyncSlurmNodeDrain, DrainCordonedPod,
                                 SyncSlurmNodeUndrain, CacheFollows
    <3>2. CASE UNCHANGED slurmCache
      BY <3>2 DEF CacheFollows
    <3> QED
      BY <1>4, <3>1, <3>2
         DEF PodStep, SyncSlurmNode, SyncCordon, SyncPodUncordon, ProcessCondemned,
             MakePodCordon, MakePodUncordon, DeleteNodeSetPod, Local, world
  <2>4. DecisionsFollow
    <3> USE DEF DecisionsFollow, Goto, TypeOK
    <3>1. CASE \E s \in {"done", "failed"} : Goto(p, s)
      BY <3>1
    <3>2. CASE SyncCordon(p)
      BY <3>2 DEF SyncCordon, CordonBranch
    <3>3. CASE SyncPodUncordon(p)
      BY <3>3 DEF SyncPodUncordon
    <3>4. CASE ProcessCondemned(p)
      BY <3>4 DEF ProcessCondemned
    <3>5. CASE MakePodCordon(p)
      BY <3>5 DEF MakePodCordon, PatchCordon
    <3>6. CASE MakePodUncordon(p)
      BY <3>6 DEF MakePodUncordon, PatchCordon
    <3> QED
      BY <1>4, <3>1, <3>2, <3>3, <3>4, <3>5, <3>6
         DEF PodStep, SyncSlurmNode, SyncSlurmNodeDrain, DrainCordonedPod,
             SyncSlurmNodeUndrain, DeleteNodeSetPod
  <2> QED
    BY <2>1, <2>2, <2>3, <2>4 DEF Follows
<1>5. ASSUME NEW p \in Pods, CallFails(p) PROVE Follows
  <2>1. Track /\ phase # "idle" /\ UNCHANGED <<phase, slurmCache>>
    BY <1>5 DEF CallFails, world
  <2>2. IdleInv' /\ CacheFollows
    BY <2>1 DEF IdleInv, CacheFollows
  <2>3. DecisionsFollow
    BY <1>5 DEF CallFails, Goto, DecisionsFollow, TypeOK
  <2> QED
    BY <2>1, <2>2, <2>3 DEF Follows
<1>6. CASE (\E p \in Pods : PodEvent(p)) \/ ClientRemoved \/ ClientAdded
  <2>1. Track /\ UNCHANGED <<phase, step>>
    BY <1>6 DEF PodEvent, UserCordonsNode, UserCordonsPod, UserScales, AdminDrains,
                AdminUndrains, NodeUnresponsive, NodeResponds, JobStarts, JobEnds,
                Register, SlurmChanges, PodTerminates, PodCreated, PodCacheSync,
                SlurmCacheSync, ClientRemoved, ClientAdded, worker
  <2>2. ASSUME UNCHANGED slurmCache PROVE CacheFollows
    BY <2>2 DEF CacheFollows
  <2>3. ASSUME NEW p \in Pods, SlurmCacheSync(p) PROVE CacheFollows
    BY <2>3 DEF SlurmCacheSync, CacheFollows, TypeOK
  <2>4. ASSUME ClientAdded PROVE CacheFollows
    BY <2>4 DEF ClientAdded, CacheFollows
  <2>5. CacheFollows
    BY <1>6, <2>2, <2>3, <2>4
       DEF PodEvent, UserCordonsNode, UserCordonsPod, UserScales, AdminDrains,
           AdminUndrains, NodeUnresponsive, NodeResponds, JobStarts, JobEnds,
           Register, SlurmChanges, PodTerminates, PodCreated, PodCacheSync, ClientRemoved
  <2>6. IdleInv' /\ DecisionsFollow
    BY <2>1 DEF IdleInv, DecisionsFollow
  <2> QED
    BY <2>1, <2>5, <2>6 DEF Follows
<1> QED
  BY <1>2, <1>3, <1>4, <1>5, <1>6 DEF Next, Reconcile

(* Every step keeps the inductive invariant. *)
LEMMA FreshStep == FreshInv /\ [Next]_vars => FreshInv'
<1> SUFFICES ASSUME FreshInv, [Next]_vars PROVE FreshInv'
  OBVIOUS
<1>t. TypeOK'
  BY TypeStep DEF FreshInv
<1>0. CASE UNCHANGED vars
  BY <1>0 DEF vars, FreshInv, world, worker, history, TypeOK, HistoryInv, CacheInv, IdleInv,
              DeleteDecisionIsFresh, UndrainDecisionIsFresh, Quiet, NotExternal
<1>1. CASE SyncStart
  <2>1. HistoryInv'
    BY <1>1, TrackHistory DEF SyncStart
  <2>2. CacheInv'
    <3>1. CASE client
      BY <1>1, <2>1, <3>1 DEF SyncStart, RefreshNodeCache, CacheInv, HistoryInv,
                              Quiet, NotExternal
    <3>2. CASE ~client
      BY <1>1, <2>1, <3>2 DEF SyncStart, CacheInv, HistoryInv
    <3> QED
      BY <3>1, <3>2
  <2>3. IdleInv' /\ DeleteDecisionIsFresh' /\ UndrainDecisionIsFresh'
    BY <1>1 DEF SyncStart, Begin, IdleInv, DeleteDecisionIsFresh, UndrainDecisionIsFresh
  <2> QED
    BY <1>t, <2>1, <2>2, <2>3 DEF FreshInv
<1>2. CASE Next /\ ~SyncStart
  BY <1>2, <1>t, StepFollows, FreshKept DEF Follows
<1> QED
  BY <1>0, <1>1, <1>2

(* FreshInv is an invariant for every set of pods and any number of outside *)
(* disturbances.                                                            *)
THEOREM FreshCorrect == Spec => []FreshInv
<1> QED
  BY FreshInit, FreshStep, PTL DEF Spec

(* processCondemned never sends a delete on evidence older than the current *)
(* reconcile, whatever jobs, administrators, caches and failures do.        *)
THEOREM DeleteFreshCorrect == Spec => []DeleteDecisionIsFresh
<1>1. FreshInv => DeleteDecisionIsFresh
  BY DEF FreshInv
<1> QED
  BY <1>1, FreshCorrect, PTL

(* Neither syncCordon nor syncPodUncordon undrains a node whose reason was *)
(* external during the whole of the reconcile.                             *)
THEOREM UndrainFreshCorrect == Spec => []UndrainDecisionIsFresh
<1>1. FreshInv => UndrainDecisionIsFresh
  BY DEF FreshInv
<1> QED
  BY <1>1, FreshCorrect, PTL
-----------------------------------------------------------------------------
(* The contract: no work on a deleted pod's node *)

(* A quiet node gets work again only from somebody who resumes it, by the   *)
(* registration of a new pod, or from the worker - which then has the       *)
(* resumed node in its cache and is not about to delete that pod.           *)
StaysQuiet ==
    \A p \in Pods :
      Quiet(slurm[p]) /\ ~Quiet(slurm'[p]) =>
        \/ resumed'[p]
        \/ pod[p].st = "running" /\ ~slurm[p].reg
        \/ slurmCache'[p] = slurm'[p] /\ step'[p] # "delete"

(* Slurm nodes come and go with their pods. *)
LifeFollows ==
    \A p \in Pods :
      /\ slurm[p].reg /\ ~slurm'[p].reg => pod'[p].st = "gone"
      /\ slurm'[p].reg /\ ~slurm[p].reg => pod[p].st = "running" /\ pod'[p].st # "gone"
      /\ pod[p].st = "gone" /\ pod'[p].st # "gone" => phase = "idle"
      /\ pod[p].st # "gone" /\ pod'[p].st = "gone" => ~slurm'[p].reg

-----------------------------------------------------------------------------
(* The rules keep the invariant *)

LEMMA EvacuationInit == Init => EvacuationInv
BY FreshInit DEF Init, EvacuationInv, GoneInv, RegisteredInv, DrainedInv,
                 NoWorkWhenDeleted, Unregistered

LEMMA ResumedKept ==
  ASSUME Track, phase # "idle", NEW p \in Pods, resumed[p]
  PROVE  resumed'[p]
BY DEF Track

LEMMA GoneKept ==
  ASSUME GoneInv, LifeFollows
  PROVE  GoneInv'
BY DEF GoneInv, LifeFollows

LEMMA DrainedKept ==
  ASSUME EvacuationInv, Track, phase # "idle", UNCHANGED registered,
         CacheFollows, StaysQuiet
  PROVE  DrainedInv'
<1> SUFFICES ASSUME ~blind', NEW p \in registered, ~resumed'[p], Quiet(slurmCache'[p]),
                    ~Quiet(slurm'[p])
             PROVE  FALSE
  BY DEF DrainedInv, Quiet
<1>1. p \in Pods /\ ~blind /\ ~resumed[p]
  BY TrackKeeps, ResumedKept DEF EvacuationInv, FreshInv, TypeOK
<1>2. slurmCache'[p] # slurm'[p]
  OBVIOUS
<1>3. Quiet(slurm[p])
  BY <1>1, <1>2 DEF CacheFollows, EvacuationInv, DrainedInv
<1>4. slurm[p].reg \/ pod[p].st = "gone"
  BY <1>1 DEF EvacuationInv, RegisteredInv
<1> QED
  BY <1>1, <1>2, <1>3, <1>4 DEF StaysQuiet

LEMMA NoWorkKept ==
  ASSUME EvacuationInv, Track, phase # "idle", UNCHANGED registered,
         DecisionsFollow, StaysQuiet
  PROVE  NoWorkWhenDeleted'
<1> SUFFICES ASSUME NEW p \in Pods, step'[p] = "delete", p \in registered, ~blind',
                    ~resumed'[p], ~Quiet(slurm'[p])
             PROVE  FALSE
  BY DEF NoWorkWhenDeleted, Quiet
<1>1. ~blind /\ ~resumed[p] /\ client
  BY TrackKeeps, ResumedKept DEF EvacuationInv, FreshInv, HistoryInv
<1>2. Quiet(slurm[p])
  <2>1. CASE step[p] = "delete"
    BY <1>1, <2>1 DEF EvacuationInv, NoWorkWhenDeleted
  <2>2. CASE IsNodeDrained(p)
    BY <1>1, <2>2, DrainedAnswer DEF EvacuationInv, FreshInv, DrainedInv
  <2> QED
    BY <2>1, <2>2 DEF DecisionsFollow
<1>3. slurm[p].reg \/ pod[p].st = "gone"
  BY <1>1 DEF EvacuationInv, RegisteredInv
<1> QED
  BY <1>2, <1>3 DEF StaysQuiet

LEMMA EvacuationKept ==
  ASSUME EvacuationInv, FreshInv', Follows, UNCHANGED registered,
         StaysQuiet, LifeFollows
  PROVE  EvacuationInv'
<1>1. GoneInv'
  BY GoneKept DEF EvacuationInv, FreshInv
<1>2. CASE phase # "idle"
  <2>1. RegisteredInv'
    BY <1>2, TrackKeeps DEF Follows, EvacuationInv, FreshInv, TypeOK, RegisteredInv,
                            LifeFollows
  <2> QED
    BY <1>1, <1>2, <2>1, DrainedKept, NoWorkKept DEF Follows, EvacuationInv
<1>3. CASE phase' = "idle"
  BY <1>1, <1>3 DEF EvacuationInv, FreshInv, IdleInv, RegisteredInv, DrainedInv,
                    NoWorkWhenDeleted
<1> QED
  BY <1>2, <1>3 DEF Follows

-----------------------------------------------------------------------------
(* Every step goes by the rules *)

(* Pods only stop, and Slurm is left alone. *)
PodsOnly ==
    /\ UNCHANGED slurm
    /\ \A p \in Pods :
         \/ pod'[p].st = pod[p].st
         \/ pod[p].st = "running" /\ pod'[p].st = "term"

LEMMA PodsOnlyMoves ==
  ASSUME PodsOnly
  PROVE  StaysQuiet /\ LifeFollows
BY DEF PodsOnly, StaysQuiet, LifeFollows, Quiet

(* The node of one registered pod changes, and stays registered. *)
NodeOnly(p, node) ==
    /\ slurm' = [slurm EXCEPT ![p] = node]
    /\ node.reg = slurm[p].reg
    /\ UNCHANGED pod

LEMMA NodeOnlyMoves ==
  ASSUME TypeOK, NEW p \in Pods, NEW node, NodeOnly(p, node),
         \/ Quiet(slurm[p]) => Quiet(node)
         \/ resumed'[p]
         \/ slurmCache'[p] = slurm'[p] /\ step'[p] # "delete"
  PROVE  StaysQuiet /\ LifeFollows
BY DEF TypeOK, NodeOnly, StaysQuiet, LifeFollows

(* Setting or removing the pod-cordon annotation stops no pod. *)
LEMMA PatchMoves ==
  ASSUME TypeOK, NEW p \in Pods, NEW value, NEW next, PatchCordon(p, value, next)
  PROVE  \A q \in Pods : pod'[q].st = pod[q].st
<1>1. CASE UNCHANGED pod
  BY <1>1
<1>2. CASE pod' = [pod EXCEPT ![p].cordon = value, ![p].by = "operator"]
  BY <1>2 DEF TypeOK, PodRecords
<1> QED
  BY <1>1, <1>2 DEF PatchCordon

(* A drain or undrain request changes at most the drain flag of its node,   *)
(* and the answer is in the cache.                                          *)
LEMMA MakeNodeMoves ==
  ASSUME TypeOK, NEW p \in Pods, MakeNodeDrain(p) \/ MakeNodeUndrain(p)
  PROVE  \/ UNCHANGED slurm
         \/ /\ slurm' = [slurm EXCEPT ![p] = slurm'[p]]
            /\ slurm'[p].reg = slurm[p].reg
            /\ slurm'[p].base = slurm[p].base
            /\ slurmCache'[p] = slurm'[p]
<1>1. ASSUME NEW d \in BOOLEAN, SlurmUpdate(p, d)
      PROVE  /\ slurm' = [slurm EXCEPT ![p] = slurm'[p]]
             /\ slurm'[p].reg = slurm[p].reg
             /\ slurm'[p].base = slurm[p].base
             /\ slurmCache'[p] = slurm'[p]
  <2>1. slurm[p] \in SlurmNodes
    BY DEF TypeOK
  <2> QED
    BY <1>1, <2>1 DEF SlurmUpdate, TypeOK, SlurmNodes
<1> QED
  BY <1>1 DEF MakeNodeDrain, MakeNodeUndrain

LEMMA StepMoves ==
  ASSUME FreshInv, Next, ~SyncStart
  PROVE  StaysQuiet /\ LifeFollows /\ UNCHANGED registered
<1>t. TypeOK
  BY DEF FreshInv
<1>r. UNCHANGED registered
  BY DEF Next, Reconcile, ToCordon, ToKeep, ToCondemn, NextPhase, SyncEnd, SyncAbort,
         Finish, PodStep, SyncSlurmNode, SyncCordon, SyncPodUncordon, ProcessCondemned,
         MakePodCordon, MakePodUncordon, SyncSlurmNodeDrain, DrainCordonedPod,
         SyncSlurmNodeUndrain, DeleteNodeSetPod, Local, CallFails, PodEvent,
         UserCordonsNode, UserCordonsPod, UserScales, AdminDrains, AdminUndrains,
         NodeUnresponsive, NodeResponds, JobStarts, JobEnds, Register, SlurmChanges,
         PodTerminates, PodCreated, PodCacheSync, SlurmCacheSync, ClientRemoved,
         ClientAdded, OperatorRestarts, worker
<1>1. CASE \/ ToCordon \/ ToKeep \/ ToCondemn \/ SyncEnd \/ SyncAbort
           \/ ClientRemoved \/ ClientAdded \/ OperatorRestarts
           \/ \E p \in Pods : CallFails(p)
  <2>1. UNCHANGED <<pod, slurm>>
    BY <1>1 DEF ToCordon, ToKeep, ToCondemn, NextPhase, SyncEnd, SyncAbort, Finish,
                ClientRemoved, ClientAdded, OperatorRestarts, CallFails, world
  <2> QED
    BY <1>r, <2>1, PodsOnlyMoves DEF PodsOnly
<1>2. ASSUME NEW p \in Pods, PodStep(p)
      PROVE  StaysQuiet /\ LifeFollows
  <2>1. CASE \/ SyncSlurmNode(p) \/ SyncCordon(p) \/ SyncPodUncordon(p)
             \/ ProcessCondemned(p) \/ MakePodCordon(p) \/ MakePodUncordon(p)
             \/ DeleteNodeSetPod(p)
    <3>1. UNCHANGED slurm
      BY <2>1 DEF SyncSlurmNode, SyncCordon, SyncPodUncordon, ProcessCondemned,
                  MakePodCordon, MakePodUncordon, DeleteNodeSetPod, Local, world
    <3>2. PodsOnly
      <4> USE DEF TypeOK, PodRecords
      <4>1. CASE SyncSlurmNode(p)
        <5>1. \/ UNCHANGED pod
              \/ pod[p].st = "running" /\ pod' = [pod EXCEPT ![p].st = "term"]
          BY <4>1 DEF SyncSlurmNode
        <5> QED
          BY <1>t, <3>1, <5>1 DEF PodsOnly
      <4>2. CASE DeleteNodeSetPod(p)
        BY <1>t, <3>1, <4>2 DEF DeleteNodeSetPod, PodsOnly
      <4>3. CASE MakePodCordon(p) \/ MakePodUncordon(p)
        BY <1>t, <3>1, <4>3, PatchMoves DEF MakePodCordon, MakePodUncordon, PodsOnly
      <4>4. CASE SyncCordon(p) \/ SyncPodUncordon(p) \/ ProcessCondemned(p)
        BY <3>1, <4>4 DEF SyncCordon, SyncPodUncordon, ProcessCondemned, Local, world,
                          PodsOnly
      <4> QED
        BY <2>1, <4>1, <4>2, <4>3, <4>4
    <3> QED
      BY <3>2, PodsOnlyMoves
  <2>2. CASE SyncSlurmNodeDrain(p) \/ DrainCordonedPod(p) \/ SyncSlurmNodeUndrain(p)
    <3>1. UNCHANGED pod /\ step'[p] # "delete"
      BY <1>t, <2>2 DEF SyncSlurmNodeDrain, DrainCordonedPod, SyncSlurmNodeUndrain, Goto,
                        TypeOK
    <3>2. CASE UNCHANGED slurm
      BY <3>1, <3>2, PodsOnlyMoves DEF PodsOnly
    <3>3. CASE slurm' # slurm
      <4>1. MakeNodeDrain(p) \/ MakeNodeUndrain(p)
        BY <2>2, <3>3 DEF SyncSlurmNodeDrain, DrainCordonedPod, SyncSlurmNodeUndrain
      <4>2. NodeOnly(p, slurm'[p]) /\ slurmCache'[p] = slurm'[p]
        BY <1>t, <3>1, <3>3, <4>1, MakeNodeMoves DEF NodeOnly
      <4> QED
        BY <1>t, <3>1, <4>2, NodeOnlyMoves
    <3> QED
      BY <3>2, <3>3
  <2> QED
    BY <1>2, <2>1, <2>2 DEF PodStep
<1>3. ASSUME NEW p \in Pods, PodEvent(p)
      PROVE  StaysQuiet /\ LifeFollows
  <2>0. slurm[p] \in SlurmNodes /\ pod[p] \in PodRecords
    BY <1>t DEF TypeOK
  <2>1. CASE UserCordonsNode(p) \/ UserScales(p) \/ PodCacheSync(p) \/ SlurmCacheSync(p)
    BY <2>1, PodsOnlyMoves DEF UserCordonsNode, UserScales, PodCacheSync, SlurmCacheSync,
                               PodsOnly
  <2>2. CASE UserCordonsPod(p)
    BY <1>t, <2>2, PodsOnlyMoves DEF UserCordonsPod, PodsOnly, TypeOK, PodRecords
  <2>3. CASE AdminDrains(p) \/ NodeUnresponsive(p) \/ NodeResponds(p) \/ JobStarts(p)
             \/ JobEnds(p)
    <3>1. ASSUME NEW node, SlurmChanges(p, node), node.reg = slurm[p].reg,
                 Quiet(slurm[p]) => Quiet(node)
          PROVE  StaysQuiet /\ LifeFollows
      BY <1>t, <3>1, NodeOnlyMoves DEF SlurmChanges, NodeOnly
    <3> USE DEF Quiet, SlurmNodes
    <3>2. CASE AdminDrains(p)
      BY <2>0, <3>1, <3>2 DEF AdminDrains
    <3>3. CASE NodeUnresponsive(p)
      BY <2>0, <3>1, <3>3 DEF NodeUnresponsive
    <3>4. CASE NodeResponds(p)
      BY <2>0, <3>1, <3>4 DEF NodeResponds
    <3>5. CASE JobStarts(p)
      BY <2>0, <3>1, <3>5 DEF JobStarts
    <3>6. CASE JobEnds(p)
      BY <2>0, <3>1, <3>6 DEF JobEnds
    <3> QED
      BY <2>3, <3>2, <3>3, <3>4, <3>5, <3>6
  <2>4. CASE AdminUndrains(p)
    <3> DEFINE node == [slurm[p] EXCEPT !.drain = FALSE, !.reason = "none"]
    <3>1. node.reg /\ ~node.drain /\ slurm[p].reg /\ slurm[p].drain
      BY <2>0, <2>4 DEF AdminUndrains, SlurmNodes
    <3>2. SlurmChanges(p, node)
      BY <2>4 DEF AdminUndrains
    <3> HIDE DEF node
    <3>3. slurm'[p] = node /\ UNCHANGED step /\ Track
      BY <1>t, <3>2 DEF SlurmChanges, TypeOK, worker
    <3>4. resumed'[p]
      BY <3>1, <3>3 DEF Track
    <3> QED
      BY <1>t, <3>1, <3>2, <3>4, NodeOnlyMoves DEF SlurmChanges, NodeOnly
  <2>5. CASE Register(p)
    BY <1>t, <2>5 DEF Register, SlurmChanges, StaysQuiet, LifeFollows, TypeOK
  <2>6. CASE PodTerminates(p)
    BY <1>t, <2>6 DEF PodTerminates, StaysQuiet, LifeFollows, TypeOK, Quiet, Unregistered,
                      NewPod
  <2>7. CASE PodCreated(p)
    BY <1>t, <2>7 DEF PodCreated, StaysQuiet, LifeFollows, TypeOK, NewPod
  <2> QED
    BY <1>3, <2>1, <2>2, <2>3, <2>4, <2>5, <2>6, <2>7 DEF PodEvent
<1> QED
  BY <1>r, <1>1, <1>2, <1>3 DEF Next, Reconcile

LEMMA EvacuationStep == EvacuationInv /\ [Next]_vars => EvacuationInv'
<1> SUFFICES ASSUME EvacuationInv, [Next]_vars PROVE EvacuationInv'
  OBVIOUS
<1>f. FreshInv'
  BY FreshStep DEF EvacuationInv
<1>0. CASE UNCHANGED vars
  BY <1>0, <1>f DEF vars, world, worker, history, EvacuationInv, GoneInv, RegisteredInv,
                    DrainedInv, NoWorkWhenDeleted, Quiet
<1>1. CASE SyncStart
  <2>1. GoneInv'
    BY <1>1 DEF SyncStart, EvacuationInv, GoneInv
  <2>2. NoWorkWhenDeleted'
    BY <1>1 DEF SyncStart, Begin, NoWorkWhenDeleted
  <2>3. client \/ blind'
    BY <1>1 DEF SyncStart, Track
  <2>4. RegisteredInv' /\ DrainedInv'
    BY <1>1, <2>3 DEF SyncStart, RefreshNodeCache, GetNodesForPods, RegisteredInv,
                      DrainedInv, Quiet
  <2> QED
    BY <1>f, <2>1, <2>2, <2>4 DEF EvacuationInv
<1>2. CASE Next /\ ~SyncStart
  BY <1>2, <1>f, StepFollows, StepMoves, EvacuationKept DEF EvacuationInv
<1> QED
  BY <1>0, <1>1, <1>2

(* EvacuationInv is an invariant of NodeSetDrain. *)
THEOREM EvacuationCorrect == Spec => []EvacuationInv
BY EvacuationInit, EvacuationStep, PTL DEF Spec

(* No work runs on a covered node at the instant DeleteNodeSetPod deletes   *)
(* its pod, however stale the caches and whatever the other pods' workers,  *)
(* jobs and administrators do in between.                                   *)
THEOREM NoWorkCorrect == Spec => []NoWorkWhenDeleted
<1>1. EvacuationInv => NoWorkWhenDeleted
  BY DEF EvacuationInv
<1> QED
  BY <1>1, EvacuationCorrect, PTL

-----------------------------------------------------------------------------
(* Refinement *)

(* What a step may do to the life of pod p. *)
LifeMoves(p, from, to) ==
    \/ from = to
    \/ from = "serving" /\ to \in {"draining", "empty"}
    \/ from = "draining" /\ to \in {"empty", "serving"}
    \/ from = "empty" /\ to \in {"serving", "stopping"}
    \/ from \in {"serving", "draining"} /\ to = "stopping" /\ p \notin Covered
    \/ from = "stopping" /\ to = "gone"
    \/ from = "gone" /\ to = "empty"

(* A step that touches one pod implements the contract if that pod's life   *)
(* moves as the contract allows.                                            *)
LEMMA OnePodMoves ==
  ASSUME NEW p \in Pods, LifeMoves(p, LifeOf(p), LifeOf(p)'),
         \A q \in Pods \ {p} : slurm'[q] = slurm[q] /\ pod'[q].st = pod[q].st
  PROVE  [Contract!Next]_Life
<1>1. \A q \in Pods \ {p} : LifeOf(q)' = LifeOf(q)
  BY DEF LifeOf, Quiet
<1>2. Life' = [Life EXCEPT ![p] = LifeOf(p)'] /\ Life[p] = LifeOf(p)
  BY <1>1 DEF Life
<1>3. CASE LifeOf(p) = LifeOf(p)'
  BY <1>1, <1>3 DEF Life
<1>4. CASE LifeOf(p) # LifeOf(p)'
  BY <1>2, <1>4 DEF LifeMoves, Contract!Next, Contract!Drain, Contract!WorkEnds,
                    Contract!Serve, Contract!Stop, Contract!Stopped, Contract!Create,
                    Contract!Move
<1> QED
  BY <1>3, <1>4

LEMMA NoPodMoves ==
  ASSUME UNCHANGED slurm, \A q \in Pods : pod'[q].st = pod[q].st
  PROVE  UNCHANGED Life
BY DEF Life, LifeOf, Quiet

(* Slurm changes the node of a running pod: only the drain flag, the base   *)
(* state and the registration count.                                        *)
LEMMA NodeMoves ==
  ASSUME TypeOK, NEW p \in Pods, NEW node,
         slurm' = [slurm EXCEPT ![p] = node], UNCHANGED pod,
         \/ ~node.drain /\ node.reg
         \/ Quiet(node) /\ (slurm[p].reg = node.reg)
         \/ node.drain /\ ~Quiet(slurm[p])
  PROVE  [Contract!Next]_Life
<1>1. slurm'[p] = node /\ \A q \in Pods \ {p} : slurm'[q] = slurm[q]
  BY DEF TypeOK
<1>2. LifeMoves(p, LifeOf(p), LifeOf(p)')
  BY <1>1 DEF LifeMoves, LifeOf, Quiet
<1> QED
  BY <1>1, <1>2, OnePodMoves

LEMMA ContractInit == Init => Contract!Init
BY DEF Init, Contract!Init, Life, LifeOf, Quiet, NewPod, Unregistered

LEMMA ContractStep ==
  ASSUME EvacuationInv, [Next]_vars
  PROVE  [Contract!Next]_Life
<1>t. TypeOK
  BY DEF EvacuationInv, FreshInv
<1>0. CASE UNCHANGED vars
  BY <1>0, NoPodMoves DEF vars, world
<1>1. CASE \/ SyncStart \/ ToCordon \/ ToKeep \/ ToCondemn \/ SyncEnd \/ SyncAbort
           \/ ClientRemoved \/ ClientAdded \/ OperatorRestarts
           \/ \E p \in Pods : CallFails(p)
  <2>1. UNCHANGED <<pod, slurm>>
    BY <1>1 DEF SyncStart, ToCordon, ToKeep, ToCondemn, NextPhase, SyncEnd, SyncAbort,
                Finish, ClientRemoved, ClientAdded, OperatorRestarts, CallFails, world
  <2> QED
    BY <2>1, NoPodMoves
<1>2. ASSUME NEW p \in Pods, PodStep(p)
      PROVE  [Contract!Next]_Life
  <2>1. CASE SyncCordon(p) \/ SyncPodUncordon(p) \/ ProcessCondemned(p)
    BY <2>1, NoPodMoves DEF SyncCordon, SyncPodUncordon, ProcessCondemned, Local, world
  <2>2. CASE MakePodCordon(p) \/ MakePodUncordon(p)
    BY <1>t, <2>2, PatchMoves, NoPodMoves DEF MakePodCordon, MakePodUncordon
  <2>3. CASE SyncSlurmNode(p)
    <3>1. UNCHANGED slurm
      BY <2>3 DEF SyncSlurmNode
    <3>2. CASE UNCHANGED pod
      BY <3>1, <3>2, NoPodMoves
    <3>3. CASE p \notin registered /\ pod' = [pod EXCEPT ![p].st = "term"]
               /\ pod[p].st = "running"
      <4>1. p \notin Covered
        BY <3>3 DEF Covered
      <4>2. pod'[p].st = "term" /\ \A q \in Pods \ {p} : pod'[q] = pod[q]
        BY <1>t, <3>3 DEF TypeOK, PodRecords
      <4>3. LifeMoves(p, LifeOf(p), LifeOf(p)')
        BY <3>1, <3>3, <4>1, <4>2 DEF LifeMoves, LifeOf
      <4> QED
        BY <3>1, <4>2, <4>3, OnePodMoves
    <3> QED
      BY <2>3, <3>2, <3>3 DEF SyncSlurmNode
  <2>4. CASE SyncSlurmNodeDrain(p) \/ DrainCordonedPod(p) \/ SyncSlurmNodeUndrain(p)
    <3>1. UNCHANGED pod
      BY <2>4 DEF SyncSlurmNodeDrain, DrainCordonedPod, SyncSlurmNodeUndrain
    <3>2. CASE UNCHANGED slurm
      BY <3>1, <3>2, NoPodMoves
    <3>3. CASE slurm' # slurm
      <4>1. MakeNodeDrain(p) \/ MakeNodeUndrain(p)
        BY <2>4, <3>3 DEF SyncSlurmNodeDrain, DrainCordonedPod, SyncSlurmNodeUndrain
      <4>2. /\ slurm' = [slurm EXCEPT ![p] = slurm'[p]]
            /\ slurm'[p].reg = slurm[p].reg
            /\ slurm'[p].base = slurm[p].base
        BY <1>t, <3>3, <4>1, MakeNodeMoves
      <4> QED
        BY <1>t, <3>1, <4>2, NodeMoves DEF Quiet
    <3> QED
      BY <3>2, <3>3
  <2>5. CASE DeleteNodeSetPod(p)
    <3>1. UNCHANGED slurm
      BY <2>5 DEF DeleteNodeSetPod
    <3>2. /\ pod'[p].st = IF pod[p].st = "running" THEN "term" ELSE pod[p].st
          /\ \A q \in Pods \ {p} : pod'[q] = pod[q]
      BY <1>t, <2>5 DEF DeleteNodeSetPod, TypeOK, PodRecords
    <3>3. Quiet(slurm[p]) \/ p \notin Covered
      BY <2>5 DEF DeleteNodeSetPod, EvacuationInv, NoWorkWhenDeleted, Covered
    <3>4. LifeMoves(p, LifeOf(p), LifeOf(p)')
      BY <3>1, <3>2, <3>3 DEF LifeMoves, LifeOf, Quiet
    <3> QED
      BY <3>1, <3>2, <3>4, OnePodMoves
  <2> QED
    BY <1>2, <2>1, <2>2, <2>3, <2>4, <2>5 DEF PodStep
<1>3. ASSUME NEW p \in Pods, PodEvent(p)
      PROVE  [Contract!Next]_Life
  <2>0. slurm[p] \in SlurmNodes /\ pod[p] \in PodRecords
    BY <1>t DEF TypeOK
  <2>1. CASE UserCordonsNode(p) \/ UserScales(p) \/ PodCacheSync(p) \/ SlurmCacheSync(p)
    BY <2>1, NoPodMoves DEF UserCordonsNode, UserScales, PodCacheSync, SlurmCacheSync
  <2>2. CASE UserCordonsPod(p)
    BY <1>t, <2>2, NoPodMoves DEF UserCordonsPod, TypeOK, PodRecords
  <2>3. ASSUME NEW node, SlurmChanges(p, node),
               \/ ~node.drain /\ node.reg
               \/ Quiet(node) /\ (slurm[p].reg = node.reg)
               \/ node.drain /\ ~Quiet(slurm[p])
        PROVE  [Contract!Next]_Life
    BY <1>t, <2>3, NodeMoves DEF SlurmChanges
  <2>4. CASE AdminDrains(p)
    BY <2>0, <2>3, <2>4 DEF AdminDrains, Quiet, SlurmNodes
  <2>5. CASE AdminUndrains(p)
    BY <2>0, <2>3, <2>5 DEF AdminUndrains, SlurmNodes
  <2>6. CASE NodeUnresponsive(p)
    BY <2>0, <2>3, <2>6 DEF NodeUnresponsive, Quiet, SlurmNodes
  <2>7. CASE NodeResponds(p)
    BY <2>0, <2>3, <2>7 DEF NodeResponds, Quiet, SlurmNodes
  <2>8. CASE JobStarts(p)
    BY <2>0, <2>3, <2>8 DEF JobStarts, SlurmNodes
  <2>9. CASE JobEnds(p)
    BY <2>0, <2>3, <2>9 DEF JobEnds, Quiet, SlurmNodes
  <2>10. CASE Register(p)
    BY <2>3, <2>10 DEF Register, Unregistered
  <2>11. CASE PodTerminates(p)
    <3>1. /\ pod'[p].st = "gone"
          /\ \A q \in Pods \ {p} : slurm'[q] = slurm[q] /\ pod'[q] = pod[q]
      BY <1>t, <2>11 DEF PodTerminates, TypeOK, NewPod
    <3>2. LifeMoves(p, LifeOf(p), LifeOf(p)')
      BY <2>11, <3>1 DEF PodTerminates, LifeMoves, LifeOf
    <3> QED
      BY <3>1, <3>2, OnePodMoves
  <2>12. CASE PodCreated(p)
    <3>1. /\ pod'[p].st = "running" /\ UNCHANGED slurm
          /\ \A q \in Pods \ {p} : pod'[q] = pod[q]
      BY <1>t, <2>12 DEF PodCreated, TypeOK, NewPod
    <3>2. Quiet(slurm[p])
      BY <2>12 DEF PodCreated, EvacuationInv, GoneInv, Quiet
    <3>3. LifeMoves(p, LifeOf(p), LifeOf(p)')
      BY <2>12, <3>1, <3>2 DEF PodCreated, LifeMoves, LifeOf, Quiet
    <3> QED
      BY <3>1, <3>3, OnePodMoves
  <2> QED
    BY <1>3, <2>1, <2>2, <2>4, <2>5, <2>6, <2>7, <2>8, <2>9, <2>10, <2>11, <2>12
       DEF PodEvent
<1> QED
  BY <1>0, <1>1, <1>2, <1>3 DEF Next, Reconcile

(* NodeSetDrain implements the safety part of Evacuation: cordons, drains,  *)
(* uncordons, deletions, stale caches, failing calls and restarts together  *)
(* do nothing the contract forbids, whatever the number of pods.            *)
THEOREM ContractKept == Spec => KeepsContractSafety
<1>1. EvacuationInv /\ [Next]_vars => [Contract!Next]_Life
  BY ContractStep
<1> QED
  BY <1>1, ContractInit, EvacuationCorrect, PTL
     DEF Spec, KeepsContractSafety, Contract!Safety
=============================================================================
