------------------------- MODULE NodeSetScaleProofs -------------------------
(***************************************************************************)
(* For any number of replicas, any burst and any number of disturbances:    *)
(* a NodeSet's pods stay within the ordinals that were ever asked for;      *)
(* NodeSetScale is type correct; and as long as only the disturbances       *)
(* happen that doPodScale accounts for, creations are counted once and no   *)
(* expected deletion is waited for in vain.                                 *)
(***************************************************************************)
EXTENDS NodeSetScale, FiniteSetTheorems, SequenceTheorems, TLAPS

(* The free ordinals that scale-out picks lie below the wanted replicas: of *)
(* the first k ordinals at most Cardinality(used) are taken, so n of them   *)
(* are free as soon as n + Cardinality(used) <= k.                          *)
LEMMA FreeOrdinalsBelow ==
  ASSUME NEW used \in SUBSET Ordinals, NEW n \in Int, NEW k \in 0..MaxReplicas,
         n <= k - Cardinality(used),
         NEW o \in FreeOrdinals(used, n)
  PROVE  o < k
<1> DEFINE free == Ordinals \ used
           first == 0..(k - 1)
           below == { q \in free : q < o }
<1>0. MaxReplicas \in Nat /\ k \in Nat /\ o \in Nat
  BY ReplicasAssumption DEF FreeOrdinals, Ordinals
<1>1. IsFiniteSet(first) /\ Cardinality(first) = k
  <2>1. 0 \in Int /\ k - 1 \in Int
    BY <1>0
  <2>2. IsFiniteSet(first)
        /\ Cardinality(first) = IF 0 > k - 1 THEN 0 ELSE (k - 1) - 0 + 1
    BY <2>1, FS_Interval
  <2> QED
    BY <1>0, <2>2
<1>2. IsFiniteSet(Ordinals)
  BY <1>0, FS_Interval DEF Ordinals
<1>3. IsFiniteSet(used) /\ Cardinality(used) \in Nat
  BY <1>2, FS_Subset, FS_CardinalityType
<1>4. IsFiniteSet(first \intersect used)
      /\ Cardinality(first \intersect used) <= Cardinality(used)
      /\ Cardinality(first \intersect used) \in Nat
  BY <1>3, FS_Subset, FS_CardinalityType
<1>5. IsFiniteSet(first \ used)
      /\ Cardinality(first \ used) = k - Cardinality(first \intersect used)
  BY <1>1, FS_Difference
<1>6. SUFFICES ASSUME k <= o PROVE FALSE
  BY <1>0
<1>7. first \ used \subseteq below
  BY <1>0, <1>6 DEF Ordinals
<1>8. IsFiniteSet(below) /\ Cardinality(below) \in Nat
  BY <1>2, FS_Subset, FS_CardinalityType
<1>9. Cardinality(first \ used) <= Cardinality(below)
  BY <1>7, <1>8, FS_Subset
<1>10. Cardinality(below) < n
  BY DEF FreeOrdinals
<1> QED
  BY <1>0, <1>3, <1>4, <1>5, <1>8, <1>9, <1>10

(* A write to the API server is to the ordinals it already holds or to o. *)
LEMMA WriteWithin ==
  ASSUME RequestInv, NEW o \in Ordinals, NEW st \in PodStates, Write(o, st),
         o < hi, UNCHANGED hi
  PROVE  api' \in [Ordinals -> PodStates] /\ OrdinalsWithinRequest'
BY DEF RequestInv, Write, OrdinalsWithinRequest, Exists

LEMMA DeleteWithin ==
  ASSUME RequestInv, NEW o \in Ordinals, Delete(o), UNCHANGED hi
  PROVE  api' \in [Ordinals -> PodStates] /\ OrdinalsWithinRequest'
<1>1. CASE api[o] \in {"live", "failed"}
  <2>1. o < hi
    BY <1>1 DEF RequestInv, OrdinalsWithinRequest, Exists
  <2> QED
    BY <1>1, <2>1, WriteWithin DEF Delete, PodStates
<1>2. CASE UNCHANGED api
  BY <1>2 DEF RequestInv, OrdinalsWithinRequest, Exists
<1> QED
  BY <1>1, <1>2 DEF Delete, apiVars

LEMMA RequestInit == Init => RequestInv
BY ReplicasAssumption
   DEF Init, RequestInv, OrdinalsWithinRequest, Exists, NoPods, PodStates, Ordinals

(* Every step keeps the pods and the plans within the request. *)
LEMMA RequestStep == RequestInv /\ [Next]_vars => RequestInv'
<1> SUFFICES ASSUME RequestInv, [Next]_vars PROVE RequestInv'
  OBVIOUS
<1> USE ReplicasAssumption DEF RequestInv, apiVars, informer, batchVars, plan
<1>u. ASSUME UNCHANGED <<api, hi>>
      PROVE  api' \in [Ordinals -> PodStates] /\ OrdinalsWithinRequest'
  BY <1>u DEF OrdinalsWithinRequest, Exists
<1>0. CASE UNCHANGED vars
  BY <1>0, <1>u DEF vars
<1>1. CASE SyncList
  BY <1>1, <1>u DEF SyncList
<1>2. CASE SyncUnsatisfied \/ UncordonFails \/ SyncEnd
  BY <1>2, <1>u DEF SyncUnsatisfied, UncordonFails, SyncEnd, Return
<1>3. CASE OperatorRestarts
  BY <1>3, <1>u DEF OperatorRestarts, Return
<1>4. CASE ScaleOut
  <2>1. Exists(snap) \in SUBSET Ordinals
    BY DEF Exists
  <2>2. Cardinality(Exists(snap)) \in Nat
    <3>1. 0 \in Int /\ MaxReplicas - 1 \in Int
      OBVIOUS
    <3>2. IsFiniteSet(Ordinals)
      BY <3>1, FS_Interval DEF Ordinals
    <3> QED
      BY <2>1, <3>2, FS_Subset, FS_CardinalityType
  <2>3. Burst(-Diff) \in Int /\ Burst(-Diff) <= want - Cardinality(Exists(snap))
    BY <2>2, BurstAssumption DEF Burst, Diff
  <2>4. FreeOrdinals(Exists(snap), Burst(-Diff)) \subseteq { o \in Ordinals : o < hi }
    <3> SUFFICES ASSUME NEW o \in FreeOrdinals(Exists(snap), Burst(-Diff))
                 PROVE  o < hi
      BY DEF FreeOrdinals
    <3>1. o \in Ordinals
      BY DEF FreeOrdinals
    <3>2. o < want
      BY <2>1, <2>3, FreeOrdinalsBelow
    <3> QED
      BY <3>1, <3>2 DEF Ordinals
  <2>5. todo' \union inflight' \subseteq { o \in Ordinals : o < hi }
    BY <1>4, <2>4 DEF ScaleOut, BeginLoop
  <2> QED
    BY <1>4, <1>u, <2>5 DEF ScaleOut
<1>5. CASE ScaleIn
  BY <1>5, <1>u DEF ScaleIn, BeginLoop
<1>6. CASE ScaleDone
  BY <1>6, <1>u DEF ScaleDone
<1>7. CASE UncordonKept
  BY <1>7, <1>u DEF UncordonKept
<1>8. CASE StartBatch
  BY <1>8, <1>u DEF StartBatch
<1>9. CASE CreatesOver
  BY <1>9, <1>u DEF CreatesOver
<1>10. ASSUME NEW o \in Ordinals, CreateNodeSetPod(o) PROVE RequestInv'
  <2>0. o < hi
    BY <1>10 DEF CreateNodeSetPod
  <2>1. o < hi /\ (CreateReturns(o, TRUE) \/ CreateReturns(o, FALSE))
    BY <1>10, <2>0 DEF CreateNodeSetPod
  <2>2. Write(o, "live") \/ UNCHANGED api
    BY <1>10 DEF CreateNodeSetPod
  <2>3. api' \in [Ordinals -> PodStates] /\ OrdinalsWithinRequest'
    BY <1>u, <2>1, <2>2, WriteWithin DEF CreateReturns, PodStates
  <2> QED
    BY <2>1, <2>3 DEF CreateReturns, Returned
<1>11. ASSUME NEW o \in Ordinals, DeletePodFn(o) PROVE RequestInv'
  <2>1. UNCHANGED hi /\ (Delete(o) \/ UNCHANGED api)
    BY <1>11 DEF DeletePodFn
  <2>2. api' \in [Ordinals -> PodStates] /\ OrdinalsWithinRequest'
    BY <1>u, <2>1, DeleteWithin
  <2> QED
    BY <1>11, <2>2 DEF DeletePodFn
<1>12. ASSUME NEW o \in Ordinals, ProcessNodeSetPod(o) PROVE RequestInv'
  <2>1. UNCHANGED hi /\ (Delete(o) \/ UNCHANGED api)
    BY <1>12 DEF ProcessNodeSetPod
  <2>2. api' \in [Ordinals -> PodStates] /\ OrdinalsWithinRequest'
    BY <1>u, <2>1, DeleteWithin
  <2> QED
    BY <1>12, <2>2 DEF ProcessNodeSetPod
<1>13. CASE InformerApplies \/ Relist \/ PodEventHandler \/ ExpectationsExpire
  BY <1>13, <1>u DEF InformerApplies, Relist, PodEventHandler, ExpectationsExpire
<1>14. ASSUME NEW n \in 0..MaxReplicas, UserScales(n) PROVE RequestInv'
  <2>1. hi' \in Nat /\ hi <= hi' /\ n <= hi'
    BY <1>14 DEF UserScales
  <2>2. \A o \in Ordinals : o < hi => o < hi'
    BY <2>1 DEF Ordinals
  <2>3. OrdinalsWithinRequest'
    BY <1>14, <2>2 DEF UserScales, OrdinalsWithinRequest, Exists
  <2> QED
    BY <1>14, <2>1, <2>2, <2>3 DEF UserScales
<1>15. ASSUME NEW o \in Ordinals, PodFails(o) \/ PodEvicted(o) \/ PodStops(o)
       PROVE  RequestInv'
  <2>1. o < hi
    BY <1>15 DEF PodFails, PodEvicted, PodStops, OrdinalsWithinRequest, Exists
  <2>2. PICK st \in PodStates : Write(o, st) /\ PodChanges
    BY <1>15 DEF PodFails, PodEvicted, PodStops, PodStates
  <2>3. api' \in [Ordinals -> PodStates] /\ OrdinalsWithinRequest'
    BY <2>1, <2>2, WriteWithin DEF PodChanges
  <2> QED
    BY <2>2, <2>3 DEF PodChanges
<1> QED
  BY <1>0, <1>1, <1>2, <1>3, <1>4, <1>5, <1>6, <1>7, <1>8, <1>9, <1>10, <1>11, <1>12,
     <1>13, <1>14, <1>15 DEF Next, Sync, Environment

(* Whatever the cache missed and whatever failed, every pod has an ordinal *)
(* below the largest spec.replicas so far.                                 *)
THEOREM OrdinalsCorrect == Spec => []OrdinalsWithinRequest
<1>1. RequestInv => OrdinalsWithinRequest
  BY DEF RequestInv
<1> QED
  BY <1>1, RequestInit, RequestStep, PTL DEF Spec

-----------------------------------------------------------------------------
(* Types and expectations: operators *)

LogEntries == [pod : Ordinals, kind : Kinds, st : PodStates]

ExpectationRecords ==
    [has : BOOLEAN, adds : Int, dels : Int, uids : SUBSET Ordinals, expired : BOOLEAN]

LEMMA OrdinalsFinite == IsFiniteSet(Ordinals) /\ Cardinality(Ordinals) = MaxReplicas
<1>1. 0 \in Int /\ MaxReplicas - 1 \in Int
  BY ReplicasAssumption
<1>2. /\ IsFiniteSet(Ordinals)
      /\ Cardinality(Ordinals) = IF 0 > MaxReplicas - 1 THEN 0 ELSE (MaxReplicas - 1) - 0 + 1
  BY <1>1, FS_Interval DEF Ordinals
<1> QED
  BY <1>2, ReplicasAssumption

LEMMA OrdinalSets ==
  ASSUME NEW S \in SUBSET Ordinals
  PROVE  /\ IsFiniteSet(S) /\ Cardinality(S) \in Nat /\ Cardinality(S) <= MaxReplicas
         /\ Cardinality(S) = 0 <=> S = {}
BY OrdinalsFinite, FS_Subset, FS_CardinalityType, FS_EmptySet

(* SetToSeq lists the elements of a finite set, each of them once. *)
LEMMA SetToSeqType ==
  ASSUME NEW S, IsFiniteSet(S)
  PROVE  SetToSeq(S) \in Seq(S) /\ Len(SetToSeq(S)) = Cardinality(S)
<1> DEFINE n == Cardinality(S)
<1>1. n \in Nat /\ ExistsBijection(1..n, S)
  BY FS_CardinalityType
<1>2. \E f \in [1..n -> S] : IsInjective(f)
  BY <1>1 DEF ExistsBijection, Bijection, Injection
<1>3. SetToSeq(S) \in [1..n -> S]
  BY <1>2 DEF SetToSeq
<1>4. SetToSeq(S) \in Seq(S)
  BY <1>1, <1>3, SeqDef
<1> QED
  BY <1>1, <1>3, <1>4, LenProperties

(* A write appends its event to the log. *)
LEMMA WriteLog ==
  ASSUME log \in Seq(LogEntries), api \in [Ordinals -> PodStates],
         NEW o \in Ordinals, NEW st \in PodStates, Write(o, st)
  PROVE  /\ api' \in [Ordinals -> PodStates] /\ api'[o] = st
         /\ \A q \in Ordinals \ {o} : api'[q] = api[q]
         /\ log' \in Seq(LogEntries) /\ Len(log') = Len(log) + 1 /\ Len(log) \in Nat
         /\ \A i \in 1..Len(log) : log'[i] = log[i]
         /\ log'[Len(log) + 1] = [pod |-> o, kind |-> Kind(api[o], st), st |-> st]
<1> DEFINE e == [pod |-> o, kind |-> Kind(api[o], st), st |-> st]
<1>1. e \in LogEntries
  BY DEF LogEntries, Kinds, Kind
<1>2. log' = Append(log, e)
  BY DEF Write
<1> HIDE DEF e
<1>3. /\ log' \in Seq(LogEntries) /\ Len(log') = Len(log) + 1
      /\ \A i \in 1..Len(log) : log'[i] = log[i]
      /\ log'[Len(log) + 1] = e
  BY <1>1, <1>2, AppendProperties
<1>4. Len(log) \in Nat
  BY LenProperties
<1>5. /\ api' \in [Ordinals -> PodStates] /\ api'[o] = st
      /\ \A q \in Ordinals \ {o} : api'[q] = api[q]
  BY DEF Write
<1> QED
  BY <1>3, <1>4, <1>5 DEF e

LEMMA ExpectationTypes ==
  ASSUME NEW e \in ExpectationRecords
  PROVE  /\ NoExpectations \in ExpectationRecords
         /\ \A adds, dels \in Int : SetExpectations(e, adds, dels) \in ExpectationRecords
         /\ \A S \in SUBSET Ordinals : ExpectDeletions(e, S) \in ExpectationRecords
         /\ \A adds \in Int : RaiseExpectations(e, adds) \in ExpectationRecords
         /\ \A times \in Int : CreationsObserved(e, times) \in ExpectationRecords
         /\ \A o \in Ordinals : DeletionObserved(e, o) \in ExpectationRecords
<1> USE DEF ExpectationRecords
<1>1. NoExpectations \in ExpectationRecords
  BY DEF NoExpectations
<1>2. ASSUME NEW d \in ExpectationRecords, NEW adds \in Int, NEW dels \in Int
      PROVE  SetExpectations(d, adds, dels) \in ExpectationRecords
  BY DEF SetExpectations
<1>3. ASSUME NEW S \in SUBSET Ordinals
      PROVE  ExpectDeletions(e, S) \in ExpectationRecords
  <2>1. Cardinality(S) \in Int /\ [e EXCEPT !.uids = S] \in ExpectationRecords
    BY OrdinalSets
  <2> QED
    BY <1>2, <2>1 DEF ExpectDeletions
<1>4. ASSUME NEW adds \in Int
      PROVE  RaiseExpectations(e, adds) \in ExpectationRecords
             /\ CreationsObserved(e, adds) \in ExpectationRecords
  BY DEF RaiseExpectations, CreationsObserved
<1>5. ASSUME NEW o \in Ordinals
      PROVE  DeletionObserved(e, o) \in ExpectationRecords
  <2>1. CASE o \in e.uids
    <3>1. DeletionObserved(e, o) =
            [has |-> e.has, adds |-> e.adds, dels |-> IF e.has THEN e.dels - 1 ELSE e.dels,
             uids |-> e.uids \ {o}, expired |-> e.expired]
      BY <2>1 DEF DeletionObserved
    <3>2. (IF e.has THEN e.dels - 1 ELSE e.dels) \in Int
      OBVIOUS
    <3> QED
      BY <3>1, <3>2
  <2>2. CASE o \notin e.uids
    BY <2>2 DEF DeletionObserved
  <2> QED
    BY <2>1, <2>2
<1> QED
  BY <1>1, <1>2, <1>3, <1>4, <1>5

(* What doPodScale expects replaces all that was expected before. *)
LEMMA ExpectAnew ==
  ASSUME NEW e \in ExpectationRecords, NEW S, NEW n \in Int, NEW r,
         r = RaiseExpectations(ExpectDeletions(e, S), n)
  PROVE  r.has /\ r.adds = n /\ r.dels = Cardinality(S) /\ r.uids = S /\ ~r.expired
<1> DEFINE d == [has |-> TRUE, adds |-> 0, dels |-> Cardinality(S), uids |-> S,
                 expired |-> FALSE]
<1>1. [e EXCEPT !.uids = S].uids = S
  BY DEF ExpectationRecords
<1>2. ExpectDeletions(e, S) = d
  BY <1>1 DEF ExpectDeletions, SetExpectations
<1>3. r = [d EXCEPT !.adds = 0 + n]
  BY <1>2 DEF RaiseExpectations
<1> QED
  BY <1>3

-----------------------------------------------------------------------------
(* Type correctness, one part of the state after the other *)

InformerPart ==
    /\ api \in [Ordinals -> PodStates] /\ cache \in [Ordinals -> PodStates]
    /\ log \in Seq(LogEntries) /\ applied \in 0..Len(log)

(* A pass creates each ordinal at most once. *)
WorkerPart ==
    /\ pc \in {"idle", "check", "uncordon", "create", "delete", "process"}
    /\ want \in 0..MaxReplicas /\ snap \in [Ordinals -> PodStates]
    /\ todo \in SUBSET Ordinals /\ inflight \in SUBSET Ordinals
    /\ condemned \in SUBSET Ordinals /\ failed \in SUBSET Ordinals
    /\ batch \in Nat /\ numCreate \in 0..MaxReplicas /\ created \in 0..MaxReplicas
    /\ todo \intersect inflight = {}
    /\ pc \in {"uncordon", "create"} =>
         created + Cardinality(todo \union inflight) <= MaxReplicas

WorldPart ==
    /\ replicas \in 0..MaxReplicas /\ hi \in 0..MaxReplicas
    /\ budget \in 0..MaxDisturbances

TypeInv == InformerPart /\ exp \in ExpectationRecords /\ WorkerPart /\ WorldPart

LEMMA TypeInvType == TypeInv => TypeOK
BY DEF TypeInv, TypeOK, InformerPart, WorkerPart, WorldPart, ExpectationRecords, LogEntries

LEMMA TypeInit == Init => TypeInv
<1> SUFFICES ASSUME Init PROVE TypeInv
  OBVIOUS
<1>1. InformerPart
  BY EmptySeq DEF Init, InformerPart, NoPods, PodStates
<1>2. exp \in ExpectationRecords
  BY DEF Init, ExpectationRecords, NoExpectations
<1>3. WorkerPart
  BY ReplicasAssumption DEF Init, WorkerPart, NoPods, PodStates
<1>4. WorldPart
  BY DisturbancesAssumption DEF Init, WorldPart
<1> QED
  BY <1>1, <1>2, <1>3, <1>4 DEF TypeInv

(* What a write may change. *)
Writes(o, st) ==
    /\ Write(o, st) /\ UNCHANGED <<applied, cache>>
    /\ \/ st = "term" /\ api[o] \in {"live", "failed"}
       \/ st = "none" /\ api[o] = "term"
       \/ st = "failed" /\ api[o] = "live"
       \/ st = "live" /\ api[o] = "none" /\ CreateNodeSetPod(o)

(* What a step does to the API server is at most one write. *)
LEMMA OneWrite ==
  ASSUME [Next]_vars
  PROVE  \/ UNCHANGED <<apiVars, informer>>
         \/ InformerApplies \/ PodEventHandler \/ Relist \/ OperatorRestarts
         \/ \E o \in Ordinals, st \in PodStates : Writes(o, st)
<1> USE DEF PodStates, informer
<1>1. ASSUME NEW o \in Ordinals, CreateNodeSetPod(o)
      PROVE  UNCHANGED <<apiVars, informer>> \/ Writes(o, "live")
  BY <1>1 DEF CreateNodeSetPod, CreateReturns, Writes
<1>2. ASSUME NEW o \in Ordinals, DeletePodFn(o) \/ ProcessNodeSetPod(o)
      PROVE  UNCHANGED <<apiVars, informer>> \/ Writes(o, "term")
  BY <1>2 DEF DeletePodFn, ProcessNodeSetPod, Delete, Writes
<1>3. ASSUME NEW o \in Ordinals, PodFails(o) \/ PodEvicted(o) \/ PodStops(o)
      PROVE  \E st \in PodStates : Writes(o, st)
  BY <1>3 DEF PodFails, PodEvicted, PodStops, PodChanges, Writes
<1> QED
  BY <1>1, <1>2, <1>3
     DEF Next, vars, Sync, Environment, SyncList, SyncUnsatisfied, ScaleOut, ScaleIn,
         ScaleDone, UncordonKept, StartBatch, CreatesOver, SyncEnd,
         UncordonFails, ExpectationsExpire, UserScales

LEMMA HandlerLog ==
  ASSUME InformerPart, PodEventHandler
  PROVE  /\ log # <<>> /\ Head(log) = log[1] /\ log[1] \in LogEntries
         /\ log' \in Seq(LogEntries) /\ Len(log') = Len(log) - 1 /\ Len(log) \in Nat \ {0}
         /\ \A i \in 1..Len(log') : log'[i] = log[i + 1]
         /\ applied' = applied - 1 /\ applied' \in 0..Len(log')
<1>1. Len(log) \in Nat \ {0} /\ applied > 0
  BY LenProperties DEF InformerPart, PodEventHandler
<1>2. log # <<>>
  BY <1>1
<1>3. Head(log) = log[1]
  BY <1>2 DEF InformerPart
<1>4. /\ Head(log) \in LogEntries /\ Tail(log) \in Seq(LogEntries)
      /\ Len(Tail(log)) = Len(log) - 1
      /\ \A i \in 1..Len(Tail(log)) : Tail(log)[i] = log[i + 1]
  BY <1>2, HeadTailProperties DEF InformerPart
<1>5. applied' \in 0..Len(Tail(log)) /\ applied' = applied - 1
  BY <1>1, <1>4 DEF PodEventHandler, InformerPart
<1> QED
  BY <1>1, <1>2, <1>3, <1>4, <1>5 DEF PodEventHandler

LEMMA InformerStep ==
  ASSUME TypeInv, [Next]_vars
  PROVE  InformerPart'
<1>p. InformerPart /\ Len(log) \in Nat
  BY LenProperties DEF TypeInv, InformerPart
<1>0. CASE UNCHANGED <<apiVars, informer>>
  BY <1>p, <1>0 DEF InformerPart, apiVars, informer
<1>1. CASE \E o \in Ordinals, st \in PodStates : Writes(o, st)
  <2>1. PICK o \in Ordinals, st \in PodStates : Write(o, st) /\ UNCHANGED <<applied, cache>>
    BY <1>1 DEF Writes
  <2>2. /\ api' \in [Ordinals -> PodStates] /\ log' \in Seq(LogEntries)
        /\ Len(log') = Len(log) + 1
    BY <1>p, <2>1, WriteLog DEF InformerPart
  <2> QED
    BY <1>p, <2>1, <2>2 DEF InformerPart
<1>2. CASE InformerApplies
  <2>1. applied + 1 \in 1..Len(log) /\ applied' = applied + 1
    BY <1>p, <1>2 DEF InformerApplies, InformerPart
  <2>2. log[applied + 1] \in LogEntries
    BY <1>p, <2>1, ElementOfSeq DEF InformerPart
  <2>3. cache' \in [Ordinals -> PodStates]
    BY <1>p, <1>2, <2>2 DEF InformerApplies, InformerPart, LogEntries
  <2> QED
    BY <1>p, <1>2, <2>1, <2>3 DEF InformerApplies, InformerPart, apiVars
<1>3. CASE PodEventHandler
  BY <1>p, <1>3, HandlerLog DEF PodEventHandler, InformerPart
<1>4. CASE Relist
  <2> DEFINE changed == { q \in Ordinals : cache[q] # api[q] }
             entries == { [pod |-> o, kind |-> Kind(cache[o], api[o]), st |-> api[o]] :
                            o \in changed }
             f == [o \in changed |->
                     [pod |-> o, kind |-> Kind(cache[o], api[o]), st |-> api[o]]]
  <2>1. entries \subseteq LogEntries
    BY <1>p DEF InformerPart, LogEntries, Kinds, Kind
  <2>2. IsFiniteSet(changed) /\ f \in Surjection(changed, entries)
    BY OrdinalSets DEF Surjection
  <2>3. IsFiniteSet(entries)
    BY <2>2, FS_Surjection
  <2>4. SetToSeq(entries) \in Seq(LogEntries)
    BY <2>1, <2>3, SetToSeqType, SeqMonotonic
  <2>5. \A i \in 1..applied : log[i] \in LogEntries
    BY <1>p, ElementOfSeq DEF InformerPart
  <2>6. applied \in Nat /\ applied \in Int /\ 1 \in Int
    BY <1>p DEF InformerPart
  <2>7. SubSeq(log, 1, applied) \in Seq(LogEntries)
        /\ Len(SubSeq(log, 1, applied)) = IF 1 <= applied THEN applied - 1 + 1 ELSE 0
    BY <2>5, <2>6, SubSeqProperties
  <2>8. log' = SubSeq(log, 1, applied) \o SetToSeq(entries)
    BY <1>4 DEF Relist
  <2> HIDE DEF entries
  <2>9. log' \in Seq(LogEntries)
        /\ Len(log') = Len(SubSeq(log, 1, applied)) + Len(SetToSeq(entries))
    BY <2>4, <2>7, <2>8, ConcatProperties
  <2>10. Len(SetToSeq(entries)) \in Nat
    BY <2>4, LenProperties
  <2>11. applied \in 0..Len(log')
    BY <2>6, <2>7, <2>9, <2>10
  <2> QED
    BY <1>p, <1>4, <2>9, <2>11 DEF Relist, InformerPart, informer
<1>5. CASE OperatorRestarts
  <2> DEFINE entries == { [pod |-> o, kind |-> Kind("none", api[o]), st |-> api[o]] :
                            o \in Exists(api) }
             f == [o \in Exists(api) |->
                     [pod |-> o, kind |-> Kind("none", api[o]), st |-> api[o]]]
  <2>1. entries \subseteq LogEntries
    BY <1>p DEF InformerPart, LogEntries, Kinds, Kind, Exists
  <2>2. IsFiniteSet(Exists(api)) /\ Cardinality(Exists(api)) \in Nat
    BY OrdinalSets DEF Exists
  <2>3. f \in Bijection(Exists(api), entries)
    <3>1. f \in Surjection(Exists(api), entries)
      BY DEF Surjection
    <3>2. f \in Injection(Exists(api), entries)
      BY DEF Injection, IsInjective
    <3> QED
      BY <3>1, <3>2 DEF Bijection
  <2>4. IsFiniteSet(entries) /\ Cardinality(entries) = Cardinality(Exists(api))
    BY <2>2, <2>3, FS_Bijection DEF ExistsBijection
  <2>5. SetToSeq(entries) \in Seq(LogEntries)
        /\ Len(SetToSeq(entries)) = Cardinality(Exists(api))
    BY <2>1, <2>4, SetToSeqType, SeqMonotonic
  <2>6. log' = SetToSeq(entries) /\ applied' = Cardinality(Exists(api)) /\ cache' = api
        /\ UNCHANGED api
    BY <1>5 DEF OperatorRestarts
  <2> HIDE DEF entries
  <2> QED
    BY <1>p, <2>2, <2>5, <2>6 DEF InformerPart
<1> QED
  BY <1>0, <1>1, <1>2, <1>3, <1>4, <1>5, OneWrite

(* How many pods a pass creates or condemns. *)
LEMMA DiffType ==
  ASSUME WorkerPart
  PROVE  /\ Diff \in Int /\ Exists(snap) \in SUBSET Ordinals
         /\ Diff < 0 => Burst(-Diff) \in 0..MaxReplicas
<1>1. Exists(snap) \in SUBSET Ordinals /\ Cardinality(Exists(snap)) \in Nat
  BY OrdinalSets DEF Exists
<1> QED
  BY <1>1, BurstAssumption, ReplicasAssumption DEF WorkerPart, Diff, Burst

LEMMA ExpStep ==
  ASSUME TypeInv, [Next]_vars
  PROVE  exp' \in ExpectationRecords
<1>e. exp \in ExpectationRecords /\ WorkerPart
  BY DEF TypeInv
<1>0. CASE UNCHANGED exp
  BY <1>e, <1>0
<1>1. CASE ScaleOut
  <2>1. Burst(-Diff) \in Int
    BY <1>e, <1>1, DiffType DEF ScaleOut
  <2>2. ExpectDeletions(exp, {}) \in ExpectationRecords
    BY <1>e, ExpectationTypes
  <2> QED
    BY <1>1, <2>1, <2>2, ExpectationTypes DEF ScaleOut
<1>2. CASE ScaleIn
  <2>1. PICK S \in SUBSET Ordinals : exp' = RaiseExpectations(ExpectDeletions(exp, S), 0)
    BY <1>2 DEF ScaleIn, Exists
  <2>2. ExpectDeletions(exp, S) \in ExpectationRecords
    BY <1>e, ExpectationTypes
  <2> QED
    BY <2>1, <2>2, ExpectationTypes
<1>3. CASE ScaleDone
  BY <1>e, <1>3, ExpectationTypes DEF ScaleDone
<1>4. CASE CreatesOver
  <2>1. skippedPods \in Int
    BY <1>e DEF skippedPods, WorkerPart
  <2> QED
    BY <1>e, <1>4, <2>1, ExpectationTypes DEF CreatesOver
<1>5. ASSUME NEW o \in Ordinals, DeletePodFn(o) PROVE exp' \in ExpectationRecords
  BY <1>e, <1>5, ExpectationTypes DEF DeletePodFn, PendingTermination
<1>6. CASE PodEventHandler
  <2>1. Head(log) \in LogEntries
    BY <1>6, HandlerLog DEF TypeInv
  <2>2. \/ exp' = exp \/ exp' = CreationsObserved(exp, 1)
        \/ exp' = DeletionObserved(exp, Head(log).pod)
    BY <1>6, <2>1 DEF PodEventHandler, Observe, LogEntries, Kinds
  <2> QED
    BY <1>e, <2>1, <2>2, ExpectationTypes DEF LogEntries
<1>7. CASE ExpectationsExpire
  BY <1>e, <1>7 DEF ExpectationsExpire, ExpectationRecords
<1>8. CASE OperatorRestarts
  BY <1>e, <1>8, ExpectationTypes DEF OperatorRestarts
<1> QED
  BY <1>0, <1>1, <1>2, <1>3, <1>4, <1>5, <1>6, <1>7, <1>8
     DEF Next, vars, Sync, Environment, SyncList, SyncUnsatisfied, UncordonKept, StartBatch,
         SyncEnd, InformerApplies, Relist, UncordonFails, UserScales, CreateNodeSetPod,
         CreateReturns, ProcessNodeSetPod, PodFails, PodEvicted, PodStops, PodChanges

LEMMA WorldStep ==
  ASSUME WorldPart, [Next]_vars
  PROVE  WorldPart'
<1> USE ReplicasAssumption, DisturbancesAssumption DEF WorldPart
<1>1. ASSUME UNCHANGED <<replicas, hi>>,
             UNCHANGED budget \/ \E kind \in AllDisturbances : Disturb(kind)
      PROVE  WorldPart'
  BY <1>1 DEF Disturb
<1>2. ASSUME NEW n \in 0..MaxReplicas, UserScales(n) PROVE WorldPart'
  BY <1>2 DEF UserScales, Disturb
<1>3. ASSUME NEW o \in Ordinals, CreateNodeSetPod(o) PROVE WorldPart'
  BY <1>1, <1>3 DEF CreateNodeSetPod, CreateReturns, Undisturbed, AllDisturbances
<1>4. ASSUME NEW o \in Ordinals, DeletePodFn(o) PROVE WorldPart'
  BY <1>1, <1>4 DEF DeletePodFn, Undisturbed, AllDisturbances
<1>5. ASSUME NEW o \in Ordinals,
             ProcessNodeSetPod(o) \/ PodFails(o) \/ PodEvicted(o) \/ PodStops(o)
      PROVE  WorldPart'
  BY <1>1, <1>5 DEF ProcessNodeSetPod, PodFails, PodEvicted, PodStops, PodChanges,
                    Undisturbed, AllDisturbances
<1> QED
  BY <1>1, <1>2, <1>3, <1>4, <1>5
     DEF Next, vars, Sync, Environment, SyncList, SyncUnsatisfied, ScaleOut, ScaleIn,
         ScaleDone, UncordonKept, StartBatch, CreatesOver, SyncEnd, InformerApplies, Relist,
         PodEventHandler, OperatorRestarts, UncordonFails, ExpectationsExpire,
         AllDisturbances

(* A returned call leaves one pod fewer to do. *)
LEMMA ReturnedCount ==
  ASSUME WorkerPart, NEW o \in inflight, NEW ok \in BOOLEAN, Returned(o, ok)
  PROVE  /\ inflight' \in SUBSET Ordinals /\ failed' \in SUBSET Ordinals
         /\ todo' \in SUBSET Ordinals /\ batch' \in Nat /\ todo' \intersect inflight' = {}
         /\ Cardinality(todo' \union inflight') + 1 = Cardinality(todo \union inflight)
         /\ Cardinality(todo' \union inflight') \in Nat
<1>1. todo' \union inflight' = (todo \union inflight) \ {o}
  BY DEF WorkerPart, Returned
<1>2. IsFiniteSet(todo \union inflight) /\ Cardinality(todo \union inflight) \in Nat
  BY OrdinalSets DEF WorkerPart
<1>3. Cardinality((todo \union inflight) \ {o}) = Cardinality(todo \union inflight) - 1
  BY <1>2, FS_RemoveElement
<1>4. Cardinality((todo \union inflight) \ {o}) \in Nat
  BY OrdinalSets DEF WorkerPart
<1>5. /\ inflight' \in SUBSET Ordinals /\ failed' \in SUBSET Ordinals
      /\ todo' \in SUBSET Ordinals /\ batch' \in Nat /\ todo' \intersect inflight' = {}
  BY DEF WorkerPart, Returned
<1>6. Cardinality(todo' \union inflight') = Cardinality(todo \union inflight) - 1
  BY <1>1, <1>3
<1>7. Cardinality(todo' \union inflight') \in Nat
  BY <1>1, <1>4
<1> QED
  BY <1>2, <1>5, <1>6, <1>7

LEMMA WorkerStep ==
  ASSUME TypeInv, [Next]_vars
  PROVE  WorkerPart'
<1>p. WorkerPart /\ WorldPart /\ InformerPart
  BY DEF TypeInv
<1>0. CASE UNCHANGED <<pc, plan, batchVars>>
  BY <1>p, <1>0 DEF plan, batchVars, WorkerPart
<1>r. ASSUME Return PROVE WorkerPart'
  BY <1>r, ReplicasAssumption DEF Return, BeginLoop, WorkerPart, NoPods, PodStates
<1>1. CASE SyncList
  BY <1>p, <1>1 DEF SyncList, WorkerPart, WorldPart, InformerPart, batchVars
<1>2. CASE ScaleOut
  <2>1. numCreate' \in 0..MaxReplicas
    BY <1>p, <1>2, DiffType DEF ScaleOut
  <2> DEFINE S == FreeOrdinals(Exists(snap), Burst(-Diff))
  <2>2. S \in SUBSET Ordinals
    BY DEF FreeOrdinals
  <2>3. Cardinality(S) \in Nat /\ Cardinality(S) <= MaxReplicas
    BY <2>2, OrdinalSets
  <2>4. todo' = S /\ inflight' = {} /\ batch' = 1 /\ failed' = {}
    BY <1>2 DEF ScaleOut, BeginLoop
  <2>5. todo' \union inflight' = S
    BY <2>4
  <2> HIDE DEF S
  <2> QED
    BY <1>p, <1>2, <2>1, <2>2, <2>3, <2>4, <2>5, ReplicasAssumption DEF ScaleOut, WorkerPart
<1>3. CASE ScaleIn
  <2>1. condemned' \in SUBSET Ordinals
    BY <1>3 DEF ScaleIn, Exists
  <2>2. todo' = {} /\ inflight' = {} /\ batch' = 1 /\ failed' = {}
    BY <1>3 DEF ScaleIn, BeginLoop
  <2>3. todo' \union inflight' = {} /\ Cardinality({}) = 0
    BY <2>2, FS_EmptySet
  <2> QED
    BY <1>p, <1>3, <2>1, <2>2, <2>3, ReplicasAssumption DEF ScaleIn, WorkerPart
<1>4. CASE ScaleDone
  BY <1>p, <1>4 DEF ScaleDone, BeginLoop, Exists, WorkerPart, plan
<1>5. CASE UncordonKept
  BY <1>p, <1>5 DEF UncordonKept, WorkerPart, plan, batchVars
<1>6. CASE StartBatch
  <2>1. PICK S \in SUBSET todo : inflight' = S /\ todo' = todo \ S
    BY <1>6 DEF StartBatch
  <2>2. todo' \union inflight' = todo \union inflight
    BY <1>6, <2>1 DEF StartBatch
  <2>3. batch' \in Nat /\ UNCHANGED <<pc, plan, failed>>
    BY <1>p, <1>6 DEF StartBatch, WorkerPart
  <2> QED
    BY <1>p, <2>1, <2>2, <2>3 DEF WorkerPart, plan
<1>7. CASE CreatesOver
  BY <1>p, <1>7 DEF CreatesOver, BeginLoop, WorkerPart, plan
<1>8. ASSUME NEW o \in Ordinals, CreateNodeSetPod(o) PROVE WorkerPart'
  <2>1. PICK ok \in BOOLEAN : CreateReturns(o, ok)
    BY <1>8 DEF CreateNodeSetPod
  <2>2. pc = "create" /\ o \in inflight
    BY <1>8 DEF CreateNodeSetPod
  <2>3. /\ inflight' \in SUBSET Ordinals /\ failed' \in SUBSET Ordinals
        /\ todo' \in SUBSET Ordinals /\ batch' \in Nat /\ todo' \intersect inflight' = {}
        /\ Cardinality(todo' \union inflight') + 1 = Cardinality(todo \union inflight)
        /\ Cardinality(todo' \union inflight') \in Nat
    BY <1>p, <2>1, <2>2, ReturnedCount DEF CreateReturns
  <2>4. created + Cardinality(todo \union inflight) <= MaxReplicas
        /\ created \in 0..MaxReplicas
    BY <1>p, <2>2 DEF WorkerPart
  <2>5. created' = created + 1 \/ created' = created
    BY <2>1 DEF CreateReturns
  <2>6. created' \in 0..MaxReplicas
        /\ created' + Cardinality(todo' \union inflight') <= MaxReplicas
    BY <2>3, <2>4, <2>5, ReplicasAssumption
  <2> QED
    BY <1>p, <2>1, <2>3, <2>6 DEF CreateReturns, WorkerPart
<1>9. ASSUME NEW o \in Ordinals, DeletePodFn(o) \/ ProcessNodeSetPod(o) PROVE WorkerPart'
  <2>1. /\ \E ok \in BOOLEAN : Returned(o, ok)
        /\ o \in inflight /\ pc \in {"delete", "process"} /\ UNCHANGED <<pc, plan>>
    BY <1>9 DEF DeletePodFn, ProcessNodeSetPod, PendingTermination
  <2>2. /\ inflight' \in SUBSET Ordinals /\ failed' \in SUBSET Ordinals
        /\ todo' \in SUBSET Ordinals /\ batch' \in Nat /\ todo' \intersect inflight' = {}
    BY <1>p, <2>1, ReturnedCount
  <2> QED
    BY <1>p, <2>1, <2>2 DEF WorkerPart, plan
<1> QED
  BY <1>0, <1>r, <1>1, <1>2, <1>3, <1>4, <1>5, <1>6, <1>7, <1>8, <1>9
     DEF Next, vars, Sync, Environment, SyncUnsatisfied, SyncEnd, InformerApplies, Relist,
         PodEventHandler, OperatorRestarts, UncordonFails, ExpectationsExpire, UserScales,
         PodFails, PodEvicted, PodStops, PodChanges

LEMMA TypeStep == TypeInv /\ [Next]_vars => TypeInv'
<1> SUFFICES ASSUME TypeInv, [Next]_vars PROVE TypeInv'
  OBVIOUS
<1>1. InformerPart' /\ exp' \in ExpectationRecords /\ WorkerPart' /\ WorldPart'
  BY InformerStep, ExpStep, WorkerStep, WorldStep DEF TypeInv
<1> QED
  BY <1>1 DEF TypeInv, ExpectationRecords

(* NodeSetScale is type correct: in particular a pass never reports more    *)
(* creations than there are ordinals, and the store is never ahead of the   *)
(* log.                                                                     *)
THEOREM TypeCorrect == Spec => []TypeOK
<1>1. Spec => []TypeInv
  BY TypeInit, TypeStep, PTL DEF Spec
<1> QED
  BY <1>1, TypeInvType, PTL

-----------------------------------------------------------------------------
(* Creations are counted once *)

AddEvents(l) == { i \in DOMAIN l : l[i].kind = "add" }

LEMMA AddEventsFinite ==
  ASSUME NEW l \in Seq(LogEntries)
  PROVE  /\ IsFiniteSet(AddEvents(l)) /\ Cardinality(AddEvents(l)) \in Nat
         /\ Cardinality(AddEvents(l)) = 0 <=> AddEvents(l) = {}
<1>1. Len(l) \in Nat /\ DOMAIN l = 1..Len(l)
  BY LenProperties
<1>2. IsFiniteSet(1..Len(l))
  BY <1>1, FS_Interval
<1>3. IsFiniteSet(AddEvents(l))
  BY <1>1, <1>2, FS_Subset DEF AddEvents
<1> QED
  BY <1>3, FS_CardinalityType, FS_EmptySet

(* A write adds at most its own event, and it is a creation only if it      *)
(* brings a pod into being.                                                 *)
LEMMA AddsWritten ==
  ASSUME InformerPart, NEW o \in Ordinals, NEW st \in PodStates, Write(o, st)
  PROVE  PendingAdds' = IF Kind(api[o], st) = "add" THEN PendingAdds + 1 ELSE PendingAdds
<1> DEFINE n == Len(log)
<1>1. /\ log \in Seq(LogEntries) /\ log' \in Seq(LogEntries)
      /\ Len(log') = n + 1 /\ n \in Nat
      /\ \A i \in 1..n : log'[i] = log[i]
      /\ log'[n + 1] = [pod |-> o, kind |-> Kind(api[o], st), st |-> st]
  BY WriteLog DEF InformerPart
<1>2. DOMAIN log = 1..n /\ DOMAIN log' = 1..(n + 1)
  BY <1>1, LenProperties
<1>3. IsFiniteSet(AddEvents(log)) /\ Cardinality(AddEvents(log)) \in Nat
  BY <1>1, AddEventsFinite
<1>4. PendingAdds = Cardinality(AddEvents(log)) /\ PendingAdds' = Cardinality(AddEvents(log'))
  BY DEF PendingAdds, AddEvents
<1> HIDE DEF n
<1>5. CASE Kind(api[o], st) = "add"
  <2>1. AddEvents(log') = AddEvents(log) \union {n + 1} /\ n + 1 \notin AddEvents(log)
    BY <1>1, <1>2, <1>5 DEF AddEvents
  <2> QED
    BY <1>3, <1>4, <1>5, <2>1, FS_AddElement
<1>6. CASE Kind(api[o], st) # "add"
  <2>1. AddEvents(log') = AddEvents(log)
    BY <1>1, <1>2, <1>6 DEF AddEvents
  <2> QED
    BY <1>4, <1>6, <2>1
<1> QED
  BY <1>5, <1>6

LEMMA AddsHandled ==
  ASSUME InformerPart, PodEventHandler
  PROVE  PendingAdds = IF Head(log).kind = "add" THEN PendingAdds' + 1 ELSE PendingAdds'
<1> DEFINE n == Len(log')
           rest == AddEvents(log) \ {1}
           f == [i \in rest |-> i - 1]
<1>1. /\ log \in Seq(LogEntries) /\ log' \in Seq(LogEntries)
      /\ Len(log) = n + 1 /\ n \in Nat /\ Head(log) = log[1]
      /\ \A i \in 1..n : log'[i] = log[i + 1]
  BY HandlerLog, LenProperties DEF InformerPart
<1>2. DOMAIN log = 1..(n + 1) /\ DOMAIN log' = 1..n
  BY <1>1, LenProperties
<1>3. /\ IsFiniteSet(AddEvents(log)) /\ Cardinality(AddEvents(log)) \in Nat
      /\ IsFiniteSet(AddEvents(log')) /\ Cardinality(AddEvents(log')) \in Nat
  BY <1>1, AddEventsFinite
<1>4. PendingAdds = Cardinality(AddEvents(log)) /\ PendingAdds' = Cardinality(AddEvents(log'))
  BY DEF PendingAdds, AddEvents
<1> HIDE DEF n
<1>5. f \in Bijection(rest, AddEvents(log'))
  <2>1. rest = { i \in 2..(n + 1) : log[i].kind = "add" }
    BY <1>1, <1>2 DEF AddEvents
  <2>2. AddEvents(log') = { i \in 1..n : log[i + 1].kind = "add" }
    BY <1>1, <1>2 DEF AddEvents
  <2>3. \A i \in rest : i - 1 \in AddEvents(log')
    BY <1>1, <2>1, <2>2
  <2>4. \A j \in AddEvents(log') : j + 1 \in rest /\ (j + 1) - 1 = j
    BY <1>1, <2>1, <2>2
  <2>5. \A i, j \in rest : i - 1 = j - 1 => i = j
    BY <1>1, <2>1
  <2> HIDE DEF rest
  <2>6. f \in [rest -> AddEvents(log')]
    BY <2>3
  <2>7. f \in Injection(rest, AddEvents(log'))
    BY <2>5, <2>6 DEF Injection, IsInjective
  <2>8. \A j \in AddEvents(log') : \E i \in rest : f[i] = j
    BY <2>4
  <2> QED
    BY <2>6, <2>7, <2>8 DEF Bijection, Surjection
<1>6. IsFiniteSet(rest)
  BY <1>3, FS_Subset
<1>7. Cardinality(rest) = Cardinality(AddEvents(log'))
  BY <1>3, <1>5, <1>6, FS_Bijection DEF ExistsBijection
<1>8. CASE Head(log).kind = "add"
  <2>1. 1 \in AddEvents(log)
    BY <1>1, <1>2, <1>8 DEF AddEvents
  <2>2. Cardinality(rest) = Cardinality(AddEvents(log)) - 1
    BY <1>3, <2>1, FS_RemoveElement
  <2> QED
    BY <1>3, <1>4, <1>7, <1>8, <2>2
<1>9. CASE Head(log).kind # "add"
  <2>1. rest = AddEvents(log)
    BY <1>1, <1>2, <1>9 DEF AddEvents
  <2> QED
    BY <1>4, <1>7, <1>9, <2>1
<1> QED
  BY <1>8, <1>9

(* What makes the count inductive: expectations that never expire are set   *)
(* before the first pod is created and stay.                                *)
CountInv ==
    /\ TypeInv
    /\ ~exp.expired
    /\ CreationsCountedOnce
    /\ ~exp.has => exp = NoExpectations /\ PendingAdds = 0 /\ pc \in {"idle", "check"}

LEMMA NothingElse ==
  ASSUME Disturbances \subseteq Handled
  PROVE  /\ ~Relist /\ ~OperatorRestarts /\ ~UncordonFails /\ ~ExpectationsExpire
         /\ ~Disturb("pvc") /\ ~Disturb("namespace") /\ ~Disturb("delete")
BY DEF Handled, Relist, OperatorRestarts, UncordonFails, ExpectationsExpire, Disturb

LEMMA CountInit == Init => CountInv
<1> SUFFICES ASSUME Init PROVE CountInv
  OBVIOUS
<1>1. TypeInv
  BY TypeInit
<1>2. PendingAdds = 0
  <2>1. AddEvents(log) = {} /\ PendingAdds = Cardinality(AddEvents(log))
    BY DEF Init, AddEvents, PendingAdds
  <2> QED
    BY <2>1, FS_EmptySet
<1> QED
  BY <1>1, <1>2 DEF Init, CountInv, CreationsCountedOnce, NoExpectations

LEMMA CountStep ==
  ASSUME Disturbances \subseteq Handled, CountInv, [Next]_vars
  PROVE  CountInv'
<1> DEFINE Counted == /\ ~exp.expired
                      /\ exp.has => exp.adds = PendingAdds + Uncreated
                      /\ ~exp.has => /\ exp = NoExpectations /\ PendingAdds = 0
                                     /\ pc \in {"idle", "check"}
<1>t. TypeInv /\ InformerPart /\ WorkerPart /\ exp \in ExpectationRecords /\ TypeInv'
  BY TypeStep DEF CountInv, TypeInv
<1>c. Counted /\ PendingAdds \in Nat /\ created \in Nat /\ numCreate \in Nat
  <2>1. PendingAdds \in Nat
    BY <1>t, AddEventsFinite DEF InformerPart, PendingAdds, AddEvents
  <2> QED
    BY <1>t, <2>1 DEF CountInv, CreationsCountedOnce, WorkerPart
<1> SUFFICES Counted'
  BY <1>t DEF CountInv, CreationsCountedOnce
<1>s. ASSUME SatisfiedExpectations(exp), pc = "check"
      PROVE  PendingAdds = 0
  BY <1>c, <1>s DEF SatisfiedExpectations, Uncreated
<1>0. ASSUME UNCHANGED <<log, exp>>,
             \/ UNCHANGED <<pc, numCreate, created>>
             \/ pc' \in {"idle", "check"} /\ pc \notin {"uncordon", "create"}
             \/ pc = "uncordon" /\ pc' = "create" /\ UNCHANGED <<numCreate, created>>
      PROVE  Counted'
  BY <1>c, <1>0 DEF PendingAdds, Uncreated
<1>1. CASE ScaleOut
  <2>1. numCreate' = Burst(-Diff) /\ created' = 0 /\ pc' = "uncordon" /\ log' = log
    BY <1>1 DEF ScaleOut, apiVars
  <2>2. PendingAdds' = 0 /\ Burst(-Diff) \in Nat
    BY <1>1, <1>s, <1>t, <2>1, DiffType DEF ScaleOut, PendingAdds
  <2>3. exp' = RaiseExpectations(ExpectDeletions(exp, {}), Burst(-Diff)) /\ Burst(-Diff) \in Int
    BY <1>1, <2>2 DEF ScaleOut
  <2>4. exp'.has /\ exp'.adds = Burst(-Diff) /\ ~exp'.expired
    BY <1>t, <2>3, ExpectAnew
  <2> QED
    BY <2>1, <2>2, <2>4 DEF Uncreated
<1>2. CASE ScaleIn
  <2>1. \E S : exp' = RaiseExpectations(ExpectDeletions(exp, S), 0)
    BY <1>2 DEF ScaleIn
  <2>2. exp'.has /\ exp'.adds = 0 /\ ~exp'.expired
    BY <1>t, <2>1, ExpectAnew
  <2>3. PendingAdds' = 0 /\ numCreate' = 0 /\ created' = 0
    BY <1>2, <1>s DEF ScaleIn, PendingAdds, apiVars
  <2> QED
    BY <2>2, <2>3 DEF Uncreated
<1>3. CASE ScaleDone
  <2>1. PendingAdds' = 0 /\ pc' = "process"
    BY <1>3, <1>s DEF ScaleDone, PendingAdds, apiVars
  <2> QED
    BY <1>3, <2>1 DEF Uncreated, ScaleDone, SetExpectations
<1>4. CASE CreatesOver
  <2>1. exp.has /\ exp' = [exp EXCEPT !.adds = @ - skippedPods]
    BY <1>4, <1>c DEF CreatesOver, CreationsObserved
  <2>2. /\ exp'.adds = exp.adds - skippedPods /\ exp'.expired = exp.expired
        /\ exp'.has = exp.has
    BY <1>t, <2>1 DEF ExpectationRecords
  <2>3. PendingAdds' = PendingAdds /\ Uncreated' = 0 /\ Uncreated = numCreate - created
    BY <1>4 DEF CreatesOver, PendingAdds, Uncreated, apiVars
  <2> QED
    BY <1>c, <2>1, <2>2, <2>3 DEF skippedPods
<1>5. ASSUME NEW o \in Ordinals, CreateNodeSetPod(o) PROVE Counted'
  <2>1. exp.has /\ pc = "create" /\ UNCHANGED <<exp, pc, numCreate>>
    BY <1>5, <1>c DEF CreateNodeSetPod, CreateReturns
  <2>2. CASE api[o] = "none" /\ Write(o, "live") /\ CreateReturns(o, TRUE)
    <3>1. PendingAdds' = PendingAdds + 1
      BY <1>t, <2>2, AddsWritten DEF Kind, PodStates
    <3>2. created' = created + 1
      BY <2>2 DEF CreateReturns
    <3> QED
      BY <1>c, <2>1, <3>1, <3>2 DEF Uncreated
  <2>3. CASE UNCHANGED apiVars /\ CreateReturns(o, FALSE)
    BY <1>c, <2>1, <2>3 DEF PendingAdds, Uncreated, CreateReturns, apiVars
  <2> QED
    BY <1>5, <2>2, <2>3, NothingElse DEF CreateNodeSetPod
<1>6. ASSUME NEW o \in Ordinals, NEW st \in PodStates, Write(o, st), Kind(api[o], st) # "add",
             UNCHANGED <<exp, pc, numCreate, created>>
      PROVE  Counted'
  <2>1. PendingAdds' = PendingAdds
    BY <1>t, <1>6, AddsWritten
  <2> QED
    BY <1>c, <1>6, <2>1 DEF Uncreated
<1>7. ASSUME NEW o \in Ordinals, exp' = DeletionObserved(exp, o),
             UNCHANGED <<log, pc, numCreate, created>>
      PROVE  Counted'
  <2>1. exp'.adds = exp.adds /\ exp'.has = exp.has /\ exp'.expired = exp.expired
    BY <1>t, <1>7 DEF DeletionObserved, ExpectationRecords
  <2>2. ~exp.has => exp' = exp
    BY <1>c, <1>7 DEF DeletionObserved, NoExpectations
  <2> QED
    BY <1>c, <1>7, <2>1, <2>2 DEF PendingAdds, Uncreated
<1>8. ASSUME NEW o \in Ordinals, DeletePodFn(o) PROVE Counted'
  <2>1. UNCHANGED <<pc, numCreate, created>>
    BY <1>8 DEF DeletePodFn, plan
  <2>2. \/ UNCHANGED <<log, exp>>
        \/ Write(o, "term") /\ UNCHANGED exp
        \/ exp' = DeletionObserved(exp, o) /\ UNCHANGED log
    BY <1>8 DEF DeletePodFn, Delete, PendingTermination, apiVars
  <2> QED
    BY <1>0, <1>6, <1>7, <2>1, <2>2 DEF Kind, PodStates
<1>9. ASSUME NEW o \in Ordinals,
             ProcessNodeSetPod(o) \/ PodFails(o) \/ PodEvicted(o) \/ PodStops(o)
      PROVE  Counted'
  <2>1. UNCHANGED <<exp, pc, numCreate, created>>
    BY <1>9 DEF ProcessNodeSetPod, PodFails, PodEvicted, PodStops, PodChanges, plan
  <2>2. \/ UNCHANGED <<log, exp>>
        \/ Write(o, "term") \/ Write(o, "none")
        \/ Write(o, "failed") /\ api[o] = "live"
    BY <1>9 DEF ProcessNodeSetPod, PodFails, PodEvicted, PodStops, Delete, apiVars, PodChanges
  <2> QED
    BY <1>0, <1>6, <2>1, <2>2 DEF Kind, PodStates
<1>10. CASE PodEventHandler
  <2>1. /\ Head(log) \in LogEntries /\ PendingAdds' \in Nat
        /\ PendingAdds = IF Head(log).kind = "add" THEN PendingAdds' + 1 ELSE PendingAdds'
    <3>1. log' \in Seq(LogEntries)
      BY <1>10, <1>t, HandlerLog
    <3> QED
      BY <1>10, <1>t, <3>1, HandlerLog, AddsHandled, AddEventsFinite DEF PendingAdds, AddEvents
  <2>2. Uncreated' = Uncreated /\ pc' = pc
    BY <1>10 DEF PodEventHandler, Uncreated, plan
  <2>3. CASE Head(log).kind = "add"
    <3>1. exp.has /\ exp' = [exp EXCEPT !.adds = @ - 1]
      BY <1>10, <1>c, <2>1, <2>3 DEF PodEventHandler, Observe, CreationsObserved
    <3>2. exp'.adds = exp.adds - 1 /\ exp'.has = exp.has /\ exp'.expired = exp.expired
      BY <1>t, <3>1 DEF ExpectationRecords
    <3> QED
      BY <1>c, <2>1, <2>2, <2>3, <3>1, <3>2 DEF Uncreated
  <2>4. CASE Head(log).kind # "add"
    <3>1. exp' = exp \/ exp' = DeletionObserved(exp, Head(log).pod)
      BY <1>10, <2>4 DEF PodEventHandler, Observe
    <3>2. exp'.adds = exp.adds /\ exp'.has = exp.has /\ exp'.expired = exp.expired
      BY <1>t, <3>1 DEF DeletionObserved, ExpectationRecords
    <3>3. ~exp.has => exp' = exp
      BY <1>c, <3>1 DEF DeletionObserved, NoExpectations
    <3> QED
      BY <1>c, <2>1, <2>2, <2>4, <3>2, <3>3
  <2> QED
    BY <2>3, <2>4
<1> QED
  BY <1>0, <1>1, <1>2, <1>3, <1>4, <1>5, <1>8, <1>9, <1>10, NothingElse
     DEF Next, vars, Sync, Environment, SyncList, SyncUnsatisfied, UncordonKept, StartBatch,
         SyncEnd, Return, InformerApplies, UserScales, plan, apiVars

(* As long as only those disturbances happen that doPodScale accounts for   *)
(* (scaling, pods that fail or are evicted, pods not drained yet, creates   *)
(* the API server refuses), each pod doPodScale creates is observed once,   *)
(* by the event handler or by the loop over the skipped pods.               *)
THEOREM CreationsCorrect ==
  ASSUME Disturbances \subseteq Handled
  PROVE  Spec => []CreationsCountedOnce
<1>1. CountInv /\ [Next]_vars => CountInv'
  BY CountStep
<1>2. CountInv => CreationsCountedOnce
  BY DEF CountInv
<1> QED
  BY <1>1, <1>2, CountInit, PTL DEF Spec

-----------------------------------------------------------------------------
(* No expected deletion is waited for in vain *)

(* The pod somebody saw as st is gone, though now another may have its name. *)
Vanishes(st, now) ==
    \/ st # "none" /\ now = "none"
    \/ st = "term" /\ now # "term"

DeletionAfter(l, k, o) == \E j \in DOMAIN l : j > k /\ l[j].pod = o /\ l[j].kind = "del"

(* The end of a pod that the store, or an event on its way to it, still     *)
(* shows is announced later in the log.                                     *)
AnnouncedInv ==
    /\ \A o \in Ordinals : Vanishes(cache[o], api[o]) => DeletionAfter(log, applied, o)
    /\ \A i \in DOMAIN log :
         Vanishes(log[i].st, api[log[i].pod]) => DeletionAfter(log, i, log[i].pod)

OwedInv ==
    /\ CountInv
    /\ AnnouncedInv
    /\ pc = "delete" => failed = {}
    /\ ExpectedDeletionsHappen

LEMMA OwedInit == Init => OwedInv
<1> SUFFICES ASSUME Init PROVE OwedInv
  OBVIOUS
<1>1. AnnouncedInv
  BY DEF Init, AnnouncedInv, Vanishes, NoPods
<1>2. ExpectedDeletionsHappen
  BY FS_EmptySet DEF Init, ExpectedDeletionsHappen, NoExpectations
<1> QED
  BY <1>1, <1>2, CountInit DEF OwedInv, Init

LEMMA LogElements ==
  ASSUME InformerPart, NEW i \in DOMAIN log
  PROVE  /\ log[i] \in LogEntries
         /\ log[i].pod \in Ordinals /\ log[i].kind \in Kinds /\ log[i].st \in PodStates
<1>1. i \in 1..Len(log)
  BY LenProperties DEF InformerPart
<1>2. log[i] \in LogEntries
  BY <1>1, ElementOfSeq DEF InformerPart
<1> QED
  BY <1>2 DEF LogEntries

(* A write leaves what was announced announced, and announces what it ends. *)
LEMMA WritesAnnounced ==
  ASSUME InformerPart, AnnouncedInv, NEW o \in Ordinals, NEW st \in PodStates, Writes(o, st)
  PROVE  AnnouncedInv'
<1> DEFINE n == Len(log)
<1>1. /\ log' \in Seq(LogEntries) /\ log \in Seq(LogEntries)
      /\ Len(log') = n + 1 /\ n \in Nat
      /\ \A i \in 1..n : log'[i] = log[i]
      /\ log'[n + 1] = [pod |-> o, kind |-> Kind(api[o], st), st |-> st]
      /\ api' \in [Ordinals -> PodStates] /\ api'[o] = st
      /\ \A q \in Ordinals \ {o} : api'[q] = api[q]
  BY WriteLog DEF InformerPart, Writes
<1>2. DOMAIN log = 1..n /\ DOMAIN log' = 1..(n + 1) /\ applied \in 0..n
  BY <1>1, LenProperties DEF InformerPart
<1>3. \A i \in 1..n : log[i].pod \in Ordinals
  BY <1>2, LogElements
<1> HIDE DEF n
<1>4. ASSUME NEW k \in 0..n, NEW q \in Ordinals, DeletionAfter(log, k, q)
      PROVE  DeletionAfter(log', k, q)
  BY <1>1, <1>2, <1>4 DEF DeletionAfter
<1>5. ASSUME NEW k \in 0..n, NEW q \in Ordinals, NEW x,
             Vanishes(x, api[q]) => DeletionAfter(log, k, q), Vanishes(x, api'[q])
      PROVE  DeletionAfter(log', k, q)
  <2>1. CASE Vanishes(x, api[q])
    BY <1>4, <1>5, <2>1
  <2>2. CASE ~Vanishes(x, api[q])
    <3>1. q = o
      BY <1>1, <1>5, <2>2
    <3>2. st = "none"
      BY <1>1, <1>5, <2>2, <3>1 DEF Writes, Vanishes
    <3>3. log'[n + 1].pod = q /\ log'[n + 1].kind = "del" /\ n + 1 \in DOMAIN log' /\ n + 1 > k
      BY <1>1, <1>2, <3>1, <3>2 DEF Kind
    <3> QED
      BY <3>3 DEF DeletionAfter
  <2> QED
    BY <2>1, <2>2
<1>6. ASSUME NEW q \in Ordinals, Vanishes(cache'[q], api'[q]) PROVE DeletionAfter(log', applied', q)
  <2>1. cache'[q] = cache[q] /\ applied' = applied
    BY DEF Writes
  <2>2. Vanishes(cache[q], api[q]) => DeletionAfter(log, applied, q)
    BY DEF AnnouncedInv
  <2> QED
    BY <1>2, <1>5, <1>6, <2>1, <2>2
<1>7. ASSUME NEW i \in DOMAIN log', Vanishes(log'[i].st, api'[log'[i].pod])
      PROVE  DeletionAfter(log', i, log'[i].pod)
  <2>1. i # n + 1
    BY <1>1, <1>7 DEF Vanishes
  <2>2. i \in 1..n /\ log'[i] = log[i]
    BY <1>1, <1>2, <2>1
  <2>3. Vanishes(log[i].st, api[log[i].pod]) => DeletionAfter(log, i, log[i].pod)
    BY <1>2, <2>2 DEF AnnouncedInv
  <2> QED
    BY <1>1, <1>3, <1>5, <1>7, <2>2, <2>3
<1> QED
  BY <1>6, <1>7 DEF AnnouncedInv

LEMMA AnnouncedStep ==
  ASSUME Disturbances \subseteq Handled, InformerPart, AnnouncedInv, [Next]_vars
  PROVE  AnnouncedInv'
<1>0. CASE UNCHANGED <<apiVars, informer>>
  BY <1>0 DEF AnnouncedInv, apiVars, informer
<1>1. CASE \E o \in Ordinals, st \in PodStates : Writes(o, st)
  BY <1>1, WritesAnnounced
<1>2. CASE InformerApplies
  <2> DEFINE e == log[applied + 1]
  <2>1. /\ applied + 1 \in DOMAIN log /\ applied' = applied + 1 /\ applied \in Nat
        /\ DOMAIN log = 1..Len(log) /\ Len(log) \in Nat /\ UNCHANGED <<api, log>>
    BY <1>2, LenProperties DEF InformerApplies, InformerPart, apiVars
  <2>2. e.pod \in Ordinals /\ cache' = [cache EXCEPT ![e.pod] = e.st]
    BY <1>2, <2>1, LogElements DEF InformerApplies
  <2> HIDE DEF e
  <2>3. ASSUME NEW o \in Ordinals, Vanishes(cache'[o], api[o])
        PROVE  DeletionAfter(log, applied + 1, o)
    <3>1. CASE o = e.pod
      <4>1. cache'[o] = e.st
        BY <2>2, <3>1 DEF InformerPart
      <4> QED
        BY <2>1, <2>3, <3>1, <4>1 DEF e, AnnouncedInv
    <3>2. CASE o # e.pod
      <4>1. cache'[o] = cache[o]
        BY <2>2, <3>2 DEF InformerPart
      <4>2. PICK j \in DOMAIN log : j > applied /\ log[j].pod = o /\ log[j].kind = "del"
        BY <2>3, <4>1 DEF AnnouncedInv, DeletionAfter
      <4>3. j # applied + 1
        BY <3>2, <4>2 DEF e
      <4> QED
        BY <2>1, <4>2, <4>3 DEF DeletionAfter
    <3> QED
      BY <3>1, <3>2
  <2> QED
    BY <2>1, <2>3 DEF AnnouncedInv
<1>3. CASE PodEventHandler
  <2> DEFINE n == Len(log')
  <2>1. /\ log \in Seq(LogEntries) /\ log' \in Seq(LogEntries)
        /\ Len(log) = n + 1 /\ n \in Nat
        /\ \A i \in 1..n : log'[i] = log[i + 1]
        /\ applied' = applied - 1 /\ applied' \in 0..n /\ applied \in Nat
    BY <1>3, HandlerLog, LenProperties DEF InformerPart
  <2>2. DOMAIN log = 1..(n + 1) /\ DOMAIN log' = 1..n /\ UNCHANGED <<api, cache>>
    BY <1>3, <2>1, LenProperties DEF PodEventHandler
  <2> HIDE DEF n
  <2>3. ASSUME NEW k \in Nat, NEW o, DeletionAfter(log, k + 1, o)
        PROVE  DeletionAfter(log', k, o)
    <3>1. PICK j \in DOMAIN log : j > k + 1 /\ log[j].pod = o /\ log[j].kind = "del"
      BY <2>3 DEF DeletionAfter
    <3>2. j - 1 \in 1..n /\ j - 1 > k /\ (j - 1) + 1 = j
      BY <2>1, <2>2, <3>1
    <3>3. log'[j - 1] = log[j]
      BY <2>1, <3>2
    <3> QED
      BY <2>2, <3>1, <3>2, <3>3 DEF DeletionAfter
  <2>4. ASSUME NEW o \in Ordinals, Vanishes(cache[o], api[o])
        PROVE  DeletionAfter(log', applied', o)
    <3>1. DeletionAfter(log, applied, o)
      BY <2>4 DEF AnnouncedInv
    <3>2. applied' \in Nat /\ applied' + 1 = applied
      BY <2>1
    <3> QED
      BY <2>3, <3>1, <3>2
  <2>5. ASSUME NEW i \in DOMAIN log', Vanishes(log'[i].st, api[log'[i].pod])
        PROVE  DeletionAfter(log', i, log'[i].pod)
    <3>1. i \in Nat /\ i + 1 \in DOMAIN log /\ log'[i] = log[i + 1]
      BY <2>1, <2>2
    <3>2. DeletionAfter(log, i + 1, log[i + 1].pod)
      BY <2>5, <3>1 DEF AnnouncedInv
    <3> QED
      BY <2>3, <3>1, <3>2
  <2> QED
    BY <2>2, <2>4, <2>5 DEF AnnouncedInv
<1> QED
  BY <1>0, <1>1, <1>2, <1>3, OneWrite, NothingElse

(* A key is awaited and counted, or neither. *)
LEMMA ObservedCount ==
  ASSUME NEW e \in ExpectationRecords, NEW o \in Ordinals,
         e.dels <= Cardinality(e.uids), ~e.has => e.uids = {},
         NEW r, r = DeletionObserved(e, o)
  PROVE  r.dels <= Cardinality(r.uids) /\ r.uids = e.uids \ {o}
<1>1. CASE o \in e.uids
  <2>1. IsFiniteSet(e.uids) /\ Cardinality(e.uids) \in Nat /\ e.dels \in Int /\ e.has
    BY <1>1, OrdinalSets DEF ExpectationRecords
  <2>2. Cardinality(e.uids \ {o}) = Cardinality(e.uids) - 1
    BY <1>1, <2>1, FS_RemoveElement
  <2>3. r = [has |-> e.has, adds |-> e.adds, dels |-> e.dels - 1,
             uids |-> e.uids \ {o}, expired |-> e.expired]
    BY <1>1, <2>1 DEF DeletionObserved, ExpectationRecords
  <2>4. r.dels = e.dels - 1 /\ r.uids = e.uids \ {o}
    BY <2>3
  <2> QED
    BY <2>1, <2>2, <2>4
<1>2. CASE o \notin e.uids
  <2>1. e.uids \ {o} = e.uids
    BY <1>2
  <2> QED
    BY <1>2, <2>1 DEF DeletionObserved
<1> QED
  BY <1>1, <1>2

(* The two ways an expected deletion is owed: by the worker, or by the API  *)
(* server and the informer.                                                 *)
OwedByWorker(o) ==
    \/ o \in condemned /\ pc \in {"uncordon", "create"}
    \/ o \in todo \union inflight /\ pc = "delete"

OwedByServer(o) == api[o] = "term" \/ DeletionAfter(log, 0, o)

LEMMA OwedSplit ==
  ASSUME InformerPart, NEW o
  PROVE  DeletionOwed(o) <=> OwedByWorker(o) \/ OwedByServer(o)
<1>1. DOMAIN log = 1..Len(log) /\ Len(log) \in Nat
  BY LenProperties DEF InformerPart
<1>2. DeletionAfter(log, 0, o) <=> \E i \in DOMAIN log : log[i].pod = o /\ log[i].kind = "del"
  BY <1>1 DEF DeletionAfter
<1> QED
  BY <1>2 DEF DeletionOwed, OwedByWorker, OwedByServer

LEMMA ServerKeepsOwing ==
  ASSUME InformerPart, NEW q \in Ordinals, OwedByServer(q),
         UNCHANGED apiVars \/ \E o \in Ordinals, st \in PodStates : Writes(o, st)
  PROVE  OwedByServer(q)'
<1>1. CASE UNCHANGED apiVars
  BY <1>1 DEF OwedByServer, DeletionAfter, apiVars
<1>2. ASSUME NEW o \in Ordinals, NEW st \in PodStates, Writes(o, st) PROVE OwedByServer(q)'
  <2>1. /\ log' \in Seq(LogEntries) /\ log \in Seq(LogEntries)
        /\ Len(log') = Len(log) + 1 /\ Len(log) \in Nat
        /\ \A i \in 1..Len(log) : log'[i] = log[i]
        /\ log'[Len(log) + 1] = [pod |-> o, kind |-> Kind(api[o], st), st |-> st]
        /\ api'[o] = st /\ \A p \in Ordinals \ {o} : api'[p] = api[p]
    BY <1>2, WriteLog DEF InformerPart, Writes
  <2>2. DOMAIN log = 1..Len(log) /\ DOMAIN log' = 1..(Len(log) + 1)
    BY <2>1, LenProperties
  <2>3. CASE DeletionAfter(log, 0, q)
    BY <2>1, <2>2, <2>3 DEF OwedByServer, DeletionAfter
  <2>4. CASE api[q] = "term" /\ q # o
    BY <2>1, <2>4 DEF OwedByServer
  <2>5. CASE api[q] = "term" /\ q = o
    <3>1. st = "none"
      BY <1>2, <2>5 DEF Writes
    <3>2. log'[Len(log) + 1].pod = q /\ log'[Len(log) + 1].kind = "del"
          /\ Len(log) + 1 \in DOMAIN log' /\ Len(log) + 1 > 0
      BY <2>1, <2>2, <2>5, <3>1 DEF Kind
    <3> QED
      BY <3>2 DEF OwedByServer, DeletionAfter
  <2> QED
    BY <2>3, <2>4, <2>5 DEF OwedByServer
<1> QED
  BY <1>1, <1>2

(* The handler takes the event away and the key with it. *)
LEMMA HandlerKeepsOwed ==
  ASSUME InformerPart, exp \in ExpectationRecords, ~exp.has => exp.uids = {},
         ExpectedDeletionsHappen, PodEventHandler
  PROVE  ExpectedDeletionsHappen'
<1> DEFINE n == Len(log')
<1>1. /\ log \in Seq(LogEntries) /\ log' \in Seq(LogEntries)
      /\ Len(log) = n + 1 /\ n \in Nat /\ Head(log) = log[1] /\ log[1] \in LogEntries
      /\ \A i \in 1..n : log'[i] = log[i + 1]
  BY HandlerLog, LenProperties DEF InformerPart, PodEventHandler
<1>2. /\ DOMAIN log = 1..(n + 1) /\ DOMAIN log' = 1..n
      /\ UNCHANGED <<api, pc, condemned, todo, inflight>>
  BY <1>1, LenProperties DEF PodEventHandler, plan, batchVars
<1> HIDE DEF n
<1>3. /\ exp'.dels <= Cardinality(exp'.uids)
      /\ exp'.uids \subseteq exp.uids
      /\ log[1].kind = "del" => log[1].pod \notin exp'.uids
  <2>1. CASE log[1].kind = "del"
    <3>1. exp' = DeletionObserved(exp, log[1].pod) /\ log[1].pod \in Ordinals
      BY <1>1, <2>1 DEF PodEventHandler, Observe, LogEntries
    <3>2. exp'.dels <= Cardinality(exp'.uids) /\ exp'.uids = exp.uids \ {log[1].pod}
      BY <3>1, ObservedCount DEF ExpectedDeletionsHappen
    <3> QED
      BY <3>2
  <2>2. CASE log[1].kind # "del"
    <3>1. exp' = CreationsObserved(exp, 1) \/ exp' = exp
      BY <1>1, <2>2 DEF PodEventHandler, Observe
    <3>2. exp'.dels = exp.dels /\ exp'.uids = exp.uids
      BY <3>1 DEF CreationsObserved, ExpectationRecords
    <3> QED
      BY <2>2, <3>2 DEF ExpectedDeletionsHappen
  <2> QED
    BY <2>1, <2>2
<1>4. ASSUME NEW q \in exp'.uids PROVE DeletionOwed(q)'
  <2>1. DeletionOwed(q)
    BY <1>3 DEF ExpectedDeletionsHappen
  <2>2. ASSUME NEW i \in DOMAIN log, log[i].pod = q, log[i].kind = "del"
        PROVE  \E j \in DOMAIN log' : log'[j].pod = q /\ log'[j].kind = "del"
    <3>1. i # 1
      BY <1>3, <2>2
    <3>2. i - 1 \in 1..n /\ (i - 1) + 1 = i
      BY <1>1, <1>2, <3>1
    <3> QED
      BY <1>1, <1>2, <2>2, <3>2
  <2> QED
    BY <1>2, <2>1, <2>2 DEF DeletionOwed
<1> QED
  BY <1>3, <1>4 DEF ExpectedDeletionsHappen

LEMMA NoFailedDelete ==
  ASSUME Disturbances \subseteq Handled, pc = "delete" => failed = {}, [Next]_vars
  PROVE  pc' = "delete" => failed' = {}
<1>1. ASSUME NEW o \in Ordinals, CreateNodeSetPod(o) \/ ProcessNodeSetPod(o)
      PROVE  pc' # "delete"
  BY <1>1 DEF CreateNodeSetPod, CreateReturns, ProcessNodeSetPod
<1>2. ASSUME NEW o \in Ordinals, DeletePodFn(o) PROVE failed' = {}
  BY <1>2, NothingElse DEF DeletePodFn, Returned, PendingTermination
<1> QED
  BY <1>1, <1>2, NothingElse
     DEF Next, vars, Sync, Environment, SyncList, SyncUnsatisfied, ScaleOut, ScaleIn,
         ScaleDone, UncordonKept, StartBatch, CreatesOver, SyncEnd, Return, BeginLoop,
         InformerApplies, PodEventHandler, UserScales, PodFails, PodEvicted, PodStops,
         PodChanges, batchVars

LEMMA DeletionsStep ==
  ASSUME Disturbances \subseteq Handled, OwedInv, [Next]_vars
  PROVE  ExpectedDeletionsHappen'
<1>t. /\ InformerPart /\ WorkerPart /\ exp \in ExpectationRecords
      /\ ~exp.has => exp.uids = {}
      /\ exp.dels <= Cardinality(exp.uids)
  BY DEF OwedInv, CountInv, TypeInv, NoExpectations, ExpectedDeletionsHappen
<1>1. CASE PodEventHandler
  BY <1>1, <1>t, HandlerKeepsOwed DEF OwedInv
<1>2. CASE UNCHANGED apiVars \/ \E o \in Ordinals, st \in PodStates : Writes(o, st)
  <2>s. \A q \in Ordinals : OwedByServer(q) => OwedByServer(q)'
    BY <1>2, <1>t, ServerKeepsOwing
  <2>0. ASSUME exp'.dels <= Cardinality(exp'.uids), exp'.uids \subseteq exp.uids,
               \A q \in exp'.uids : OwedByWorker(q) => OwedByWorker(q)' \/ OwedByServer(q)'
        PROVE  ExpectedDeletionsHappen'
    <3>1. ASSUME NEW q \in exp'.uids PROVE DeletionOwed(q)'
      <4>1. q \in Ordinals /\ (OwedByWorker(q) \/ OwedByServer(q))
        BY <1>t, <2>0, OwedSplit DEF OwedInv, ExpectedDeletionsHappen, ExpectationRecords
      <4>2. OwedByWorker(q)' \/ OwedByServer(q)'
        BY <2>0, <2>s, <4>1
      <4> QED
        BY <4>2 DEF DeletionOwed, OwedByWorker, OwedByServer, DeletionAfter
    <3> QED
      BY <2>0, <3>1 DEF ExpectedDeletionsHappen
  <2>u. ASSUME exp' = exp,
               \A q \in exp.uids : OwedByWorker(q) => OwedByWorker(q)' \/ OwedByServer(q)'
        PROVE  ExpectedDeletionsHappen'
    BY <1>t, <2>0, <2>u
  <2>1. CASE ScaleOut
    <3>1. exp' = RaiseExpectations(ExpectDeletions(exp, {}), Burst(-Diff)) /\ Burst(-Diff) \in Int
      BY <1>t, <2>1, DiffType DEF ScaleOut
    <3>2. exp'.dels = Cardinality({}) /\ exp'.uids = {}
      BY <1>t, <3>1, ExpectAnew
    <3> QED
      BY <3>2, FS_EmptySet DEF ExpectedDeletionsHappen
  <2>2. CASE ScaleIn
    <3>1. PICK S \in SUBSET Ordinals :
            condemned' = S /\ exp' = RaiseExpectations(ExpectDeletions(exp, S), 0)
      BY <2>2 DEF ScaleIn, Exists
    <3>2. exp'.dels = Cardinality(S) /\ exp'.uids = S
      BY <1>t, <3>1, ExpectAnew
    <3>3. Cardinality(S) \in Nat
      BY OrdinalSets
    <3>4. pc' = "uncordon"
      BY <2>2 DEF ScaleIn
    <3> QED
      BY <3>1, <3>2, <3>3, <3>4 DEF ExpectedDeletionsHappen, DeletionOwed
  <2>3. CASE ScaleDone
    <3>1. exp'.dels = 0 /\ exp'.uids = exp.uids /\ pc = "check"
      BY <2>3 DEF ScaleDone, SetExpectations
    <3>2. Cardinality(exp.uids) \in Nat
      BY <1>t, OrdinalSets DEF ExpectationRecords
    <3> QED
      BY <2>0, <3>1, <3>2 DEF OwedByWorker
  <2>4. CASE CreatesOver
    <3>1. exp'.dels = exp.dels /\ exp'.uids = exp.uids
      BY <1>t, <2>4 DEF CreatesOver, CreationsObserved, ExpectationRecords
    <3>2. pc = "create" /\ pc' = "delete" /\ todo' = condemned
      BY <2>4 DEF CreatesOver, BeginLoop
    <3> QED
      BY <1>t, <2>0, <3>1, <3>2 DEF OwedByWorker
  <2>5. CASE SyncEnd
    <3>1. \A q : ~OwedByWorker(q)
      BY <2>5 DEF SyncEnd, LoopOver, OwedByWorker, OwedInv
    <3> QED
      BY <2>5, <2>u, <3>1 DEF SyncEnd
  <2>6. ASSUME NEW o \in Ordinals, DeletePodFn(o) PROVE ExpectedDeletionsHappen'
    <3>1. /\ pc = "delete" /\ pc' = "delete" /\ condemned' = condemned
          /\ todo' \union inflight' = (todo \union inflight) \ {o}
      BY <1>t, <2>6 DEF DeletePodFn, Returned, PendingTermination, plan, WorkerPart
    <3>2. \A q \in Ordinals \ {o} : OwedByWorker(q) => OwedByWorker(q)'
      BY <3>1 DEF OwedByWorker
    <3>3. CASE exp' = DeletionObserved(exp, o)
      <4>1. exp'.dels <= Cardinality(exp'.uids) /\ exp'.uids = exp.uids \ {o}
        BY <1>t, <3>3, ObservedCount
      <4>2. exp.uids \subseteq Ordinals
        BY <1>t DEF ExpectationRecords
      <4> QED
        BY <2>0, <3>2, <4>1, <4>2
    <3>4. ASSUME exp' = exp, OwedByServer(o)' PROVE ExpectedDeletionsHappen'
      <4>1. exp.uids \subseteq Ordinals
        BY <1>t DEF ExpectationRecords
      <4> QED
        BY <2>u, <3>2, <3>4, <4>1
    <3>5. ASSUME Vanishes(cache[o], api[o]) PROVE OwedByServer(o)'
      <4>1. DeletionAfter(log, applied, o)
        BY <3>5 DEF OwedInv, AnnouncedInv
      <4>2. OwedByServer(o)
        BY <1>t, <4>1, LenProperties DEF OwedByServer, DeletionAfter, InformerPart
      <4> QED
        BY <2>s, <4>2
    <3>6. CASE cache[o] = "term" /\ exp' = exp
      <4>1. Vanishes(cache[o], api[o]) \/ OwedByServer(o)
        BY <3>6 DEF Vanishes, OwedByServer
      <4> QED
        BY <2>s, <3>4, <3>5, <3>6, <4>1
    <3>7. CASE cache[o] \in {"live", "failed"} /\ Delete(o) /\ exp' = exp
      <4>1. CASE api[o] \in {"live", "failed"}
        <5>1. api'[o] = "term"
          BY <1>t, <3>7, <4>1, WriteLog DEF Delete, InformerPart, PodStates
        <5> QED
          BY <3>4, <3>7, <5>1 DEF OwedByServer
      <4>2. CASE api[o] \in {"none", "term"}
        <5>1. Vanishes(cache[o], api[o]) \/ OwedByServer(o)
          BY <3>7, <4>2 DEF Vanishes, OwedByServer
        <5> QED
          BY <2>s, <3>4, <3>5, <3>7, <5>1
      <4> QED
        BY <1>t, <4>1, <4>2 DEF InformerPart, PodStates
    <3> QED
      BY <2>6, <3>3, <3>6, <3>7, NothingElse DEF DeletePodFn, PendingTermination
  <2>7. ASSUME NEW o \in Ordinals, CreateNodeSetPod(o) \/ ProcessNodeSetPod(o)
        PROVE  ExpectedDeletionsHappen'
    <3>1. UNCHANGED <<exp, pc, condemned>> /\ pc # "delete"
      BY <2>7 DEF CreateNodeSetPod, CreateReturns, ProcessNodeSetPod, plan
    <3> QED
      BY <2>u, <3>1 DEF OwedByWorker
  <2>8. ASSUME UNCHANGED <<exp, pc, condemned, todo, inflight>> PROVE ExpectedDeletionsHappen'
    BY <2>u, <2>8 DEF OwedByWorker
  <2>9. CASE StartBatch
    <3>1. UNCHANGED <<exp, pc, condemned>> /\ todo' \union inflight' = todo \union inflight
      BY <2>9 DEF StartBatch, plan
    <3> QED
      BY <2>u, <3>1 DEF OwedByWorker
  <2>10. CASE SyncList \/ SyncUnsatisfied \/ UncordonKept
    <3>1. UNCHANGED exp /\ \A q : OwedByWorker(q) => OwedByWorker(q)'
      BY <2>10 DEF SyncList, SyncUnsatisfied, UncordonKept, OwedByWorker, plan
    <3> QED
      BY <2>u, <3>1
  <2> QED
    BY <1>1, <2>1, <2>2, <2>3, <2>4, <2>5, <2>6, <2>7, <2>8, <2>9, <2>10, NothingElse
       DEF Next, vars, Sync, Environment, InformerApplies, UserScales, PodFails, PodEvicted,
           PodStops, PodChanges, plan, batchVars
<1> QED
  BY <1>1, <1>2, OneWrite, NothingElse DEF InformerApplies

LEMMA OwedStep ==
  ASSUME Disturbances \subseteq Handled, OwedInv, [Next]_vars
  PROVE  OwedInv'
<1>1. CountInv /\ InformerPart /\ AnnouncedInv
  BY DEF OwedInv, CountInv, TypeInv
<1> QED
  BY <1>1, CountStep, AnnouncedStep, NoFailedDelete, DeletionsStep DEF OwedInv

(* Under the same condition a deletion ScaleIn expects is never waited for  *)
(* in vain: doPodScale has still to process the pod, the pod is terminating *)
(* or its event is on the way.  No other pass of the worker, and no event   *)
(* in whatever order, can leave the NodeSet asleep until the expectations   *)
(* expire.                                                                  *)
THEOREM DeletionsCorrect ==
  ASSUME Disturbances \subseteq Handled
  PROVE  Spec => []ExpectedDeletionsHappen
<1>1. OwedInv /\ [Next]_vars => OwedInv'
  BY OwedStep
<1>2. OwedInv => ExpectedDeletionsHappen
  BY DEF OwedInv
<1> QED
  BY <1>1, <1>2, OwedInit, PTL DEF Spec
=============================================================================
