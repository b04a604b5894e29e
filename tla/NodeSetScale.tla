---------------------------- MODULE NodeSetScale ----------------------------
(***************************************************************************)
(* Scaling a NodeSet in StatefulSet mode: Sync, syncNodeSet, doPodScale,    *)
(* processCondemned and doPodProcessing of nodeset_sync.go, the batches of  *)
(* SlowStartBatch, CreateNodeSetPod and DeleteNodeSetPod of podcontrol.go   *)
(* and the pod event handler - a controller that acts on a stale cache and  *)
(* counts events to learn when its own writes have arrived in it.           *)
(*                                                                         *)
(* A pod is named by its ordinal.  What the API server does to a pod is     *)
(* logged; the informer applies the log to its store in order, and the      *)
(* event handler runs on an entry some time after the store has it.         *)
(* Draining is NodeSetDrain's subject: here a condemned pod is found to be  *)
(* drained or not.  Which pods are condemned is PodSelection's: any are.    *)
(***************************************************************************)
EXTENDS Expectations, Sequences, SequencesExt

CONSTANTS
    MaxReplicas,      \* bound: the largest spec.replicas a user asks for
    BurstReplicas,    \* burstReplicas: most creates or deletes of one pass
    Disturbances,     \* kinds of outside events that may happen
    MaxDisturbances   \* bound: how many of them in a behaviour

AllDisturbances ==
    { "scale", "fail", "evict", "busy", "create", "pvc", "uncordon", "delete",
      "namespace", "relist", "restart", "expire" }

ASSUME ReplicasAssumption == MaxReplicas \in Nat
ASSUME BurstAssumption == BurstReplicas \in Nat \ {0}
ASSUME DisturbancesAssumption ==
    Disturbances \subseteq AllDisturbances /\ MaxDisturbances \in Nat

VARIABLES
    replicas,   \* spec.replicas
    api,        \* API server: state of the pod with each ordinal
    log,        \* changes of api that the event handler has not seen
    applied,    \* how many of them the informer's store already holds
    cache,      \* the informer's store
    exp,        \* the expectations of this NodeSet
    pc,         \* where the worker is
    want,       \* replicas, as read by the worker
    snap,       \* the pods the worker listed
    todo,       \* pods of the current loop not started yet
    inflight,   \* pods of the current batch, each in its own goroutine
    condemned,  \* pods to delete when the creates are through
    batch,      \* size of the next batch of SlowStartBatch
    failed,     \* pods of the current loop whose call returned an error
    numCreate,  \* creates expected in this pass
    created,    \* successfulCreations so far
    hi,         \* history: the most replicas ever requested
    budget      \* disturbances left

apiVars == <<api, log>>
informer == <<applied, cache>>
batchVars == <<todo, inflight, batch, failed>>
plan == <<want, snap, condemned, numCreate, created>>
vars == <<replicas, apiVars, informer, exp, pc, plan, batchVars, hi, budget>>

Ordinals == 0..(MaxReplicas - 1)
PodStates == {"none", "live", "failed", "term"}
Exists(pods) == { o \in Ordinals : pods[o] # "none" }
Kinds == {"add", "update", "del"}

TypeOK ==
    /\ replicas \in 0..MaxReplicas
    /\ api \in [Ordinals -> PodStates]
    /\ log \in Seq([pod : Ordinals, kind : Kinds, st : PodStates])
    /\ applied \in 0..Len(log)
    /\ cache \in [Ordinals -> PodStates]
    /\ exp \in [has : BOOLEAN, adds : Int, dels : Int, uids : SUBSET Ordinals,
                expired : BOOLEAN]
    /\ pc \in {"idle", "check", "uncordon", "create", "delete", "process"}
    /\ want \in 0..MaxReplicas
    /\ snap \in [Ordinals -> PodStates]
    /\ todo \in SUBSET Ordinals
    /\ inflight \in SUBSET Ordinals
    /\ condemned \in SUBSET Ordinals
    /\ batch \in Nat
    /\ failed \in SUBSET Ordinals
    /\ numCreate \in 0..MaxReplicas
    /\ created \in 0..MaxReplicas
    /\ hi \in 0..MaxReplicas
    /\ budget \in 0..MaxDisturbances

NoPods == [o \in Ordinals |-> "none"]

Init ==
    /\ replicas \in 0..MaxReplicas
    /\ api = NoPods
    /\ log = <<>>
    /\ applied = 0
    /\ cache = NoPods
    /\ exp = NoExpectations
    /\ pc = "idle"
    /\ want = 0
    /\ snap = NoPods
    /\ todo = {}
    /\ inflight = {}
    /\ condemned = {}
    /\ batch = 1
    /\ failed = {}
    /\ numCreate = 0
    /\ created = 0
    /\ hi = replicas
    /\ budget = MaxDisturbances

Disturb(kind) == kind \in Disturbances /\ budget > 0 /\ budget' = budget - 1
Undisturbed == UNCHANGED budget

-----------------------------------------------------------------------------
(* API server and informer (external) *)

(* What the informer makes of a change; a pod first seen while terminating  *)
(* is a deletion to createPod, and so is an update that sets the timestamp. *)
Kind(old, new) ==
    IF new \in {"term", "none"} THEN "del"
    ELSE IF old = "none" THEN "add" ELSE "update"

Write(o, st) ==
    /\ api' = [api EXCEPT ![o] = st]
    /\ log' = Append(log, [pod |-> o, kind |-> Kind(api[o], st), st |-> st])

(* A graceful delete; a pod that is terminating or gone is left alone. *)
Delete(o) ==
    IF api[o] \in {"live", "failed"} THEN Write(o, "term") ELSE UNCHANGED apiVars

InformerApplies ==
    /\ applied < Len(log)
    /\ applied' = applied + 1
    /\ cache' = [cache EXCEPT ![log[applied + 1].pod] = log[applied + 1].st]
    /\ UNCHANGED <<replicas, apiVars, exp, pc, plan, batchVars, hi, budget>>

(* A broken watch is replaced by a list: changes that cancelled out, or that *)
(* replaced a pod by another of the same name, are never seen as such.      *)
Relist ==
    /\ Disturb("relist")
    /\ applied < Len(log)
    /\ log' = SubSeq(log, 1, applied)
                \o SetToSeq({ [pod |-> o, kind |-> Kind(cache[o], api[o]), st |-> api[o]] :
                                o \in { q \in Ordinals : cache[q] # api[q] } })
    /\ UNCHANGED <<replicas, api, informer, exp, pc, plan, batchVars, hi>>

-----------------------------------------------------------------------------
(* The pod event handler: createPod, updatePod, deletePod *)

Observe(e, event) ==
    CASE event.kind = "add" -> CreationsObserved(e, 1)
      [] event.kind = "del" -> DeletionObserved(e, event.pod)
      [] OTHER -> e

PodEventHandler ==
    /\ applied > 0
    /\ exp' = Observe(exp, Head(log))
    /\ log' = Tail(log)
    /\ applied' = applied - 1
    /\ UNCHANGED <<replicas, api, cache, pc, plan, batchVars, hi, budget>>

-----------------------------------------------------------------------------
(* SlowStartBatch: batches of 1, 2, 4, ... concurrent calls; a failure lets *)
(* the calls of its batch finish and skips the rest.                        *)

BeginLoop(S) ==
    /\ todo' = S
    /\ inflight' = {}
    /\ batch' = 1
    /\ failed' = {}

LoopOver == inflight = {} /\ (todo = {} \/ failed # {})

(* Creates are started in the order of their ordinals.  The order of the    *)
(* condemned pods is SplitActivePods's, so any.                             *)
StartBatch ==
    /\ pc \in {"create", "delete", "process"}
    /\ inflight = {} /\ todo # {} /\ failed = {}
    /\ \E S \in SUBSET todo :
         /\ Cardinality(S) = Min({batch, Cardinality(todo)})
         /\ pc = "create" => \A o \in S, q \in todo \ S : o < q
         /\ inflight' = S
         /\ todo' = todo \ S
    /\ batch' = 2 * batch
    /\ UNCHANGED <<replicas, apiVars, informer, exp, pc, plan, failed, hi, budget>>

Returned(o, ok) ==
    /\ inflight' = inflight \ {o}
    /\ failed' = IF ok THEN failed ELSE failed \union {o}
    /\ UNCHANGED <<todo, batch>>

(* The locals of the reconcile go with it. *)
Return ==
    /\ pc' = "idle"
    /\ want' = 0
    /\ snap' = NoPods
    /\ condemned' = {}
    /\ numCreate' = 0
    /\ created' = 0
    /\ BeginLoop({})

-----------------------------------------------------------------------------
(* Sync: read the NodeSet and list its pods, and only then look whether the *)
(* expectations are satisfied.                                              *)

SyncList ==
    /\ pc = "idle"
    /\ pc' = "check"
    /\ want' = replicas
    /\ snap' = cache
    /\ UNCHANGED <<replicas, apiVars, informer, exp, condemned, numCreate, created,
                   batchVars, hi, budget>>

(* Unsatisfied: only the status is written. *)
SyncUnsatisfied ==
    /\ pc = "check"
    /\ ~SatisfiedExpectations(exp)
    /\ Return
    /\ UNCHANGED <<replicas, apiVars, informer, exp, hi, budget>>

\* mutant: off by one
DiffOffByOne == Cardinality(Exists(snap)) + 1 - want

(* len(podsNewScaling) - replicaCount.  Pods that are failed or already     *)
(* terminating count like any other.                                        *)
Diff == Cardinality(Exists(snap)) - want

\* mutant: ordinals are counted from one
OrdinalsFromOne(used, n) ==
    LET free == Ordinals \ (used \union {0})
    IN  { o \in free : Cardinality({ q \in free : q < o }) < n }

(* The n smallest ordinals that no listed pod uses. *)
FreeOrdinals(used, n) ==
    LET free == Ordinals \ used
    IN  { o \in free : Cardinality({ q \in free : q < o }) < n }

(* numCreate and numDelete of doPodScale. *)
Burst(n) == IF n > BurstReplicas THEN BurstReplicas ELSE n

ScaleOut ==
    /\ pc = "check"
    /\ SatisfiedExpectations(exp)
    /\ Diff < 0
    /\ numCreate' = Burst(-Diff)
    /\ exp' = RaiseExpectations(ExpectDeletions(exp, {}), Burst(-Diff))
    /\ BeginLoop(FreeOrdinals(Exists(snap), Burst(-Diff)))
    /\ condemned' = {}
    /\ created' = 0
    /\ pc' = "uncordon"
    /\ UNCHANGED <<replicas, apiVars, informer, want, snap, hi, budget>>

ScaleIn ==
    /\ pc = "check"
    /\ SatisfiedExpectations(exp)
    /\ Diff > 0
    /\ \E S \in SUBSET Exists(snap) :
         /\ Cardinality(S) = Burst(Diff)
         /\ condemned' = S
         /\ exp' = RaiseExpectations(ExpectDeletions(exp, S), 0)
    /\ BeginLoop({})
    /\ numCreate' = 0
    /\ created' = 0
    /\ pc' = "uncordon"
    /\ UNCHANGED <<replicas, apiVars, informer, want, snap, hi, budget>>

(* doPodProcessing: every listed pod is looked at. *)
ScaleDone ==
    /\ pc = "check"
    /\ SatisfiedExpectations(exp)
    /\ Diff = 0
    /\ exp' = SetExpectations(exp, 0, 0)
    /\ BeginLoop(Exists(snap))
    /\ pc' = "process"
    /\ UNCHANGED <<replicas, apiVars, informer, plan, hi, budget>>

-----------------------------------------------------------------------------
(* doPodScale, after the expectations are set *)

(* The uncordon loop over podsToKeep - all listed pods, or want of them when *)
(* scaling in - as a whole; its error returns at once.                      *)
UncordonKept ==
    /\ pc = "uncordon"
    /\ pc' = "create"
    /\ UNCHANGED <<replicas, apiVars, informer, exp, plan, batchVars, hi, budget>>

UncordonFails ==
    /\ pc = "uncordon"
    /\ Exists(snap) # {} /\ want > 0
    /\ Disturb("uncordon")
    /\ Return
    /\ UNCHANGED <<replicas, apiVars, informer, exp, hi>>

\* mutant: a success is counted by the call and by the batch
CreateCountedTwice(o, ok) ==
    /\ Returned(o, ok)
    /\ created' = IF ok THEN created + 2 ELSE created
    /\ UNCHANGED <<replicas, informer, exp, pc, want, snap, condemned, numCreate, hi>>

CreateReturns(o, ok) ==
    /\ Returned(o, ok)
    /\ created' = IF ok THEN created + 1 ELSE created
    /\ UNCHANGED <<replicas, informer, exp, pc, want, snap, condemned, numCreate, hi>>

(* CreateNodeSetPod *)
CreateNodeSetPod(o) ==
    /\ pc = "create" /\ o \in inflight
    /\ \/ /\ api[o] = "none"
          /\ Write(o, "live")
          /\ CreateReturns(o, TRUE)
          /\ Undisturbed
       \/ /\ api[o] # "none"       \* AlreadyExists
          /\ CreateReturns(o, FALSE)
          /\ UNCHANGED apiVars
          /\ Undisturbed
       \/ /\ api[o] = "none"       \* UpdatePodPVCsForRetentionPolicy fails
          /\ Write(o, "live")
          /\ CreateReturns(o, FALSE)
          /\ Disturb("pvc")
       \/ /\ CreateReturns(o, FALSE)
          /\ UNCHANGED apiVars
          /\ Disturb("create")
       \/ /\ CreateReturns(o, TRUE)  \* NamespaceTerminatingCause is dropped
          /\ UNCHANGED apiVars
          /\ Disturb("namespace")

\* mutant: only the failed creates are accounted for, not the skipped ones
FailedPods == Cardinality(failed)

skippedPods == numCreate - created

(* Skipped and failed creates are no longer expected; on with the deletes. *)
CreatesOver ==
    /\ pc = "create" /\ LoopOver
    /\ exp' = CreationsObserved(exp, skippedPods)
    /\ BeginLoop(condemned)
    /\ pc' = "delete"
    /\ UNCHANGED <<replicas, apiVars, informer, plan, hi, budget>>

\* mutant: a deletion put off is still expected
StillExpected(o) == Returned(o, TRUE) /\ UNCHANGED exp

(* The pod is left to drain until a later reconcile. *)
PendingTermination(o) == Returned(o, TRUE) /\ exp' = DeletionObserved(exp, o)

(* processCondemned inside deletePodFn.  The pod is read again. *)
DeletePodFn(o) ==
    /\ pc = "delete" /\ o \in inflight
    /\ \/ /\ cache[o] = "none"     \* NotFound
          /\ exp' = DeletionObserved(exp, o)
          /\ Returned(o, TRUE)
          /\ UNCHANGED apiVars
          /\ Undisturbed
       \/ /\ cache[o] = "term"
          /\ Returned(o, TRUE)
          /\ UNCHANGED <<apiVars, exp>>
          /\ Undisturbed
       \/ /\ cache[o] \in {"live", "failed"}  \* drained
          /\ Delete(o)
          /\ Returned(o, TRUE)
          /\ UNCHANGED exp
          /\ Undisturbed
       \/ /\ cache[o] \in {"live", "failed"}  \* not drained yet
          /\ PendingTermination(o)
          /\ UNCHANGED apiVars
          /\ Disturb("busy")
       \/ /\ exp' = DeletionObserved(exp, o)  \* an error on the way
          /\ Returned(o, FALSE)
          /\ UNCHANGED apiVars
          /\ Disturb("delete")
    /\ UNCHANGED <<replicas, informer, pc, plan, hi>>

(* A pod listed as failed or succeeded is deleted, without an expectation;  *)
(* UpdateNodeSetPod, for the others, finds name and storage as they should. *)
ProcessNodeSetPod(o) ==
    /\ pc = "process" /\ o \in inflight
    /\ \/ snap[o] = "failed" /\ Delete(o) /\ Returned(o, TRUE) /\ Undisturbed
       \/ snap[o] # "failed" /\ UNCHANGED apiVars /\ Returned(o, TRUE) /\ Undisturbed
       \/ UNCHANGED apiVars /\ Returned(o, FALSE) /\ Disturb("delete")
    /\ UNCHANGED <<replicas, informer, exp, pc, plan, hi>>

SyncEnd ==
    /\ pc \in {"delete", "process"} /\ LoopOver
    /\ Return
    /\ UNCHANGED <<replicas, apiVars, informer, exp, hi, budget>>

Sync ==
    \/ SyncList \/ SyncUnsatisfied \/ ScaleOut \/ ScaleIn \/ ScaleDone
    \/ UncordonKept \/ StartBatch \/ CreatesOver \/ SyncEnd
    \/ \E o \in Ordinals :
         CreateNodeSetPod(o) \/ DeletePodFn(o) \/ ProcessNodeSetPod(o)

-----------------------------------------------------------------------------
(* Everything else *)

UserScales(n) ==
    /\ Disturb("scale")
    /\ n # replicas
    /\ replicas' = n
    /\ hi' = IF n > hi THEN n ELSE hi
    /\ UNCHANGED <<apiVars, informer, exp, pc, plan, batchVars>>

PodChanges == UNCHANGED <<replicas, informer, exp, pc, plan, batchVars, hi>>

PodFails(o) == api[o] = "live" /\ Disturb("fail") /\ Write(o, "failed") /\ PodChanges

(* kubectl delete, an eviction, or syncSlurmNodes of the same reconcile. *)
PodEvicted(o) ==
    /\ api[o] \in {"live", "failed"} /\ Disturb("evict") /\ Write(o, "term") /\ PodChanges

PodStops(o) == api[o] = "term" /\ Undisturbed /\ Write(o, "none") /\ PodChanges

(* Five minutes pass without the expectations being fulfilled. *)
ExpectationsExpire ==
    /\ "expire" \in Disturbances
    /\ ~SatisfiedExpectations(exp)
    /\ exp' = [exp EXCEPT !.expired = TRUE]
    /\ UNCHANGED <<replicas, apiVars, informer, pc, plan, batchVars, hi, budget>>

(* A new process starts with an empty store of expectations and a synced    *)
(* cache, whose handler has yet to see the pods it was filled with.         *)
OperatorRestarts ==
    /\ Disturb("restart")
    /\ exp' = NoExpectations
    /\ cache' = api
    /\ log' = SetToSeq({ [pod |-> o, kind |-> Kind("none", api[o]), st |-> api[o]] :
                           o \in Exists(api) })
    /\ applied' = Cardinality(Exists(api))
    /\ Return
    /\ UNCHANGED <<replicas, api, hi>>

Environment ==
    \/ InformerApplies \/ Relist \/ PodEventHandler \/ OperatorRestarts
    \/ UncordonFails \/ ExpectationsExpire
    \/ \E n \in 0..MaxReplicas : UserScales(n)
    \/ \E o \in Ordinals : PodFails(o) \/ PodEvicted(o) \/ PodStops(o)

Next == Sync \/ Environment

Spec == Init /\ [][Next]_vars

(* The NodeSet is queued again after every reconcile (durationStore: 30     *)
(* seconds at the latest, or the rate limiter after an error), watches and  *)
(* handlers run, the kubelet stops terminating pods and time passes.        *)
Fairness ==
    /\ WF_vars(Sync)
    /\ WF_vars(InformerApplies)
    /\ WF_vars(PodEventHandler)
    /\ WF_vars(ExpectationsExpire)
    /\ \A o \in Ordinals : WF_vars(PodStops(o))

LiveSpec == Spec /\ Fairness

-----------------------------------------------------------------------------
(* Properties *)

(* No pod ever gets an ordinal that its NodeSet has not been large enough   *)
(* for, however stale the list of pods that syncNodeSet picks the free      *)
(* ordinals from: pods stay within the Slurm node names users asked for.    *)
OrdinalsWithinRequest == \A o \in Exists(api) : o < hi

(* Its inductive strengthening: what the worker read and what it is about   *)
(* to create were within the request when it looked.                        *)
RequestInv ==
    /\ replicas \in 0..MaxReplicas /\ want \in 0..MaxReplicas /\ hi \in Nat
    /\ replicas <= hi /\ want <= hi
    /\ api \in [Ordinals -> PodStates]
    /\ OrdinalsWithinRequest
    /\ pc \in {"uncordon", "create"} =>
         todo \union inflight \subseteq { o \in Ordinals : o < hi }

PendingAdds == Cardinality({ i \in DOMAIN log : log[i].kind = "add" })
Uncreated == IF pc \in {"uncordon", "create"} THEN numCreate - created ELSE 0

(* The disturbances doPodScale accounts for.  After the others expectations *)
(* are left over or were never due, or events never reach the handler.      *)
Handled == {"scale", "fail", "evict", "busy", "create"}

(* Each pod that doPodScale creates is observed once, by the handler or by  *)
(* the loop over the skipped pods: the creations still expected are those   *)
(* still to be issued and those whose event is still to be handled.         *)
CreationsCountedOnce == exp.has => exp.adds = PendingAdds + Uncreated

(* An expected deletion is one that doPodScale has still to process or one  *)
(* whose event is on its way, so the NodeSet is never put to sleep until    *)
(* the expectations expire.                                                 *)
DeletionOwed(o) ==
    \/ o \in condemned /\ pc \in {"uncordon", "create"}
    \/ o \in todo \union inflight /\ pc = "delete"
    \/ api[o] = "term"
    \/ \E i \in DOMAIN log : log[i].pod = o /\ log[i].kind = "del"

ExpectedDeletionsHappen ==
    exp.dels <= Cardinality(exp.uids) /\ \A o \in exp.uids : DeletionOwed(o)

(* When users, nodes and errors leave it alone, the NodeSet ends up with    *)
(* spec.replicas live pods and no others, whatever was lost before.         *)
ConvergesToReplicas ==
    <>[](/\ Exists(api) = { o \in Ordinals : api[o] = "live" }
         /\ Cardinality(Exists(api)) = replicas)

-----------------------------------------------------------------------------
(* A statement of a comment that the code contradicts *)

(* nodeset_sync.go, doPodScale: "Any skipped pods that we never attempted   *)
(* to start shouldn't be expected."                                         *)
SkippedCreatesNotExpected == pc = "idle" => exp.adds <= PendingAdds
=============================================================================
