--------------------------- MODULE NodeSetRollout ---------------------------
(***************************************************************************)
(* What follows a change of a NodeSet's template: the ControllerRevisions  *)
(* that record templates (nodeset_history.go and historycontrol.go), and   *)
(* the rolling update that replaces the pods of other revisions, over many *)
(* reconciles (Sync, syncNodeSet, syncUpdate of nodeset_sync.go).          *)
(*                                                                         *)
(* The reconciler reads the NodeSet, the revisions and the pods from       *)
(* informer caches that lag behind the API server.  A pod's cordon and the *)
(* drain of its Slurm node are one flag here, and the expectations are the *)
(* set of ordinals still owed an event: modules NodeSetDrain and           *)
(* NodeSetScale follow those two in detail.  The strategy is               *)
(* RollingUpdate, the mode StatefulSet and the replica count fixed.        *)
(***************************************************************************)
EXTENDS Integers, FiniteSets

CONSTANTS
    Templates,       \* pod templates (with the other fields getPatch saves)
    Hashes,          \* values of the hash function of the revision library
    HashOf,          \* [Templates \X Nat -> Hashes]: a template and a collision count
    Labelled,        \* templates whose labels match the NodeSet's selector
    Broken,          \* templates whose pods never become ready
    Replicas,        \* spec.replicas
    MaxUnavailable,  \* rollingUpdate.maxUnavailable, scaled to a number of pods
    HistoryLimit,    \* spec.revisionHistoryLimit
    MaxCollisions,   \* bound: status.collisionCount
    MaxDisturbances  \* bound: edits, failed calls, restarts, lost readiness

ASSUME TemplatesAssumption == Labelled \subseteq Templates /\ Broken \subseteq Templates
ASSUME HashAssumption == \A t \in Templates, c \in 0..MaxCollisions : HashOf[t, c] \in Hashes
ASSUME SizesAssumption ==
    /\ Replicas \in Nat /\ MaxUnavailable \in Nat /\ HistoryLimit \in Nat
    /\ MaxCollisions \in Nat /\ MaxDisturbances \in Nat

VARIABLES
    template,        \* the NodeSet's spec.template, in the API server
    collisions,      \* status.collisionCount, in the API server
    seen,            \* the NodeSet in the cache
    revs, revCache,  \* the ControllerRevisions, by name: API server and cache
    pods, podCache,  \* the pods, by ordinal: API server and cache
    expected,        \* ordinals whose creation or deletion is still to be observed
    pc,              \* where the reconcile is
    run,             \* its local variables
    budget           \* disturbances still to come

nodeset == <<template, collisions, seen>>
history == <<revs, revCache>>
workers == <<pods, podCache, expected>>
vars == <<nodeset, history, workers, pc, run, budget>>

-----------------------------------------------------------------------------
(* State *)

Ordinals == 0..(Replicas - 1)
Counts == 0..MaxCollisions
Numbers == 1..(MaxDisturbances + 2)

(* ControllerRevisionName: a revision is named after the NodeSet and a hash, *)
(* and so never equals the hash that labels it and its pods.                 *)
Name(hash) == <<"nodeset", hash>>
Names == { Name(h) : h \in Hashes }

NoRev == [template |-> CHOOSE t \in Templates : TRUE,
          hash |-> CHOOSE h \in Hashes : TRUE, num |-> 0, owned |-> FALSE]
Revisions == [template : Templates, hash : Hashes, num : Numbers, owned : BOOLEAN]

NoPod == [st |-> "none", template |-> NoRev.template, hash |-> NoRev.hash,
          cordon |-> FALSE, busy |-> FALSE]
NewPod(t, h) == [NoPod EXCEPT !.st = "starting", !.template = t, !.hash = h]
PodRecords == [st : {"none", "starting", "ready", "term"}, template : Templates,
               hash : Hashes, cordon : BOOLEAN, busy : BOOLEAN]

NoSnap == [o \in Ordinals |-> NoPod]
NoRun == [template |-> NoRev.template, collisions |-> 0, orphans |-> {}, listed |-> {},
          name |-> Name(NoRev.hash), hash |-> NoRev.hash, snap |-> NoSnap, split |-> {}, healthy |-> {}]

Steps == {"idle", "revisions", "sync", "update", "healthy", "truncate", "status"}

TypeOK ==
    /\ template \in Templates /\ collisions \in Counts
    /\ seen \in [template : Templates, collisions : Counts]
    /\ revs \in [Names -> Revisions \union {NoRev}]
    /\ revCache \in [Names -> Revisions \union {NoRev}]
    /\ pods \in [Ordinals -> PodRecords] /\ podCache \in [Ordinals -> PodRecords]
    /\ \A o \in Ordinals : pods[o].busy => pods[o].st = "ready"
    /\ expected \subseteq Ordinals
    /\ pc \in Steps
    /\ run.template \in Templates /\ run.collisions \in Counts /\ run.listed \subseteq [name : Names, num : Numbers]
    /\ run.orphans \subseteq Names
    /\ run.name \in Names /\ run.hash \in Hashes
    /\ run.split \subseteq Ordinals /\ run.healthy \subseteq Ordinals
    /\ run.snap \in [Ordinals -> PodRecords]
    /\ budget \in 0..MaxDisturbances

(* A NodeSet whose first rollout is over: one revision, every pod ready. *)
Init ==
    /\ template \in Templates \ Broken
    /\ collisions = 0
    /\ seen = [template |-> template, collisions |-> 0]
    /\ LET hash == HashOf[template, 0]
       IN  /\ revs = [n \in Names |->
                        IF n = Name(hash)
                        THEN [template |-> template, hash |-> hash, num |-> 1, owned |-> TRUE]
                        ELSE NoRev]
           /\ pods = [o \in Ordinals |-> [NewPod(template, hash) EXCEPT !.st = "ready"]]
    /\ revCache = revs /\ podCache = pods
    /\ expected = {}
    /\ pc = "idle" /\ run = NoRun
    /\ budget = MaxDisturbances

-----------------------------------------------------------------------------
(* Sync: the revision of the template *)

(* listRevisions: revisions carry the labels of the template, so those of a  *)
(* template without the selector labels are never listed.                    *)
listRevisions == { n \in Names : revCache[n] # NoRev /\ revCache[n].template \in Labelled }

Orphans == { n \in listRevisions : ~revCache[n].owned }

SyncStart ==
    /\ pc = "idle"
    /\ pc' = "revisions"
    /\ run' = [NoRun EXCEPT !.template = seen.template, !.collisions = seen.collisions,
                            !.orphans = Orphans]
    /\ UNCHANGED <<nodeset, history, workers, budget>>

GiveUp == pc' = "idle" /\ run' = NoRun

(* adoptOrphanRevisions: one AdoptControllerRevision.  An update of a version *)
(* that is no longer current fails, and a retry reads the same cache.         *)
AdoptOrphanRevision(n) ==
    /\ pc = "revisions" /\ n \in run.orphans
    /\ IF revs[n] # NoRev /\ revCache[n] = revs[n]
       THEN /\ revs' = [revs EXCEPT ![n].owned = TRUE]
            /\ run' = [run EXCEPT !.orphans = @ \ {n}] /\ UNCHANGED pc
       ELSE GiveUp /\ UNCHANGED revs
    /\ UNCHANGED <<nodeset, revCache, workers, budget>>

(* SortControllerRevisions: equal numbers are ordered by age, left open here. *)
Latest(S) == { n \in S : \A m \in S : revCache[m].num <= revCache[n].num }

nextRevision(S) == IF S = {} THEN 1 ELSE revCache[CHOOSE n \in Latest(S) : TRUE].num + 1

FindEqualRevisions(S) == { n \in S : revCache[n].template = run.template }

UseRevision(n, hash, count) ==
    /\ run' = [run EXCEPT !.name = n, !.hash = hash, !.collisions = count,
                !.listed = { [name |-> m, num |-> revCache[m].num] : m \in listRevisions }]
    /\ pc' = "sync"

\* mutant: the latest revision is taken for an equal one
UseLatestRevision ==
    /\ pc = "revisions" /\ run.orphans = {} /\ FindEqualRevisions(listRevisions) # {}
    /\ \E last \in Latest(listRevisions) :
          UseRevision(last, revCache[last].hash, run.collisions) /\ UNCHANGED revs
    /\ UNCHANGED <<nodeset, revCache, workers, budget>>

(* getNodeSetRevisions, when the template has a revision: the latest one is  *)
(* the update revision, an earlier one becomes the latest (a rollback).      *)
UseEqualRevision ==
    /\ pc = "revisions" /\ run.orphans = {} /\ FindEqualRevisions(listRevisions) # {}
    /\ \E last \in Latest(listRevisions), equal \in Latest(FindEqualRevisions(listRevisions)) :
          IF revCache[last].template = run.template
          THEN UseRevision(last, revCache[last].hash, run.collisions) /\ UNCHANGED revs
          ELSE IF revs[equal] = revCache[equal]
          THEN /\ revs' = [revs EXCEPT ![equal].num = nextRevision(listRevisions)]
               /\ UseRevision(equal, revCache[equal].hash, run.collisions)
          ELSE GiveUp /\ UNCHANGED revs
    /\ UNCHANGED <<nodeset, revCache, workers, budget>>

(* newRevision labels the revision with its hash, CreateControllerRevision    *)
(* names it: on a name taken by another template it counts a collision and    *)
(* renames, and leaves the label.  A name taken by the same template is that  *)
(* revision.  The taken revision is read from the cache.                      *)
CreateControllerRevision ==
    /\ pc = "revisions" /\ run.orphans = {} /\ FindEqualRevisions(listRevisions) = {}
    /\ LET Try(c) == Name(HashOf[run.template, c])
           Taken(c) == revs[Try(c)] # NoRev
           Unread(c) == Taken(c) /\ revCache[Try(c)] = NoRev
           Same(c) == revCache[Try(c)] # NoRev /\ revCache[Try(c)].template = run.template
           Ends(c) == ~Taken(c) \/ Unread(c) \/ Same(c)
           label == HashOf[run.template, run.collisions]
       IN  \E c \in run.collisions..MaxCollisions :
              /\ Ends(c) /\ \A d \in run.collisions..(c - 1) : ~Ends(d)
              /\ IF Unread(c) THEN GiveUp /\ UNCHANGED revs
                 ELSE IF Taken(c)
                 THEN UseRevision(Try(c), revCache[Try(c)].hash, c) /\ UNCHANGED revs
                 ELSE /\ revs' = [revs EXCEPT ![Try(c)] =
                                    [template |-> run.template, hash |-> label,
                                     num |-> nextRevision(listRevisions), owned |-> TRUE]]
                      /\ UseRevision(Try(c), label, c)
    /\ UNCHANGED <<nodeset, revCache, workers, budget>>

-----------------------------------------------------------------------------
(* Sync: the pods *)

Alive(pod) == pod.st \in {"starting", "ready"}

\* mutant: pods that are not ready are left to become so
findOldReadyPods(snap) == { o \in Ordinals : snap[o].st = "ready" /\ snap[o].hash # run.hash }

(* findUpdatedPods *)
findOldPods(snap) == { o \in Ordinals : Alive(snap[o]) /\ snap[o].hash # run.hash }

findNewPods(snap) == { o \in Ordinals : Alive(snap[o]) /\ snap[o].hash = run.hash }

(* ActivePods.Less, for pods that differ in readiness, cordon and ordinal.   *)
(* Of two cordoned pods each is less than the other.                         *)
Less(snap, o, q) ==
    IF snap[o].st # snap[q].st THEN snap[o].st = "starting"
    ELSE IF snap[o].cordon \/ snap[q].cordon THEN snap[o].cordon ELSE o > q

(* The first n of a sorted list.  Where Less holds both ways the outcome of  *)
(* the sort depends on the order of the list: every one of them is possible. *)
SplitActivePods(snap, S, n) ==
    { T \in SUBSET S :
        /\ Cardinality(T) = IF n > Cardinality(S) THEN Cardinality(S) ELSE n
        /\ \A o \in T, q \in S \ T : Less(snap, o, q) }

(* splitUpdatePods of the new and old pods it is handed: what it may delete. *)
splitUpdatePods(snap, new, old) ==
    LET numUnavailable == Cardinality({ o \in new : snap[o].st # "ready" })
    IN  SplitActivePods(snap, old, IF numUnavailable > MaxUnavailable
                                   THEN 0 ELSE MaxUnavailable - numUnavailable)

(* syncPodUncordon of a batch: pods the list shows cordoned are patched. *)
Uncordoned(snap, S) ==
    [o \in Ordinals |-> IF o \in S /\ snap[o].cordon /\ pods[o].st # "none"
                        THEN [pods[o] EXCEPT !.cordon = FALSE] ELSE pods[o]]

(* Until every expected event is observed the pass only writes the status. *)
SyncExpecting ==
    /\ pc = "sync" /\ expected # {}
    /\ pc' = "status"
    /\ UNCHANGED <<nodeset, history, workers, run, budget>>

Missing == { o \in Ordinals : podCache[o].st = "none" }

(* doPodScale(podsNewScaling, nil, podsToCreate): the others are uncordoned,  *)
(* the missing ones created, and there is no update in this pass.             *)
ScaleOut ==
    /\ pc = "sync" /\ expected = {} /\ Missing # {}
    /\ pods' = [o \in Ordinals |-> IF o \in Missing /\ pods[o].st = "none"
                                   THEN NewPod(run.template, run.hash)
                                   ELSE Uncordoned(podCache, Ordinals)[o]]
    /\ expected' = Missing
    /\ pc' = "status"
    /\ UNCHANGED <<nodeset, history, podCache, run, budget>>

(* doPodProcessing uncordons what the update strategy would keep. *)
DoPodProcessing ==
    /\ pc = "sync" /\ expected = {} /\ Missing = {}
    /\ LET new == findNewPods(podCache)
           old == findOldPods(podCache)
       IN  \E split \in splitUpdatePods(podCache, new, old) :
             /\ pods' = Uncordoned(podCache, (new \union old) \ split)
             /\ run' = [run EXCEPT !.snap = podCache, !.split = split]
    /\ pc' = "update"
    /\ UNCHANGED <<nodeset, history, podCache, expected, budget>>

(* IsNodeDrained: a pod that never became ready has no Slurm node. *)
IsNodeDrained(o) == pods[o].st # "ready" \/ (pods[o].cordon /\ ~pods[o].busy)

(* processCondemned, for each pod of a batch: one that is drained is deleted, *)
(* another cordoned, one that the cache shows gone or terminating left alone. *)
Condemned(S) ==
    [o \in Ordinals |->
       IF o \notin S \/ ~Alive(podCache[o]) \/ pods[o].st = "none" THEN pods[o]
       ELSE IF IsNodeDrained(o) THEN [pods[o] EXCEPT !.st = "term"]
       ELSE [pods[o] EXCEPT !.cordon = TRUE]]

(* Only the deletions of the batch are expected, and of those no longer the  *)
(* pods that have to drain first or are gone.                                *)
ExpectDeletions(S) ==
    { o \in S : podCache[o].st = "term" \/ (Alive(podCache[o]) /\ IsNodeDrained(o)
                                            /\ pods[o].st # "none") }

(* doPodScale(nil, podsToDelete, nil) *)
DoPodScale(S) ==
    IF S = {} THEN UNCHANGED <<pods, expected>>
    ELSE pods' = Condemned(S) /\ expected' = ExpectDeletions(S)

(* makePodUncordon reads each pod it patched again, from the cache. *)
Listed == [o \in Ordinals |->
             IF run.snap[o].cordon /\ Alive(run.snap[o]) /\ o \notin run.split
             THEN podCache[o] ELSE run.snap[o]]

Unhealthy == { o \in findOldPods(Listed) : Listed[o].st # "ready" }

(* syncRollingUpdate: of the old pods, as many as are unhealthy.  Which ones *)
(* SplitUnhealthyPods takes depends on their age, left open here.            *)
UpdateUnhealthy ==
    /\ pc = "update" /\ Unhealthy # {}
    /\ \E S \in SUBSET findOldPods(Listed) :
          /\ Cardinality(S) = Cardinality(Unhealthy)
          /\ DoPodScale(S)
          /\ run' = [run EXCEPT !.snap = Listed, !.healthy = findOldPods(Listed) \ S]
    /\ pc' = "healthy"
    /\ UNCHANGED <<nodeset, history, podCache, budget>>

(* Then the budget, of which the healthy old pods alone are told. *)
UpdateHealthy(S) ==
    /\ \/ /\ pc = "healthy"
          /\ S \in splitUpdatePods(run.snap, {}, run.healthy)
       \/ /\ pc = "update" /\ Unhealthy = {}
          /\ S \in splitUpdatePods(Listed, {}, findOldPods(Listed))
    /\ DoPodScale(S)
    /\ pc' = "truncate"
    /\ run' = [run EXCEPT !.snap = NoSnap, !.split = {}, !.healthy = {}]
    /\ UNCHANGED <<nodeset, history, podCache, budget>>

-----------------------------------------------------------------------------
(* Sync: truncateHistory and syncStatus *)

(* Revisions are live by name: the update revision, which is also the current  *)
(* one because no name equals status.nodeSetHash, and what the pods' labels    *)
(* name, which is none.                                                        *)
LiveNames == {run.name} \union { podCache[o].hash : o \in Ordinals }

\* mutant: one revision too many is kept
TruncationsOffByOne(S) ==
    { D \in SUBSET S :
        /\ Cardinality(D) = IF Cardinality(S) > HistoryLimit + 1
                            THEN Cardinality(S) - HistoryLimit - 1 ELSE 0
        /\ \A x \in D, y \in S \ D : x.num <= y.num }

(* The oldest revisions beyond the limit; equal numbers are ordered by age. *)
Truncations(S) ==
    { D \in SUBSET S :
        /\ Cardinality(D) = IF Cardinality(S) > HistoryLimit
                            THEN Cardinality(S) - HistoryLimit ELSE 0
        /\ \A x \in D, y \in S \ D : x.num <= y.num }

TruncateHistory ==
    /\ pc = "truncate"
    /\ \E D \in Truncations({ r \in run.listed : r.name \notin LiveNames }) :
          revs' = [n \in Names |-> IF \E r \in D : r.name = n THEN NoRev ELSE revs[n]]
    /\ pc' = "status"
    /\ UNCHANGED <<nodeset, revCache, workers, run, budget>>

SyncStatus ==
    /\ pc = "status"
    /\ collisions' = run.collisions
    /\ GiveUp
    /\ UNCHANGED <<template, seen, history, workers, budget>>

Disturb == budget > 0 /\ budget' = budget - 1

(* A call of the pass fails.  Before the pods are synced the pass is over,   *)
(* later the status is still written.                                        *)
CallFails ==
    /\ Disturb
    /\ \/ pc \in {"revisions", "sync", "status"} /\ GiveUp
       \/ pc \in {"sync", "update", "healthy", "truncate"} /\ pc' = "status" /\ UNCHANGED run
    /\ UNCHANGED <<nodeset, history, workers>>

Sync ==
    \/ SyncStart \/ UseEqualRevision \/ CreateControllerRevision
    \/ SyncExpecting \/ ScaleOut \/ DoPodProcessing \/ UpdateUnhealthy
    \/ \E S \in SUBSET Ordinals : UpdateHealthy(S)
    \/ TruncateHistory \/ SyncStatus
    \/ \E n \in Names : AdoptOrphanRevision(n)

-----------------------------------------------------------------------------
(* The environment *)

OutsideSync == UNCHANGED <<pc, run>>

UserEdits(t) ==
    /\ Disturb
    /\ t # template /\ template' = t
    /\ UNCHANGED <<collisions, seen, history, workers>> /\ OutsideSync

(* The NodeSet is deleted without its dependents and created again: the      *)
(* revisions are orphans and the status is empty.                            *)
NodeSetRecreated ==
    /\ pc = "idle" /\ Disturb
    /\ collisions' = 0
    /\ revs' = [n \in Names |-> [revs[n] EXCEPT !.owned = FALSE]]
    /\ UNCHANGED <<template, seen, revCache, workers>> /\ OutsideSync

PodStarts(o) ==
    /\ pods[o].st = "starting" /\ pods[o].template \notin Broken
    /\ pods' = [pods EXCEPT ![o].st = "ready"]
    /\ UNCHANGED <<nodeset, history, podCache, expected, budget>> /\ OutsideSync

PodUnready(o) ==
    /\ pods[o].st = "ready" /\ Disturb
    /\ pods' = [pods EXCEPT ![o].st = "starting", ![o].busy = FALSE]
    /\ UNCHANGED <<nodeset, history, podCache, expected>> /\ OutsideSync

PodTerminates(o) ==
    /\ pods[o].st = "term"
    /\ pods' = [pods EXCEPT ![o] = NoPod]
    /\ UNCHANGED <<nodeset, history, podCache, expected, budget>> /\ OutsideSync

(* Slurm starts work where the node is not draining. *)
JobStarts(o) ==
    /\ pods[o].st = "ready" /\ ~pods[o].cordon /\ ~pods[o].busy
    /\ pods' = [pods EXCEPT ![o].busy = TRUE]
    /\ UNCHANGED <<nodeset, history, podCache, expected, budget>> /\ OutsideSync

JobEnds(o) ==
    /\ pods[o].busy
    /\ pods' = [pods EXCEPT ![o].busy = FALSE]
    /\ UNCHANGED <<nodeset, history, podCache, expected, budget>> /\ OutsideSync

(* The informers; PodEventHandler observes creations and deletions. *)
NodeSetCacheSync ==
    /\ seen # [template |-> template, collisions |-> collisions]
    /\ seen' = [template |-> template, collisions |-> collisions]
    /\ UNCHANGED <<template, collisions, history, workers, budget>> /\ OutsideSync

RevisionCacheSync(n) ==
    /\ revCache[n] # revs[n]
    /\ revCache' = [revCache EXCEPT ![n] = revs[n]]
    /\ UNCHANGED <<nodeset, revs, workers, budget>> /\ OutsideSync

(* The cache holds the pod, not what Slurm runs on it. *)
Visible(o) == [pods[o] EXCEPT !.busy = FALSE]

PodCacheSync(o) ==
    /\ podCache[o] # Visible(o)
    /\ podCache' = [podCache EXCEPT ![o] = Visible(o)]
    /\ expected' = IF podCache[o].st = "none" \/ ~Alive(pods[o])
                   THEN expected \ {o} ELSE expected
    /\ UNCHANGED <<nodeset, history, pods, budget>> /\ OutsideSync

OperatorRestarts ==
    /\ Disturb
    /\ GiveUp /\ expected' = {}
    /\ seen' = [template |-> template, collisions |-> collisions]
    /\ revCache' = revs /\ podCache' = [o \in Ordinals |-> Visible(o)]
    /\ UNCHANGED <<template, collisions, revs, pods>>

PodEvent(o) ==
    \/ PodStarts(o) \/ PodUnready(o) \/ PodTerminates(o)
    \/ JobStarts(o) \/ JobEnds(o) \/ PodCacheSync(o)

Environment ==
    \/ \E t \in Templates : UserEdits(t)
    \/ \E o \in Ordinals : PodEvent(o)
    \/ \E n \in Names : RevisionCacheSync(n)
    \/ NodeSetCacheSync \/ NodeSetRecreated \/ OperatorRestarts

Next == Sync \/ CallFails \/ Environment

Spec == Init /\ [][Next]_vars

(* Every Sync asks to run again after 30 seconds, failed ones are retried;    *)
(* informers deliver, pods of a working template become ready, condemned ones *)
(* terminate and jobs end.                                                    *)
Fairness ==
    /\ WF_vars(Sync) /\ WF_vars(NodeSetCacheSync)
    /\ \A n \in Names : WF_vars(RevisionCacheSync(n))
    /\ \A o \in Ordinals : /\ WF_vars(PodStarts(o)) /\ WF_vars(PodTerminates(o))
                           /\ WF_vars(JobEnds(o)) /\ WF_vars(PodCacheSync(o))

LiveSpec == Spec /\ Fairness

-----------------------------------------------------------------------------
(* Properties *)

(* syncUpdate replaces pods of other templates only: a rollback finds the     *)
(* revision of the template again, and the pods that still run it stay.       *)
UpToDatePodsStay ==
    [][\A o \in Ordinals : Alive(pods[o]) /\ pods'[o].st = "term"
                             => pods[o].template # run.template]_vars

(* A pass is about to start, the cache is up to date and shows no more        *)
(* cordoned pods than a pass takes.                                           *)
Untied ==
    /\ pc = "idle"
    /\ \A o \in Ordinals : podCache[o] = Visible(o)
    /\ Cardinality({ o \in Ordinals : Alive(pods[o]) /\ pods[o].cordon }) <= MaxUnavailable

(* Once the template no longer changes and its pods can start, every pod runs *)
(* it, is ready and takes jobs, whatever was rolled back or failed before.    *)
(* The exception is the tie of ActivePods.Less: while more pods are cordoned  *)
(* than a pass takes, doPodProcessing and syncRollingUpdate may choose        *)
(* different ones, each undoing what the other did.  Their choices follow the *)
(* order in which a map lists the pods, so they agree sooner or later; that   *)
(* is the second premise, and without it the rollout need not end.            *)
RolloutCompletes ==
    <>[](template \notin Broken) /\ []<>Untied
      => <>[](\A o \in Ordinals : /\ pods[o].template = template
                                  /\ pods[o].st = "ready" /\ ~pods[o].cordon)

(* truncateHistory brings the listed history down to the limit, the update    *)
(* revision aside, and no revision ends up with a higher number, also    *)
(* after a rollback.                                                          *)
HistorySettles ==
    <>[](LET listed == { n \in Names : revs[n] # NoRev /\ revs[n].template \in Labelled }
         IN  /\ Cardinality(listed) <= HistoryLimit + 1
             /\ template \in Labelled =>
                  \E n \in listed : /\ revs[n].template = template /\ revs[n].owned
                                    /\ \A m \in listed : revs[m].num <= revs[n].num)

(* "The maximum number of pods that can be unavailable during the update":   *)
(* an update takes down no more pods than maxUnavailable at a time.          *)
MaxUnavailableKept ==
    Cardinality({ o \in Ordinals : pods[o].st # "ready" }) <= MaxUnavailable
=============================================================================
