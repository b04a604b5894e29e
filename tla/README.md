# TLA+ models of slurm-operator

slurm-operator runs Slurm clusters on Kubernetes. A `NodeSet` is a set of pods
that each run one `slurmd`; its controller creates and deletes them, drains
their Slurm nodes before it takes them away, rolls out new templates and copies
state between Slurm and Kubernetes. Other controllers keep `slurmctld`,
`slurmdbd`, `slurmrestd` and login pods, sign JWTs and hold the Slurm clients.
The project models the reconcilers - where several actors change the same state
at the same time - and the services they stand between: the Kubernetes API
server, informer caches, the garbage collector, `slurmctld` and the slurm client
that caches its answers.

Paths below are relative to `src/`; `nodeset/` is
`internal/controller/nodeset/`.

## 1. Inventory

| Component | State it keeps | Operations | What makes it correct | Module |
|---|---|---|---|---|
| NodeSet reconcile, draining (`nodeset/nodeset_sync.go`) | none of its own: `pod-cordon` annotations, drain flag and reason in Slurm | `syncSlurmNodes`, `syncCordon`, `syncPodUncordon`, `processCondemned`, `makePodCordonAndDrain`, `makePodUncordonAndUndrain` | no job is lost to a pod deletion; drains of others are respected; cordoned nodes drain and come back | `NodeSetDrain`, `Evacuation` |
| NodeSet reconcile, scaling (`nodeset/nodeset_sync.go`, `internal/utils/tools.go`) | expectations | `syncNodeSet`, `doPodScale`, `doPodProcessing`, `SlowStartBatch` | converges to `spec.replicas`, never beyond; counts each event once | `NodeSetScale`, `Expectations` |
| NodeSet reconcile, DaemonSet mode and mode switch | backoff of failed pods | `podsShouldBeOnNode`, `nodeShouldRunDaemonPod`, `syncNodeSet` | one pod per node that fits; pods of the other mode leave; a cordon costs no pod | `NodeSetDaemon` |
| NodeSet reconcile, rolling update | none | `syncUpdate`, `syncRollingUpdate`, `splitUpdatePods` | all pods get the template, within the budget | `NodeSetRollout` |
| Revision history (`nodeset/nodeset_history.go`, `internal/utils/historycontrol`) | ControllerRevisions | `getNodeSetRevisions`, adoption, collision, `truncateHistory` | a rollback reuses its revision; live ones stay, surplus goes | `NodeSetRollout` |
| Pod ranking (`nodeset/utils/sort.go`) | none | `ActivePods.Less`, splits, `podsShouldBeOnNode` | the victims are those the order names, and the same in the next pass | `PodSelection` |
| Pod event handler (`nodeset/eventhandler`) | none | `createPod`, `updatePod`, `deletePod` | each create and delete is observed once | `NodeSetScale`, `NodeSetDaemon` |
| Pod control (`nodeset/podcontrol`) | owner references of PVCs | create, delete, update, retention policy | claims follow the policy, retained ones are never collected | `ClaimRetention` |
| Slurm control (`nodeset/slurmcontrol`) | none; reads the client's cache | drain queries and requests, status, deadlines, topology, pod info | answers are about this reconcile | `NodeSetDrain`, `WorkloadProtection` |
| Status, conditions, labels, taints (`nodeset/nodeset_sync_status.go`) | NodeSet status, pod conditions, `pod-protect` label, deadlines | `syncStatus`, `syncSlurmDeadline`, `syncSlurmTopology`, `syncTaint` | a pod with work is protected; what is reported is what is there | `WorkloadProtection` |
| Slurm client controller, `ClientMap` | one client per cluster, in memory | `Sync`, `Add`, `Remove`, `Get` | a live cluster has exactly one client, with a valid JWT | `Credentials` |
| Token controller | a signed JWT in a Secret | `Sync`, refresh at 4/5 of the lifetime | an expired token is replaced | `Credentials` |
| Controller, Accounting, LoginSet, RestApi controllers | the objects they own | a list of `SyncStep`s each, watches, status | each object is what its sources say; the operator comes to rest | `ClusterSync` |
| Control-plane builders | none | construction from the sources | the right inputs; random keys drawn once | `ClusterSync` (dependencies) |
| Webhooks (`internal/webhook`) | none | validation, pod binding | immutable fields stay; bound pods get their topology | `ClusterSync`, `WorkloadProtection` (in part) |
| Worker builders, commands, API types, charts | none | construction | not behaviour | - |

How they interact. A work queue hands a resource to at most one worker at a time.
The worker reads resources, pods and nodes from informer caches that lag behind
the API server, and Slurm nodes from the slurm client's cache. It writes to the
API server and to `slurmrestd`. Watch events come back later; handlers lower the
expectations and queue the resource again. `SlowStartBatch` runs the per-pod
functions of a phase in goroutines, in batches of 1, 2, 4, ...; one error lets
its batch finish and skips the rest. The `ClientMap` is written by another
controller at any time and is empty after a restart.

What is hard: decisions on stale answers (both caches); the steps between "is it
drained" and "delete"; administrators, users and schedulers acting in between; a
crash between two calls; creates that fail, are skipped, or succeed and report an
error; events late, merged or never seen; a reconcile that asks for its own
wake-up and must not lose it; inputs nobody watches. `PROJECT.json` lists these
hazards at the lines where they bite, with the properties that cover them.

## 2. Modules

`Evacuation` is abstract; `NodeSetDrain` implements it. `Expectations` is library
code, used by `NodeSetScale` and `NodeSetDaemon`. The other modules split the
NodeSet reconcile by subject: each follows its part in detail and abstracts the
rest, as its header says. `MC*` modules only name constants for TLC; the
exception is `MCPodSelection`, which builds the pod lists and states their
properties. `*Proofs` modules hold theorems about the module they are named for;
`NodeSetDrainProofs` also shows that it implements `Evacuation`.

### NodeSetDrain and Evacuation

NodeSet pods repel each other, so pod `p` also stands for its Kubernetes node and
its Slurm node. `pod` is the API server's record, `podCache` what the informer
holds; `slurm` is what `slurmctld` holds, `slurmCache` what the client answers.
`phase` follows `sync`: `syncSlurmNodes`, `syncCordon`, then in `syncNodeSet` the
pods to keep and the pods to delete. Each pod has a program counter `step` for
the current phase, because `SlowStartBatch` runs them concurrently; each call
that leaves the process is one step, so other actors interleave between any two.
That lets batches overlap more than the code does, which only adds behaviours.
`snap` is the worker's copy of the annotation, which is why a patch is skipped on
a stale copy.

`SplitListed` is the count of `syncNodeSet`: pods listed against replicas wanted.
Creations are one step outside the reconcile, and expectations do not hold
`syncNodeSet` back here; both only add behaviours and are `NodeSetScale`'s
subject. A Slurm drain reason is `ours` (prefix `slurm-operator:`), `none` or
`ext`. A query about an unknown node, or without a client, is answered as the
code answers it: drained, ours, unresponsive.

`Track`, part of every action, keeps history: whether at some moment of the
current reconcile the node had no work (`quietSeen`), its reason was not external
(`oursSeen`), there was no client (`blind`), somebody else undrained it
(`resumed`).

`Evacuation` states what users are promised (`docs/concepts/nodeset-controller.md`:
a pod is not deleted until its Slurm node is drained): a pod serves, is emptied,
and only then stopped, and a pod that is being stopped is gone in the end. The
refinement mapping is `LifeOf`, from the pod, its drain flag and its jobs;
`Covered` is the set of pods for which the promise is made: not those of a
reconcile that had no client, nor those whose node an administrator undrained
in the middle of it. `KeepsContract` is `Evacuation`'s specification, fairness
included, under that mapping; `KeepsContractSafety` is it without the fairness.

External, modelled from how the code uses it: the slurm client writes through its
cache on `Update`, and `List` with `RefreshCache` replaces the cache. The preStop
hook of the worker pod (`internal/builder/workerbuilder/worker_app.go:272`)
deletes the Slurm node, so `PodTerminates` unregisters it. A node that is found
unresponsive gets "Not responding" appended, which turns an empty reason into one
without the prefix.

### NodeSetScale

A pod is its ordinal. Every change of `api` is appended to `log`;
`InformerApplies` moves the cache along the log and `PodEventHandler` runs some
time after. `SyncList` reads NodeSet and pods; expectations are checked in a
later step, as in `Sync`. Then `ScaleOut`/`ScaleIn`/`ScaleDone` set expectations
and the loops of `doPodScale` run with `todo`, `inflight`, `batch` and `failed` as
in `SlowStartBatch`. Which pods are condemned, and whether they are drained, is
left open. Failed and terminating pods count towards the replicas, as in the
code. The loop that repairs PVC ownership before the deletes is `ClaimRetention`'s.

### PodSelection

`Less` is the list of its criteria in the code's order; the first one that tells
two pods apart decides. `Sort` is the insertion sort that `sort.Sort` is on short
lists (up to twelve pods), so a comparator that is not an order has the effect it
has in the program. `Keep` is the loop that appends the pods it accepts.

### NodeSetRollout

A template change over many reconciles: adoption of orphan revisions, the
revision that equals the template (or a new one, with the hash and the collision
count), the rolling update, truncation, status. Revisions and pods are read from
caches. `expected` is the set of ordinals still owed an event, cordon and drain
are one flag, the ages of pods are left open, and deadline and cost are left out
of the order of victims: the detail is in the modules above. `Less` holds both
ways for two cordoned pods, as in the code (`nodeset/utils/sort.go:72`), so
`SplitActivePods` is the set of all splits the sort may end with, and the two
halves of a pass choose each on its own; `Listed` is the list as `makePodUncordon`
leaves it for the second half. One branch of `adoptOrphanRevisions` (revisions
without the hash label) is left out.

### NodeSetDaemon

DaemonSet mode and the switch between modes. Pods `0 .. Replicas - 1` are named by
ordinal, the others have generated names. A node is `open`, `cordoned`,
`unlabelled` (the template no longer matches it) or `left` (both); pods fail, are
evicted, run work, and Slurm may lose the node of a pod that runs, which
`syncSlurmNodes` answers by deleting the pod. `backoff` is `failedPodsBackoff`:
one failed pod of a node puts the others of the pass into backoff, and whether a
node is in backoff at a pass is open until the delay has outgrown the 30 s
requeue. `CreateReportsError` is the create that happens and returns an error all
the same (`nodeset/podcontrol/podcontrol.go:72-76`), after which `doPodScale` no
longer expects the pod; `slips` counts those, and the pods that the watch had not
shown when the expectations expired. Slurm's answers are current, and an event
reaches cache and handler in one step: `NodeSetDrain` and `NodeSetScale` have
them apart. The read of pods and the check of expectations are two steps, which is
what makes twins possible.

### ClaimRetention

The claims of one pod name: creation before the pod, `isClaimOwnerUpToDate` and
`updateClaimOwnerRef` claim by claim with optimistic concurrency, the garbage
collector (external). A failed update before a delete does not stop the delete
(`UpdateFails`); a create that fails, other than because the pod exists, still
sets the references, for a pod without a UID (`CreateFails`). `allowed` remembers
every policy the NodeSet has had.
Foreign owners of claims are left out.

### WorkloadProtection

What a reconcile copies. The two halves of it - deadline, topology, taints in
`sync`; comment, counters, conditions, label in `syncStatus` - touch disjoint
state, so a behaviour follows one of them. `Turn` fixes the order in which pods
are visited, which no property can see; terminating pods are not followed. `seen`
is the slurm client's cache: `CalculateNodeStatus` and the deadlines read it, as of
the refresh at the head of `syncStatus`, of an older one when that fails
(`RefreshFails`), or of the client's own poll (`ClientPolls`). A write is a patch against the copy the reconciler listed.
The patch of the conditions has a peculiarity that matters (`Resent`): the loop in
`updateNodeSetPodConditions` appends a state that is still there once per Slurm
state of the old copy, and a strategic merge patch takes the duplicates for
additions, so from two old states on the kept ones are sent again.

### Credentials

Both controllers that issue JWTs, on a clock that counts fifths of a lifetime and
keeps only differences: how long a JWT is good, how long a timer runs. A tick
waits for reconciles and informers, which take seconds. The controllers share
nothing but the key, so a behaviour follows one of them (`half`). A missing RestApi
and a missing key Secret are errors that last: the default rate limiter doubles
the delay from failure to failure (`NextBackoff`), up to 1000 s, six ticks, which
is longer than the client's JWT lives. `strays` are clients that run although the
map has lost them. `ControllersResync` and `TokensResync` are the informers'
resync (10 h).

### ClusterSync

Four reconcilers as lists of steps, the sources each object depends on (one
definition per builder, named as in the code), `SyncObject` as a merge patch
against a cached copy, watches and the event handlers' fan-out, status, garbage
collection. A value is a version of its sources. Layout and wording of the
configurations are left out; which input reaches which object is kept.
A deleted object is marked first and gone later, and `SyncObject` leaves a marked
one alone. The claim templates of the slurmctld StatefulSet are a field of their
own: they depend on `persistence` (off, an existing claim, a claim spec), the
webhook only forbids to switch it on or off, and no patch carries them, so
`InSync` leaves out that field and says so (`Followed`). Labels and annotations
are left out: patches merge them and never remove a key.

## 3. Runs

`tlc -config X.cfg M`. A run marked "violation" states what a comment or document
says and finds the code doing otherwise.

| Run | Bounds | States | Shows |
|---|---|---|---|
| `drain` | 1 pod, 2 disturbances of nine kinds, fair | 111 k | the contract of `Evacuation`; decisions are fresh and no work is left when a pod goes (`EvacuationInv`); condemned pods go, cordoned nodes drain, uncordoned ones come back |
| `scale_owed` | 3 ordinals, burst 2, 2 disturbances that `doPodScale` accounts for | | creations are counted once, expected deletions happen |
| `scale_live` | 2 ordinals, burst 2, 2 disturbances that leak expectations or lose events, fair | 647 k | `ConvergesToReplicas`, `OrdinalsWithinRequest` |
| `pod_selection` | lists of 3 pods, three scenes | | order, split, stickiness, clean-up, one rolling-update pass |
| `rollout` | 2 replicas, `maxUnavailable` 1, history limit 1, three templates of which one is broken, 2 disturbances, fair | 396 k | pods of the wanted template stay; rollouts end (see section 5 on the tie); history comes down to its limit |
| `daemon` | 1 node in all four states, 1 ordinal, 3 generated names, backoff 2, two user changes or one fault, fair | 373 k | `PodsPerNodeBounded`, `ServingPodsStay`, `FitNodesServed`, `ModeSwitchCompletes`, `LeftNodesCleared` |
| `claims` | 2 claims, all four policies, 3 pods of the name, 2 disturbances, fair | 378 k | `RetainKeepsClaims`, `OwnersSettle`, `PodGetsClaims` |
| `protection` | 2 pods, 2 nodes, 2 job ends, one change and one fault, fair | 1008 k | `ShieldHolds`; everything that is copied settles |
| `credentials` | 2 keys or none, three changes and one fault, fair | 609 k | one client per Controller, looked at in time or when the rate limiter lets it; it follows key and RestApi; an expired Token is replaced |
| `cluster` | each reconciler with any one change of what is watched, and pairs of changes, failures and restarts, fair | 307 k | `QuietMeansInSync`, `HostKeysKept`, the operator comes to rest |
| `rollout_budget` | 2 replicas | | violation, see 5 |
| `daemon_twins` | 1 node | | violation, see 5 |

Bounds. `MaxDisturbances`, `MaxChanges` and `MaxFaults` bound what users,
administrators and faults do. Jobs, caches, the kubelet and the worker are
unbounded (jobs count as changes in `WorkloadProtection`), so a behaviour has any
number of reconciles. Two disturbances are a change and its reversal, or a change
and a fault in its middle; the invariants of `drain` also pass with three (`DrainOne.cfg`). `DaemonFromStateful.cfg` is `daemon` for a NodeSet that starts in
StatefulSet mode, `ProtectionOnePod.cfg` is `protection` with one pod and two
changes; both pass. Three changes in `credentials` take a key or a RestApi away and
bring it back with one more change between. In `cluster` the share of `MaxChanges`
that a change takes says which pairs meet (`Watched`); two changes of a
Controller's own spec are left to the proof, which has no bound. One pod is enough where pods do not
influence each other: in `NodeSetDrain` they share the phase and the client, and
`DrainTwo.cfg` is the two-pod instance for the phase barrier and for errors that
abort a sibling. Three ordinals with a burst of two make a first batch of one, a
second batch, and pods that are left out of the pass. The comparator compares two
pods at a time, and three pods are what transitivity needs. Three generated names
are what a third pod on a node takes, and one fault is enough to get there.

Types. `TypeOK` is checked in `drain`, `scale_owed` and `claims`; the other
modules define one for the proofs, and TLC confirms it on the same instances when
it is added to their configurations.

Deadlock is checked wherever the worker is queued again for ever. `cluster`,
`credentials`, `protection` and `claims` say `CHECK_DEADLOCK FALSE`: there the
system comes to rest once nothing changes any more (`Settles`, `OwnersSettle` are
about exactly that state), the requeue being modelled only where it changes
something.

Fairness. Reconcilers are weakly fair: every NodeSet reconcile pushes 30 seconds
into the duration store (`nodeset/nodeset_sync.go:79`), and an error goes to the
rate limiter. Caches and handlers: watches deliver, and the slurm client polls
(`ClientPolls`). `JobEnds`: jobs have time
limits. `PodTerminates`, `PodStops`, `PodStarts`, `Schedule`: kubelet and
scheduler work. `Register`: `slurmd` registers. `ClientAdded`, `ClientFound`: the
slurm client controller adds a client for every live Controller.
`ExpectationsExpire`: five minutes pass. `ClaimCollected`, `ClaimRemoved`,
`CollectGarbage`, `ObjectGone`: the garbage collector. `Tick`: time passes; strong
fairness of `TokensResync`: informers resync every ten hours. `CreateFails` of an ordinal is
fair only for a name that is taken, where the API server must refuse. Nothing is
assumed about users, administrators or faults; a node may stay down.

## 4. Proofs

TLC checks small instances; the theorems below hold for every value of the
constants that satisfies the named `ASSUME`s of the modules. A theorem with a
further hypothesis says so here. Each invariant was checked with TLC, on the
instance of its run or a larger one, before it was proved.

`NodeSetDrainProofs`, for every set of pods, both update strategies and any
number of disturbances:

- `TypeCorrect`: `Spec => []TypeOK`.
- `FreshCorrect`: `Spec => []FreshInv`. The decisions alone are not inductive: a
  decision is made from `slurmCache`, so one must know that whatever the cache
  says, the node really was in such a state at some moment of this reconcile
  (`CacheInv`). That holds because `RefreshNodeCache` starts every reconcile and
  because every later change of the cache copies what Slurm holds at that time;
  a client that was missing at any moment voids it (`blind`).
  `HistoryInv` ties history to the present, `IdleInv` says that nothing is under
  way between reconciles. `Follows` collects what an action may do to cache,
  history and decisions; each action is shown to follow it once (`StepFollows`),
  and the invariant is proved from it.
- `DeleteFreshCorrect`, `UndrainFreshCorrect`: the two decisions, from it.
- `EvacuationCorrect`, `NoWorkCorrect`: no work runs on a node when its pod is
  deleted. That the node *was* quiet during the reconcile is not enough; it must
  be so at the instant of the delete. `DrainedInv` says that what the cache calls
  drained still is, `StaysQuiet` lists who can put work on a quiet node - somebody
  else who resumes it, the registration of a new pod, or the worker itself, which
  then has it in its cache - and `GoneInv` and `RegisteredInv` keep a new pod's
  node apart from the old one's.
- `ContractKept`: `NodeSetDrain` implements the safety half of `Evacuation`
  (`KeepsContractSafety`): initial states map to initial states, every step maps to
  a step of the contract or to a stutter.

`NodeSetScaleProofs`, for any `MaxReplicas`, burst and number of disturbances:

- `OrdinalsCorrect`. `RequestInv` adds that what the worker read (`want`) and what
  it is about to create were within the largest request when it looked; the lemma
  `FreeOrdinalsBelow` is the counting argument: the `n` smallest ordinals not used
  by `k` listed pods are below `k + n`.
- `TypeCorrect`.
- `CreationsCorrect` and `DeletionsCorrect`, for `Disturbances \subseteq Handled`: the
  failures that `doPodScale` accounts for. The others really break the count
  (section 5), and `ConvergesToReplicas` covers them. `CountInv` needs that
  expectations, once set, stay set and that nothing is outstanding before.
  `OwedInv` needs `AnnouncedInv`: a pod that the informer, or an event on its way,
  still shows and that is gone has its deletion announced further down the log,
  so the handler cannot have consumed the event that an expectation waits for
  before the expectation was set.

`NodeSetDaemonProofs`, for any finite set of nodes, replicas, names and backoff:

- `TypeCorrect`.
- `ServingCorrect`: `Spec => ServingPodsStay`. `ReasonInv`: every pod in a plan was
  unwanted when it was put there, a surplus pod only because the plan spares
  another one of its node (`SurplusSpares`); `ListedInv` ties the list that
  `syncSlurmNodes` works on to the pods there are.
- `TwinsCorrect`: `Spec => []PodsPerNodeBounded`. The list is older than the
  expectations that are read after it, so a second pod cannot be excluded;
  `TwinInv` bounds the damage: a list that misses a node's pod is behind by one pod
  at most, because a pass creates one pod per node and no pass begins to create
  while the expectations await a pod the cache has not shown (`AwaitedInv`, a
  comparison of cardinalities). Each slip, a create reported as failed or an unseen
  pod at an early expiry, costs the count one pod and no more.

`PodSelectionProofs`, for a list of any length of any pods with distinct names:

- `ListsOrdered`, `ListsSplit`, `ListsSticky`, `ListsSurvive`, `ListsRoll`: the five
  properties of the `pod_selection` run. `SelectionCorrect` states them as
  invariants of the specification that builds the lists.
- The prover has no induction over data; a least counterexample does its work. Sort
  and `Keep` are folds: `FoldExists` shows that the recursion behind a fold has a
  solution, `SortByLess`, `SortByAge` and `KeepSteps` turn it into steps
  `F[0], F[1], ...`, and `UpTo` carries a fact from each step to the next, because a
  set of numbers at which it fails would have a least element.
- The split needs that inserting into an ordered list keeps it ordered
  (`SortingSorts`) and that no pod is lost or doubled (`SortingRearranges`).
- Stickiness is the hard one: after the cordon the comparator is no longer an order,
  since two cordoned pods each come before the other, and the sort's contract is
  void. What remains is a statement about groups (`SortingGroups`): if every pod of a
  group comes before every other pod and never the other way round, insertion sort
  brings the group to the front, whatever the comparator says within it. This uses
  that the sort inserts, as `sort.Sort` does on lists of at most twelve pods. For
  longer lists Go promises nothing under such a comparator, and the theorem is about
  the model's sort only.

`WorkloadProtectionProofs`, for every set of pods and nodes, any number of jobs,
failed calls and stale reads: `TypeCorrect`, and `ShieldCorrect`: `Spec =>
ShieldHolds`. `ShieldInv` adds to the types that a plan fits its phase, that a node
that is down runs nothing, so work always shows as a busy state (`WorkIsBusy`), and
that the label is set only where protection is on. `PodMoves`, `CacheMoves`,
`SeenMoves` and `SlurmWrite` list what any step may do to the four stores: the
client's cache only ever takes what Slurm holds at that moment, so work that it has
seen and that goes on stays busy in it (`SeenStaysBusy`), whichever refreshes fail.
The step that matters
is the patch (`PatchKeepsBusy`): a busy pod that is given busy states stays busy
whatever stale copy the difference was taken from. It rests on the re-sent
conditions: with a patch that sends only what is new, a copy with `MIXED` and
`COMPLETING`, a pod with `MIXED` and a plan with `IDLE` and `COMPLETING` leave the pod
with no busy state. That takes more changes than the `protection` run has; the
theorem is for every number of them. A clean-up of that loop which removed the
duplicates would have to send the states some other way.

`ClaimRetentionProofs`, for any set of claims and policies: `TypeCorrect`, and
`RetainCorrect`: `Spec => RetainKeepsClaims`. An owner reference outlives the
reconcile that wrote it, so the invariant is about the references (`OwnersInv`):
each is justified by a policy the NodeSet has had.

`CredentialsProofs`, for every set of keys: `OneClientCorrect` and `RenewalCorrect`.
`InstallInv` says what a reconcile that has not finished is about to put in the map,
and that a Controller deleted meanwhile has queued its removal. `RenewalCorrect`
says that the timer which leads to the next look is never lost: it ends before the
JWT does, or it is the rate limiter's. Clock and delays are those of the model:
fifths of a lifetime.

`ClusterSyncProofs`, for every choice of reconcilers and any number of changes:

- `HostKeysCorrect`: `Spec => HostKeysKept`, whatever changes.
- `SyncCorrect`, `QuietCorrect`: `Spec => []QuietMeansInSync`, if nobody changes
  `storagePass`, `sssd` or `configFiles`, which nothing watches; for those it is
  false (`ConfigFilesDetected`). An object that is not what its builder makes of the
  cached world has a reconcile queued, or one before its step, or an event coming
  (`CleanInv`). Its heart is a pair of lemmas about the watches: whatever a
  builder reads wakes its reconciler (`SourceWakes`, `ObjectWakes`); and one about
  patches: a patch that changes nothing means that nothing differs
  (`PatchedIsNew`), in all fields that patches carry. The claim templates of a
  StatefulSet are not among them, and for them the statement is false
  (`ClaimTemplatesFollow`).

Only model-checked, and why: liveness (`ConvergesToReplicas`, `RolloutCompletes`,
`Settles` and the like) and the fairness of `Evacuation` are beyond the prover, as
is `ENABLED`. Of the safety properties only `UpToDatePodsStay` of `NodeSetRollout`
has no theorem: it rests on the hash labels, so its invariant must tell, while
the caches lag, which revision a template has and which pods carry its label, also
after two templates collided. TLC finds it to hold with and without collisions.

## 5. Where code and documents disagree

Shown by a run:

- `rollout_budget`: `syncRollingUpdate` computes the budget from the healthy pods of
  the old template only. Pods that earlier passes took down, and their successors
  that are not ready yet, are not in that list, so `maxUnavailable` is spent again
  in every pass, and two passes take down both pods.
- `daemon_twins`: `Sync` lists the pods and then checks the expectations. An event
  in between satisfies them, the list does not have the pod, and the node gets a
  second one, under a generated name that does not collide. `PodsPerNodeBounded` is
  what the expectations still guarantee.

Shown by a configuration that is kept beside the runs and ends with a
counterexample:

- `PodSelectionUnhealthy.cfg` (`UnhealthyPodsAreUnhealthy`): `SplitUnhealthyPods`
  counts the unhealthy pods, then sorts by creation time and cuts the list at that
  number. An old healthy pod and a younger unhealthy one change places, and
  `syncRollingUpdate` deletes the healthy one.
- `DrainNoClient.cfg` (`DrainedBeforeDelete`): without a client in the `ClientMap` -
  after every restart, until the slurm client controller has run - `IsNodeDrained`
  answers true and `processCondemned` deletes a pod whose node runs a job.
- `DrainUserCordon.cfg` (`UserCordonKept`): `syncPodUncordon` removes the
  `pod-cordon` annotation of every kept pod on a schedulable node, also one that a
  user set as the documentation describes.
- `DrainOnDelete.cfg`: under `OnDelete` `splitUpdatePods` keeps no pod, so the
  `pod-cordon` set when the Kubernetes node was cordoned is never removed, and
  `syncCordon` drains the node again after it is uncordoned.
- `ScaleSkipped.cfg` (`SkippedCreatesNotExpected`): `doPodScale` expects the creates
  before it uncordons the kept pods; an error there returns at once, and the
  NodeSet gets nothing but status updates until the expectations expire.
- `ProtectionNoClient.cfg` (`WorkStaysProtected`): a reconcile without a client finds
  no Slurm nodes, clears the conditions and with them the `pod-protect` label of a
  pod that works (`docs/usage/nodeset-operations.md:164-167`). `ShieldHolds` is
  the guarantee with a client.
- `ClusterConfigFiles.cfg` (`ConfigFilesDetected`): nothing watches the ConfigMaps of
  `configFileRefs`, `prologScriptRefs` and the like, so a change of one is seen
  when something else wakes the Controller (`README.md:178`).
- `ClusterClaims.cfg` (`ClaimTemplatesFollow`): the webhook refuses to switch
  persistence on or off because "StatefulSet does not allow update of that field"
  (`internal/webhook/controller_webhook.go:92-94`), but lets the claim spec change, or
  an existing claim take its place; `SyncObject` does not patch the templates, so the
  StatefulSet keeps the old ones for good.
- `CredentialsToken.cfg` (`TokenStaysValid`): at a refresh the delay that was pushed
  first is not positive any more, so nothing is queued; the Secret's owner is the
  signing key's Secret, so its event does not wake the Token either. The next
  refresh comes with the informer's resync, after the JWT has expired
  (`api/v1beta1/token_types.go:41`, "Controls if the JWT will be rotated.").
  `TokenRecovers` is what remains.
- `ClaimsOfWanted.cfg` (`OnlyExcessClaimsGo`): a pod counts as scaled down when it is
  cordoned, so under `whenScaled: Delete` a rolling update or a node cordon hands
  the claims to the pod, and they go with it (`api/v1beta1/nodeset_types.go:220-222`).

Met while modelling, without a run of their own:

- Ranking. Two cordoned pods: `Less` answers true both ways
  (`nodeset/utils/sort.go:72`), so the ordinal never decides between them; the
  properties of the order are stated for at most one cordoned pod for this reason.
  `podsShouldBeOnNode` keeps the first live pod in deletion order, not the oldest
  as its comment says (`nodeset/nodeset_sync.go:752`): of twins it may keep the one
  that is still pending. `ServingPodsStay` asks only that one is kept.
- Rollout. One pass may take down `maxUnavailable` pods besides the unhealthy ones.
  `doPodProcessing` and `syncRollingUpdate` split different lists, so one may
  uncordon a pod that the other drains, although the first is there "to not fight
  it" (`nodeset/nodeset_sync.go:1091-1092`). With more pods cordoned than a pass takes
  the tie of `Less` decides in each; as long as it comes out differently they undo
  each other, and the rollout stands still. The order of the list is that of a map,
  so they agree sooner or later; `RolloutCompletes` says it with the premise
  `[]<>Untied` and does not hold without it. After a hash collision the revision keeps
  the old hash label, and pods of two templates carry the same one:
  `RolloutCompletes` fails when `HashOf` is `Collide`. `truncateHistory` compares
  hash labels of pods with names of revisions; revisions carry the template's
  labels and are listed by the selector; `currentRevision` always equals
  `updateRevision`.
- Drain. `MakeNodeUndrain` does not look at the reason: a drain that an administrator
  sets after `IsNodeReasonOurs` was asked is cleared. `UndrainDecisionIsFresh` is
  the guarantee that remains.
- Scaling. `CreateNodeSetPod` may return an error after it created the pod; the
  create is then counted twice (in DaemonSet mode that can mean a third pod on a
  node). A failed delete leaves the pods of skipped batches expected. Both end when
  the expectations expire; `scale_owed` leaves both out, `scale_live` has both.
- DaemonSet mode. Pods to be deleted are also uncordoned, and drained again, in each
  pass, so a registered pod on a node that lost its label without being cordoned is
  never deleted: "Adding or removing nodes automatically adds or removes pods"
  (`docs/index.rst:161-163`) is not true of it. `LeftNodesCleared` promises only that
  a node which was cordoned and left is cleared, and `ModeSwitchCompletes` leaves out
  unlabelled nodes, which keep DaemonSet mode from ever getting to the pods of the
  other mode. Twins share a Slurm node name; with twins, too, the pods of the old
  mode never leave, so liveness is stated for behaviours without them (`NoTwins`). The backoff of
  failed pods is bypassed by `processNodeSetPod`. Pods on deleted Node objects are
  not looked at.
- Claims. A pod that is created again before the collector removed its claims keeps
  the name of a claim that then disappears, and stays pending: `PodGetsClaims` is
  stated for Retain. A pod that was never cordoned leaks its claim when it is
  scaled in. `IsPodPVCsStale` has no caller.
- Protection. The label is computed from the cached pod although the comment says
  it is refreshed. The states come from the client's cache: when work starts after
  the last refresh, a pass may still take the label of earlier work away, so
  `ShieldHolds` begins with work that the client has seen. The comment of a Slurm
  node is written before its state; if the second call fails it is never repeated,
  and `Settles` compares the comment only. A pod that is gone
  ends the loop over the conditions without an error, so the pods behind it wait for
  the next pass. `SyncObject` never patches owner
  references, so only the first NodeSet of a cluster owns the shared Service and PDB.
- Credentials. After a key rotation the old token's signature is invalid, and the
  Token controller reports it for ever. `getRestApiServer` returns a plain error, so
  the branch for a missing RestApi, with its retry in 10 s, is never taken: the rate
  limiter counts it as a failure, like a missing key, and when the cause is gone
  the client may be without a valid JWT for up to 1000 s more. A failing read of a
  deleted Controller keeps its client until the retry. Neither controller watches
  key or RestApi. `durationStore.Pop` is called with the namespace; nothing is lost.
- Control plane. Labels and annotations that are taken out of a spec stay on the
  objects (`MergeMaps`); the controller's Service is created and never updated; a Controller
  that becomes external leaves its old objects; ServiceMonitor, `storagePass` and
  the sssd Secret are not watched; a change of a NodeSet's `controllerRef` wakes the
  new Controller only; statuses are compared value against pointer, so each pass
  writes one; `validTableNameRegex` is not anchored.

## 6. Not modelled, and the plan

What would come next: `UpToDatePodsStay` and the types of `NodeSetRollout` as
theorems.

Not modelled: worker builders, worker Service, PDB and SSH configuration of a
NodeSet (objects nothing else in the operator reads); adoption of orphan pods,
`minReadySeconds` requeues, `UpdateIdentity` and `UpdateStorage`, which repair what
users change by hand; field validation of webhooks other than the Controller's;
commands, API type declarations, charts, metrics and logging. They construct
objects and text or hold no state that another step reads.
