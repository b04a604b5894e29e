---------------------------- MODULE ClusterSync ----------------------------
(***************************************************************************)
(* The reconcilers of Controller, Accounting, RestApi and LoginSet, and the *)
(* watches that wake them.  Each reconciler builds Kubernetes objects out   *)
(* of its own resource and of others it looks up (a Controller's slurm.conf *)
(* names its NodeSets and its Accounting, a slurmdbd pod carries hashes of  *)
(* its keys), so it must be woken whenever one of those changes.  Reads go  *)
(* through informer caches that lag behind the API server; a change becomes *)
(* visible and wakes its handlers in one step, kind by kind.                *)
(*                                                                         *)
(* There is one resource of every kind.  A reconciler writes its own objects *)
(* and its resource's status, and reads no object of another one, so a      *)
(* behaviour follows the reconcilers of one of the sets in Scenes.          *)
(***************************************************************************)
EXTENDS Naturals, Sequences, FiniteSets, Functions

CONSTANTS
    Scenes,      \* sets of reconcilers to follow
    Changing,    \* per scene: what changes, and the share of MaxChanges it takes
    MaxChanges   \* bound: the changes in a behaviour

Reconciled == {"controller", "accounting", "restapi", "loginset"}
Resources == Reconciled \union {"nodeset"}
Inputs == {"slurmKey", "jwtKey", "storagePass", "sssd", "configFiles"}
Sources == Resources \union Inputs

(* The SyncSteps of the four reconcilers, each named for the object it syncs. *)
controllerSyncSteps == <<"ctlService", "ctlConfig", "ctlSet", "ctlMonitor">>
accountingSyncSteps == <<"dbdService", "dbdConfig", "dbdSet">>
restapiSyncSteps    == <<"restService", "restDeploy">>
loginsetSyncSteps   == <<"hostKeys", "sshConfig", "loginService", "loginDeploy">>

SyncSteps == [controller |-> controllerSyncSteps, accounting |-> accountingSyncSteps,
              restapi |-> restapiSyncSteps, loginset |-> loginsetSyncSteps]

Derived == UNION { Range(SyncSteps[k]) : k \in Reconciled }
OwnerOf(d) == CHOOSE k \in Reconciled : d \in Range(SyncSteps[k])

ASSUME SceneAssumption == \A S \in Scenes : S \subseteq Reconciled
ASSUME ChangeAssumption ==
    /\ \A S \in Scenes :
         /\ DOMAIN Changing[S] \subseteq Sources \union Derived \union {"errors", "restart"}
         /\ \A x \in DOMAIN Changing[S] : Changing[S][x] \in Nat \ {0}
    /\ MaxChanges \in Nat

VARIABLES
    running,  \* the reconcilers a behaviour follows
    src,      \* API server: the resources and the secrets and config maps they name
    seen,     \* informer caches of the same
    obj,      \* API server: the derived objects
    objSeen,  \* informer caches of the same
    events,   \* derived objects with events that the watch has not delivered
    queue,    \* work queues: requests waiting, also while one is being processed
    pc,       \* reconciler k: 0 when idle, else the step it takes next
    own,      \* reconciler k: its resource, as read when the reconcile started
    changes   \* user changes so far

vars == <<running, src, seen, obj, objSeen, events, queue, pc, own, changes>>

-----------------------------------------------------------------------------
(* State *)

Versions == 0..(MaxChanges + 1)

(* persistence.enabled is false, or it names an existing claim or specifies *)
(* the claim to make.                                                       *)
Persistence == {"disabled", "existingClaim", "claimSpec"}

(* A source: its generation (0: it does not exist), the generation it was   *)
(* created at, which stands for its UID, and the parts of a spec that decide *)
(* what is built: external, metrics, and where slurmctld saves its state.   *)
(* status: it was written.                                                  *)
SourceRecords == [gen : Versions, uid : Versions, external : BOOLEAN,
                  monitor : BOOLEAN, persist : Persistence, status : BOOLEAN]

Missing == [gen |-> 0, uid |-> 0, external |-> FALSE, monitor |-> FALSE,
            persist |-> "disabled", status |-> FALSE]
Initial == [Missing EXCEPT !.gen = 1, !.uid = 1, !.monitor = TRUE,
                           !.persist = "claimSpec"]

Exists(s) == s.gen > 0

(* A derived object: the UID of its owner, whether it is being deleted, and  *)
(* what its data or spec was built from.  Its labels and annotations are    *)
(* left out: a patch adds to them and takes none away.                      *)
Object(uid, body) == [uid |-> uid, deleting |-> FALSE, body |-> body]
None == Object(0, <<>>)

TypeOK ==
    /\ running \in Scenes
    /\ src \in [Sources -> SourceRecords]
    /\ seen \in [Sources -> SourceRecords]
    /\ DOMAIN obj = Derived /\ \A d \in Derived : obj[d].uid \in Versions
    /\ DOMAIN objSeen = Derived /\ \A d \in Derived : objSeen[d].uid \in Versions
    /\ events \in SUBSET Derived
    /\ queue \in SUBSET Reconciled
    /\ pc \in [Reconciled -> 0..4]
    /\ own \in [Reconciled -> SourceRecords]
    /\ changes \in 0..MaxChanges

(* The operator has just been started: its caches are filled before the     *)
(* workers run, and every resource is handed to its reconciler.             *)
Init ==
    /\ running \in Scenes
    /\ src = [s \in Sources |-> Initial]
    /\ seen = src
    /\ obj = [d \in Derived |-> None]
    /\ objSeen = obj
    /\ events = {}
    /\ queue = running
    /\ pc = [k \in Reconciled |-> 0]
    /\ own = [k \in Reconciled |-> Missing]
    /\ changes = 0

-----------------------------------------------------------------------------
(* Builders: the fields of an object and what each was built from.  me is    *)
(* the resource the reconcile works on, S and O are the sources and derived  *)
(* objects it reads.  A secret or an object that is not found counts as      *)
(* empty, and so does the Accounting.                                       *)

(* slurm.conf names the Accounting and the NodeSets of the Controller, and   *)
(* the scripts in the config maps it refers to.                             *)
buildSlurmConf(me, S) ==
    <<me.gen, S["accounting"].gen, S["nodeset"].gen, S["configFiles"].gen>>
buildSlurmConfMinimal(me, S) == <<me.gen, S["accounting"].gen>>
BuildControllerConfig(me, S) == <<buildSlurmConf(me, S)>>
BuildControllerConfigExternal(me, S) == <<buildSlurmConfMinimal(me, S)>>

BuildControllerService(me) == <<me.gen>>
controllerPodTemplate(me) == me.gen
volumeClaimTemplates(me) == IF me.persist = "claimSpec" THEN me.gen ELSE 0
BuildController(me) == <<controllerPodTemplate(me), volumeClaimTemplates(me)>>
BuildControllerServiceMonitor(me) == <<me.gen>>

BuildAccountingService(me) == <<me.gen>>
buildSlurmdbdConf(me, pass) == <<me.gen, pass.gen>>
BuildAccountingConfig(me, S) == <<buildSlurmdbdConf(me, S["storagePass"])>>

(* The template carries hashes, so that a change restarts slurmdbd. *)
getAccountingHashes(S, O) == <<S["slurmKey"].gen, S["jwtKey"].gen, O["dbdConfig"].body>>
accountingPodTemplate(me, S, O) == <<me.gen>> \o getAccountingHashes(S, O)
BuildAccounting(me, S, O) == accountingPodTemplate(me, S, O)

BuildRestapiService(me) == <<me.gen>>
restapiPodTemplate(me, S) == <<me.gen, S["controller"].gen>>
BuildRestapi(me, S) == restapiPodTemplate(me, S)

(* A key pair at every call, unlike any that the secret and the Deployment's *)
(* hash of it hold; numbers no longer in use are used again.                *)
FreshKey ==
    LET Used(o) == Range(o["hostKeys"].body)
                     \union (IF o["loginDeploy"] = None THEN {}
                             ELSE Range(o["loginDeploy"].body[5]))
        free == (1..5) \ (Used(obj) \union Used(objSeen))
    IN  CHOOSE n \in free : \A i \in free : n <= i
BuildLoginSshHostKeys(key) == <<key>>
BuildLoginSshConfig(me) == <<me.gen>>
BuildLoginService(me) == <<me.gen>>
getLoginHashes(S, O) == <<S["sssd"].gen, O["sshConfig"].body, O["hostKeys"].body>>
loginPodTemplate(me, S, O) == <<me.gen, S["controller"].gen>> \o getLoginHashes(S, O)
BuildLogin(me, S, O) == loginPodTemplate(me, S, O)

Body(d, me, S, O, key) ==
    CASE d = "ctlService"   -> BuildControllerService(me)
      [] d = "ctlConfig"    -> IF me.external THEN BuildControllerConfigExternal(me, S)
                               ELSE BuildControllerConfig(me, S)
      [] d = "ctlSet"       -> BuildController(me)
      [] d = "ctlMonitor"   -> BuildControllerServiceMonitor(me)
      [] d = "dbdService"   -> BuildAccountingService(me)
      [] d = "dbdConfig"    -> BuildAccountingConfig(me, S)
      [] d = "dbdSet"       -> BuildAccounting(me, S, O)
      [] d = "restService"  -> BuildRestapiService(me)
      [] d = "restDeploy"   -> BuildRestapi(me, S)
      [] d = "hostKeys"     -> BuildLoginSshHostKeys(key)
      [] d = "sshConfig"    -> BuildLoginSshConfig(me)
      [] d = "loginService" -> BuildLoginService(me)
      [] d = "loginDeploy"  -> BuildLogin(me, S, O)

(* References whose lookup fails the build when it finds nothing. *)
BuildNeeds(d, me) ==
    CASE d = "ctlConfig" /\ ~me.external -> {"configFiles"}
      [] d = "dbdConfig"                 -> {"storagePass"}
      [] d \in {"restDeploy", "loginDeploy"} -> {"controller"}
      [] OTHER                           -> {}

(* Steps that return early for an external Controller or Accounting. *)
Skipped(d, me) ==
    me.external /\ d \in {"ctlService", "ctlSet", "dbdService", "dbdConfig", "dbdSet"}

-----------------------------------------------------------------------------
(* objectutils: SyncObject and DeleteObject.  Each compares with the cached  *)
(* object; creating what exists, and patching or deleting what does not,    *)
(* fails.                                                                   *)

\* mutant: immutability is not looked at
UpdatedAlways(d) == d # "ctlService"

(* An existing object is left alone when it is immutable, and the            *)
(* Controller's Service because its step passes shouldUpdate = false.       *)
Updated(d) == d \notin {"hostKeys", "ctlService"}

(* So is one that the cache shows as being deleted. *)
Patched(d) == Updated(d) /\ ~objSeen[d].deleting

(* A merge patch carries the fields that differ from the cached object.  The *)
(* volume claim templates of a StatefulSet are never among them; StringData *)
(* of a Secret always is, since the cache only holds Data.                  *)
MergePatch(d, cached, current, new) ==
    IF d = "dbdConfig" THEN new
    ELSE [i \in 1..Len(new) |->
            IF new[i] = cached[i] \/ (d = "ctlSet" /\ i = 2) THEN current[i] ELSE new[i]]

\* mutant: an object is created without a look whether it exists
CreateFails(d, delete) == obj[d] # None \/ objSeen[d] # None

WriteFails(d, delete) ==
    IF objSeen[d] = None THEN ~delete /\ obj[d] # None
    ELSE (delete \/ Patched(d)) /\ obj[d] = None

SyncObject(d, me, new) ==
    obj' = IF objSeen[d] = None
           THEN [obj EXCEPT ![d] = Object(me.uid, new)]
           ELSE IF ~Patched(d) THEN obj
           ELSE [obj EXCEPT ![d].body = MergePatch(d, objSeen[d].body, @, new)]

DeleteObject(d) ==
    obj' = IF objSeen[d] = None THEN obj ELSE [obj EXCEPT ![d] = None]

-----------------------------------------------------------------------------
(* Watches.  What a delivered change x puts on the queue of each reconciler; *)
(* S is the cache the handlers list from.                                   *)

AuthKeys == {"slurmKey", "jwtKey"}

(* For(resource) and Owns(...); nobody owns-watches the ServiceMonitor.      *)
(* Accounting's second watch of its own kind enqueues what For does.        *)
ForAndOwns(k, x) == x = k \/ x \in Range(SyncSteps[k]) \ {"ctlMonitor"}

\* mutant: deleted or changed NodeSets do not wake the Controller
NodesetEventBlank(x, S) == FALSE

controllerAccountingEvent(x, S) == x = "accounting" /\ Exists(S["controller"])
controllerNodesetEvent(x, S) == x = "nodeset" /\ Exists(S["controller"])
controllerSecretEvent(x, S) == x \in AuthKeys /\ Exists(S["controller"])
controllerWatches(x, S) ==
    \/ ForAndOwns("controller", x)
    \/ controllerAccountingEvent(x, S)
    \/ controllerNodesetEvent(x, S)
    \/ controllerSecretEvent(x, S)

accountingSecretEvent(x, S) == x \in AuthKeys /\ Exists(S["accounting"])
accountingWatches(x, S) == ForAndOwns("accounting", x) \/ accountingSecretEvent(x, S)

restapiControllerEvent(x, S) == x = "controller" /\ Exists(S["restapi"])
restapiSecretEvent(x, S) ==
    x \in AuthKeys /\ Exists(S["controller"]) /\ Exists(S["restapi"])
restapiWatches(x, S) ==
    ForAndOwns("restapi", x) \/ restapiControllerEvent(x, S) \/ restapiSecretEvent(x, S)

loginsetControllerEvent(x, S) == x = "controller" /\ Exists(S["loginset"])
loginsetSecretEvent(x, S) ==
    x \in AuthKeys /\ Exists(S["controller"]) /\ Exists(S["loginset"])
loginsetWatches(x, S) ==
    ForAndOwns("loginset", x) \/ loginsetControllerEvent(x, S) \/ loginsetSecretEvent(x, S)

Wakes(x, S) ==
    { k \in running :
        CASE k = "controller" -> controllerWatches(x, S)
          [] k = "accounting" -> accountingWatches(x, S)
          [] k = "restapi"    -> restapiWatches(x, S)
          [] k = "loginset"   -> loginsetWatches(x, S) }

DeliverSource(s) ==
    /\ seen[s] # src[s]
    /\ seen' = [seen EXCEPT ![s] = src[s]]
    /\ queue' = queue \union Wakes(s, seen')
    /\ UNCHANGED <<running, src, obj, objSeen, events, pc, own, changes>>

DeliverObject(d) ==
    /\ d \in events
    /\ objSeen' = [objSeen EXCEPT ![d] = obj[d]]
    /\ events' = events \ {d}
    /\ queue' = queue \union Wakes(d, seen)
    /\ UNCHANGED <<running, src, seen, obj, pc, own, changes>>

-----------------------------------------------------------------------------
(* Reconcile.  A worker takes a request off the queue and ends a reconcile   *)
(* that failed by putting it back.                                          *)

(* Sync, up to its steps: the resource is gone, or LoginSet's Controller is *)
(* not found, or the steps begin.                                           *)
StartSync(k) ==
    /\ k \in queue /\ pc[k] = 0
    /\ \/ /\ ~Exists(seen[k])
          /\ queue' = queue \ {k}
          /\ UNCHANGED <<pc, own>>
       \/ /\ Exists(seen[k])
          /\ k = "loginset" => Exists(seen["controller"])
          /\ queue' = queue \ {k}
          /\ pc' = [pc EXCEPT ![k] = 1]
          /\ own' = [own EXCEPT ![k] = seen[k]]
    /\ UNCHANGED <<running, src, seen, obj, objSeen, events, changes>>

(* syncStatus ends every reconcile, a failed one too.  It writes the         *)
(* resource as cached, so a stale cache is a conflict; LoginSet's sums its  *)
(* Deployment.  Only LoginSet's status says anything.                       *)
StatusFails(k) ==
    \/ Exists(seen[k]) /\ seen[k] # src[k]
    \/ k = "loginset" /\ objSeen["loginDeploy"] = None

syncStatus(k) ==
    src' = IF k = "loginset" /\ ~StatusFails(k) /\ Exists(seen[k])
           THEN [src EXCEPT ![k].status = TRUE] ELSE src

Retry(k) ==
    /\ syncStatus(k)
    /\ queue' = queue \union {k}
    /\ pc' = [pc EXCEPT ![k] = 0]

Advance(k) ==
    IF pc[k] < Len(SyncSteps[k])
    THEN pc' = [pc EXCEPT ![k] = @ + 1] /\ UNCHANGED <<src, queue>>
    ELSE IF StatusFails(k)
    THEN Retry(k)
    ELSE syncStatus(k) /\ pc' = [pc EXCEPT ![k] = 0] /\ UNCHANGED queue

SyncStep(k) ==
    LET d == SyncSteps[k][pc[k]]
        me == own[k]
        delete == d = "ctlMonitor" /\ ~me.monitor
        new == Body(d, me, seen, objSeen, FreshKey)
    IN  /\ pc[k] > 0
        /\ IF Skipped(d, me)
           THEN Advance(k) /\ UNCHANGED obj
           ELSE IF \/ \E s \in BuildNeeds(d, me) : ~Exists(seen[s])
                   \/ WriteFails(d, delete)
           THEN Retry(k) /\ UNCHANGED obj
           ELSE /\ IF delete THEN DeleteObject(d) ELSE SyncObject(d, me, new)
                /\ Advance(k)
        /\ events' = IF obj' = obj THEN events ELSE events \union {d}
        /\ UNCHANGED <<running, seen, objSeen, own, changes>>

Sync(k) == StartSync(k) \/ SyncStep(k)

-----------------------------------------------------------------------------
(* Everybody else *)

Change(kind) == /\ kind \in DOMAIN Changing[running]
                /\ changes' = changes + Changing[running][kind]
                /\ changes' <= MaxChanges

(* Any call of a reconcile may fail. *)
StepFails(k) ==
    /\ Change("errors")
    /\ pc[k] > 0
    /\ Retry(k)
    /\ UNCHANGED <<running, seen, obj, objSeen, events, own>>

(* The webhook of Controller: a referenced config map must exist, and        *)
(* persistence cannot be switched on or off after deployment.  The claim it *)
(* names or specifies can change.                                           *)
validateController == Exists(src["configFiles"])

Enabled(r) == r.persist # "disabled"
ValidateCreate == validateController
ValidateUpdate(old, new) == validateController /\ (Enabled(new) <=> Enabled(old))

(* The flags of a spec; only the resource's own reconciler looks at them. *)
Specs(s) ==
    IF s \notin running THEN {[external |-> FALSE, monitor |-> TRUE, persist |-> "claimSpec"]}
    ELSE IF s = "controller"
    THEN [external : BOOLEAN, monitor : BOOLEAN, persist : Persistence]
    ELSE IF s = "accounting"
    THEN [external : BOOLEAN, monitor : {TRUE}, persist : {"claimSpec"}]
    ELSE {[external |-> FALSE, monitor |-> TRUE, persist |-> "claimSpec"]}

UserWrites(s) ==
    /\ Change(s)
    /\ s \in Sources
    /\ \E f \in Specs(s) :
         LET new == [gen |-> changes' + 1,
                     uid |-> IF Exists(src[s]) THEN src[s].uid ELSE changes' + 1,
                     external |-> f.external, monitor |-> f.monitor,
                     persist |-> f.persist, status |-> src[s].status]
         IN  /\ s = "controller" => IF Exists(src[s]) THEN ValidateUpdate(src[s], new)
                                    ELSE ValidateCreate
             /\ src' = [src EXCEPT ![s] = new]
    /\ UNCHANGED <<running, seen, obj, objSeen, events, queue, pc, own>>

UserDeletes(s) ==
    /\ Change(s)
    /\ s \in Sources /\ Exists(src[s])
    /\ src' = [src EXCEPT ![s] = Missing]
    /\ UNCHANGED <<running, seen, obj, objSeen, events, queue, pc, own>>

(* A deleted object may stay for a while, until its dependents are gone. *)
UserDeletesObject(d) ==
    /\ Change(d)
    /\ d \in Derived /\ obj[d] # None
    /\ obj' = [obj EXCEPT ![d].deleting = TRUE]
    /\ events' = events \union {d}
    /\ UNCHANGED <<running, src, seen, objSeen, queue, pc, own>>

ObjectGone(d) ==
    /\ obj[d].deleting
    /\ obj' = [obj EXCEPT ![d] = None]
    /\ events' = events \union {d}
    /\ UNCHANGED <<running, src, seen, objSeen, queue, pc, own, changes>>

(* Garbage collection of objects whose owner is gone or another one. *)
Garbage(k) == { d \in Range(SyncSteps[k]) : obj[d] # None /\ obj[d].uid # src[k].uid }

CollectGarbage(k) ==
    /\ Garbage(k) # {}
    /\ obj' = [d \in Derived |-> IF d \in Garbage(k) THEN None ELSE obj[d]]
    /\ events' = events \union Garbage(k)
    /\ UNCHANGED <<running, src, seen, objSeen, queue, pc, own, changes>>

(* A restarted operator syncs its caches and is handed every resource. *)
OperatorRestarts ==
    /\ Change("restart")
    /\ seen' = src /\ objSeen' = obj /\ events' = {}
    /\ queue' = { k \in running : Exists(src[k]) }
    /\ pc' = [k \in Reconciled |-> 0]
    /\ UNCHANGED <<running, src, obj, own>>

-----------------------------------------------------------------------------
(* Specification *)

Next ==
    \/ \E k \in running : StartSync(k) \/ SyncStep(k) \/ StepFails(k) \/ CollectGarbage(k)
    \/ \E s \in Sources : DeliverSource(s) \/ UserWrites(s) \/ UserDeletes(s)
    \/ \E d \in Derived : DeliverObject(d) \/ UserDeletesObject(d) \/ ObjectGone(d)
    \/ OperatorRestarts

Spec == Init /\ [][Next]_vars

(* Watches deliver, workers take requests off their queues, and what is     *)
(* garbage or being deleted goes.                                           *)
Fairness ==
    /\ \A k \in Reconciled : WF_vars(Sync(k))
    /\ WF_vars(\E s \in Sources : DeliverSource(s))
    /\ WF_vars(\E d \in Derived : DeliverObject(d))
    /\ WF_vars(\E d \in Derived : ObjectGone(d))
    /\ WF_vars(\E k \in running : CollectGarbage(k))

LiveSpec == Spec /\ Fairness

-----------------------------------------------------------------------------
(* Properties *)

(* Nothing is under way and nothing waits to be noticed. *)
Quiet ==
    /\ queue = {}
    /\ \A k \in Reconciled : pc[k] = 0
    /\ seen = src /\ events = {}
    /\ \A k \in running : Garbage(k) = {}
    /\ \A d \in Derived : ~obj[d].deleting

(* The fields of a body that patches keep up to date: all but the claim      *)
(* templates of a StatefulSet.                                              *)
Followed(d, body) == IF d = "ctlSet" THEN body[1] ELSE body

(* d is what its builder makes of the world as it is now, but for the claim *)
(* templates of the StatefulSet.  Nobody rewrites the Controller's Service  *)
(* or watches its ServiceMonitor, and an external component keeps what it   *)
(* had.                                                                     *)
InSync(d) ==
    LET me == src[OwnerOf(d)]
        built == Body(d, me, src, obj, IF d = "hostKeys" THEN obj[d].body[1] ELSE 0)
    IN  \/ OwnerOf(d) \notin running
        \/ ~Exists(me)
        \/ Skipped(d, me)
        \/ d = "ctlMonitor"
        \/ d = "ctlService" /\ obj[d] # None
        \/ obj[d] # None /\ Followed(d, obj[d].body) = Followed(d, built)

(* No wakeup is lost: whenever the operator has nothing left to do, every   *)
(* object it owns is what its builder would make of the present world in    *)
(* all that SyncObject patches, whichever order changes, their events and   *)
(* the reconciles came in.                                                  *)
QuietMeansInSync == Quiet => \A d \in Derived : InSync(d)

(* The SSH host keys of a LoginSet are never replaced while the secret that *)
(* holds them exists: clients that know them would refuse to connect.       *)
HostKeysKept ==
    [][obj["hostKeys"] # None /\ obj'["hostKeys"] # None
         => obj'["hostKeys"].body = obj["hostKeys"].body]_vars

(* A reconciler does not keep waking itself: once users stop, and    *)
(* every lookup finds something, the operator comes to rest.                *)
Complete ==
    /\ \A s \in Inputs : Exists(src[s])
    /\ Exists(src["restapi"]) \/ Exists(src["loginset"]) => Exists(src["controller"])

Settles == <>[]Complete => <>[]Quiet

(* README.md: "Changes to the Slurm configuration files are automatically   *)
(* detected and the Slurm cluster is reconfigured seamlessly".  slurm.conf   *)
(* is generated from the referenced config maps as well.                    *)
ConfigFilesDetected == Quiet => InSync("ctlConfig")

(* controller_webhook.go: "We use volumeClaimTemplates to handle the          *)
(* controller savestate PVC. StatefulSet does not allow update of that       *)
(* field."  The claim templates are those that the Controller asks for.      *)
ClaimTemplatesFollow ==
    Quiet /\ obj["ctlSet"] # None /\ ~src["controller"].external
      => obj["ctlSet"].body[2] = volumeClaimTemplates(src["controller"])
=============================================================================
