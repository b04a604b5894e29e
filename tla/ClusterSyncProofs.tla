-------------------------- MODULE ClusterSyncProofs --------------------------
(***************************************************************************)
(* Proofs about the control-plane reconcilers, for every set of scenes and  *)
(* any number of changes: no wakeup is lost, and SSH host keys are never    *)
(* replaced.                                                                *)
(*                                                                         *)
(* QuietMeansInSync speaks of states in which nothing is under way, so it    *)
(* is not inductive.  SyncInv says what holds on the way there: an object    *)
(* that is not what its builder makes of the cached world has a reconcile    *)
(* queued, or one that is still before its step, or an event coming that     *)
(* queues one (Clean, CleanInv).  To keep that, a builder may read nothing   *)
(* that changes without waking the reconciler (SourceWakes, ObjectWakes), a  *)
(* reconcile that works on a stale resource must run again (OwnInv), and a   *)
(* patch that changes nothing must mean that nothing differs in the fields   *)
(* it follows (PatchedIsNew).  An object being deleted is left alone: the    *)
(* event of its end is still to come.                                       *)
(***************************************************************************)
EXTENDS ClusterSync, SequenceTheorems, TLAPS

(* The steps of each reconciler, and to whom an object belongs. *)
LEMMA StepsOf ==
  /\ SyncSteps["controller"] = <<"ctlService", "ctlConfig", "ctlSet", "ctlMonitor">>
  /\ SyncSteps["accounting"] = <<"dbdService", "dbdConfig", "dbdSet">>
  /\ SyncSteps["restapi"] = <<"restService", "restDeploy">>
  /\ SyncSteps["loginset"] = <<"hostKeys", "sshConfig", "loginService", "loginDeploy">>
BY DEF SyncSteps, controllerSyncSteps, accountingSyncSteps, restapiSyncSteps,
       loginsetSyncSteps

LEMMA RangeOf ==
  /\ Range(SyncSteps["controller"]) = {"ctlService", "ctlConfig", "ctlSet", "ctlMonitor"}
  /\ Range(SyncSteps["accounting"]) = {"dbdService", "dbdConfig", "dbdSet"}
  /\ Range(SyncSteps["restapi"]) = {"restService", "restDeploy"}
  /\ Range(SyncSteps["loginset"]) = {"hostKeys", "sshConfig", "loginService", "loginDeploy"}
BY StepsOf DEF Range

LEMMA OwnerIs ==
  ASSUME NEW k \in Reconciled, NEW d \in Range(SyncSteps[k])
  PROVE  OwnerOf(d) = k /\ d \in Derived
BY RangeOf DEF OwnerOf, Derived, Reconciled

-----------------------------------------------------------------------------
(* What the builders read *)

(* The sources and the derived objects that the builder of d reads, other    *)
(* than the resource it is built for.                                       *)
ReadsOf(d) ==
    CASE d = "ctlConfig"   -> {"accounting", "nodeset", "configFiles"}
      [] d = "dbdConfig"   -> {"storagePass"}
      [] d = "dbdSet"      -> {"slurmKey", "jwtKey"}
      [] d = "restDeploy"  -> {"controller"}
      [] d = "loginDeploy" -> {"controller", "sssd"}
      [] OTHER             -> {}
HashesOf(d) ==
    CASE d = "dbdSet"      -> {"dbdConfig"}
      [] d = "loginDeploy" -> {"sshConfig", "hostKeys"}
      [] OTHER             -> {}

Unwatched == {"storagePass", "sssd", "configFiles"}
OnlyWatched == \A S \in Scenes : DOMAIN Changing[S] \intersect Unwatched = {}

-----------------------------------------------------------------------------
(* The invariant *)

IsObject(o) ==
    o = [uid |-> o.uid, deleting |-> o.deleting, body |-> o.body] /\ o.uid \in Nat
IsSource(r) ==
    /\ r \in [gen : Nat, uid : Nat, external : BOOLEAN, monitor : BOOLEAN,
             persist : Persistence, status : BOOLEAN]
    /\ Exists(r) => r.uid > 0

ShapeInv ==
    /\ running \in Scenes /\ running \subseteq Reconciled
    /\ DOMAIN src = Sources /\ DOMAIN seen = Sources
    /\ DOMAIN pc = Reconciled /\ DOMAIN own = Reconciled
    /\ \A s \in Sources : IsSource(src[s]) /\ IsSource(seen[s])
    /\ \A k \in Reconciled : pc[k] \in 0..Len(SyncSteps[k]) /\ IsSource(own[k])
    /\ obj = [d \in Derived |-> obj[d]]
    /\ objSeen = [d \in Derived |-> objSeen[d]]
    /\ \A d \in Derived : IsObject(obj[d]) /\ IsObject(objSeen[d])
    /\ changes \in Nat

(* The caches lag only where an event is on its way, and never on what       *)
(* nobody changes.                                                          *)
CacheInv ==
    /\ \A d \in Derived : d \notin events => objSeen[d] = obj[d]
    /\ \A s \in Unwatched : seen[s] = src[s]

(* A reconcile works on the resource as the cache has it, or runs again. *)
OwnInv ==
    \A k \in running :
        pc[k] > 0 => /\ Exists(own[k])
                     /\ own[k] = seen[k] \/ k \in queue

(* The secret holds one key pair. *)
KeyInv == obj["hostKeys"] # None => obj["hostKeys"].body = <<obj["hostKeys"].body[1]>>

(* d needs no sync by k, or an event that wakes k is still to come: its own, *)
(* or that of its deletion.                                                 *)
Built(d, r) == Body(d, r, seen, objSeen, IF d = "hostKeys" THEN objSeen[d].body[1] ELSE 0)
Clean(k, d) ==
    \/ ~Exists(seen[k])
    \/ Skipped(d, seen[k])
    \/ d = "ctlMonitor"
    \/ d \in events
    \/ obj[d].deleting
    \/ obj[d] # None /\ obj[d].uid # seen[k].uid
    \/ /\ objSeen[d] # None
       /\ d # "ctlService" => Followed(d, objSeen[d].body) = Followed(d, Built(d, seen[k]))

(* Each object a reconciler keeps is clean, or a sync of it is to come. *)
CleanInv ==
    \A k \in running : \A i \in 1..Len(SyncSteps[k]) :
        \/ k \in queue
        \/ 0 < pc[k] /\ pc[k] <= i
        \/ Clean(k, SyncSteps[k][i])

SyncInv == ShapeInv /\ CacheInv /\ OwnInv /\ KeyInv /\ CleanInv

-----------------------------------------------------------------------------
(* Lemmas about the builders and the watches *)

(* d is one of the thirteen objects. *)
LEMMA DerivedIs ==
  Derived = {"ctlService", "ctlConfig", "ctlSet", "ctlMonitor", "dbdService", "dbdConfig",
             "dbdSet", "restService", "restDeploy", "hostKeys", "sshConfig",
             "loginService", "loginDeploy"}
<1>1. Derived = Range(SyncSteps["controller"]) \union Range(SyncSteps["accounting"])
                  \union Range(SyncSteps["restapi"]) \union Range(SyncSteps["loginset"])
  BY DEF Derived, Reconciled
<1> QED BY <1>1, RangeOf

(* A step syncs an object of its reconciler, and one only. *)
LEMMA StepIn ==
  ASSUME NEW k \in Reconciled, NEW i \in 1..Len(SyncSteps[k])
  PROVE  SyncSteps[k][i] \in Range(SyncSteps[k])
<1>1. DOMAIN SyncSteps[k] = 1..Len(SyncSteps[k])
  BY StepsOf DEF Reconciled
<1> QED BY <1>1 DEF Range

LEMMA StepsDiffer ==
  ASSUME NEW k \in Reconciled, NEW i \in 1..Len(SyncSteps[k]),
         NEW l \in Reconciled, NEW j \in 1..Len(SyncSteps[l]),
         SyncSteps[k][i] = SyncSteps[l][j]
  PROVE  k = l /\ i = j
<1>1. k = l
  BY StepIn, OwnerIs
<1>2. i = j
  BY <1>1, StepsOf DEF Reconciled
<1> QED BY <1>1, <1>2

(* The tuples that builders make are sequences. *)
LEMMA IsSequence ==
  ASSUME NEW Fields, NEW s \in Seq(Fields)
  PROVE  Len(s) \in Nat /\ s = [i \in 1..Len(s) |-> s[i]]
OBVIOUS

LEMMA FourFields ==
  ASSUME NEW a, NEW b, NEW c, NEW d
  PROVE  <<a>> \o <<b, c, d>> \in Seq({a, b, c, d})
<1>1. <<a>> \in Seq({a, b, c, d}) /\ <<b, c, d>> \in Seq({a, b, c, d})
  OBVIOUS
<1> QED BY <1>1

LEMMA FiveFields ==
  ASSUME NEW a, NEW b, NEW c, NEW d, NEW e
  PROVE  <<a, b>> \o <<c, d, e>> \in Seq({a, b, c, d, e})
<1>1. <<a, b>> \in Seq({a, b, c, d, e}) /\ <<c, d, e>> \in Seq({a, b, c, d, e})
  OBVIOUS
<1> QED BY <1>1

(* A body depends on nothing but its owner and what ReadsOf and HashesOf name. *)
LEMMA BodyFrame ==
  ASSUME NEW d \in Derived, NEW r, NEW S, NEW T, NEW O, NEW P, NEW key, NEW key2,
         \A s \in ReadsOf(d) : S[s] = T[s],
         \A o \in HashesOf(d) : O[o] = P[o],
         d = "hostKeys" => key = key2
  PROVE  Body(d, r, S, O, key) = Body(d, r, T, P, key2)
BY DerivedIs DEF Body, ReadsOf, HashesOf, BuildControllerService, BuildControllerConfigExternal,
   BuildControllerConfig, BuildController, BuildControllerServiceMonitor,
   BuildAccountingService, BuildAccountingConfig, BuildAccounting, BuildRestapiService,
   BuildRestapi, BuildLoginSshHostKeys, BuildLoginSshConfig, BuildLoginService, BuildLogin,
   buildSlurmConf, buildSlurmConfMinimal, controllerPodTemplate, volumeClaimTemplates,
   buildSlurmdbdConf,
   accountingPodTemplate, getAccountingHashes, restapiPodTemplate, loginPodTemplate,
   getLoginHashes

(* A body is a sequence. *)
LEMMA BodyFields ==
  ASSUME NEW d \in Derived, NEW r, NEW S, NEW O, NEW key
  PROVE  LET new == Body(d, r, S, O, key)
         IN  Len(new) \in Nat /\ new = [i \in 1..Len(new) |-> new[i]]
<1> DEFINE new == Body(d, r, S, O, key)
<1>1. CASE d = "dbdSet"
  <2>1. new = <<r.gen>> \o <<S["slurmKey"].gen, S["jwtKey"].gen, O["dbdConfig"].body>>
    BY <1>1 DEF Body, BuildAccounting, accountingPodTemplate, getAccountingHashes
  <2> QED BY <2>1, FourFields, IsSequence
<1>2. CASE d = "loginDeploy"
  <2>1. new = <<r.gen, S["controller"].gen>>
                \o <<S["sssd"].gen, O["sshConfig"].body, O["hostKeys"].body>>
    BY <1>2 DEF Body, BuildLogin, loginPodTemplate, getLoginHashes
  <2> QED BY <2>1, FiveFields, IsSequence
<1>3. CASE d \notin {"dbdSet", "loginDeploy"}
  <2>1. (\E a : new = <<a>>) \/ (\E a, b : new = <<a, b>>)
    BY <1>3, DerivedIs
     DEF Body, BuildControllerService, BuildControllerConfigExternal,
     BuildControllerConfig, BuildController, BuildControllerServiceMonitor,
     BuildAccountingService, BuildAccountingConfig, BuildRestapiService,
     BuildRestapi, BuildLoginSshHostKeys, BuildLoginSshConfig, BuildLoginService,
     buildSlurmConf, buildSlurmConfMinimal, controllerPodTemplate, volumeClaimTemplates,
   buildSlurmdbdConf,
     restapiPodTemplate
  <2>2. ASSUME NEW a, new = <<a>> PROVE Len(new) \in Nat /\ new = [i \in 1..Len(new) |-> new[i]]
    <3> HIDE DEF new
    <3>1. new \in Seq({a})
      BY <2>2
    <3> QED BY <3>1, IsSequence
  <2>3. ASSUME NEW a, NEW b, new = <<a, b>>
        PROVE  Len(new) \in Nat /\ new = [i \in 1..Len(new) |-> new[i]]
    <3> HIDE DEF new
    <3>1. new \in Seq({a, b})
      BY <2>3
    <3> QED BY <3>1, IsSequence
  <2> QED
    <3> HIDE DEF new
    <3>1. Len(new) \in Nat /\ new = [i \in 1..Len(new) |-> new[i]]
      BY <2>1, <2>2, <2>3
    <3> QED BY <3>1 DEF new
<1> QED BY <1>1, <1>2, <1>3

(* Whatever a builder reads and may change wakes the reconciler. *)
LEMMA SourceWakes ==
  ASSUME NEW k \in running, running \subseteq Reconciled,
         NEW d \in Range(SyncSteps[k]), NEW S, NEW s,
         \/ s = k
         \/ s \in ReadsOf(d) \ Unwatched /\ Exists(S[k])
  PROVE  k \in Wakes(s, S)
BY RangeOf DEF Wakes, ReadsOf, Unwatched, controllerWatches, controllerAccountingEvent, controllerNodesetEvent,
   controllerSecretEvent, accountingWatches, accountingSecretEvent, restapiWatches,
   restapiControllerEvent, loginsetWatches, loginsetControllerEvent, ForAndOwns, AuthKeys,
   Reconciled

LEMMA ObjectWakes ==
  ASSUME NEW k \in running, running \subseteq Reconciled,
         NEW d \in Range(SyncSteps[k]), NEW S, NEW o,
         o \in HashesOf(d) \union ({d} \ {"ctlMonitor"})
  PROVE  k \in Wakes(o, S)
BY RangeOf DEF Wakes, HashesOf, controllerWatches, accountingWatches, restapiWatches,
   loginsetWatches, ForAndOwns, Reconciled

-----------------------------------------------------------------------------
(* What a step of a reconcile does *)

(* Two records of a source that a builder cannot tell apart. *)
SameSource(r, q) == r.gen = q.gen /\ r.uid = q.uid

SrcKept ==
    /\ DOMAIN src' = Sources
    /\ \A s \in Sources : IsSource(src'[s]) /\ SameSource(src'[s], src[s])
    /\ \A s \in Sources \ {"loginset"} : src'[s] = src[s]

LEMMA StatusKeeps ==
  ASSUME ShapeInv, NEW k, syncStatus(k) \/ src' = src
  PROVE  SrcKept
<1>1. DOMAIN src = Sources /\ \A s \in Sources : IsSource(src[s])
  BY DEF ShapeInv
<1>2. CASE src' = src
  BY <1>1, <1>2 DEF SrcKept, SameSource
<1>3. CASE src' = [src EXCEPT !["loginset"].status = TRUE]
  <2>1. DOMAIN src' = Sources /\ \A s \in Sources \ {"loginset"} : src'[s] = src[s]
    BY <1>1, <1>3
  <2>2. src'["loginset"] = [src["loginset"] EXCEPT !.status = TRUE]
    BY <1>1, <1>3 DEF Sources, Resources, Reconciled
  <2>3. IsSource(src["loginset"])
    BY <1>1 DEF Sources, Resources, Reconciled
  <2>4. IsSource(src'["loginset"]) /\ SameSource(src'["loginset"], src["loginset"])
    BY <2>2, <2>3 DEF IsSource, SameSource, Exists
  <2> QED BY <1>1, <2>1, <2>4 DEF SrcKept, SameSource
<1> QED BY <1>2, <1>3 DEF syncStatus

(* A step that fails is tried again from the start. *)
LEMMA RetryDoes ==
  ASSUME ShapeInv, NEW k \in Reconciled, Retry(k)
  PROVE  /\ SrcKept
         /\ queue' = queue \union {k}
         /\ pc' = [pc EXCEPT ![k] = 0]
BY StatusKeeps DEF Retry

(* A step that succeeds leads to the next, and the last to the end. *)
LEMMA AdvanceDoes ==
  ASSUME ShapeInv, NEW k \in Reconciled, Advance(k), pc[k] > 0
  PROVE  /\ SrcKept
         /\ queue \subseteq queue' /\ queue' \subseteq queue \union {k}
         /\ \/ /\ pc[k] < Len(SyncSteps[k])
               /\ pc' = [pc EXCEPT ![k] = pc[k] + 1]
            \/ /\ pc[k] = Len(SyncSteps[k])
               /\ pc' = [pc EXCEPT ![k] = 0]
<1>1. pc[k] \in 0..Len(SyncSteps[k]) /\ Len(SyncSteps[k]) \in Nat
  BY StepsOf DEF ShapeInv, Reconciled
<1>2. CASE pc[k] < Len(SyncSteps[k])
  BY <1>1, <1>2, StatusKeeps DEF Advance
<1>3. CASE ~(pc[k] < Len(SyncSteps[k]))
  BY <1>1, <1>3, StatusKeeps, RetryDoes DEF Advance
<1> QED BY <1>2, <1>3

(* What SyncObject and DeleteObject may write. *)
LEMMA WriteDoes ==
  ASSUME ShapeInv, NEW d \in Derived, NEW r, IsSource(r), NEW new,
         SyncObject(d, r, new) \/ DeleteObject(d)
  PROVE  /\ obj' = [e \in Derived |-> obj'[e]]
         /\ \A e \in Derived : IsObject(obj'[e])
         /\ \A e \in Derived \ {d} : obj'[e] = obj[e]
<1>1. obj = [e \in Derived |-> obj[e]] /\ \A e \in Derived : IsObject(obj[e])
  BY DEF ShapeInv
<1>2. CASE obj' = obj
  BY <1>1, <1>2
<1>3. ASSUME NEW o, IsObject(o), obj' = [obj EXCEPT ![d] = o]
      PROVE  /\ obj' = [e \in Derived |-> obj'[e]]
             /\ \A e \in Derived : IsObject(obj'[e])
             /\ \A e \in Derived \ {d} : obj'[e] = obj[e]
  <2>1. /\ obj' = [e \in Derived |-> obj'[e]]
        /\ obj'[d] = o
        /\ \A e \in Derived \ {d} : obj'[e] = obj[e]
    BY <1>1, <1>3
  <2> QED BY <1>1, <1>3, <2>1
<1>4. CASE obj' = [obj EXCEPT ![d] = None]
  <2>1. IsObject(None)
    BY DEF IsObject, None, Object
  <2> QED BY <1>3, <1>4, <2>1
<1>5. CASE obj' = [obj EXCEPT ![d] = Object(r.uid, new)]
  <2>1. IsObject(Object(r.uid, new))
    BY DEF IsObject, IsSource, Object
  <2> QED BY <1>3, <1>5, <2>1
<1>6. CASE obj' = [obj EXCEPT ![d].body = MergePatch(d, objSeen[d].body, @, new)]
  <2> DEFINE b == MergePatch(d, objSeen[d].body, obj[d].body, new)
  <2>1. obj' = [obj EXCEPT ![d] = [obj[d] EXCEPT !.body = b]]
    BY <1>1, <1>6
  <2> HIDE DEF b
  <2>2. [obj[d] EXCEPT !.body = b]
          = [uid |-> obj[d].uid, deleting |-> obj[d].deleting, body |-> b]
    BY <1>1 DEF IsObject
  <2>3. IsObject([uid |-> obj[d].uid, deleting |-> obj[d].deleting, body |-> b])
    BY <1>1 DEF IsObject
  <2> QED BY <1>3, <2>1, <2>2, <2>3
<1> QED BY <1>2, <1>4, <1>5, <1>6 DEF SyncObject, DeleteObject

LEMMA SyncStepDoes ==
  ASSUME ShapeInv, NEW k \in running, SyncStep(k)
  PROVE  /\ pc[k] \in 1..Len(SyncSteps[k])
         /\ SyncSteps[k][pc[k]] \in Derived
         /\ UNCHANGED <<running, seen, objSeen, own, changes>>
         /\ SrcKept
         /\ queue \subseteq queue' /\ queue' \subseteq queue \union {k}
         /\ \/ k \in queue' /\ pc' = [pc EXCEPT ![k] = 0]
            \/ pc[k] < Len(SyncSteps[k]) /\ pc' = [pc EXCEPT ![k] = pc[k] + 1]
            \/ pc[k] = Len(SyncSteps[k]) /\ pc' = [pc EXCEPT ![k] = 0]
         /\ obj' = [e \in Derived |-> obj'[e]]
         /\ \A e \in Derived : IsObject(obj'[e])
         /\ \A e \in Derived \ {SyncSteps[k][pc[k]]} : obj'[e] = obj[e]
         /\ events \subseteq events'
         /\ events' \subseteq events \union {SyncSteps[k][pc[k]]}
         /\ SyncSteps[k][pc[k]] \notin events' => obj' = obj
<1> DEFINE d == SyncSteps[k][pc[k]]
<1>0. k \in Reconciled /\ IsSource(own[k])
  BY DEF ShapeInv
<1>1. pc[k] \in 1..Len(SyncSteps[k])
  <2>1. Len(SyncSteps[k]) \in Nat
    BY <1>0, StepsOf DEF Reconciled
  <2>2. pc[k] > 0
    BY DEF SyncStep
  <2> QED BY <1>0, <2>1, <2>2 DEF ShapeInv
<1>2. d \in Derived
  BY <1>0, <1>1, StepIn, OwnerIs
<1>3. UNCHANGED <<running, seen, objSeen, own, changes>>
  BY DEF SyncStep
<1>4. /\ events \subseteq events'
      /\ events' \subseteq events \union {d}
      /\ d \notin events' => obj' = obj
  BY DEF SyncStep
<1>5. \/ Retry(k) /\ obj' = obj
      \/ Advance(k) /\ obj' = obj
      \/ /\ Advance(k)
         /\ \/ DeleteObject(d)
            \/ SyncObject(d, own[k], Body(d, own[k], seen, objSeen, FreshKey))
  BY DEF SyncStep
<1>6. /\ SrcKept
      /\ queue \subseteq queue' /\ queue' \subseteq queue \union {k}
      /\ \/ k \in queue' /\ pc' = [pc EXCEPT ![k] = 0]
         \/ pc[k] < Len(SyncSteps[k]) /\ pc' = [pc EXCEPT ![k] = pc[k] + 1]
         \/ pc[k] = Len(SyncSteps[k]) /\ pc' = [pc EXCEPT ![k] = 0]
  <2>1. pc[k] > 0
    BY DEF SyncStep
  <2> QED BY <1>0, <1>5, <2>1, RetryDoes, AdvanceDoes
<1>7. /\ obj' = [e \in Derived |-> obj'[e]]
      /\ \A e \in Derived : IsObject(obj'[e])
      /\ \A e \in Derived \ {d} : obj'[e] = obj[e]
  <2>1. CASE obj' = obj
    BY <2>1 DEF ShapeInv
  <2>2. CASE obj' # obj
    BY <1>0, <1>2, <1>5, <2>2, WriteDoes
  <2> QED BY <2>1, <2>2
<1> QED BY <1>1, <1>2, <1>3, <1>4, <1>6, <1>7

-----------------------------------------------------------------------------
(* The initial states *)

LEMMA InitSync == Init => SyncInv
<1> SUFFICES ASSUME Init PROVE SyncInv
  OBVIOUS
<1>1. running \in Scenes /\ running \subseteq Reconciled
  BY SceneAssumption DEF Init
<1>2. IsSource(Initial) /\ IsSource(Missing)
  BY DEF IsSource, Initial, Missing, Exists, Persistence
<1>3. IsObject(None)
  BY DEF IsObject, None, Object
<1>4. \A k \in Reconciled : Len(SyncSteps[k]) \in Nat
  BY StepsOf DEF Reconciled
<1>5. ShapeInv
  BY <1>1, <1>2, <1>3, <1>4 DEF Init, ShapeInv
<1>6. CacheInv
  BY DEF Init, CacheInv, Unwatched, Sources, Inputs
<1>7. OwnInv /\ CleanInv
  BY <1>1 DEF Init, OwnInv, CleanInv
<1>8. KeyInv
  BY DerivedIs DEF Init, KeyInv
<1> QED BY <1>5, <1>6, <1>7, <1>8 DEF SyncInv

-----------------------------------------------------------------------------
(* What users write *)

(* A change is one of the scene's, and the count of them grows. *)
LEMMA ChangeDoes ==
  ASSUME ShapeInv, NEW x, Change(x)
  PROVE  x \in DOMAIN Changing[running] /\ changes' \in Nat
<1>1. running \in Scenes /\ changes \in Nat
  BY DEF ShapeInv
<1>2. Changing[running][x] \in Nat
  BY <1>1, ChangeAssumption DEF Change
<1> QED BY <1>1, <1>2 DEF Change

(* A user's write leaves a well-formed source. *)
LEMMA UserWritesDoes ==
  ASSUME ShapeInv, NEW s \in Sources, UserWrites(s)
  PROVE  /\ s \in DOMAIN Changing[running]
         /\ changes' \in Nat
         /\ src' = [src EXCEPT ![s] = src'[s]]
         /\ IsSource(src'[s])
         /\ UNCHANGED <<running, seen, obj, objSeen, events, queue, pc, own>>
<1>1. PICK f \in Specs(s) :
         LET new == [gen |-> changes' + 1,
                     uid |-> IF Exists(src[s]) THEN src[s].uid ELSE changes' + 1,
                     external |-> f.external, monitor |-> f.monitor,
                     persist |-> f.persist, status |-> src[s].status]
         IN  /\ s = "controller" => IF Exists(src[s]) THEN ValidateUpdate(src[s], new)
                                    ELSE ValidateCreate
             /\ src' = [src EXCEPT ![s] = new]
  BY DEF UserWrites
<1> DEFINE new == [gen |-> changes' + 1,
                   uid |-> IF Exists(src[s]) THEN src[s].uid ELSE changes' + 1,
                   external |-> f.external, monitor |-> f.monitor,
                   persist |-> f.persist, status |-> src[s].status]
<1>2. /\ s \in DOMAIN Changing[running]
      /\ UNCHANGED <<running, seen, obj, objSeen, events, queue, pc, own>>
  BY ChangeDoes DEF UserWrites
<1>8. changes' \in Nat
  BY ChangeDoes DEF UserWrites
<1>3. src' = [src EXCEPT ![s] = new] /\ src'[s] = new
  BY <1>1 DEF ShapeInv
<1>4. IsSource(src[s])
  BY DEF ShapeInv
<1>5. f.external \in BOOLEAN /\ f.monitor \in BOOLEAN /\ f.persist \in Persistence
  <2>0. "claimSpec" \in Persistence
    BY DEF Persistence
  <2>1. CASE s \in running /\ s = "controller"
    <3>1. f \in [external : BOOLEAN, monitor : BOOLEAN, persist : Persistence]
      BY <2>1 DEF Specs
    <3> QED BY <3>1
  <2>2. CASE s \in running /\ s = "accounting"
    <3>1. f \in [external : BOOLEAN, monitor : {TRUE}, persist : {"claimSpec"}]
      BY <2>2 DEF Specs
    <3>2. f.external \in BOOLEAN /\ f.monitor \in {TRUE} /\ f.persist \in {"claimSpec"}
      BY <3>1
    <3> QED BY <2>0, <3>2
  <2>3. CASE s \notin running \/ s \notin {"controller", "accounting"}
    <3>1. f = [external |-> FALSE, monitor |-> TRUE, persist |-> "claimSpec"]
      BY <2>3 DEF Specs
    <3> QED BY <2>0, <3>1
  <2> QED BY <2>1, <2>2, <2>3
<1>6. new.uid = changes' + 1 \/ (new.uid = src[s].uid /\ Exists(src[s]))
  OBVIOUS
<1>7. IsSource(new)
  <2>1. src[s].status \in BOOLEAN /\ src[s].uid \in Nat /\ (Exists(src[s]) => src[s].uid > 0)
    BY <1>4 DEF IsSource
  <2>2. changes' + 1 \in Nat /\ changes' + 1 > 0
    <3>1. \A n \in Nat : n + 1 \in Nat /\ n + 1 > 0
      OBVIOUS
    <3> QED BY <1>8, <3>1
  <2>3. new.uid \in Nat /\ new.uid > 0
    BY <1>6, <2>1, <2>2
  <2> QED BY <1>5, <2>1, <2>2, <2>3 DEF IsSource
<1> QED BY <1>2, <1>3, <1>7, <1>8

LEMMA UserDeletesDoes ==
  ASSUME ShapeInv, NEW s \in Sources, UserDeletes(s)
  PROVE  /\ s \in DOMAIN Changing[running]
         /\ changes' \in Nat
         /\ src' = [src EXCEPT ![s] = Missing]
         /\ IsSource(Missing)
         /\ UNCHANGED <<running, seen, obj, objSeen, events, queue, pc, own>>
<1>1. IsSource(Missing)
  BY DEF IsSource, Missing, Exists, Persistence
<1> QED BY <1>1, ChangeDoes DEF UserDeletes

LEMMA StepFailsDoes ==
  ASSUME ShapeInv, NEW k \in running, StepFails(k)
  PROVE  /\ SrcKept
         /\ queue' = queue \union {k}
         /\ pc' = [pc EXCEPT ![k] = 0]
         /\ changes' \in Nat
         /\ UNCHANGED <<running, seen, obj, objSeen, events, own>>
<1>1. k \in Reconciled
  BY DEF ShapeInv
<1> QED BY <1>1, RetryDoes, ChangeDoes DEF StepFails

LEMMA GarbageDoes ==
  ASSUME ShapeInv, NEW k \in running, CollectGarbage(k)
  PROVE  /\ obj' = [e \in Derived |-> obj'[e]]
         /\ \A e \in Derived : IsObject(obj'[e])
         /\ \A e \in Derived : obj'[e] # obj[e] => obj'[e] = None /\ e \in events'
         /\ events \subseteq events'
         /\ UNCHANGED <<running, src, seen, objSeen, queue, pc, own, changes>>
<1>1. IsObject(None)
  BY DEF IsObject, None, Object
<1>2. \A e \in Derived : obj'[e] = IF e \in Garbage(k) THEN None ELSE obj[e]
  BY DEF CollectGarbage
<1> QED BY <1>1, <1>2 DEF CollectGarbage, ShapeInv

LEMMA MarkObject ==
  ASSUME NEW o, IsObject(o), NEW v
  PROVE  [o EXCEPT !.deleting = v] = [uid |-> o.uid, deleting |-> v, body |-> o.body]
BY DEF IsObject

LEMMA UserDeletesObjectDoes ==
  ASSUME ShapeInv, NEW d \in Derived, UserDeletesObject(d)
  PROVE  /\ obj' = [e \in Derived |-> obj'[e]]
         /\ \A e \in Derived : IsObject(obj'[e])
         /\ \A e \in Derived : \/ obj'[e] = obj[e]
                               \/ /\ e \in events' /\ obj[e] # None
                                  /\ obj'[e].body = obj[e].body
         /\ events \subseteq events'
         /\ changes' \in Nat
         /\ UNCHANGED <<running, src, seen, objSeen, queue, pc, own>>
<1>1. obj = [e \in Derived |-> obj[e]] /\ \A e \in Derived : IsObject(obj[e])
  BY DEF ShapeInv
<1>2. /\ obj' = [obj EXCEPT ![d] = [obj[d] EXCEPT !.deleting = TRUE]]
      /\ events' = events \union {d} /\ obj[d] # None
      /\ UNCHANGED <<running, src, seen, objSeen, queue, pc, own>>
  BY DEF UserDeletesObject
<1>3. [obj[d] EXCEPT !.deleting = TRUE]
        = [uid |-> obj[d].uid, deleting |-> TRUE, body |-> obj[d].body]
  BY <1>1, MarkObject
<1>4. /\ obj' = [e \in Derived |-> obj'[e]]
      /\ obj'[d] = [uid |-> obj[d].uid, deleting |-> TRUE, body |-> obj[d].body]
      /\ \A e \in Derived \ {d} : obj'[e] = obj[e]
  BY <1>1, <1>2, <1>3
<1>5. obj[d].uid \in Nat
  BY <1>1 DEF IsObject
<1>6. IsObject(obj'[d]) /\ obj'[d].body = obj[d].body
  BY <1>4, <1>5 DEF IsObject
<1>7. changes' \in Nat
  BY ChangeDoes DEF UserDeletesObject
<1> QED BY <1>1, <1>2, <1>4, <1>6, <1>7

LEMMA ObjectGoneDoes ==
  ASSUME ShapeInv, NEW d \in Derived, ObjectGone(d)
  PROVE  /\ obj' = [e \in Derived |-> obj'[e]]
         /\ \A e \in Derived : IsObject(obj'[e])
         /\ \A e \in Derived : obj'[e] # obj[e] => obj'[e] = None /\ e \in events'
         /\ events \subseteq events'
         /\ UNCHANGED <<running, src, seen, objSeen, queue, pc, own, changes>>
<1>1. IsObject(None)
  BY DEF IsObject, None, Object
<1>2. \A e \in Derived : obj'[e] = IF e = d THEN None ELSE obj[e]
  BY DEF ObjectGone, ShapeInv
<1> QED BY <1>1, <1>2 DEF ObjectGone, ShapeInv

-----------------------------------------------------------------------------
(* Steps keep the shape of the state *)

LEMMA ShapeStep ==
  ASSUME ShapeInv, [Next]_vars
  PROVE  ShapeInv'
<1>0. \A k \in Reconciled : Len(SyncSteps[k]) \in Nat /\ 1 \in 0..Len(SyncSteps[k])
  <2>1. /\ Len(SyncSteps["controller"]) = 4 /\ Len(SyncSteps["accounting"]) = 3
        /\ Len(SyncSteps["restapi"]) = 2 /\ Len(SyncSteps["loginset"]) = 4
    BY StepsOf
  <2>2. \A k \in Reconciled : Len(SyncSteps[k]) \in {2, 3, 4}
    BY <2>1 DEF Reconciled
  <2>3. \A n \in {2, 3, 4} : n \in Nat /\ 1 \in 0..n
    OBVIOUS
  <2> QED BY <2>2, <2>3
<1>1. ASSUME NEW k \in running, StartSync(k) PROVE ShapeInv'
  <2>1. k \in Reconciled /\ k \in Sources
    BY DEF ShapeInv, Sources, Resources
  <2> QED BY <1>0, <1>1, <2>1 DEF StartSync, ShapeInv
<1>2. ASSUME NEW k \in running, SyncStep(k) PROVE ShapeInv'
  <2>1. k \in Reconciled
    BY DEF ShapeInv
  <2>2. /\ UNCHANGED <<running, seen, objSeen, own, changes>>
        /\ DOMAIN src' = Sources /\ \A s \in Sources : IsSource(src'[s])
        /\ obj' = [e \in Derived |-> obj'[e]]
        /\ \A e \in Derived : IsObject(obj'[e])
    BY <1>2, SyncStepDoes DEF SrcKept
  <2>3. pc[k] \in 1..Len(SyncSteps[k])
        /\ \/ pc' = [pc EXCEPT ![k] = 0]
           \/ pc[k] < Len(SyncSteps[k]) /\ pc' = [pc EXCEPT ![k] = pc[k] + 1]
    BY <1>2, SyncStepDoes
  <2>4. DOMAIN pc' = Reconciled /\ \A l \in Reconciled : pc'[l] \in 0..Len(SyncSteps[l])
    BY <1>0, <2>1, <2>3 DEF ShapeInv
  <2> QED BY <2>2, <2>4 DEF ShapeInv
<1>3. ASSUME NEW k \in running, StepFails(k) PROVE ShapeInv'
  <2>1. k \in Reconciled
    BY DEF ShapeInv
  <2>2. /\ UNCHANGED <<running, seen, obj, objSeen, own>> /\ changes' \in Nat
        /\ DOMAIN src' = Sources /\ \A s \in Sources : IsSource(src'[s])
        /\ pc' = [pc EXCEPT ![k] = 0]
    BY <1>3, StepFailsDoes DEF SrcKept
  <2>3. DOMAIN pc' = Reconciled /\ \A l \in Reconciled : pc'[l] \in 0..Len(SyncSteps[l])
    BY <1>0, <2>1, <2>2 DEF ShapeInv
  <2> QED BY <2>2, <2>3 DEF ShapeInv
<1>4. ASSUME NEW k \in running, CollectGarbage(k) PROVE ShapeInv'
  BY <1>4, GarbageDoes DEF ShapeInv
<1>5. ASSUME NEW s \in Sources, DeliverSource(s) PROVE ShapeInv'
  <2>1. \A r \in Sources : seen'[r] = IF r = s THEN src[s] ELSE seen[r]
    BY <1>5 DEF DeliverSource, ShapeInv
  <2>2. DOMAIN seen' = Sources /\ UNCHANGED <<running, src, obj, objSeen, pc, own, changes>>
    BY <1>5 DEF DeliverSource, ShapeInv
  <2> QED BY <2>1, <2>2 DEF ShapeInv
<1>6. ASSUME NEW s \in Sources, UserWrites(s) PROVE ShapeInv'
  BY <1>6, UserWritesDoes DEF ShapeInv
<1>7. ASSUME NEW s \in Sources, UserDeletes(s) PROVE ShapeInv'
  BY <1>7, UserDeletesDoes DEF ShapeInv
<1>8. ASSUME NEW d \in Derived, DeliverObject(d) PROVE ShapeInv'
  <2>1. \A e \in Derived : objSeen'[e] = IF e = d THEN obj[d] ELSE objSeen[e]
    BY <1>8 DEF DeliverObject, ShapeInv
  <2>2. /\ objSeen' = [e \in Derived |-> objSeen'[e]]
        /\ UNCHANGED <<running, src, seen, obj, pc, own, changes>>
    BY <1>8 DEF DeliverObject, ShapeInv
  <2> QED BY <2>1, <2>2 DEF ShapeInv
<1>9. ASSUME NEW d \in Derived, UserDeletesObject(d) PROVE ShapeInv'
  BY <1>9, UserDeletesObjectDoes DEF ShapeInv
<1>10. CASE OperatorRestarts
  <2>1. changes' \in Nat
    BY <1>10, ChangeDoes DEF OperatorRestarts
  <2> QED BY <1>0, <1>10, <2>1 DEF OperatorRestarts, ShapeInv
<1>11. CASE UNCHANGED vars
  BY <1>11 DEF vars, ShapeInv
<1>12. ASSUME NEW d \in Derived, ObjectGone(d) PROVE ShapeInv'
  BY <1>12, ObjectGoneDoes DEF ShapeInv
<1> QED BY <1>1, <1>2, <1>3, <1>4, <1>5, <1>6, <1>7, <1>8, <1>9, <1>10, <1>11, <1>12 DEF Next

-----------------------------------------------------------------------------
(* What a step writes *)

NewBody(k) == Body(SyncSteps[k][pc[k]], own[k], seen, objSeen, FreshKey)

(* A step creates an object that neither the cache nor the API server has,   *)
(* patches one that may be patched, deletes, or writes nothing.             *)
LEMMA WriteIs ==
  ASSUME ShapeInv, NEW k \in running, SyncStep(k),
         NEW d, d = SyncSteps[k][pc[k]], d \in Derived
  PROVE  \/ obj' = obj
         \/ obj'[d] = None
         \/ /\ objSeen[d] = None /\ obj[d] = None
            /\ obj'[d] = Object(own[k].uid, NewBody(k))
         \/ Updated(d)
<1> DEFINE delete == d = "ctlMonitor" /\ ~own[k].monitor
<1>1. DOMAIN obj = Derived /\ IsObject(obj[d])
  BY DEF ShapeInv
<1> HIDE DEF delete
<1>2. \/ obj' = obj
      \/ /\ ~WriteFails(d, delete)
         /\ IF delete THEN DeleteObject(d) ELSE SyncObject(d, own[k], NewBody(k))
  BY DEF SyncStep, NewBody, delete
<1>3. CASE obj' # obj /\ delete
  <2>1. obj' = [obj EXCEPT ![d] = None]
    BY <1>2, <1>3 DEF DeleteObject
  <2> QED BY <1>1, <2>1
<1>4. CASE obj' # obj /\ ~delete /\ objSeen[d] = None
  <2>1. obj' = [obj EXCEPT ![d] = Object(own[k].uid, NewBody(k))]
    BY <1>2, <1>4 DEF SyncObject
  <2>2. obj[d] = None
    BY <1>2, <1>4 DEF WriteFails
  <2> QED BY <1>1, <1>4, <2>1, <2>2
<1>5. CASE obj' # obj /\ ~delete /\ objSeen[d] # None
  BY <1>2, <1>5 DEF SyncObject, Patched
<1> QED BY <1>3, <1>4, <1>5

(* The host keys are written only where there are none. *)
LEMMA HostKeysWrite ==
  ASSUME ShapeInv, NEW k \in running, SyncStep(k)
  PROVE  \/ obj'["hostKeys"] = obj["hostKeys"]
         \/ obj'["hostKeys"] = None
         \/ /\ obj["hostKeys"] = None
            /\ obj'["hostKeys"].body = <<FreshKey>>
<1> DEFINE d == SyncSteps[k][pc[k]]
<1>1. d \in Derived /\ \A e \in Derived \ {d} : obj'[e] = obj[e]
  BY SyncStepDoes
<1>2. "hostKeys" \in Derived
  BY DerivedIs
<1>3. CASE d # "hostKeys"
  BY <1>1, <1>2, <1>3
<1>4. CASE d = "hostKeys"
  <2>1. NewBody(k) = <<FreshKey>>
    BY <1>4 DEF NewBody, Body, BuildLoginSshHostKeys
  <2>2. ~Updated(d)
    BY <1>4 DEF Updated
  <2>3. \/ obj' = obj
        \/ obj'[d] = None
        \/ obj[d] = None /\ obj'[d] = Object(own[k].uid, NewBody(k))
    BY <1>1, <2>2, WriteIs
  <2> QED BY <1>4, <2>1, <2>3 DEF Object
<1> QED BY <1>3, <1>4

-----------------------------------------------------------------------------
(* Steps keep the parts of the invariant *)

LEMMA CacheStep ==
  ASSUME ShapeInv, CacheInv, OnlyWatched, [Next]_vars
  PROVE  CacheInv'
<1>0. Unwatched \subseteq Sources /\ Unwatched \intersect Reconciled = {}
  BY DEF Unwatched, Sources, Inputs, Reconciled
<1>1. ASSUME NEW k \in running, StartSync(k) PROVE CacheInv'
  BY <1>1 DEF StartSync, CacheInv
<1>2. ASSUME NEW k \in running, SyncStep(k) PROVE CacheInv'
  <2>1. \A s \in Unwatched : src'[s] = src[s]
    <3>1. "loginset" \notin Unwatched
      BY DEF Unwatched
    <3> QED BY <1>0, <1>2, <3>1, SyncStepDoes DEF SrcKept
  <2> QED BY <1>2, <2>1, SyncStepDoes DEF CacheInv
<1>3. ASSUME NEW k \in running, StepFails(k) PROVE CacheInv'
  <2>1. \A s \in Unwatched : src'[s] = src[s]
    <3>1. "loginset" \notin Unwatched
      BY DEF Unwatched
    <3> QED BY <1>0, <1>3, <3>1, StepFailsDoes DEF SrcKept
  <2> QED BY <1>3, <2>1, StepFailsDoes DEF CacheInv
<1>4. ASSUME NEW k \in running, CollectGarbage(k) PROVE CacheInv'
  BY <1>4, GarbageDoes DEF CacheInv
<1>5. ASSUME NEW s \in Sources, DeliverSource(s) PROVE CacheInv'
  BY <1>0, <1>5 DEF DeliverSource, CacheInv, ShapeInv
<1>6. ASSUME NEW s \in Sources, UserWrites(s) PROVE CacheInv'
  BY <1>0, <1>6, UserWritesDoes DEF CacheInv, ShapeInv, OnlyWatched
<1>7. ASSUME NEW s \in Sources, UserDeletes(s) PROVE CacheInv'
  BY <1>0, <1>7, UserDeletesDoes DEF CacheInv, ShapeInv, OnlyWatched
<1>8. ASSUME NEW d \in Derived, DeliverObject(d) PROVE CacheInv'
  <2>1. \A e \in Derived : objSeen'[e] = IF e = d THEN obj[d] ELSE objSeen[e]
    BY <1>8 DEF DeliverObject, ShapeInv
  <2> QED BY <1>8, <2>1 DEF DeliverObject, CacheInv
<1>9. ASSUME NEW d \in Derived, UserDeletesObject(d) PROVE CacheInv'
  BY <1>9, UserDeletesObjectDoes DEF CacheInv
<1>10. CASE OperatorRestarts
  BY <1>10 DEF OperatorRestarts, CacheInv
<1>11. CASE UNCHANGED vars
  BY <1>11 DEF vars, CacheInv
<1>12. ASSUME NEW d \in Derived, ObjectGone(d) PROVE CacheInv'
  BY <1>12, ObjectGoneDoes DEF CacheInv
<1> QED BY <1>1, <1>2, <1>3, <1>4, <1>5, <1>6, <1>7, <1>8, <1>9, <1>10, <1>11, <1>12 DEF Next

LEMMA OwnStep ==
  ASSUME ShapeInv, OwnInv, [Next]_vars
  PROVE  OwnInv'
<1>0. running \subseteq Reconciled /\ DOMAIN pc = Reconciled /\ DOMAIN own = Reconciled
  BY DEF ShapeInv
<1>1. ASSUME NEW k \in running, StartSync(k) PROVE OwnInv'
  BY <1>0, <1>1 DEF StartSync, OwnInv
<1>2. ASSUME NEW k \in running, SyncStep(k) PROVE OwnInv'
  <2>1. /\ UNCHANGED <<running, seen, own>> /\ queue \subseteq queue'
        /\ pc[k] \in 1..Len(SyncSteps[k])
        /\ \A l \in Reconciled \ {k} : pc'[l] = pc[l]
    BY <1>0, <1>2, SyncStepDoes
  <2>2. pc[k] > 0
    BY <1>2 DEF SyncStep
  <2> QED BY <1>0, <2>1, <2>2 DEF OwnInv
<1>3. ASSUME NEW k \in running, StepFails(k) PROVE OwnInv'
  BY <1>0, <1>3, StepFailsDoes DEF OwnInv
<1>4. ASSUME NEW k \in running, CollectGarbage(k) PROVE OwnInv'
  BY <1>4, GarbageDoes DEF OwnInv
<1>5. ASSUME NEW s \in Sources, DeliverSource(s) PROVE OwnInv'
  <2>1. /\ \A r \in Sources : r # s => seen'[r] = seen[r]
        /\ queue' = queue \union Wakes(s, seen')
        /\ UNCHANGED <<running, pc, own>>
    BY <1>5 DEF DeliverSource, ShapeInv
  <2>2. s \in running => s \in queue'
    <3>1. ASSUME s \in running PROVE s \in Wakes(s, seen')
      <4>1. \E d : d \in Range(SyncSteps[s])
        BY <1>0, <3>1, RangeOf DEF Reconciled
      <4> QED BY <1>0, <3>1, <4>1, SourceWakes
    <3> QED BY <2>1, <3>1
  <2>3. Reconciled \subseteq Sources
    BY DEF Sources, Resources
  <2> QED BY <1>0, <2>1, <2>2, <2>3 DEF OwnInv
<1>6. ASSUME NEW s \in Sources, UserWrites(s) PROVE OwnInv'
  BY <1>6, UserWritesDoes DEF OwnInv
<1>7. ASSUME NEW s \in Sources, UserDeletes(s) PROVE OwnInv'
  BY <1>7, UserDeletesDoes DEF OwnInv
<1>8. ASSUME NEW d \in Derived, DeliverObject(d) PROVE OwnInv'
  BY <1>8 DEF DeliverObject, OwnInv
<1>9. ASSUME NEW d \in Derived, UserDeletesObject(d) PROVE OwnInv'
  BY <1>9, UserDeletesObjectDoes DEF OwnInv
<1>10. CASE OperatorRestarts
  BY <1>0, <1>10 DEF OperatorRestarts, OwnInv
<1>11. CASE UNCHANGED vars
  BY <1>11 DEF vars, OwnInv
<1>12. ASSUME NEW d \in Derived, ObjectGone(d) PROVE OwnInv'
  BY <1>12, ObjectGoneDoes DEF OwnInv
<1> QED BY <1>1, <1>2, <1>3, <1>4, <1>5, <1>6, <1>7, <1>8, <1>9, <1>10, <1>11, <1>12 DEF Next

(* Every step but a sync leaves the keys as they are or deletes the secret. *)
LEMMA HostKeysStep ==
  ASSUME ShapeInv, [Next]_vars
  PROVE  \/ obj'["hostKeys"] = obj["hostKeys"]
         \/ obj'["hostKeys"] = None
         \/ obj["hostKeys"] # None /\ obj'["hostKeys"].body = obj["hostKeys"].body
         \/ /\ obj["hostKeys"] = None
            /\ obj'["hostKeys"].body = <<FreshKey>>
<1>0. "hostKeys" \in Derived
  BY DerivedIs
<1>1. ASSUME NEW k \in running, SyncStep(k)
      PROVE  \/ obj'["hostKeys"] = obj["hostKeys"]
             \/ obj'["hostKeys"] = None
             \/ /\ obj["hostKeys"] = None
                /\ obj'["hostKeys"].body = <<FreshKey>>
  BY <1>1, HostKeysWrite
<1>2. ASSUME NEW k \in running, CollectGarbage(k)
      PROVE  obj'["hostKeys"] = obj["hostKeys"] \/ obj'["hostKeys"] = None
  BY <1>0, <1>2, GarbageDoes
<1>3. ASSUME NEW d \in Derived, UserDeletesObject(d)
      PROVE  \/ obj'["hostKeys"] = obj["hostKeys"]
             \/ obj["hostKeys"] # None /\ obj'["hostKeys"].body = obj["hostKeys"].body
  BY <1>0, <1>3, UserDeletesObjectDoes
<1>4. ASSUME NEW d \in Derived, ObjectGone(d)
      PROVE  obj'["hostKeys"] = obj["hostKeys"] \/ obj'["hostKeys"] = None
  BY <1>0, <1>4, ObjectGoneDoes
<1>5. ASSUME ~\E k \in running : SyncStep(k) \/ CollectGarbage(k),
             ~\E d \in Derived : UserDeletesObject(d) \/ ObjectGone(d)
      PROVE  obj' = obj
  BY <1>5 DEF Next, vars, StartSync, StepFails, DeliverSource, UserWrites, UserDeletes,
              DeliverObject, OperatorRestarts
<1> QED BY <1>1, <1>2, <1>3, <1>4, <1>5

LEMMA KeyStep ==
  ASSUME ShapeInv, KeyInv, [Next]_vars
  PROVE  KeyInv'
BY HostKeysStep DEF KeyInv

-----------------------------------------------------------------------------
(* No wakeup is lost *)

(* What is clean stays so while the caches do and what changes has an event. *)
LEMMA CleanStays ==
  ASSUME NEW k, NEW d, Clean(k, d), UNCHANGED <<seen, objSeen>>,
         events \subseteq events', obj'[d] = obj[d] \/ d \in events'
  PROVE  Clean(k, d)'
BY DEF Clean, Built

LEMMA CleanSame ==
  ASSUME ShapeInv, CleanInv, UNCHANGED <<running, seen, objSeen>>,
         queue \subseteq queue', \A k \in running : pc'[k] = pc[k] \/ k \in queue',
         events \subseteq events', \A d \in Derived : obj'[d] = obj[d] \/ d \in events'
  PROVE  CleanInv'
<1> SUFFICES ASSUME NEW k \in running', NEW i \in 1..Len(SyncSteps[k]),
                    k \notin queue', ~(0 < pc'[k] /\ pc'[k] <= i)
             PROVE  Clean(k, SyncSteps[k][i])'
  BY DEF CleanInv
<1>1. k \in running /\ k \in Reconciled
  BY DEF ShapeInv
<1>2. SyncSteps[k][i] \in Derived
  BY <1>1, StepIn, OwnerIs
<1>3. Clean(k, SyncSteps[k][i])
  BY <1>1 DEF CleanInv
<1> QED BY <1>2, <1>3, CleanStays

(* A body that a patch leaves as it is, is the new one in what is followed. *)
LEMMA PatchedIsNew ==
  ASSUME NEW d, NEW b, NEW new, Len(new) \in Nat, new = [i \in 1..Len(new) |-> new[i]],
         b = MergePatch(d, b, b, new), d = "ctlSet" => 1 \in 1..Len(new)
  PROVE  Followed(d, b) = Followed(d, new)
<1>1. CASE d = "dbdConfig"
  BY <1>1 DEF MergePatch
<1>2. CASE d = "ctlSet"
  <2>1. b[1] = IF new[1] = b[1] THEN b[1] ELSE new[1]
    BY <1>2 DEF MergePatch
  <2> QED BY <1>2, <2>1 DEF Followed
<1>3. CASE d \notin {"dbdConfig", "ctlSet"}
  <2>1. b = [i \in 1..Len(new) |->
               IF new[i] = b[i] \/ (d = "ctlSet" /\ i = 2) THEN b[i] ELSE new[i]]
    BY <1>3 DEF MergePatch
  <2>2. ASSUME NEW i \in 1..Len(new) PROVE b[i] = new[i]
    <3>1. b[i] = IF new[i] = b[i] \/ (d = "ctlSet" /\ i = 2) THEN b[i] ELSE new[i]
      BY <2>1
    <3> QED BY <1>3, <3>1
  <2>3. b = [i \in 1..Len(new) |-> b[i]]
    BY <2>1
  <2>4. [i \in 1..Len(new) |-> b[i]] = [i \in 1..Len(new) |-> new[i]]
    BY <2>2
  <2> QED BY <2>3, <2>4
<1> QED BY <1>1, <1>2, <1>3

(* A step that succeeds leaves its object clean. *)
LEMMA StepCleans ==
  ASSUME ShapeInv, CacheInv, OwnInv, KeyInv,
         NEW k \in running, SyncStep(k), k \notin queue',
         NEW d, d = SyncSteps[k][pc[k]]
  PROVE  Clean(k, d)'
<1>1. /\ d \in Derived /\ queue \subseteq queue' /\ UNCHANGED <<seen, objSeen>>
      /\ d \notin events' => obj' = obj
  BY SyncStepDoes
<1>2. CASE d \in events'
  BY <1>2 DEF Clean
<1>3. CASE d \notin events'
  <2>1. obj' = obj /\ events' = events
    BY <1>1, <1>3 DEF SyncStep
  <2>2. Exists(own[k]) /\ own[k] = seen[k]
    BY <1>1 DEF OwnInv, SyncStep
  <2> DEFINE delete == d = "ctlMonitor" /\ ~own[k].monitor
  <2> SUFFICES ASSUME ~Skipped(d, seen[k]), d # "ctlMonitor",
                      ~obj[d].deleting,
                      ~(obj[d] # None /\ obj[d].uid # seen[k].uid)
               PROVE  Clean(k, d)'
    BY <1>1, <2>1 DEF Clean
  <2>3. ~Retry(k)
    BY DEF Retry
  <2>4. ~WriteFails(d, delete) /\ SyncObject(d, own[k], NewBody(k))
    BY <2>2, <2>3 DEF SyncStep, NewBody
  <2>5. objSeen[d] = obj[d]
    BY <1>1, <1>3, <2>1 DEF CacheInv
  <2>6. k \in Reconciled /\ IsSource(own[k]) /\ IsObject(obj[d]) /\ DOMAIN obj = Derived
    BY <1>1 DEF ShapeInv
  <2>7. objSeen[d] # None
    <3> SUFFICES ASSUME objSeen[d] = None PROVE FALSE
      OBVIOUS
    <3>1. obj = [obj EXCEPT ![d] = Object(own[k].uid, NewBody(k))]
      BY <2>1, <2>4 DEF SyncObject
    <3>2. obj[d] = Object(own[k].uid, NewBody(k))
      BY <1>1, <2>6, <3>1
    <3>3. own[k].uid > 0
      BY <2>2, <2>6 DEF IsSource
    <3> QED BY <2>5, <3>2, <3>3 DEF None, Object
  <2>8. CASE d = "ctlService"
    BY <1>1, <2>7, <2>8 DEF Clean
  <2>9. CASE d = "hostKeys"
    <3>1. objSeen[d].body = <<objSeen[d].body[1]>>
      BY <2>5, <2>7, <2>9 DEF KeyInv
    <3>2. Built(d, seen[k]) = <<objSeen[d].body[1]>>
      BY <2>9 DEF Built, Body, BuildLoginSshHostKeys
    <3>3. Built(d, seen[k])' = Built(d, seen[k])
      BY <1>1 DEF Built
    <3> QED BY <1>1, <2>7, <3>1, <3>2, <3>3 DEF Clean
  <2>10. CASE d \notin {"ctlService", "hostKeys"}
    <3> DEFINE new == NewBody(k)
               b == obj[d].body
    <3>1. obj = [obj EXCEPT ![d].body = MergePatch(d, objSeen[d].body, @, NewBody(k))]
      BY <2>1, <2>4, <2>5, <2>7, <2>10 DEF SyncObject, Patched, Updated
    <3>2. b = MergePatch(d, b, b, new)
      <4>1. obj[d] = [obj[d] EXCEPT !.body = MergePatch(d, objSeen[d].body, obj[d].body, NewBody(k))]
        BY <1>1, <2>6, <3>1
      <4>2. obj[d] = [uid |-> obj[d].uid, deleting |-> obj[d].deleting, body |-> obj[d].body]
        BY <2>6 DEF IsObject
      <4> HIDE DEF new, b
      <4>3. obj[d].body = MergePatch(d, objSeen[d].body, obj[d].body, NewBody(k))
        BY <4>1, <4>2
      <4> QED BY <2>5, <4>3 DEF b, new
    <3>3. Len(new) \in Nat /\ new = [i \in 1..Len(new) |-> new[i]]
      BY <1>1, BodyFields DEF NewBody
    <3>4. ASSUME d = "ctlSet" PROVE 1 \in 1..Len(new)
      <4>1. new = <<own[k].gen, volumeClaimTemplates(own[k])>>
        BY <3>4 DEF NewBody, Body, BuildController, controllerPodTemplate
      <4>2. Len(new) = 2
        BY <4>1
      <4> HIDE DEF new
      <4> QED BY <4>2
    <3>5. Followed(d, b) = Followed(d, new)
      <4> HIDE DEF b, new
      <4> QED BY <3>2, <3>3, <3>4, PatchedIsNew
    <3>6. Built(d, seen[k]) = new
      BY <1>1, <2>2, <2>10, BodyFrame DEF Built, NewBody
    <3>7. Built(d, seen[k])' = Built(d, seen[k])
      BY <1>1 DEF Built
    <3> QED BY <1>1, <2>5, <2>7, <3>5, <3>6, <3>7 DEF Clean
  <2> QED BY <2>8, <2>9, <2>10
<1> QED BY <1>2, <1>3

LEMMA CleanStep ==
  ASSUME SyncInv, [Next]_vars
  PROVE  CleanInv'
<1>0. /\ ShapeInv /\ CacheInv /\ OwnInv /\ KeyInv /\ CleanInv
      /\ running \subseteq Reconciled /\ DOMAIN pc = Reconciled
  BY DEF SyncInv, ShapeInv
<1>1. ASSUME NEW k \in running, StartSync(k) PROVE CleanInv'
  <2>1. UNCHANGED <<running, seen, obj, objSeen, events>> /\ queue' = queue \ {k}
    BY <1>1 DEF StartSync
  <2>2. ASSUME NEW l \in running, NEW i \in 1..Len(SyncSteps[l]),
               l \notin queue', ~(0 < pc'[l] /\ pc'[l] <= i)
        PROVE  Clean(l, SyncSteps[l][i])'
    <3>1. CASE l = k
      <4>1. Len(SyncSteps[k]) \in Nat
        BY <1>0, StepsOf DEF Reconciled
      <4>2. ~Exists(seen[k])
        BY <1>0, <1>1, <2>2, <3>1, <4>1 DEF StartSync
      <4> QED BY <2>1, <3>1, <4>2 DEF Clean
    <3>2. CASE l # k
      <4>1. pc'[l] = pc[l]
        BY <1>0, <1>1, <3>2 DEF StartSync
      <4>2. Clean(l, SyncSteps[l][i])
        BY <1>0, <2>1, <2>2, <3>2, <4>1 DEF CleanInv
      <4> QED BY <2>1, <4>2, CleanStays
    <3> QED BY <3>1, <3>2
  <2> QED BY <2>1, <2>2 DEF CleanInv
<1>2. ASSUME NEW k \in running, SyncStep(k) PROVE CleanInv'
  <2>1. /\ UNCHANGED <<running, seen, objSeen>> /\ queue \subseteq queue'
        /\ events \subseteq events' /\ pc[k] \in 1..Len(SyncSteps[k])
        /\ \A e \in Derived \ {SyncSteps[k][pc[k]]} : obj'[e] = obj[e]
    BY <1>0, <1>2, SyncStepDoes
  <2>2. ASSUME NEW l \in running, NEW i \in 1..Len(SyncSteps[l]),
               l \notin queue', ~(0 < pc'[l] /\ pc'[l] <= i)
        PROVE  Clean(l, SyncSteps[l][i])'
    <3>0. l \in Reconciled /\ k \in Reconciled /\ SyncSteps[l][i] \in Derived
      BY <1>0, StepIn, OwnerIs
    <3>1. CASE l = k /\ i = pc[k]
      BY <1>0, <1>2, <2>2, <3>1, StepCleans
    <3>2. CASE ~(l = k /\ i = pc[k])
      <4>1. obj'[SyncSteps[l][i]] = obj[SyncSteps[l][i]]
        BY <2>1, <3>0, <3>2, StepsDiffer
      <4>2. ~(0 < pc[l] /\ pc[l] <= i)
        <5>1. CASE l # k
          <6>1. pc'[l] = pc[l]
            BY <1>0, <1>2, <3>0, <5>1, SyncStepDoes
          <6> QED BY <2>2, <6>1
        <5>2. CASE l = k
          <6> SUFFICES ASSUME pc[k] <= i PROVE FALSE
            BY <5>2
          <6>1. pc[k] < i /\ i <= Len(SyncSteps[k]) /\ Len(SyncSteps[k]) \in Nat
            BY <2>1, <3>0, <3>2, <5>2, StepsOf DEF Reconciled
          <6>2. pc' = [pc EXCEPT ![k] = pc[k] + 1]
            BY <1>0, <1>2, <2>1, <2>2, <5>2, <6>1, SyncStepDoes
          <6>3. pc'[k] = pc[k] + 1
            BY <1>0, <3>0, <6>2
          <6> QED BY <2>1, <2>2, <5>2, <6>1, <6>3
        <5> QED BY <5>1, <5>2
      <4>3. Clean(l, SyncSteps[l][i])
        BY <1>0, <2>1, <2>2, <4>2 DEF CleanInv
      <4> QED BY <2>1, <4>1, <4>3, CleanStays
    <3> QED BY <3>1, <3>2
  <2> QED BY <2>1, <2>2 DEF CleanInv
<1>3. ASSUME NEW k \in running, StepFails(k) PROVE CleanInv'
  <2>1. /\ UNCHANGED <<running, seen, obj, objSeen, events>>
        /\ queue' = queue \union {k} /\ pc' = [pc EXCEPT ![k] = 0]
    BY <1>0, <1>3, StepFailsDoes
  <2>2. \A l \in running : pc'[l] = pc[l] \/ l \in queue'
    BY <1>0, <2>1
  <2> QED BY <1>0, <2>1, <2>2, CleanSame
<1>4. ASSUME NEW k \in running, CollectGarbage(k) PROVE CleanInv'
  BY <1>0, <1>4, GarbageDoes, CleanSame
<1>5. ASSUME NEW s \in Sources, DeliverSource(s) PROVE CleanInv'
  <2>1. /\ UNCHANGED <<running, obj, objSeen, events, pc>>
        /\ queue' = queue \union Wakes(s, seen')
        /\ \A r \in Sources \ {s} : seen'[r] = seen[r]
    BY <1>0, <1>5 DEF DeliverSource, ShapeInv
  <2>2. s \notin Unwatched
    BY <1>0, <1>5 DEF DeliverSource, CacheInv
  <2>3. ASSUME NEW l \in running, NEW i \in 1..Len(SyncSteps[l]),
               l \notin queue', ~(0 < pc'[l] /\ pc'[l] <= i)
        PROVE  Clean(l, SyncSteps[l][i])'
    <3> DEFINE d == SyncSteps[l][i]
    <3>0. /\ l \in Reconciled /\ l \in Sources /\ d \in Derived
          /\ d \in Range(SyncSteps[l])
      BY <1>0, StepIn, OwnerIs DEF Sources, Resources
    <3>1. Clean(l, d)
      BY <1>0, <2>1, <2>3 DEF CleanInv
    <3> HIDE DEF d
    <3>2. CASE ~Exists(seen'[l])
      BY <3>2 DEF Clean
    <3>3. CASE Exists(seen'[l])
      <4>1. s # l /\ s \notin ReadsOf(d)
        BY <1>0, <2>1, <2>2, <2>3, <3>0, <3>3, SourceWakes
      <4>2. ReadsOf(d) \subseteq Sources
        BY <3>0, DerivedIs DEF ReadsOf, Sources, Resources, Reconciled, Inputs
      <4>3. seen'[l] = seen[l] /\ \A r \in ReadsOf(d) : seen'[r] = seen[r]
        BY <2>1, <3>0, <4>1, <4>2
      <4>4. Built(d, seen[l])' = Built(d, seen[l])
        BY <2>1, <3>0, <4>3, BodyFrame DEF Built
      <4>5. Clean(l, d)'
        BY <2>1, <3>1, <4>3, <4>4 DEF Clean
      <4> QED BY <4>5 DEF d
    <3> QED BY <3>2, <3>3 DEF d
  <2> QED BY <2>1, <2>3 DEF CleanInv
<1>6. ASSUME NEW s \in Sources, UserWrites(s) PROVE CleanInv'
  BY <1>0, <1>6, UserWritesDoes, CleanSame
<1>7. ASSUME NEW s \in Sources, UserDeletes(s) PROVE CleanInv'
  BY <1>0, <1>7, UserDeletesDoes, CleanSame
<1>8. ASSUME NEW o \in Derived, DeliverObject(o) PROVE CleanInv'
  <2>1. /\ UNCHANGED <<running, seen, obj, pc>> /\ events' = events \ {o}
        /\ queue' = queue \union Wakes(o, seen)
        /\ \A e \in Derived \ {o} : objSeen'[e] = objSeen[e]
    BY <1>0, <1>8 DEF DeliverObject, ShapeInv
  <2>2. ASSUME NEW l \in running, NEW i \in 1..Len(SyncSteps[l]),
               l \notin queue', ~(0 < pc'[l] /\ pc'[l] <= i)
        PROVE  Clean(l, SyncSteps[l][i])'
    <3> DEFINE d == SyncSteps[l][i]
    <3>0. l \in Reconciled /\ d \in Derived /\ d \in Range(SyncSteps[l])
      BY <1>0, StepIn, OwnerIs
    <3>1. Clean(l, d)
      BY <1>0, <2>1, <2>2 DEF CleanInv
    <3> HIDE DEF d
    <3>2. CASE d = "ctlMonitor"
      <4>1. Clean(l, d)'
        BY <3>2 DEF Clean
      <4> QED BY <4>1 DEF d
    <3>3. CASE d # "ctlMonitor"
      <4>1. o # d /\ o \notin HashesOf(d)
        BY <1>0, <2>1, <2>2, <3>0, <3>3, ObjectWakes
      <4>2. HashesOf(d) \subseteq Derived
        BY <3>0, DerivedIs DEF HashesOf
      <4>3. objSeen'[d] = objSeen[d] /\ \A e \in HashesOf(d) : objSeen'[e] = objSeen[e]
        BY <2>1, <3>0, <4>1, <4>2
      <4>4. Built(d, seen[l])' = Built(d, seen[l])
        BY <2>1, <3>0, <4>3, BodyFrame DEF Built
      <4>5. Clean(l, d)'
        BY <2>1, <3>1, <4>1, <4>3, <4>4 DEF Clean
      <4> QED BY <4>5 DEF d
    <3> QED BY <3>2, <3>3 DEF d
  <2> QED BY <2>1, <2>2 DEF CleanInv
<1>9. ASSUME NEW d \in Derived, UserDeletesObject(d) PROVE CleanInv'
  BY <1>0, <1>9, UserDeletesObjectDoes, CleanSame
<1>10. CASE OperatorRestarts
  <2>1. running' = running /\ seen' = src /\ \A k \in running : k \in queue' \/ ~Exists(src[k])
    BY <1>10 DEF OperatorRestarts
  <2> QED BY <2>1 DEF CleanInv, Clean
<1>11. CASE UNCHANGED vars
  BY <1>0, <1>11, CleanSame DEF vars
<1>12. ASSUME NEW d \in Derived, ObjectGone(d) PROVE CleanInv'
  BY <1>0, <1>12, ObjectGoneDoes, CleanSame
<1> QED BY <1>1, <1>2, <1>3, <1>4, <1>5, <1>6, <1>7, <1>8, <1>9, <1>10, <1>11, <1>12 DEF Next

-----------------------------------------------------------------------------
(* Theorems *)

(* Whatever order changes, their events and the reconciles come in: each     *)
(* object of a reconciler is what its builder makes of the cached world, in *)
(* all that patches carry, or                                               *)
(* a sync or an event that leads to one is still to come.  The inputs that   *)
(* no controller watches are left alone (for them it is false:               *)
(* ConfigFilesDetected).                                                    *)
THEOREM SyncCorrect ==
  ASSUME OnlyWatched
  PROVE  Spec => []SyncInv
<1>1. Init => SyncInv
  BY InitSync
<1>2. SyncInv /\ [Next]_vars => SyncInv'
  <2> SUFFICES ASSUME SyncInv, [Next]_vars PROVE SyncInv'
    OBVIOUS
  <2>1. ShapeInv /\ CacheInv /\ OwnInv /\ KeyInv
    BY DEF SyncInv
  <2>2. ShapeInv' /\ CacheInv' /\ OwnInv' /\ KeyInv' /\ CleanInv'
    BY <2>1, ShapeStep, CacheStep, OwnStep, KeyStep, CleanStep
  <2> QED BY <2>2 DEF SyncInv
<1> QED BY <1>1, <1>2, PTL DEF Spec

(* No wakeup is lost: whenever the operator has nothing left to do, every   *)
(* object it owns is what its builder would make of the present world in    *)
(* all that SyncObject patches.                                             *)
THEOREM QuietCorrect ==
  ASSUME OnlyWatched
  PROVE  Spec => []QuietMeansInSync
<1>1. SyncInv => QuietMeansInSync
  <2> SUFFICES ASSUME SyncInv, Quiet, NEW d \in Derived PROVE InSync(d)
    BY DEF QuietMeansInSync
  <2>1. PICK k \in Reconciled : d \in Range(SyncSteps[k])
    BY DEF Derived
  <2>2. OwnerOf(d) = k
    BY <2>1, OwnerIs
  <2> SUFFICES ASSUME k \in running, Exists(src[k]), ~Skipped(d, src[k]), d # "ctlMonitor"
               PROVE  InSync(d)
    BY <2>2 DEF InSync
  <2>3. PICK i \in 1..Len(SyncSteps[k]) : d = SyncSteps[k][i]
    <3>1. DOMAIN SyncSteps[k] = 1..Len(SyncSteps[k])
      BY StepsOf DEF Reconciled
    <3> QED BY <2>1, <3>1 DEF Range
  <2>4. seen = src /\ events = {} /\ Garbage(k) = {} /\ ~obj[d].deleting /\ Clean(k, d)
    BY <2>3 DEF Quiet, SyncInv, CleanInv
  <2>5. objSeen = obj
    BY <2>4 DEF SyncInv, ShapeInv, CacheInv
  <2>6. ~(obj[d] # None /\ obj[d].uid # src[k].uid)
    BY <2>1, <2>4 DEF Garbage
  <2>7. /\ obj[d] # None
        /\ d # "ctlService" => Followed(d, obj[d].body) = Followed(d, Built(d, src[k]))
    BY <2>4, <2>5, <2>6 DEF Clean
  <2>8. Built(d, src[k])
          = Body(d, src[k], src, obj, IF d = "hostKeys" THEN obj[d].body[1] ELSE 0)
    BY <2>4, <2>5 DEF Built
  <2> QED BY <2>2, <2>7, <2>8 DEF InSync
<1>2. Spec => []SyncInv
  BY SyncCorrect
<1> QED BY <1>1, <1>2, PTL

(* The SSH host keys of a LoginSet are never replaced while the secret that *)
(* holds them exists.                                                       *)
THEOREM HostKeysCorrect == Spec => HostKeysKept
<1>1. Init => ShapeInv
  BY InitSync DEF SyncInv
<1>2. ShapeInv /\ [Next]_vars => ShapeInv'
  BY ShapeStep
<1>3. ShapeInv /\ [Next]_vars
        => [obj["hostKeys"] # None /\ obj'["hostKeys"] # None
              => obj'["hostKeys"].body = obj["hostKeys"].body]_vars
  BY HostKeysStep
<1> QED BY <1>1, <1>2, <1>3, PTL DEF Spec, HostKeysKept
=============================================================================
