---------------------------- MODULE Expectations ----------------------------
(***************************************************************************)
(* The bookkeeping of k8s.io/kubernetes/pkg/controller that the NodeSet     *)
(* controller uses to wait for its own writes: UIDTrackingController-       *)
(* Expectations over ControllerExpectations, for one NodeSet key.  It is    *)
(* library code; these operators say what the controller relies on.         *)
(*                                                                         *)
(* An expectation is a record: has says whether the store holds one, adds   *)
(* and dels are the counters, uids the pod keys whose deletion is awaited,  *)
(* expired whether its timestamp is older than five minutes.                *)
(***************************************************************************)
EXTENDS Integers, FiniteSets

NoExpectations ==
    [has |-> FALSE, adds |-> 0, dels |-> 0, uids |-> {}, expired |-> FALSE]

(* Overwrites the counters and the timestamp, but not the tracked keys. *)
SetExpectations(e, adds, dels) ==
    [has |-> TRUE, adds |-> adds, dels |-> dels, uids |-> e.uids, expired |-> FALSE]

ExpectDeletions(e, keys) ==
    SetExpectations([e EXCEPT !.uids = keys], 0, Cardinality(keys))

RaiseExpectations(e, adds) ==
    IF e.has THEN [e EXCEPT !.adds = @ + adds] ELSE e

(* CreationObserved, times over. *)
CreationsObserved(e, times) ==
    IF e.has THEN [e EXCEPT !.adds = @ - times] ELSE e

(* A key is counted once, whichever event or error is first to report it. *)
DeletionObserved(e, key) ==
    IF key \in e.uids
    THEN [e EXCEPT !.uids = @ \ {key}, !.dels = IF e.has THEN @ - 1 ELSE @]
    ELSE e

SatisfiedExpectations(e) ==
    ~e.has \/ (e.adds <= 0 /\ e.dels <= 0) \/ e.expired
=============================================================================
