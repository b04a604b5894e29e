-------------------------- MODULE CredentialsProofs --------------------------
(***************************************************************************)
(* For every set of keys and any number of user steps and faults: the      *)
(* ClientMap runs one client, for a Controller that exists, and looks at it *)
(* again before its JWT expires unless the last look failed.                *)
(***************************************************************************)
EXTENDS Credentials, TLAPS

USE DEF Lifetime, Margin, Soon, MaxBackoff

(* What a reconcile of the client controller is about to install: a client *)
(* with a fresh JWT.  If the Controller goes meanwhile, the request is back *)
(* in the queue, so that the installed client is removed again.             *)
InstallInv ==
    cphase = "install" =>
        /\ minted.there
        /\ minted.jwt.left = Lifetime
        /\ ~controller => cqueue

(* What the Token controller pushed: one delay, and one more after its      *)
(* refresh step; no delay is longer than a lifetime.                        *)
Delays == 0 .. 2 * Lifetime

PushedInv ==
    /\ tphase \in {"secret", "refresh"} => \E a \in Delays : pushed = {a}
    /\ tphase \in {"status", "end"} => \E a, b \in Delays : pushed = {a, b}

ClientInv ==
    /\ TypeOK
    /\ PushedInv
    /\ InstallInv
    /\ OneClientRuns
    /\ ClientRenewedInTime

Clients == [there : BOOLEAN, jwt : JWTs, server : 0..2]

LEMMA NoneTypes == NoSecret \in JWTs /\ NoClient \in Clients
<1>1. (CHOOSE k \in Keys : TRUE) \in Keys
  BY KeysAssumption
<1>2. NoSecret \in JWTs
  BY <1>1 DEF NoSecret, JWTs
<1> QED
  BY <1>2 DEF NoClient, Clients

LEMMA SignedType ==
  ASSUME key \in Keys, NEW gen \in 1..2
  PROVE  NewSignedToken(gen) \in JWTs /\ NewSignedToken(gen).left = Lifetime
BY DEF NewSignedToken, JWTs

LEMMA AgeType ==
  ASSUME NEW jwt \in JWTs
  PROVE  /\ Age(jwt) \in JWTs
         /\ Age(jwt).left = IF jwt.left = 0 THEN 0 ELSE jwt.left - 1
BY DEF Age, JWTs

(* A failure is retried after some time, and at most the rate limiter's most. *)
LEMMA NextBackoffType ==
  ASSUME NEW b \in Backoffs
  PROVE  /\ NextBackoff(b) \in Backoffs
         /\ NextBackoff(b) \in 0..MaxBackoff /\ NextBackoff(b) > 0
BY DEF NextBackoff, Backoffs

(* AddAfter keeps the earlier of two delays, and never loses a timer. *)
LEMMA AddAfterType ==
  ASSUME NEW timer \in 0..MaxBackoff, NEW delay \in 0..MaxBackoff
  PROVE  /\ AddAfter(timer, delay) \in 0..MaxBackoff
         /\ delay > 0 => AddAfter(timer, delay) > 0 /\ AddAfter(timer, delay) <= delay
BY DEF AddAfter

(* Less.Pop returns one of the delays it holds. *)
LEMMA PopType ==
  ASSUME NEW a \in Delays, NEW b \in Delays
  PROVE  Pop({a, b}) \in {a, b}
<1>1. \E d \in {a, b} : \A e \in {a, b} : d <= e
  <2>1. CASE a <= b
    BY <2>1 DEF Delays
  <2>2. CASE ~(a <= b)
    BY <2>2 DEF Delays
  <2> QED
    BY <2>1, <2>2
<1> QED
  BY <1>1 DEF Pop

LEMMA ClientInit == Init => ClientInv
<1> SUFFICES ASSUME Init PROVE ClientInv
  OBVIOUS
<1>1. TypeOK
  <2>1. changes \in 0..MaxChanges /\ faults \in 0..MaxFaults
    BY BoundAssumption DEF Init
  <2>2. client \in Clients /\ minted \in Clients /\ secret \in JWTs /\ cached \in JWTs
    BY NoneTypes DEF Init
  <2>3. /\ key \in Keys \cup {NoKey} /\ half \in {"client", "token"}
        /\ restapi \in 0..2 /\ strays \in Nat /\ issued \in 0..2
    BY DEF Init
  <2>4. /\ controller \in BOOLEAN /\ cqueue \in BOOLEAN /\ tqueue \in BOOLEAN
        /\ failed \in BOOLEAN /\ pushed \subseteq Nat
    BY DEF Init
  <2>5. /\ ctimer \in 0..MaxBackoff /\ ttimer \in 0..MaxBackoff
        /\ cphase = "idle" /\ tphase = "idle"
        /\ cback \in Backoffs /\ tback \in Backoffs
    BY DEF Init, Backoffs
  <2> QED
    BY <2>1, <2>2, <2>3, <2>4, <2>5 DEF TypeOK, Clients
<1>2. ~client.there
  BY DEF Init, NoClient
<1> QED
  BY <1>1, <1>2 DEF Init, ClientInv, PushedInv, InstallInv, OneClientRuns,
                    ClientRenewedInTime

-----------------------------------------------------------------------------
(* Types *)

(* The client controller's part of the state, and the Token controller's. *)
ClientTypes ==
    /\ client \in Clients /\ minted \in Clients /\ strays \in Nat
    /\ cqueue \in BOOLEAN /\ ctimer \in 0..MaxBackoff /\ cphase \in {"idle", "install"}
    /\ cback \in Backoffs

TokenTypes ==
    /\ secret \in JWTs /\ cached \in JWTs /\ issued \in 0..2
    /\ tqueue \in BOOLEAN /\ ttimer \in 0..MaxBackoff
    /\ tphase \in {"idle", "secret", "refresh", "status", "end"}
    /\ tback \in Backoffs /\ pushed \subseteq Nat /\ failed \in BOOLEAN
    /\ PushedInv

WorldTypes ==
    /\ half \in {"client", "token"}
    /\ key \in Keys \cup {NoKey} /\ controller \in BOOLEAN /\ restapi \in 0..2
    /\ changes \in 0..MaxChanges /\ faults \in 0..MaxFaults

LEMMA TypesOfParts == TypeOK /\ PushedInv <=> ClientTypes /\ TokenTypes /\ WorldTypes
BY DEF TypeOK, ClientTypes, TokenTypes, WorldTypes, Clients

LEMMA ClientTypeStep ==
  ASSUME ClientTypes, WorldTypes, [Next]_vars
  PROVE  ClientTypes'
<1> USE DEF ClientTypes
<1>0. CASE UNCHANGED clientVars
  BY <1>0 DEF clientVars
<1>f. NextBackoff(cback) \in Backoffs /\ AddAfter(ctimer, NextBackoff(cback)) \in 0..MaxBackoff
  BY NextBackoffType, AddAfterType
<1>1. CASE ClientSync
  <2>1. CASE ~controller
    BY <1>1, <2>1, NoneTypes DEF ClientSync, Remove, Backoffs
  <2>2. CASE controller /\ (restapi = 0 \/ key = NoKey)
    <3>1. cback' \in Backoffs /\ ctimer' \in 0..MaxBackoff
      BY <1>1, <1>f, <2>2 DEF ClientSync
    <3> QED
      BY <1>1, <2>2, <3>1 DEF ClientSync
  <2>3. CASE controller /\ ~(restapi = 0 \/ key = NoKey)
    <3>1. minted' \in Clients
      <4>1. minted' = [there |-> TRUE, jwt |-> NewSignedToken(1), server |-> restapi]
        BY <1>1, <2>3 DEF ClientSync
      <4>2. NewSignedToken(1) \in JWTs /\ restapi \in 0..2
        BY <2>3, SignedType DEF WorldTypes
      <4> QED
        BY <4>1, <4>2 DEF Clients
    <3> QED
      BY <1>1, <2>3, <3>1 DEF ClientSync
  <2> QED
    BY <2>1, <2>2, <2>3 DEF WorldTypes
<1>2. CASE ClientInstall
  <2>1. ctimer' \in 0..MaxBackoff
    BY <1>2, AddAfterType DEF ClientInstall, RefreshAfter
  <2> QED
    BY <1>2, <2>1, NoneTypes DEF ClientInstall, UpdateInPlace, Add, Backoffs
<1>3. CASE ClientSyncFails
  <2>1. cqueue' \in BOOLEAN /\ cback' \in Backoffs /\ ctimer' \in 0..MaxBackoff
    BY <1>3, <1>f DEF ClientSyncFails
  <2> QED
    BY <1>3, <2>1, NoneTypes DEF ClientSyncFails
<1>4. ASSUME NEW replayed, TimePasses(replayed) PROVE ClientTypes'
  <2>1. client' \in Clients
    BY <1>4, AgeType DEF TimePasses, Clients
  <2>2. ctimer' \in 0..MaxBackoff /\ cqueue' \in BOOLEAN
    BY <1>4 DEF TimePasses, Run
  <2> QED
    BY <1>4, <2>1, <2>2 DEF TimePasses
<1>5. CASE UserTogglesController
  BY <1>5 DEF UserTogglesController
<1>6. CASE OperatorRestarts
  <2>1. cqueue' \in BOOLEAN /\ cback' \in Backoffs
    BY <1>6 DEF OperatorRestarts, Backoffs
  <2> QED
    BY <1>6, <2>1, NoneTypes DEF OperatorRestarts
<1> QED
  BY <1>0, <1>1, <1>2, <1>3, <1>4, <1>5, <1>6
     DEF Next, vars, ClientReconciler, TokenReconciler, TokenSync, TokenSecretStep,
         TokenRefreshStep, TokenStatusStep, TokenEnd, TokenSyncFails, DeliverSecret,
         Tick, ControllersResync, TokensResync, RotateKey, RemoveKey, MoveRestApi, UserDeletesSecret

LEMMA TokenTypeStep ==
  ASSUME TokenTypes, WorldTypes, [Next]_vars
  PROVE  TokenTypes'
<1> USE DEF TokenTypes, PushedInv
<1>0. CASE UNCHANGED tokenVars
  BY <1>0 DEF tokenVars
<1>f. NextBackoff(tback) \in Backoffs /\ AddAfter(ttimer, NextBackoff(tback)) \in 0..MaxBackoff
  BY NextBackoffType, AddAfterType
<1>1. CASE TokenSync
  <2>1. UntilRefresh \in Delays /\ ShortDelay \in Delays
    BY DEF UntilRefresh, ShortDelay, Delays, JWTs
  <2>2. \E a \in Delays : pushed' = {a}
    BY <1>1, <2>1 DEF TokenSync
  <2>3. pushed' \subseteq Nat
    BY <2>2 DEF Delays
  <2> QED
    BY <1>1, <2>2, <2>3 DEF TokenSync
<1>2. CASE TokenSecretStep
  <2>1. secret' \in JWTs
    <3>1. key # NoKey => NewSignedToken(1) \in JWTs
      BY SignedType DEF WorldTypes
    <3> QED
      BY <1>2, <3>1 DEF TokenSecretStep
  <2>2. tphase' \in {"refresh", "status"} /\ failed' \in BOOLEAN
    BY <1>2 DEF TokenSecretStep, StepTo
  <2>3. \E a \in Delays : pushed = {a}
    BY <1>2 DEF TokenSecretStep
  <2>4. \E a, b \in Delays : pushed = {a, b}
    BY <2>3
  <2> QED
    BY <1>2, <2>1, <2>2, <2>3, <2>4 DEF TokenSecretStep
<1>3. CASE TokenRefreshStep
  <2>1. UntilRefresh \in Delays
    BY DEF UntilRefresh, Delays, JWTs
  <2>2. PICK a \in Delays : pushed = {a}
    BY <1>3 DEF TokenRefreshStep
  <2>3. \E b \in Delays : pushed' = {a, b}
    <3>1. pushed' = pushed \/ pushed' = pushed \union {} \/ pushed' = pushed \union {UntilRefresh}
      BY <1>3 DEF TokenRefreshStep
    <3> QED
      BY <2>1, <2>2, <3>1
  <2>4. pushed' \subseteq Nat
    BY <2>2, <2>3 DEF Delays
  <2>5. secret' \in JWTs
    <3>1. NextGen(secret) \in 1..2
      BY DEF NextGen
    <3>2. key # NoKey => NewSignedToken(NextGen(secret)) \in JWTs
      BY <3>1, SignedType DEF WorldTypes
    <3>3. getExpTime \in RefreshRuns => key # NoKey
      BY DEF getExpTime, ParseTokenClaims, RefreshRuns
    <3> QED
      BY <1>3, <3>2, <3>3 DEF TokenRefreshStep
  <2>6. tphase' = "status" /\ failed' \in BOOLEAN
    BY <1>3 DEF TokenRefreshStep, StepTo
  <2> QED
    BY <1>3, <2>2, <2>3, <2>4, <2>5, <2>6 DEF TokenRefreshStep
<1>4. CASE TokenStatusStep
  <2>1. issued' \in 0..2
    BY <1>4 DEF TokenStatusStep, JWTs
  <2>2. tqueue' \in BOOLEAN /\ failed' \in BOOLEAN
    BY <1>4 DEF TokenStatusStep
  <2> QED
    BY <1>4, <2>1, <2>2 DEF TokenStatusStep
<1>5. CASE TokenEnd
  <2>1. PICK a \in Delays, b \in Delays : pushed = {a, b}
    BY <1>5 DEF TokenEnd
  <2>2. Pop(pushed) \in Delays
    BY <2>1, PopType
  <2>3. ttimer' \in 0..MaxBackoff
    <3>1. CASE failed \/ Pop(pushed) <= Lifetime
      BY <1>5, <1>f, <3>1 DEF TokenEnd
    <3>2. CASE ~failed /\ ~(Pop(pushed) <= Lifetime)
      <4>1. Pop(pushed) - Lifetime \in 0..Lifetime
        BY <2>2, <3>2 DEF Delays
      <4>2. ttimer' = AddAfter(ttimer, Pop(pushed) - Lifetime)
        BY <1>5, <3>2 DEF TokenEnd
      <4> QED
        BY <4>1, <4>2, AddAfterType
    <3> QED
      BY <3>1, <3>2
  <2>4. tback' \in Backoffs
    BY <1>5, <1>f DEF TokenEnd, Backoffs
  <2> QED
    BY <1>5, <2>3, <2>4 DEF TokenEnd
<1>6. CASE TokenSyncFails
  <2>1. tqueue' \in BOOLEAN /\ tback' \in Backoffs /\ ttimer' \in 0..MaxBackoff
    BY <1>6, <1>f DEF TokenSyncFails
  <2> QED
    BY <1>6, <2>1 DEF TokenSyncFails
<1>7. CASE DeliverSecret
  BY <1>7 DEF DeliverSecret
<1>8. ASSUME NEW replayed, TimePasses(replayed) PROVE TokenTypes'
  <2>1. secret' \in JWTs /\ cached' \in JWTs
    BY <1>8, AgeType DEF TimePasses
  <2>2. ttimer' \in 0..MaxBackoff /\ tqueue' \in BOOLEAN
    BY <1>8 DEF TimePasses, Run
  <2> QED
    BY <1>8, <2>1, <2>2 DEF TimePasses
<1>9. CASE UserDeletesSecret
  BY <1>9, NoneTypes DEF UserDeletesSecret
<1>10. CASE OperatorRestarts
  <2>1. /\ tqueue' \in BOOLEAN /\ failed' \in BOOLEAN /\ pushed' \subseteq Nat
        /\ tback' \in Backoffs
    BY <1>10 DEF OperatorRestarts, Backoffs
  <2> QED
    BY <1>10, <2>1 DEF OperatorRestarts
<1>11. ASSUME NEW collected \in BOOLEAN, RemoveKey(collected) PROVE TokenTypes'
  BY <1>11, NoneTypes DEF RemoveKey
<1> QED
  BY <1>0, <1>1, <1>2, <1>3, <1>4, <1>5, <1>6, <1>7, <1>8, <1>9, <1>10, <1>11
     DEF Next, vars, ClientReconciler, TokenReconciler, ClientSync, ClientInstall,
         ClientSyncFails, Tick, ControllersResync, TokensResync, RotateKey, MoveRestApi,
         UserTogglesController

LEMMA WorldTypeStep ==
  ASSUME WorldTypes, [Next]_vars
  PROVE  WorldTypes'
<1> USE BoundAssumption DEF WorldTypes
<1>1. CASE UNCHANGED <<half, key, controller, restapi, changes>> /\ (UNCHANGED faults \/ Fault)
  BY <1>1 DEF Fault
<1>2. ASSUME Change, UNCHANGED faults, UNCHANGED <<half, key, restapi>>,
             controller' \in BOOLEAN
      PROVE  WorldTypes'
  BY <1>2 DEF Change
<1>3. ASSUME NEW k \in Keys, RotateKey(k) PROVE WorldTypes'
  BY <1>3 DEF RotateKey, Change
<1>4. ASSUME NEW address \in 0..2, MoveRestApi(address) PROVE WorldTypes'
  BY <1>4 DEF MoveRestApi, Change
<1>5. ASSUME NEW collected \in BOOLEAN, RemoveKey(collected) PROVE WorldTypes'
  BY <1>5 DEF RemoveKey, Change
<1> QED
  BY <1>1, <1>2, <1>3, <1>4, <1>5
     DEF Next, vars, ClientReconciler, TokenReconciler, ClientSync, ClientInstall,
         ClientSyncFails, TokenSync, TokenSecretStep, TokenRefreshStep, TokenStatusStep,
         TokenEnd, TokenSyncFails, DeliverSecret, Tick, ControllersResync, TokensResync, TimePasses,
         UserTogglesController, UserDeletesSecret, OperatorRestarts

-----------------------------------------------------------------------------
(* The client is renewed in time *)

(* Steps that leave the client controller and its Controller alone. *)
LEMMA ClientUntouched ==
  ASSUME ClientInv, UNCHANGED <<controller, clientVars>>
  PROVE  InstallInv' /\ OneClientRuns' /\ ClientRenewedInTime'
BY DEF ClientInv, InstallInv, OneClientRuns, ClientRenewedInTime, clientVars

LEMMA ClientStep == ClientInv /\ [Next]_vars => ClientInv'
<1> SUFFICES ASSUME ClientInv, [Next]_vars PROVE ClientInv'
  OBVIOUS
<1>p. ClientTypes /\ TokenTypes /\ WorldTypes
  BY TypesOfParts DEF ClientInv
<1>t. TypeOK' /\ PushedInv'
  <2>1. ClientTypes' /\ TokenTypes' /\ WorldTypes'
    BY <1>p, ClientTypeStep, TokenTypeStep, WorldTypeStep
  <2> QED
    BY <2>1, TypesOfParts DEF TypeOK, PushedInv, ClientTypes, TokenTypes, WorldTypes, Clients
<1> SUFFICES InstallInv' /\ OneClientRuns' /\ ClientRenewedInTime'
  BY <1>t DEF ClientInv
<1> USE DEF InstallInv, OneClientRuns, ClientRenewedInTime
<1>0. CASE UNCHANGED <<controller, clientVars>>
  BY <1>0, ClientUntouched
<1>f. LET d == NextBackoff(cback)
      IN  d > 0 /\ 0 < AddAfter(ctimer, d) /\ AddAfter(ctimer, d) <= d
  BY <1>p, NextBackoffType, AddAfterType DEF ClientTypes
<1>1. CASE ClientSync
  <2>1. CASE ~controller
    BY <1>1, <2>1 DEF ClientInv, ClientSync, Remove, NoClient
  <2>2. CASE controller /\ (restapi = 0 \/ key = NoKey)
    <3>1. cback' > 0 /\ 0 < ctimer' /\ ctimer' <= cback'
      BY <1>1, <1>f, <2>2 DEF ClientSync
    <3> QED
      BY <1>1, <2>2, <3>1 DEF ClientInv, ClientSync
  <2>3. CASE controller /\ ~(restapi = 0 \/ key = NoKey)
    <3>1. minted'.there /\ minted'.jwt.left = Lifetime
      BY <1>1, <2>3 DEF ClientSync, NewSignedToken
    <3> QED
      BY <1>1, <2>3, <3>1 DEF ClientInv, ClientSync
  <2> QED
    BY <1>p, <2>1, <2>2, <2>3 DEF WorldTypes
<1>2. CASE ClientInstall
  <2>1. 0 < ctimer' /\ ctimer' < Lifetime
    BY <1>2, <1>p, AddAfterType DEF ClientInstall, RefreshAfter, ClientTypes
  <2>2. client'.there /\ client'.jwt.left = Lifetime
    BY <1>2 DEF ClientInstall, UpdateInPlace, Add, ClientInv
  <2> QED
    BY <1>2, <2>1, <2>2 DEF ClientInstall, UpdateInPlace, Add, ClientInv
<1>3. CASE ClientSyncFails
  <2>1. cqueue' \/ (cback' > 0 /\ 0 < ctimer' /\ ctimer' <= cback')
    BY <1>3, <1>f DEF ClientSyncFails
  <2> QED
    BY <1>3, <2>1 DEF ClientSyncFails, ClientInv
<1>4. ASSUME NEW replayed, TimePasses(replayed)
      PROVE  InstallInv' /\ OneClientRuns' /\ ClientRenewedInTime'
  <2>1. client'.there = client.there /\ client'.jwt = Age(client.jwt)
    BY <1>4, <1>p DEF TimePasses, ClientTypes, Clients
  <2>2. client'.jwt.left = IF client.jwt.left = 0 THEN 0 ELSE client.jwt.left - 1
    BY <1>p, <2>1, AgeType DEF ClientTypes, Clients
  <2>3. ~cqueue /\ cphase = "idle" /\ UNCHANGED <<controller, cphase, cback, strays>>
    BY <1>4 DEF TimePasses
  <2>4. client.jwt.left \in 0..Lifetime /\ ctimer \in 0..MaxBackoff
    BY <1>p DEF ClientTypes, Clients, JWTs
  <2>5. ctimer' = Run(ctimer) /\ (ctimer = 1 => cqueue')
    BY <1>4 DEF TimePasses
  <2>6. ClientRenewedInTime'
    <3> SUFFICES ASSUME client'.there, controller', ~cqueue'
                 PROVE  /\ 0 < ctimer'
                        /\ ctimer' < client'.jwt.left \/ (cback' > 0 /\ ctimer' <= cback')
      BY DEF ClientRenewedInTime
    <3>1. 0 < ctimer /\ (ctimer < client.jwt.left \/ (cback > 0 /\ ctimer <= cback))
      BY <2>1, <2>3 DEF ClientInv
    <3>2. ctimer # 1
      BY <2>5
    <3>3. cback \in Nat /\ cback' = cback
      BY <1>p, <2>3 DEF ClientTypes, Backoffs
    <3> QED
      BY <2>2, <2>4, <2>5, <3>1, <3>2, <3>3 DEF Run
  <2>7. OneClientRuns'
    <3> SUFFICES ASSUME client'.there, ~controller', ~cqueue'
                 PROVE  cback' > 0 /\ ctimer' > 0
      BY <2>3 DEF ClientInv, OneClientRuns
    <3>1. cback > 0 /\ ctimer > 0 /\ cback' = cback
      BY <2>1, <2>3 DEF ClientInv
    <3>2. ctimer # 1
      BY <2>5
    <3> QED
      BY <2>4, <2>5, <3>1, <3>2 DEF Run
  <2> QED
    BY <2>3, <2>6, <2>7
<1>5. CASE UserTogglesController
  BY <1>5 DEF UserTogglesController, ClientInv
<1>6. CASE OperatorRestarts
  BY <1>6 DEF OperatorRestarts, NoClient
<1> QED
  BY <1>0, <1>1, <1>2, <1>3, <1>4, <1>5, <1>6
     DEF Next, vars, ClientReconciler, TokenReconciler, TokenSync, TokenSecretStep,
         TokenRefreshStep, TokenStatusStep, TokenEnd, TokenSyncFails, DeliverSecret,
         Tick, ControllersResync, TokensResync, RotateKey, RemoveKey, MoveRestApi, UserDeletesSecret

(* ClientInv is an invariant of Credentials: no JWT outlives a lifetime, and *)
(* no timer the rate limiter's longest delay.                                *)
THEOREM ClientInvCorrect == Spec => []ClientInv
BY ClientInit, ClientStep, PTL DEF Spec

(* The ClientMap leaves no client running that it does not hold, and holds *)
(* none for a deleted Controller once the deletion is processed - not even  *)
(* when the Controller goes between minting the JWT and installing it.      *)
THEOREM OneClientCorrect == Spec => []OneClientRuns
<1>1. ClientInv => OneClientRuns
  BY DEF ClientInv
<1> QED
  BY <1>1, ClientInvCorrect, PTL

(* The client of a Controller that exists is looked at again before its JWT *)
(* expires, unless the last look failed: then when the rate limiter lets it. *)
THEOREM RenewalCorrect == Spec => []ClientRenewedInTime
<1>1. ClientInv => ClientRenewedInTime
  BY DEF ClientInv
<1> QED
  BY <1>1, ClientInvCorrect, PTL
=============================================================================
