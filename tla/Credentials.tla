----------------------------- MODULE Credentials -----------------------------
(***************************************************************************)
(* The two controllers that issue Slurm JWTs from one signing key and must *)
(* renew them in time: the Slurm client controller, which keeps one client *)
(* per Controller in the ClientMap, and the Token controller, which keeps  *)
(* one Secret per Token.                                                   *)
(*                                                                         *)
(* The two share only the key, which neither writes, and the moment of a   *)
(* restart; "half" says which of them a behaviour follows.                 *)
(*                                                                         *)
(* Time is counted in fifths of a token's lifetime, and only differences   *)
(* are kept: how long a JWT is still good, how long a timer still runs.    *)
(* Reconciles, the first retries of a failed call and informers are faster *)
(* than a tick, so the clock waits for them.                               *)
(***************************************************************************)
EXTENDS Naturals, FiniteSets

CONSTANTS
    Keys,          \* values of the signing key
    NoKey,         \* the Secret of the key, or its entry, is missing
    Refresh,       \* Token.spec.refresh
    Resyncs,       \* the informer's periodic resync wakes the Token
    MaxChanges,    \* bound: steps of users
    MaxFaults      \* bound: failed calls and operator restarts

ASSUME KeysAssumption == Keys # {} /\ NoKey \notin Keys
ASSUME FlagAssumption == Refresh \in BOOLEAN /\ Resyncs \in BOOLEAN
ASSUME BoundAssumption == MaxChanges \in Nat /\ MaxFaults \in Nat

Lifetime == 5      \* 15 minutes for the client, Token.Lifetime() for the Token
Margin == 1        \* Lifetime * 1/5
Soon == 1          \* 30 s pass within a tick
MaxBackoff == 6    \* the 1000 s at which the default rate limiter stops

\* No RateLimiter is configured: each failure in a row doubles the delay, from
\* 5 ms; 0 stands for no failure that outlasted the delays shorter than a tick.
Backoffs == {0, 1, 2, 4, MaxBackoff}
NextBackoff(b) == IF b = 0 THEN 1 ELSE IF b < 4 THEN 2 * b ELSE MaxBackoff

VARIABLES
    half,          \* "client" or "token"
    key,           \* the signing key in its Secret; NoKey if there is none
    controller,    \* the Controller exists
    restapi,       \* the address of the first RestApi of the Controller; 0 if none
    client,        \* the client the ClientMap holds
    strays,        \* running clients that the map has lost
    cqueue, ctimer, cphase,   \* the Slurm client controller's queue, timer and place
    cback,         \* its rate limiter: the delay after the last failure in a row
    minted,        \* the JWT and server the reconcile is about to install
    secret, cached,           \* the Token's Secret in the API server and in the cache
    issued,        \* Token.status.issuedAt: which JWT the status speaks of
    tqueue, ttimer, tphase,   \* the Token controller's queue, timer and place
    tback,         \* and its rate limiter
    pushed,        \* the durations this reconcile pushed
    failed,        \* a step of this reconcile returned an error
    changes, faults

clientVars == <<client, strays, cqueue, ctimer, cphase, cback, minted>>
tokenVars == <<secret, cached, issued, tqueue, ttimer, tphase, tback, pushed, failed>>
vars == <<half, key, controller, restapi, clientVars, tokenVars, changes, faults>>

-----------------------------------------------------------------------------
(* JWTs.  "left" is the time to expiry; "gen" tells one issue from the next. *)

NewSignedToken(gen) == [left |-> Lifetime, key |-> key, gen |-> gen]

NoSecret == [left |-> 0, key |-> CHOOSE k \in Keys : TRUE, gen |-> 0]

Present(jwt) == jwt.gen # 0

\* A signature is checked before the claims are, and both Secrets are read before.
ParseTokenClaims(jwt) ==
    IF ~Present(jwt) \/ key = NoKey THEN "not found"
    ELSE IF jwt.key # key THEN "signature invalid"
    ELSE IF jwt.left = 0 THEN "expired" ELSE "ok"

Gens == 1..2
NextGen(jwt) == IF jwt.gen = 1 THEN 2 ELSE 1

NoClient == [there |-> FALSE, jwt |-> NoSecret, server |-> 0]

-----------------------------------------------------------------------------
(* The workqueue.  A request that waits with a delay keeps the earlier one; *)
(* a delay that is not positive adds nothing.                               *)

AddAfter(timer, delay) ==
    IF delay <= 0 THEN timer ELSE IF timer = 0 \/ delay < timer THEN delay ELSE timer

\* durationstore.Less keeps the least of what was pushed.
Pop(durations) == CHOOSE d \in durations : \A e \in durations : d <= e

Init ==
    /\ half \in {"client", "token"}
    /\ key \in Keys \cup {NoKey}
    /\ controller = (half = "client") /\ restapi \in {0, 1}
    /\ client = NoClient /\ strays = 0
    /\ cqueue = (half = "client") /\ ctimer = 0 /\ cphase = "idle" /\ cback = 0 /\ minted = NoClient
    /\ secret = NoSecret /\ cached = NoSecret /\ issued = 0
    /\ tqueue = (half = "token") /\ ttimer = 0 /\ tphase = "idle" /\ tback = 0
    /\ pushed = {} /\ failed = FALSE
    /\ changes = 0 /\ faults = 0

Fault == faults < MaxFaults /\ faults' = faults + 1

-----------------------------------------------------------------------------
(* SlurmClientReconciler.Sync and the ClientMap. *)

RefreshTooLate == Lifetime

\* The duration store is Greater and empty: the next look is at 4/5 of the lifetime.
RefreshAfter == Lifetime - Margin

RemoveButRun == client' = NoClient /\ strays' = strays + (IF client.there THEN 1 ELSE 0)

\* ClientMap.remove stops the client.
Remove == client' = NoClient /\ UNCHANGED strays

\* ClientMap.Add stops what it replaces and starts the new client.
Add(new) == client' = new /\ UNCHANGED strays

SetTokenOnly(new) == client' = [client EXCEPT !.jwt = new.jwt] /\ UNCHANGED strays

\* SetServer and SetToken reach whoever holds the client already.
UpdateInPlace(new) == client' = new /\ UNCHANGED strays

\* The Controller is gone, or the JWT is minted.  Without a RestApi the error
\* is a plain one, which IsNotFound does not recognise; without the key it is
\* passed on.  Either way the request is retried, and the client stays.
ClientSync ==
    /\ cphase = "idle" /\ cqueue
    /\ cqueue' = FALSE
    /\ IF ~controller
       THEN Remove /\ cback' = 0 /\ UNCHANGED <<ctimer, cphase, minted>>
       ELSE IF restapi = 0 \/ key = NoKey
       THEN /\ cback' = NextBackoff(cback)
            /\ ctimer' = AddAfter(ctimer, NextBackoff(cback))
            /\ UNCHANGED <<client, strays, cphase, minted>>
       ELSE /\ cphase' = "install"
            /\ minted' = [there |-> TRUE, jwt |-> NewSignedToken(1), server |-> restapi]
            /\ UNCHANGED <<client, strays, ctimer, cback>>
    /\ UNCHANGED <<half, key, controller, restapi, tokenVars, changes, faults>>

\* A reconcile without an error makes the rate limiter forget the request.
ClientInstall ==
    /\ cphase = "install"
    /\ IF client.there THEN UpdateInPlace(minted) ELSE Add(minted)
    /\ ctimer' = AddAfter(ctimer, RefreshAfter) /\ cback' = 0
    /\ cphase' = "idle" /\ minted' = NoClient
    /\ UNCHANGED <<half, key, controller, restapi, cqueue, tokenVars, changes, faults>>

\* A read of the cluster, or NewClient, fails: the request is retried, at once
\* unless the rate limiter has seen it fail for long.
ClientSyncFails ==
    /\ Fault
    /\ \/ cphase = "idle" /\ cqueue /\ UNCHANGED <<cphase, minted>>
       \/ cphase = "install" /\ cphase' = "idle" /\ minted' = NoClient
    /\ IF cback = 0
       THEN cqueue' = TRUE /\ UNCHANGED <<ctimer, cback>>
       ELSE /\ cqueue' = (cqueue /\ cphase = "install")
            /\ cback' = NextBackoff(cback)
            /\ ctimer' = AddAfter(ctimer, NextBackoff(cback))
    /\ UNCHANGED <<half, key, controller, restapi, client, strays, tokenVars, changes>>

-----------------------------------------------------------------------------
(* TokenReconciler.Sync: the duration, the Secret, the refresh, the status. *)

\* getExpTime, and how long until a fifth of the lifetime is left.  The delay
\* may be zero or less: it is kept as a number above the offset Lifetime.
getExpTime == ParseTokenClaims(cached)
UntilRefresh == Lifetime + cached.left - Margin
ShortDelay == Lifetime + Soon

TokenSync ==
    /\ tphase = "idle" /\ tqueue
    /\ tqueue' = FALSE /\ failed' = FALSE
    /\ pushed' = {IF getExpTime = "ok" THEN UntilRefresh ELSE ShortDelay}
    /\ tphase' = "secret"
    /\ UNCHANGED <<half, key, controller, restapi, clientVars, secret, cached, issued, ttimer, tback,
                   changes, faults>>

\* A step that fails ends the loop; the status is synced all the same.
StepTo(next, ok) == tphase' = (IF ok THEN next ELSE "status") /\ failed' = ~ok

\* BuildTokenSecret needs the key.  SyncObject without update: create what the
\* cache does not show.
TokenSecretStep ==
    /\ tphase = "secret"
    /\ secret' = IF key # NoKey /\ ~Present(cached) /\ ~Present(secret)
                 THEN NewSignedToken(1) ELSE secret
    /\ StepTo("refresh", key # NoKey /\ (Present(cached) \/ ~Present(secret)))
    /\ UNCHANGED <<half, key, controller, restapi, clientVars, cached, issued, tqueue, ttimer, tback,
                   pushed, changes, faults>>

Renewable == {"ok"}

\* The refresh tolerates one error of getExpTime: the JWT has expired.
RefreshRuns == {"ok", "expired"}

\* refreshTime is now for an expired JWT; an immutable Secret is left alone.
TokenRefreshStep ==
    /\ tphase = "refresh"
    /\ IF ~Refresh
       THEN StepTo("status", TRUE) /\ UNCHANGED <<secret, pushed>>
       ELSE IF getExpTime \notin RefreshRuns
       THEN StepTo("status", FALSE) /\ UNCHANGED <<secret, pushed>>
       ELSE /\ pushed' = pushed \cup (IF getExpTime = "ok" THEN {UntilRefresh} ELSE {})
            /\ IF getExpTime = "ok" /\ UntilRefresh > Lifetime
               THEN secret' = secret /\ StepTo("status", TRUE)
               ELSE IF Present(secret)
               THEN secret' = NewSignedToken(NextGen(secret)) /\ StepTo("status", TRUE)
               ELSE secret' = secret /\ StepTo("status", FALSE)
    /\ UNCHANGED <<half, key, controller, restapi, clientVars, cached, issued, tqueue, ttimer, tback,
                   changes, faults>>

\* syncStatus reads the Secret from the cache, as it was before the refresh or
\* after.  A status that changes is an event of the Token.
TokenStatusStep ==
    /\ tphase = "status"
    /\ IF getExpTime = "ok"
       THEN /\ issued' = cached.gen
            /\ tqueue' = (tqueue \/ issued # cached.gen)
            /\ UNCHANGED failed
       ELSE failed' = TRUE /\ UNCHANGED <<issued, tqueue>>
    /\ tphase' = "end"
    /\ UNCHANGED <<half, key, controller, restapi, clientVars, secret, cached, ttimer, tback, pushed,
                   changes, faults>>

\* RequeueAfter counts when there is no error and it is positive.
TokenEnd ==
    /\ tphase = "end"
    /\ tback' = IF failed THEN NextBackoff(tback) ELSE 0
    /\ ttimer' = IF failed THEN AddAfter(ttimer, NextBackoff(tback))
                 ELSE IF Pop(pushed) <= Lifetime THEN ttimer
                 ELSE AddAfter(ttimer, Pop(pushed) - Lifetime)
    /\ tphase' = "idle" /\ pushed' = {} /\ failed' = FALSE
    /\ UNCHANGED <<half, key, controller, restapi, clientVars, secret, cached, issued, tqueue,
                   changes, faults>>

\* A call of the reconcile fails for no lasting reason.
TokenSyncFails ==
    /\ Fault /\ tphase \in {"secret", "refresh", "status"}
    /\ tphase' = "idle" /\ pushed' = {} /\ failed' = FALSE
    /\ IF tback = 0
       THEN tqueue' = TRUE /\ UNCHANGED <<ttimer, tback>>
       ELSE /\ tback' = NextBackoff(tback)
            /\ ttimer' = AddAfter(ttimer, NextBackoff(tback))
            /\ UNCHANGED tqueue
    /\ UNCHANGED <<half, key, controller, restapi, clientVars, secret, cached, issued, changes>>

\* The Secret's owner is the Secret of the key, not the Token, so that
\* Owns(Secret) wakes no Token.
DeliverSecret ==
    /\ cached # secret
    /\ cached' = secret
    /\ UNCHANGED <<half, key, controller, restapi, clientVars, secret, issued, tqueue, ttimer, tphase,
                   tback, pushed, failed, changes, faults>>

-----------------------------------------------------------------------------
(* Time, users and restarts. *)

Age(jwt) == [jwt EXCEPT !.left = IF @ = 0 THEN 0 ELSE @ - 1]
Run(timer) == IF timer = 0 THEN 0 ELSE timer - 1

\* The manager's informers replay their objects from time to time (10 hours).
TimePasses(replayed) ==
    /\ ~cqueue /\ cphase = "idle" /\ ~tqueue /\ tphase = "idle" /\ cached = secret
    /\ client' = [client EXCEPT !.jwt = Age(@)]
    /\ secret' = Age(secret) /\ cached' = Age(cached)
    /\ ctimer' = Run(ctimer) /\ cqueue' = (ctimer = 1 \/ "controllers" \in replayed)
    /\ ttimer' = Run(ttimer) /\ tqueue' = (ttimer = 1 \/ "tokens" \in replayed)
    /\ UNCHANGED <<half, key, controller, restapi, strays, cphase, cback, minted, issued, tphase, tback,
                   pushed, failed, changes, faults>>

Tick == TimePasses({})
ControllersResync == half = "client" /\ Resyncs /\ TimePasses({"controllers"})
TokensResync == half = "token" /\ Resyncs /\ TimePasses({"tokens"})

Change == changes < MaxChanges /\ changes' = changes + 1

\* Neither controller watches the key or the RestApis.
RotateKey(k) ==
    /\ Change /\ k # key /\ key' = k
    /\ UNCHANGED <<half, controller, restapi, clientVars, tokenVars, faults>>

\* The key goes; with its Secret, the owner of the Token's Secret, goes that too.
RemoveKey(collected) ==
    /\ Change /\ key # NoKey /\ key' = NoKey
    /\ secret' = IF collected THEN NoSecret ELSE secret
    /\ UNCHANGED <<half, controller, restapi, clientVars, cached, issued, tqueue, ttimer, tphase, tback,
                   pushed, failed, faults>>

MoveRestApi(address) ==
    /\ Change /\ half = "client" /\ restapi # address /\ restapi' = address
    /\ UNCHANGED <<half, key, controller, clientVars, tokenVars, faults>>

UserTogglesController ==
    /\ Change /\ half = "client" /\ controller' = ~controller
    /\ cqueue' = TRUE
    /\ UNCHANGED <<half, key, restapi, client, strays, ctimer, cphase, cback, minted, tokenVars, faults>>

UserDeletesSecret ==
    /\ Change /\ Present(secret) /\ secret' = NoSecret
    /\ UNCHANGED <<half, key, controller, restapi, clientVars, cached, issued, tqueue, ttimer, tphase, tback,
                   pushed, failed, faults>>

\* The ClientMap, the queues and the timers are memory; a restart lists
\* every Controller and every Token.
OperatorRestarts ==
    /\ Fault
    /\ client' = NoClient /\ strays' = 0
    /\ cqueue' = (half = "client") /\ ctimer' = 0 /\ cphase' = "idle" /\ cback' = 0
    /\ minted' = NoClient /\ cached' = secret
    /\ tqueue' = (half = "token") /\ ttimer' = 0 /\ tphase' = "idle" /\ tback' = 0
    /\ pushed' = {} /\ failed' = FALSE
    /\ UNCHANGED <<half, key, controller, restapi, secret, issued, changes>>

-----------------------------------------------------------------------------
ClientReconciler == ClientSync \/ ClientInstall
TokenReconciler ==
    TokenSync \/ TokenSecretStep \/ TokenRefreshStep \/ TokenStatusStep \/ TokenEnd

Next ==
    \/ ClientReconciler \/ ClientSyncFails
    \/ TokenReconciler \/ TokenSyncFails \/ DeliverSecret
    \/ Tick \/ ControllersResync \/ TokensResync
    \/ \E k \in Keys : RotateKey(k)
    \/ \E collected \in BOOLEAN : RemoveKey(collected)
    \/ \E address \in 0..2 : MoveRestApi(address)
    \/ UserTogglesController \/ UserDeletesSecret \/ OperatorRestarts

Spec == Init /\ [][Next]_vars

\* Workers run what is queued, informers deliver and resync, time passes.
LiveSpec ==
    /\ Spec
    /\ WF_vars(ClientReconciler) /\ WF_vars(TokenReconciler)
    /\ WF_vars(DeliverSecret) /\ WF_vars(Tick) /\ SF_vars(TokensResync)

-----------------------------------------------------------------------------
JWTs == [left : 0..Lifetime, key : Keys, gen : 0..2]

(* Types; a JWT is never good for longer than its lifetime. *)
TypeOK ==
    /\ half \in {"client", "token"}
    /\ key \in Keys \cup {NoKey} /\ controller \in BOOLEAN /\ restapi \in 0..2
    /\ client \in [there : BOOLEAN, jwt : JWTs, server : 0..2]
    /\ minted \in [there : BOOLEAN, jwt : JWTs, server : 0..2]
    /\ strays \in Nat
    /\ cqueue \in BOOLEAN /\ ctimer \in 0..MaxBackoff /\ cphase \in {"idle", "install"}
    /\ cback \in Backoffs /\ tback \in Backoffs
    /\ secret \in JWTs /\ cached \in JWTs /\ issued \in 0..2
    /\ tqueue \in BOOLEAN /\ ttimer \in 0..MaxBackoff
    /\ tphase \in {"idle", "secret", "refresh", "status", "end"}
    /\ pushed \subseteq Nat /\ failed \in BOOLEAN
    /\ changes \in 0..MaxChanges /\ faults \in 0..MaxFaults

(***************************************************************************)
(* A client that runs is the one the map hands out: removing or replacing  *)
(* a Controller's client leaves no poller behind (ClientMap.Add, Remove),  *)
(* and the map never serves a client for a Controller whose deletion has   *)
(* been processed: the request is queued, or waits for a retry.            *)
(***************************************************************************)
OneClientRuns ==
    /\ strays = 0
    /\ client.there /\ ~controller => cqueue \/ (cback > 0 /\ ctimer > 0)

(***************************************************************************)
(* While its Controller exists, the map's client is looked at again before *)
(* its JWT expires (Sync's push of 4/5 of the lifetime), whatever          *)
(* restarts, retries and deletions intervened, unless the last look        *)
(* failed; then the rate limiter's delay, and no other timer, is what is   *)
(* waited for.  It may outlast the JWT: a RestApi or a key that comes back *)
(* finds the client without a valid JWT for up to 1000 s.                  *)
(***************************************************************************)
ClientRenewedInTime ==
    client.there /\ controller =>
        \/ cqueue \/ cphase # "idle"
        \/ 0 < ctimer /\ ctimer < client.jwt.left
        \/ cback > 0 /\ 0 < ctimer /\ ctimer <= cback

(***************************************************************************)
(* When users and faults stop, the NodeSets' client exists exactly when it *)
(* should, with a JWT of the current key and the address of the RestApi,   *)
(* although nothing watches either of them.                                *)
(***************************************************************************)
ClientSettles ==
    <>[](/\ controller /\ restapi # 0 /\ key # NoKey =>
               client.there /\ client.jwt.left > 0 /\ client.jwt.key = key /\ client.server = restapi
         /\ ~controller => ~client.there)

(***************************************************************************)
(* A JWT of a Token that has expired under the key it was signed with is   *)
(* replaced, at the latest when the informer resyncs: expiry is the error  *)
(* the refresh step forgives (getExpTime, Refresh).                        *)
(***************************************************************************)
TokenRecovers ==
    [](Present(secret) /\ secret.left = 0 => <>(secret.left > 0 \/ secret.key # key))

(***************************************************************************)
(* "Controls if the JWT will be rotated": a Token with refresh set is      *)
(* rotated before its JWT expires.  The refresh pushes a delay that is not *)
(* positive, and when the cache still shows the old Secret the status does *)
(* not change either: nothing looks at the Token again.                    *)
(***************************************************************************)
TokenStaysValid == Refresh /\ Present(secret) => secret.left > 0
=============================================================================
