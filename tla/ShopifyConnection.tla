-------------------------- MODULE ShopifyConnection ---------------------------
(***************************************************************************)
(* The connection of one Shopify shop: the OAuth flows of the tenants that *)
(* want it, the row of shop_connections with its token, the refreshes the  *)
(* syncs make, the webhooks app/uninstalled and shop/redact, and the jobs  *)
(* of the daily maintenance that purge the shop after a grace period.      *)
(*                                                                         *)
(* A token is abstracted to the tenant that consented and the installation *)
(* of the app Shopify issued it for; time is counted in days, saturating   *)
(* at the longest delay.  Signatures, scopes and encryption only make a    *)
(* handler raise before it writes, which is a failed exchange here.        *)
(* Handlers are split where the code leaves a transaction; the maintenance *)
(* transaction runs READ COMMITTED and is split between its check and its  *)
(* deletes, and between its jobs.                                          *)
(***************************************************************************)
EXTENDS Integers, FiniteSets

CONSTANTS
    Tenants,        \* the merchants that may ask for the shop
    NoTenant,       \* no merchant: the shop has no row
    Flows,          \* OAuth flows, each with its own state and nonce
    Callbacks,      \* handlers of GET /oauth/callback
    Refreshers,     \* webhook, POST /sync and daily handlers that may refresh
    NoFlow,         \* a callback handler that serves no flow
    NoToken,        \* the empty encrypted_access_token
    NoJob,          \* the maintenance worker holds no job
    MaxEpoch,       \* bound on installations of the app in the shop
    Grace,          \* days between uninstall and purge (30)
    RedactDelay,    \* days between shop/redact and purge (7)
    MaxAttempts,    \* attempts of a privacy job (3)
    MaxFailures,    \* bound on jobs that raise
    MaxCrashes      \* bound on webhook handlers and maintenance runs that die

Epochs == 1..MaxEpoch
Topics == {"app/uninstalled", "shop/redact"}
Kinds == {"SHOPIFY_RETENTION_REVIEW", "SHOPIFY_SHOP_HARD_DELETE"}
Tokens == [tenant : Tenants, epoch : Epochs]
Days == 0..Grace

Statuses == {"none", "CONNECTED", "DISCONNECTED", "UNINSTALLED", "SHOP_REDACTION_PENDING"}
\* away: the days since the row was last CONNECTED.
Row == [tenant : Tenants \cup {NoTenant}, status : Statuses,
        token : Tokens \cup {NoToken}, away : Days]
NoRow == [tenant |-> NoTenant, status |-> "none", token |-> NoToken, away |-> 0]
\* left: days until available_at.  A job of MaxAttempts attempts is FAILED.
Job == [kind : Kinds, tenant : Tenants, left : Days, attempts : 0..MaxAttempts]

FlowState == [tenant : Tenants \cup {NoTenant}, code : 0..MaxEpoch,
              nonce : {"none", "open", "consumed", "expired"}]
CallbackState == [flow : Flows \cup {NoFlow}, token : Tokens \cup {NoToken}]
RefreshState == [tenant : Tenants \cup {NoTenant},
                 old : Tokens \cup {NoToken}, new : Tokens \cup {NoToken}]
HookState == {"none", "sent", "handling", "done", "ignored", "lost"}

ASSUME ConnectionAssumption ==
    /\ NoTenant \notin Tenants
    /\ NoFlow \notin Flows
    /\ NoToken \notin Tokens
    /\ NoJob \notin Job
    /\ MaxEpoch \in Nat
    /\ Grace \in Nat \ {0}
    /\ RedactDelay \in 1..Grace
    /\ MaxAttempts \in Nat \ {0}
    /\ MaxFailures \in Nat
    /\ MaxCrashes \in Nat

VARIABLES
    installed, epoch,   \* Shopify: whether the app is installed, how often it was
    flow,               \* tenant, nonce and authorization code of every flow
    conn,               \* the shop_connections row
    callback,           \* local state of the callback handlers
    refresh,            \* local state of the handlers that refresh
    hook,               \* every webhook from its sending to its end
    jobs,               \* purge jobs that are not COMPLETED
    worker,             \* the maintenance transaction
    failures, crashes

shopify == <<installed, epoch>>
faults == <<failures, crashes>>
vars == <<shopify, flow, conn, callback, refresh, hook, jobs, worker, faults>>

TypeOK ==
    /\ installed \in BOOLEAN
    /\ epoch \in 0..MaxEpoch
    /\ flow \in [Flows -> FlowState]
    /\ conn \in Row
    /\ callback \in [Callbacks -> CallbackState]
    /\ refresh \in [Refreshers -> RefreshState]
    /\ hook \in [Topics -> [Epochs -> HookState]]
    /\ jobs \in SUBSET Job
    /\ worker \in [job : Job \cup {NoJob}, spare : BOOLEAN]
    /\ failures \in 0..MaxFailures
    /\ crashes \in 0..MaxCrashes

\* A handler has a flow or an old token from its first step on, a new one from the exchange on.
IdleCallback == [flow |-> NoFlow, token |-> NoToken]
IdleRefresh == [tenant |-> NoTenant, old |-> NoToken, new |-> NoToken]
IdleWorker == [job |-> NoJob, spare |-> FALSE]

Init ==
    /\ installed = FALSE
    /\ epoch = 0
    /\ flow = [f \in Flows |-> [tenant |-> NoTenant, code |-> 0, nonce |-> "none"]]
    /\ conn = NoRow
    /\ callback = [c \in Callbacks |-> IdleCallback]
    /\ refresh = [r \in Refreshers |-> IdleRefresh]
    /\ hook = [k \in Topics |-> [e \in Epochs |-> "none"]]
    /\ jobs = {}
    /\ worker = IdleWorker
    /\ failures = 0
    /\ crashes = 0

-------------------------------------------------------------------------------
(* OAuth: oauth.begin, the consent in Shopify, oauth.complete.             *)

\* POST /connect of a tenant that has accepted the agreements.
Begin(f, t) ==
    /\ flow[f].nonce = "none"
    /\ flow' = [flow EXCEPT ![f].nonce = "open", ![f].tenant = t]
    /\ UNCHANGED <<shopify, conn, callback, refresh, hook, jobs, worker, faults>>

\* Ten minutes pass, or the daily cutoff deletes the nonce.
ExpireNonce(f) ==
    /\ flow[f].nonce = "open"
    /\ flow' = [flow EXCEPT ![f].nonce = "expired"]
    /\ UNCHANGED <<shopify, conn, callback, refresh, hook, jobs, worker, faults>>

\* The shop's owner consents: Shopify installs the app if it is not, and issues a code.
Approve(f) ==
    /\ flow[f].nonce # "none"
    /\ flow[f].code = 0
    /\ installed \/ epoch < MaxEpoch
    /\ installed' = TRUE
    /\ epoch' = IF installed THEN epoch ELSE epoch + 1
    /\ flow' = [flow EXCEPT ![f].code = epoch']
    /\ UNCHANGED <<conn, callback, refresh, hook, jobs, worker, faults>>

\* Mutant: the nonce is not required to be unconsumed.
ConsumeNonceAgain(c, f) ==
    /\ callback[c] = IdleCallback
    /\ flow[f].code # 0
    /\ flow[f].nonce \in {"open", "consumed"}
    /\ flow' = [flow EXCEPT ![f].nonce = "consumed"]
    /\ callback' = [callback EXCEPT ![c].flow = f]
    /\ UNCHANGED <<shopify, conn, refresh, hook, jobs, worker, faults>>

\* The browser brings the code, as often as it likes; a spent or expired nonce raises.
ConsumeNonce(c, f) ==
    /\ callback[c] = IdleCallback
    /\ flow[f].code # 0
    /\ flow[f].nonce = "open"
    /\ flow' = [flow EXCEPT ![f].nonce = "consumed"]
    /\ callback' = [callback EXCEPT ![c].flow = f]
    /\ UNCHANGED <<shopify, conn, refresh, hook, jobs, worker, faults>>

\* Shopify exchanges the code of the installation that is current.
ExchangeCode(c) ==
    /\ callback[c].flow # NoFlow
    /\ callback[c].token = NoToken
    /\ installed
    /\ flow[callback[c].flow].code = epoch
    /\ callback' = [callback EXCEPT ![c].token =
                       [tenant |-> flow[callback[c].flow].tenant, epoch |-> epoch]]
    /\ UNCHANGED <<shopify, flow, conn, refresh, hook, jobs, worker, faults>>

\* upsert_installation: one row per shop; another tenant's row raises PermissionError.
Store(t, token) ==
    conn' = IF conn.tenant \in {NoTenant, t}
            THEN [tenant |-> t, status |-> "CONNECTED", token |-> token, away |-> 0]
            ELSE conn

PersistInstall(c) ==
    /\ callback[c].token # NoToken
    /\ Store(flow[callback[c].flow].tenant, callback[c].token)
    /\ callback' = [callback EXCEPT ![c] = IdleCallback]
    /\ UNCHANGED <<shopify, flow, refresh, hook, jobs, worker, faults>>

\* The exchange is rejected or lacks a scope, or the handler dies: the nonce stays spent.
AbandonCallback(c) ==
    /\ callback[c] # IdleCallback
    /\ callback' = [callback EXCEPT ![c] = IdleCallback]
    /\ UNCHANGED <<shopify, flow, conn, refresh, hook, jobs, worker, faults>>

-------------------------------------------------------------------------------
(* Refreshing an expiring token before a sync.                             *)

\* get_installation, ..._for_verified_webhook, connected_installations_for_maintenance.
ReadInstallation(r) ==
    /\ refresh[r] = IdleRefresh
    /\ conn.status = "CONNECTED"
    /\ refresh' = [refresh EXCEPT ![r].tenant = conn.tenant, ![r].old = conn.token]
    /\ UNCHANGED <<shopify, flow, conn, callback, hook, jobs, worker, faults>>

\* Shopify refreshes the tokens of the current installation only.
ExchangeRefresh(r) ==
    /\ refresh[r].old # NoToken
    /\ refresh[r].new = NoToken
    /\ installed
    /\ refresh[r].old.epoch = epoch
    /\ refresh' = [refresh EXCEPT ![r].new = refresh[r].old]
    /\ UNCHANGED <<shopify, flow, conn, callback, hook, jobs, worker, faults>>

\* Mutant: the tokens are written to the shop's row, whoever's it is.
PersistRefreshByShop(r) ==
    /\ refresh[r].new # NoToken
    /\ Store(conn.tenant, refresh[r].new)
    /\ refresh' = [refresh EXCEPT ![r] = IdleRefresh]
    /\ UNCHANGED <<shopify, flow, callback, hook, jobs, worker, faults>>

\* The row is written as it was read, whatever happened to it in between.
PersistRefresh(r) ==
    /\ refresh[r].new # NoToken
    /\ Store(refresh[r].tenant, refresh[r].new)
    /\ refresh' = [refresh EXCEPT ![r] = IdleRefresh]
    /\ UNCHANGED <<shopify, flow, callback, hook, jobs, worker, faults>>

AbandonRefresh(r) ==
    /\ refresh[r] # IdleRefresh
    /\ refresh' = [refresh EXCEPT ![r] = IdleRefresh]
    /\ UNCHANGED <<shopify, flow, conn, callback, hook, jobs, worker, faults>>

-------------------------------------------------------------------------------
(* Revocation: the tenant disconnects, or the shop uninstalls the app.     *)

Revoked(status) == conn' = [conn EXCEPT !.status = status, !.token = NoToken]

\* DELETE /connection: whatever the status of the tenant's row.
Disconnect(t) ==
    /\ conn.tenant = t
    /\ Revoked("DISCONNECTED")
    /\ UNCHANGED <<shopify, flow, callback, refresh, hook, jobs, worker, faults>>

UninstallApp ==
    /\ installed
    /\ installed' = FALSE
    /\ hook' = [hook EXCEPT !["app/uninstalled"][epoch] = "sent"]
    /\ UNCHANGED <<epoch, flow, conn, callback, refresh, jobs, worker, faults>>

\* Shopify asks for the erasure two days after an uninstallation that still stands.
SendRedact ==
    /\ ~installed
    /\ epoch > 0
    /\ hook["shop/redact"][epoch] = "none"
    /\ hook' = [hook EXCEPT !["shop/redact"][epoch] = "sent"]
    /\ UNCHANGED <<shopify, flow, conn, callback, refresh, jobs, worker, faults>>

\* register_webhook commits the receipt; without a row the webhook counts as a duplicate.
Receive(k, e) ==
    /\ hook[k][e] = "sent"
    /\ hook' = [hook EXCEPT ![k][e] = IF conn.tenant = NoTenant THEN "ignored" ELSE "handling"]
    /\ UNCHANGED <<shopify, flow, conn, callback, refresh, jobs, worker, faults>>

NewJob(kind, t, delay) == [kind |-> kind, tenant |-> t, left |-> delay, attempts |-> 0]

\* Mutant: the job is only queued by shop/redact.
HandleUnscheduled(k, e) ==
    /\ hook[k][e] = "handling"
    /\ conn.tenant # NoTenant
    /\ IF k = "app/uninstalled"
       THEN /\ Revoked("UNINSTALLED")
            /\ UNCHANGED jobs
       ELSE /\ Revoked("SHOP_REDACTION_PENDING")
            /\ jobs' = jobs \cup {NewJob("SHOPIFY_SHOP_HARD_DELETE", conn.tenant, RedactDelay)}
    /\ hook' = [hook EXCEPT ![k][e] = "done"]
    /\ UNCHANGED <<shopify, flow, callback, refresh, worker, faults>>

\* uninstall and redact_shop: one transaction for the row and the job.
Handle(k, e) ==
    /\ hook[k][e] = "handling"
    /\ conn.tenant # NoTenant
    /\ IF k = "app/uninstalled"
       THEN /\ Revoked("UNINSTALLED")
            /\ jobs' = jobs \cup {NewJob("SHOPIFY_RETENTION_REVIEW", conn.tenant, Grace)}
       ELSE /\ Revoked("SHOP_REDACTION_PENDING")
            /\ jobs' = jobs \cup {NewJob("SHOPIFY_SHOP_HARD_DELETE", conn.tenant, RedactDelay)}
    /\ hook' = [hook EXCEPT ![k][e] = "done"]
    /\ UNCHANGED <<shopify, flow, callback, refresh, worker, faults>>

\* The row went away after the receipt, and the receipt with it: "webhook shop is not
\* installed".  Shopify may deliver the webhook again.
RejectHook(k, e) ==
    /\ hook[k][e] = "handling"
    /\ conn.tenant = NoTenant
    /\ hook' = [hook EXCEPT ![k][e] = "sent"]
    /\ UNCHANGED <<shopify, flow, conn, callback, refresh, jobs, worker, faults>>

\* The handler dies or raises after the receipt: every redelivery is a duplicate.
LoseHook(k, e) ==
    /\ hook[k][e] = "handling"
    /\ crashes < MaxCrashes
    /\ crashes' = crashes + 1
    /\ hook' = [hook EXCEPT ![k][e] = "lost"]
    /\ UNCHANGED <<shopify, flow, conn, callback, refresh, jobs, worker, failures>>

-------------------------------------------------------------------------------
(* The daily maintenance: due purge jobs.                                  *)

\* No request is longer than a day; a refresh may wait in the daily loop over all shops.
Quiet ==
    /\ worker.job = NoJob
    /\ \A c \in Callbacks : callback[c] = IdleCallback
    /\ \A k \in Topics, e \in Epochs : hook[k][e] # "handling"

Gone == conn.tenant # NoTenant /\ conn.status # "CONNECTED"

\* Mutant: a day without a maintenance run leaves the jobs as they were.
TickForgetsJobs ==
    /\ Quiet
    /\ conn' = [conn EXCEPT !.away = IF @ < Grace /\ Gone THEN @ + 1 ELSE @]
    /\ UNCHANGED <<shopify, flow, callback, refresh, hook, jobs, worker, faults>>

\* A day passes between two maintenance runs.
Tick ==
    /\ Quiet
    /\ conn' = [conn EXCEPT !.away = IF @ < Grace /\ Gone THEN @ + 1 ELSE @]
    /\ jobs' = {[j EXCEPT !.left = IF @ > 0 THEN @ - 1 ELSE 0] : j \in jobs}
    /\ UNCHANGED <<shopify, flow, callback, refresh, hook, worker, faults>>

\* Mutant: a FAILED job is selected again.
DueForever(j) == j.left = 0

Due(j) == j.left = 0 /\ j.attempts < MaxAttempts
Reconnected(t) == conn.tenant = t /\ conn.status = "CONNECTED"

\* The job is locked; only a review asks whether the shop is connected again.
StartJob(j) ==
    /\ worker.job = NoJob
    /\ j \in jobs
    /\ Due(j)
    /\ worker' = [job |-> j, spare |-> j.kind = "SHOPIFY_RETENTION_REVIEW"
                                        /\ Reconnected(j.tenant)]
    /\ UNCHANGED <<shopify, flow, conn, callback, refresh, hook, jobs, faults>>

\* Mutant: the deletes are not limited to the tenant of the job.
PurgeAnyTenant(j) == conn' = NoRow

\* _hard_delete_shop: every row of the tenant's shop, the connection with them.
Purge(j) == conn' = IF conn.tenant = j.tenant THEN NoRow ELSE conn

\* The tenant's nonces are found by way of the shops row, which only a sync creates.
DeleteNonces(t) ==
    \/ UNCHANGED flow
    \/ flow' = [f \in Flows |-> IF flow[f].tenant = t /\ flow[f].nonce = "open"
                                THEN [flow[f] EXCEPT !.nonce = "expired"]
                                ELSE flow[f]]

\* Without its receipt, a webhook whose handler failed is new when it is delivered again.
DeleteReceipts(t) ==
    hook' = IF conn.tenant = t
            THEN [k \in Topics |-> [e \in Epochs |->
                     IF hook[k][e] = "lost" THEN "sent" ELSE hook[k][e]]]
            ELSE hook

FinishJob ==
    /\ worker.job # NoJob
    /\ IF worker.spare
       THEN UNCHANGED <<conn, flow, hook>>
       ELSE /\ Purge(worker.job)
            /\ DeleteNonces(worker.job.tenant)
            /\ DeleteReceipts(worker.job.tenant)
    /\ jobs' = jobs \ {worker.job}
    /\ worker' = IdleWorker
    /\ UNCHANGED <<shopify, callback, refresh, faults>>

\* The savepoint is rolled back; the job is due again tomorrow until it is FAILED.
FailJob ==
    /\ worker.job # NoJob
    /\ failures < MaxFailures
    /\ failures' = failures + 1
    /\ jobs' = (jobs \ {worker.job}) \cup
                 {[worker.job EXCEPT !.attempts = @ + 1, !.left = 1]}
    /\ worker' = IdleWorker
    /\ UNCHANGED <<shopify, flow, conn, callback, refresh, hook, crashes>>

\* The maintenance dies, or raises outside the savepoint: its transaction leaves nothing.
AbortMaintenance ==
    /\ worker.job # NoJob
    /\ crashes < MaxCrashes
    /\ crashes' = crashes + 1
    /\ worker' = IdleWorker
    /\ UNCHANGED <<shopify, flow, conn, callback, refresh, hook, jobs, failures>>

-------------------------------------------------------------------------------
Tenant ==
    \/ \E f \in Flows, t \in Tenants : Begin(f, t)
    \/ \E f \in Flows : ExpireNonce(f) \/ Approve(f)
    \/ \E t \in Tenants : Disconnect(t)

Serve(c) == ExchangeCode(c) \/ PersistInstall(c) \/ AbandonCallback(c)

Callback(c) == (\E f \in Flows : ConsumeNonce(c, f)) \/ Serve(c)

Refresh(r) ==
    ReadInstallation(r) \/ ExchangeRefresh(r) \/ PersistRefresh(r) \/ AbandonRefresh(r)

Delivery(k, e) == Receive(k, e) \/ Handle(k, e) \/ RejectHook(k, e)

Maintenance == (\E j \in jobs : StartJob(j)) \/ FinishJob

Next ==
    \/ Tenant \/ UninstallApp \/ SendRedact
    \/ \E c \in Callbacks : Callback(c)
    \/ \E r \in Refreshers : Refresh(r)
    \/ \E k \in Topics, e \in Epochs : Delivery(k, e) \/ LoseHook(k, e)
    \/ Tick \/ Maintenance \/ FailJob \/ AbortMaintenance

Spec == Init /\ [][Next]_vars

\* The daily cron keeps calling the maintenance, days pass and requests end.
FairSpec ==
    /\ Spec
    /\ WF_vars(Tick)
    /\ WF_vars(Maintenance)
    /\ \A c \in Callbacks : WF_vars(Serve(c))
    /\ \A k \in Topics, e \in Epochs : WF_vars(Delivery(k, e))

-------------------------------------------------------------------------------
(* Properties.                                                             *)

\* A shop stays with the tenant it is bound to until its purge: no OAuth flow, refresh or
\* job of another tenant takes it over (upsert_installation, _hard_delete_shop).
OneTenantPerShop ==
    [][conn # NoRow /\ conn'.tenant # conn.tenant =>
          /\ conn' = NoRow
          /\ worker.job # NoJob
          /\ worker.job.tenant = conn.tenant]_conn

\* The tokens a tenant's row and its handlers hold come from a consent given in a flow of
\* that tenant, for an installation that flow completed.
TokensByConsent ==
    LET consented(t, k) == /\ k.tenant = t
                           /\ \E f \in Flows : flow[f].tenant = t /\ flow[f].code = k.epoch
    IN  /\ conn.token # NoToken => consented(conn.tenant, conn.token)
        /\ \A r \in Refreshers :
               /\ refresh[r].old # NoToken => consented(refresh[r].tenant, refresh[r].old)
               /\ refresh[r].new # NoToken => consented(refresh[r].tenant, refresh[r].new)

\* A nonce admits one callback, however many carry it at once (consume_oauth_nonce).
NonceSpentOnce ==
    \A c, d \in Callbacks : c # d /\ callback[c].flow = callback[d].flow => callback[c].flow = NoFlow

\* A token is stored exactly while the row is CONNECTED: the daily worker and the
\* retention review rely on either.
ConnectedIffToken == conn.status = "CONNECTED" <=> conn.token # NoToken

\* A revoked shop always has the job that will purge it, FAILED at worst.
PurgeScheduled ==
    /\ conn.status = "UNINSTALLED" =>
          \E j \in jobs : j.kind = "SHOPIFY_RETENTION_REVIEW" /\ j.tenant = conn.tenant
    /\ conn.status = "SHOP_REDACTION_PENDING" =>
          \E j \in jobs : j.kind = "SHOPIFY_SHOP_HARD_DELETE" /\ j.tenant = conn.tenant

\* While jobs fail less often than they are tried, a revoked shop is purged, connected
\* again or disconnected in the end.
RevocationConcludes ==
    conn.status \in {"UNINSTALLED", "SHOP_REDACTION_PENDING"}
        ~> conn.status \notin {"UNINSTALLED", "SHOP_REDACTION_PENDING"}

\* After the app is uninstalled only a new consent stores a token again: the uninstall
\* revokes the local token material.
OnlyConsentReconnects ==
    [][conn.status = "UNINSTALLED" /\ conn'.status = "CONNECTED" =>
          \E c \in Callbacks : callback[c].token = conn'.token /\ callback'[c] = IdleCallback]_conn

\* A review purges an uninstalled shop once it has been away for the whole grace period,
\* counted again after each time it was connected.
UninstallGrace ==
    [][/\ conn.status = "UNINSTALLED"
       /\ conn' = NoRow
       /\ worker.job.kind = "SHOPIFY_RETENTION_REVIEW"
       => conn.away = Grace]_conn

\* A review deletes the shop unless it has been connected again.
ReviewSparesReconnected ==
    [][conn.status = "CONNECTED" /\ conn' = NoRow =>
          worker.job.kind = "SHOPIFY_SHOP_HARD_DELETE"]_conn

===============================================================================
