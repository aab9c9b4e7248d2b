---------------------------- MODULE ShopifyPrivacy -----------------------------
(***************************************************************************)
(* The personal data of one shop's customers: what the syncs write, what   *)
(* customers/redact, customers/data_request, app/uninstalled and           *)
(* shop/redact make of it, and what the daily maintenance deletes, exports *)
(* and purges.                                                             *)
(*                                                                         *)
(* Every customer has one order in the store.  The rows the customers and  *)
(* the orders query return about them carry the customer's id in their     *)
(* payload and are abstracted to one raw row.  A sync is reduced to what   *)
(* its operation delivers and to the transactions that write personal      *)
(* data; its queries, jobs and lock are those of ShopifySync, the tokens   *)
(* behind the status of the connection those of ShopifyConnection.         *)
(*                                                                         *)
(* Ages and delays are counted in days.  The maintenance of a tenant is    *)
(* one transaction and one action; the window between the check and the    *)
(* deletes of a review is modelled in ShopifyConnection.                   *)
(***************************************************************************)
EXTENDS Integers

CONSTANTS
    Customers,
    NoRow,          \* no row
    NoCustomer,     \* a job or webhook about the whole shop
    RawDays,        \* retention of raw payloads (90)
    ExportDays,     \* retention of exports (30)
    Grace,          \* delay of a retention review (30)
    RedactDelay,    \* delay of a hard delete (7)
    MaxAttempts,    \* attempts of a privacy job (3)
    MaxSyncs,       \* bound on syncs that start
    MaxFaults,      \* bound on the syncs, handlers and maintenance runs something fails in
    LegacyCustomers \* whose request may have been queued without a shop_id

Outcomes == {"RUNNING", "COMPLETED", "FAILED", "ABANDONED", "GONE"}
RawRow == [run : Outcomes, age : 0..RawDays]
Kinds == {"SHOPIFY_CUSTOMER_DATA_EXPORT", "SHOPIFY_SHOP_HARD_DELETE", "SHOPIFY_RETENTION_REVIEW"}
Delays == 0..Grace
\* behind: the jobs about the shop that are due before this one, if it is a legacy one.
Job == [kind : Kinds, customer : Customers \cup {NoCustomer}, legacy : BOOLEAN,
        behind : SUBSET Kinds, left : Delays, attempts : 0..MaxAttempts]
\* linked: whether the export holds records of the customer, not only the orders named.
Export == [linked : BOOLEAN, age : 0..ExportDays]

ShopTopics == {"app/uninstalled", "shop/redact"}

ASSUME PrivacyAssumption ==
    /\ NoRow \notin RawRow \cup Export
    /\ NoCustomer \notin Customers
    /\ RawDays \in Nat /\ ExportDays \in Nat
    /\ Grace \in Nat \ {0} /\ RedactDelay \in 1..Grace
    /\ MaxAttempts \in Nat \ {0}
    /\ MaxSyncs \in Nat /\ MaxFaults \in Nat
    /\ LegacyCustomers \subseteq Customers

VARIABLES
    known,      \* Shopify: the customers it has not erased
    hook,       \* customers/redact of every customer, from its sending to its end
    requested,  \* customers whose customers/data_request was processed
    revoked,    \* the shop webhooks that were processed
    conn,       \* status of the shop_connections row
    raw,        \* the raw row of every customer
    order,      \* the customer's canonical order
    profile,    \* customers rows (with the derived state that hangs on them)
    sync,       \* the running sync
    saved,      \* the operation a FAILED newest run lends to the next one, if any
    jobs,       \* privacy jobs that are not COMPLETED; attempts = MaxAttempts is FAILED
    export,     \* privacy_exports
    syncs, faults

shopData == <<raw, order, profile>>
vars == <<known, hook, requested, revoked, conn, shopData, sync, saved, jobs, export, syncs, faults>>

\* stored: whether the run still has its row in sync_runs.
SyncState == [step : {"idle", "rows", "upsert"}, snap : SUBSET Customers,
              todo : SUBSET Customers, stored : BOOLEAN]
Idle == [step |-> "idle", snap |-> {}, todo |-> {}, stored |-> FALSE]

TypeOK ==
    /\ known \subseteq Customers
    /\ hook \in [Customers -> {"none", "sent", "handling", "done", "ignored", "lost"}]
    /\ requested \subseteq Customers
    /\ revoked \subseteq ShopTopics
    /\ conn \in {"none", "CONNECTED", "UNINSTALLED", "SHOP_REDACTION_PENDING"}
    /\ raw \in [Customers -> RawRow \cup {NoRow}]
    /\ order \in [Customers -> {"none", "linked", "anonymous", "CUSTOMER_REDACTED"}]
    /\ profile \subseteq Customers
    /\ sync \in SyncState
    /\ saved \subseteq SUBSET Customers /\ \A s, t \in saved : s = t
    /\ jobs \in SUBSET Job
    /\ export \in [Customers -> Export \cup {NoRow}]
    /\ syncs \in 0..MaxSyncs
    /\ faults \in 0..MaxFaults

Fault == faults < MaxFaults /\ faults' = faults + 1

NewJob(kind, c, delay) ==
    [kind |-> kind, customer |-> c, legacy |-> FALSE, behind |-> {},
     left |-> delay, attempts |-> 0]

Init ==
    /\ known = Customers
    /\ hook = [c \in Customers |-> "none"]
    /\ requested \in SUBSET LegacyCustomers
    /\ revoked = {}
    /\ conn = "CONNECTED"
    /\ raw = [c \in Customers |-> NoRow]
    /\ order = [c \in Customers |-> "none"]
    /\ profile = {}
    /\ sync = Idle
    /\ saved = {}
    /\ jobs = {[NewJob("SHOPIFY_CUSTOMER_DATA_EXPORT", c, 0) EXCEPT !.legacy = TRUE] :
                  c \in requested}
    /\ export = [c \in Customers |-> NoRow]
    /\ syncs = 0
    /\ faults = 0

-------------------------------------------------------------------------------
(* Shopify and the merchant.                                               *)

\* The customer is erased in Shopify, which tells the app to do the same.
Erase(c) ==
    /\ hook[c] = "none"
    /\ known' = known \ {c}
    /\ hook' = [hook EXCEPT ![c] = "sent"]
    /\ UNCHANGED <<requested, revoked, conn, shopData, sync, saved, jobs, export, syncs, faults>>

\* upsert_installation after a new consent.
Reconnect ==
    /\ conn # "CONNECTED"
    /\ conn' = "CONNECTED"
    /\ UNCHANGED <<known, hook, requested, revoked, shopData, sync, saved, jobs, export, syncs, faults>>

-------------------------------------------------------------------------------
(* A sync, as far as it touches personal data.                             *)

\* The newest run is FAILED and Shopify still has its operation, or a new one is started.
StartSync ==
    /\ sync = Idle
    /\ conn = "CONNECTED"
    /\ syncs < MaxSyncs
    /\ syncs' = syncs + 1
    /\ \E snap \in {known} \cup saved :
           sync' = [step |-> "rows", snap |-> snap, todo |-> snap, stored |-> TRUE]
    /\ saved' = {}
    /\ UNCHANGED <<known, hook, requested, revoked, conn, shopData, jobs, export, faults>>

\* append_raw_object keeps the first row of a payload, and the run that inserted it.
AppendRaw(c) ==
    /\ sync.step = "rows"
    /\ c \in sync.todo
    /\ raw' = IF raw[c] = NoRow
              THEN [raw EXCEPT ![c] = [run |-> IF sync.stored THEN "RUNNING" ELSE "GONE",
                                       age |-> 0]]
              ELSE raw
    /\ sync' = [sync EXCEPT !.todo = @ \ {c}]
    /\ UNCHANGED <<known, hook, requested, revoked, conn, order, profile, saved, jobs, export, syncs, faults>>

\* The orders are mapped from the rows the sync holds in memory.
MapOrders ==
    /\ sync.step = "rows"
    /\ sync.todo = {}
    /\ sync' = [sync EXCEPT !.step = "upsert", !.todo = Customers]
    /\ UNCHANGED <<known, hook, requested, revoked, conn, shopData, saved, jobs, export, syncs, faults>>

\* One transaction for the customer and the order.  An order without a customer loses
\* its link, but the customers row it had stays.
UpsertOrder(c) ==
    /\ sync.step = "upsert"
    /\ c \in sync.todo
    /\ order' = [order EXCEPT ![c] = IF c \in sync.snap THEN "linked" ELSE "anonymous"]
    /\ profile' = IF c \in sync.snap THEN profile \cup {c} ELSE profile
    /\ sync' = [sync EXCEPT !.todo = @ \ {c}]
    /\ UNCHANGED <<known, hook, requested, revoked, conn, raw, saved, jobs, export, syncs, faults>>

Settle(outcome) ==
    raw' = [c \in Customers |-> IF raw[c] # NoRow /\ raw[c].run = "RUNNING"
                                THEN [raw[c] EXCEPT !.run = outcome]
                                ELSE raw[c]]

FinishSync ==
    /\ sync.step = "upsert"
    /\ sync.todo = {}
    /\ Settle("COMPLETED")
    /\ sync' = Idle
    /\ UNCHANGED <<known, hook, requested, revoked, conn, order, profile, saved, jobs, export, syncs, faults>>

\* _record_sync_failure: the row keeps the operation for the next run, if there is a row.
FailSync ==
    /\ sync # Idle
    /\ Fault
    /\ Settle("FAILED")
    /\ saved' = IF sync.stored THEN {sync.snap} ELSE {}
    /\ sync' = Idle
    /\ UNCHANGED <<known, hook, requested, revoked, conn, order, profile, jobs, export, syncs>>

CrashSync ==
    /\ sync # Idle
    /\ Fault
    /\ Settle("ABANDONED")
    /\ sync' = Idle
    /\ UNCHANGED <<known, hook, requested, revoked, conn, order, profile, saved, jobs, export, syncs>>

-------------------------------------------------------------------------------
(* The webhook handlers.                                                   *)

\* register_webhook commits the receipt; without a connection row nothing is registered
\* and the webhook is answered as a duplicate.
Receive(c) ==
    /\ hook[c] = "sent"
    /\ hook' = [hook EXCEPT ![c] = IF conn = "none" THEN "ignored" ELSE "handling"]
    /\ UNCHANGED <<known, requested, revoked, conn, shopData, sync, saved, jobs, export, syncs, faults>>

Handled(c) ==
    /\ hook[c] = "handling"
    /\ conn # "none"
    /\ hook' = [hook EXCEPT ![c] = "done"]

\* redact_customer: raw rows, derived records and the customers row go, the order is
\* detached, all in one transaction.  Exports and queued jobs are not looked at.
RedactCustomer(c) ==
    /\ Handled(c)
    /\ raw' = [raw EXCEPT ![c] = NoRow]
    /\ order' = [order EXCEPT ![c] = IF @ = "none" THEN @ ELSE "CUSTOMER_REDACTED"]
    /\ profile' = profile \ {c}
    /\ UNCHANGED <<known, requested, revoked, conn, sync, saved, jobs, export, syncs, faults>>

\* The receipt and the handling of the other webhooks are one step here; those of the two
\* about the shop are apart in ShopifyConnection.
DataRequest(c) ==
    /\ c \notin requested
    /\ conn # "none"
    /\ requested' = requested \cup {c}
    /\ jobs' = jobs \cup {NewJob("SHOPIFY_CUSTOMER_DATA_EXPORT", c, 0)}
    /\ UNCHANGED <<known, hook, revoked, conn, shopData, sync, saved, export, syncs, faults>>

\* uninstall and redact_shop: raw payloads and tokens at once, the rest by a delayed job.
RevokeShop(topic, status, kind, delay) ==
    /\ topic \notin revoked
    /\ conn # "none"
    /\ revoked' = revoked \cup {topic}
    /\ conn' = status
    /\ raw' = [c \in Customers |-> NoRow]
    /\ jobs' = jobs \cup {NewJob(kind, NoCustomer, delay)}
    /\ UNCHANGED <<known, hook, requested, order, profile, sync, saved, export, syncs, faults>>

Uninstall ==
    RevokeShop("app/uninstalled", "UNINSTALLED", "SHOPIFY_RETENTION_REVIEW", Grace)

RedactShop ==
    /\ "app/uninstalled" \in revoked
    /\ RevokeShop("shop/redact", "SHOP_REDACTION_PENDING",
                  "SHOPIFY_SHOP_HARD_DELETE", RedactDelay)

\* The connection went away after the receipt, and the receipt with it: the handler
\* raises, and Shopify delivers again.
RejectHook(c) ==
    /\ hook[c] = "handling"
    /\ conn = "none"
    /\ hook' = [hook EXCEPT ![c] = "sent"]
    /\ UNCHANGED <<known, requested, revoked, conn, shopData, sync, saved, jobs, export, syncs, faults>>

\* The handler dies or raises after the receipt is committed.
LoseHook(c) ==
    /\ hook[c] = "handling"
    /\ Fault
    /\ hook' = [hook EXCEPT ![c] = "lost"]
    /\ UNCHANGED <<known, requested, revoked, conn, shopData, sync, saved, jobs, export, syncs>>

-------------------------------------------------------------------------------
(* The daily maintenance.                                                  *)

\* No request and no sync is longer than a day.
Older(age, limit) == IF age < limit THEN age + 1 ELSE age

Tick ==
    /\ sync = Idle
    /\ \A c \in Customers : hook[c] # "handling"
    /\ raw' = [c \in Customers |-> IF raw[c] = NoRow THEN NoRow
                                   ELSE [raw[c] EXCEPT !.age = Older(@, RawDays)]]
    /\ export' = [c \in Customers |-> IF export[c] = NoRow THEN NoRow
                                      ELSE [export[c] EXCEPT !.age = Older(@, ExportDays)]]
    /\ jobs' = {[j EXCEPT !.left = IF @ > 0 THEN @ - 1 ELSE 0] : j \in jobs}
    /\ UNCHANGED <<known, hook, requested, revoked, conn, order, profile, sync, saved, syncs, faults>>

\* Mutant: a job that raised stays RUNNING.
DueFresh == {j \in jobs : j.left = 0 /\ j.attempts = 0}

\* Mutant: the hard delete waits for the shop to be disconnected.
DueDisconnected ==
    {j \in jobs : /\ j.left = 0 /\ j.attempts < MaxAttempts
                  /\ j.kind = "SHOPIFY_SHOP_HARD_DELETE" => conn # "CONNECTED"}

Due == {j \in jobs : j.left = 0 /\ j.attempts < MaxAttempts}

\* Only the review asks whether the shop is connected again.
Purges(j) ==
    \/ j.kind = "SHOPIFY_SHOP_HARD_DELETE"
    \/ j.kind = "SHOPIFY_RETENTION_REVIEW" /\ conn # "CONNECTED"

\* A payload without shop_id takes the shop of a connection.  Without one, or after the
\* purge by an earlier job of the same run, the normalisation raises outside the job's
\* savepoint, and the maintenance of the tenant is rolled back.
Poisoned(done) ==
    \E j \in Due :
        /\ j.legacy
        /\ (conn = "none" \/ \E p \in done : Purges(p) /\ p.kind \in j.behind)

\* Mutant: raw payloads of failed runs are purged instead.
ExpiredFailed(c) == raw[c] # NoRow /\ raw[c].run = "FAILED" /\ raw[c].age = RawDays

\* reconciled_raw_payloads: only through a run that is COMPLETED.
Expired(c) == raw[c] # NoRow /\ raw[c].run = "COMPLETED" /\ raw[c].age = RawDays

\* Mutant: the cutoff finds the exports by way of the customers they are about.
KeptExportJoined(c) == export[c] # NoRow /\ (export[c].age < ExportDays \/ c \notin profile)

KeptExport(c) == export[c] # NoRow /\ export[c].age < ExportDays

\* The customers whose export is made by one of these jobs.
Exported(done) == {j.customer : j \in {i \in done : i.kind = "SHOPIFY_CUSTOMER_DATA_EXPORT"}}

\* Mutant: the export also takes the orders named in the request as the customer's.
ExportOrders(c, done, purge) ==
    IF c \in Exported(done)
    THEN {[linked |-> order[c] # "none", age |-> 0]}
    ELSE {IF KeptExport(c) /\ ~purge THEN export[c] ELSE NoRow}

\* The newest export about a customer.  In the run that purges the shop it is either
\* purged with it or made after it, of nothing.
ExportRow(c, done, purge) ==
    IF c \in Exported(done)
    THEN IF purge
         THEN {NoRow, [linked |-> FALSE, age |-> 0]}
         ELSE {[linked |-> c \in profile, age |-> 0]}
    ELSE {IF KeptExport(c) /\ ~purge THEN export[c] ELSE NoRow}

\* A job that raises is due again tomorrow, behind the jobs that are due till then; after
\* MaxAttempts it is FAILED.  Jobs due at the same moment come in the order of their ids.
Retried(bad) ==
    LET ahead == {p \in jobs : p.customer = NoCustomer /\ p.left <= 1}
        kinds(ps) == {p.kind : p \in ps}
        retry(j, behind) == [j EXCEPT !.attempts = @ + 1, !.left = 1, !.behind = behind]
    IN  {{retry(j, IF j.legacy THEN kinds(ahead \ Due) \cup kinds(tied) ELSE {}) : j \in bad} :
            tied \in SUBSET (bad \cap ahead)}

\* Mutant: the hard delete detaches the orders and keeps them.
PurgeKeepsOrders ==
    /\ conn' = "none"
    /\ raw' = [c \in Customers |-> NoRow]
    /\ order' = [c \in Customers |-> "SHOP_REDACTED"]
    /\ profile' = {}
    /\ saved' = {}
    /\ hook' = [c \in Customers |-> IF hook[c] = "lost" THEN "sent" ELSE hook[c]]
    /\ sync' = IF sync = Idle THEN Idle ELSE [sync EXCEPT !.stored = FALSE]

\* Mutant: the hard delete leaves the runs, so a sync in flight keeps its row.
PurgeKeepsRuns ==
    /\ conn' = "none"
    /\ raw' = [c \in Customers |-> NoRow]
    /\ order' = [c \in Customers |-> "none"]
    /\ profile' = {}
    /\ saved' = {}
    /\ hook' = [c \in Customers |-> IF hook[c] = "lost" THEN "sent" ELSE hook[c]]
    /\ UNCHANGED sync

\* _hard_delete_shop: everything of the shop, without the sync's lock.  A webhook that was
\* lost after its receipt is new when Shopify delivers it again.
Purge ==
    /\ conn' = "none"
    /\ raw' = [c \in Customers |-> NoRow]
    /\ order' = [c \in Customers |-> "none"]
    /\ profile' = {}
    /\ saved' = {}
    /\ hook' = [c \in Customers |-> IF hook[c] = "lost" THEN "sent" ELSE hook[c]]
    /\ sync' = IF sync = Idle THEN Idle ELSE [sync EXCEPT !.stored = FALSE]

Cutoffs ==
    /\ raw' = [c \in Customers |-> IF Expired(c) THEN NoRow ELSE raw[c]]
    /\ UNCHANGED <<hook, conn, order, profile, saved, sync>>

\* One maintenance of the tenant: the cutoffs, then every due job in its savepoint.
Maintain ==
    /\ \E bad \in SUBSET Due :
           /\ ~Poisoned(Due \ bad)
           /\ IF bad = {} THEN UNCHANGED faults ELSE Fault
           /\ LET done == Due \ bad
                  purge == \E j \in done : Purges(j)
              IN  /\ IF purge THEN Purge ELSE Cutoffs
                  /\ \E rows \in [Customers -> Export \cup {NoRow}] :
                         /\ \A c \in Customers : rows[c] \in ExportRow(c, done, purge)
                         /\ export' = rows
                  /\ \E retried \in Retried(bad) : jobs' = (jobs \ Due) \cup retried
    /\ UNCHANGED <<known, requested, revoked, syncs>>

-------------------------------------------------------------------------------
Shopify ==
    \/ \E c \in Customers : Erase(c) \/ DataRequest(c)
    \/ Uninstall \/ RedactShop \/ Reconnect

Sync ==
    \/ \E c \in Customers : AppendRaw(c) \/ UpsertOrder(c)
    \/ MapOrders \/ FinishSync

Deliver(c) == Receive(c) \/ RedactCustomer(c) \/ RejectHook(c)

Next ==
    \/ Shopify
    \/ StartSync \/ Sync \/ FailSync \/ CrashSync
    \/ \E c \in Customers : Deliver(c) \/ LoseHook(c)
    \/ Tick \/ Maintain

Spec == Init /\ [][Next]_vars

\* Shopify delivers what it sends, requests and syncs come to their end, and the daily
\* maintenance keeps being called.
FairSpec ==
    /\ Spec
    /\ \A c \in Customers : WF_vars(Deliver(c))
    /\ WF_vars(Sync)
    /\ WF_vars(Tick)
    /\ WF_vars(Maintain)

-------------------------------------------------------------------------------
(* Properties.                                                             *)

\* What is left of a customer: rows with the id or the pseudonym, and exports of them.
Personal(c) == raw[c] # NoRow \/ order[c] = "linked" \/ c \in profile
Held(c) == Personal(c) \/ (export[c] # NoRow /\ export[c].linked)
Redacted(c) == hook[c] = "done"

\* Whether an operation that a sync works on, or may resume, delivers the customer.
Carried(c) == c \in sync.snap \/ c \in UNION saved

\* Once a redacted customer is gone and no operation from before the erasure is running
\* or saved, no sync, resumed run, reconnection, export or job brings the customer back.
ErasedForGood ==
    [][\A c \in Customers :
          Redacted(c) /\ ~Held(c) /\ ~Carried(c) => ~Held(c)' /\ ~Carried(c)']_vars

\* A redaction that was processed leaves nothing of the customer.
RedactionHolds == \A c \in Customers : Redacted(c) => ~Personal(c)

\* What a purged shop still holds was written by a sync in flight during the purge, for a
\* run that is no longer recorded: no cutoff will delete it.
PurgedDataIsOrphaned ==
    conn = "none" => \A c \in Customers : raw[c] # NoRow => raw[c].run = "GONE"

\* A request queued without a shop_id that raises in every maintenance, because the
\* connection is gone or a job before it purges the shop: nothing of the tenant is done.
Stopped ==
    \E j \in jobs :
        /\ j.legacy
        /\ j.attempts < MaxAttempts
        /\ (conn = "none" \/ \E p \in jobs : p.kind \in j.behind)

\* Raw payloads of a reconciled run are deleted, unless the maintenance is stopped.
CompletedPayloadsExpire ==
    \A c \in Customers :
        raw[c] # NoRow /\ raw[c].run = "COMPLETED" ~> raw[c] = NoRow \/ Stopped

\* Every export is deleted in the end, also the one a redaction left behind and one made of a
\* request that was still queued, unless the maintenance is stopped: redact_customer does not
\* look at privacy_exports, and the cutoff that does is rolled back with a failing maintenance.
ExportsExpire ==
    \A c \in Customers : export[c] # NoRow ~> export[c] = NoRow \/ Stopped

Pending(kind, c) ==
    \E j \in jobs : j.kind = kind /\ j.customer = c /\ j.attempts < MaxAttempts

\* Every data request is exported or FAILED in the end, or the shop is purged, unless the
\* maintenance is stopped.
DataRequestsConclude ==
    \A c \in Customers :
        Pending("SHOPIFY_CUSTOMER_DATA_EXPORT", c) ~>
            (conn = "none" \/ Stopped \/ ~Pending("SHOPIFY_CUSTOMER_DATA_EXPORT", c))

\* shop/redact ends with the purge or with a FAILED job, reconnected or not, unless the
\* maintenance is stopped.
ShopErasureConcludes ==
    Pending("SHOPIFY_SHOP_HARD_DELETE", NoCustomer) ~>
        (conn = "none" \/ Stopped \/ ~Pending("SHOPIFY_SHOP_HARD_DELETE", NoCustomer))
===============================================================================
