# Exergi in TLA+

Exergi reads a merchant's Shopify shop into canonical tables, watches the shop's connection and
privacy obligations, shows the merchant what the orders come to, and, in the decision engine, runs
pilots, experiments and one-shot validations whose worth rests on what was frozen before what was
revealed. This directory holds TLA+ models of the parts with state and control, TLC runs that check
them on small instances, and TLAPS proofs for every value of the constants. `PROJECT.json` maps
every definition to the lines it models.

Paths below are relative to the repository; `shopify/` is `src/commercial_twin/shopify/`, `V7` to
`V14` are the directories `benchmarks/ecommerce_decision_layer_v*`.

## Inventory

| Component | State it keeps | Operations | What is hard | Correct when |
|---|---|---|---|---|
| Bulk synchronisation (`shopify/product_service.py`, `ingestion.py`, `graphql.py`) | `sync_runs` rows with `checkpoint_json`, `jobs` of kind `SHOPIFY_INCREMENTAL_INGEST`, `raw_import_objects`, the canonical tables, a session advisory lock | `initial_sync`, resumed or fresh, from four callers | four callers race; each transaction commits alone; exceptions and deaths in between; a failed run's operations are resumed later | one sync per shop; orders never go back; COMPLETED means materialised; no webhook is forgotten |
| Connection (`shopify/oauth.py`, `repository.py`, `security.py`) | `oauth_nonces`, one row of `shop_connections` with its encrypted token | begin, complete, refresh, disconnect | callbacks, refreshes, webhooks and maintenance read the row, wait for Shopify and write it | a nonce is used once; tokens come from their tenant's consent; the shop stays with its tenant |
| Webhooks and privacy (`shopify/webhooks.py`) | `webhook_receipts`, `jobs`, tombstones | `handle` for five topics | the receipt commits before the work; deliveries are late, repeated or lost | every obligation is either done or has a job that will do it |
| Retention and maintenance (`shopify/retention.py`) | `jobs` with attempts, everything it deletes | daily cutoffs, privacy jobs, export, hard delete | one transaction per tenant at READ COMMITTED against live handlers; retries | what must go goes, and nothing that must stay |
| Tenancy, identity, agreements (`shopify/tenancy.py`, `identity.py`, `compliance.py`) | tenants, bindings, acceptances | resolve, show, accept, connect | deployments bring other documents or another key between two requests | who connects has accepted what is in force, in its own tenant |
| Product API and dashboard (`shopify/api.py`, `product_service.py`) | none of its own | endpoints that start the above; read-only views | several statements at READ COMMITTED | what it shows is the orders of one moment |
| Economics, state, analysis (`shopify/economics.py`, `state.py`, `analysis.py`) | none | functions over orders | sign conventions, missing costs, edits of an order | totals agree with a reference definition |
| Merchant validation (`src/commercial_twin/merchant_validation/`) | events, twins, experiment, assignments, outcomes, ledger, learning records, in memory | ingest, build, discover, create, freeze, assign, reveal, analyze, match | a pool of threads without a lock; an experiment is created again under the same id | only what was preregistered is assigned or advised |
| Winback pilot (`src/decision_engine/pilots/winback/`) | four files of a directory | `prepare_shadow`, `analyze_shadow` | killed between two writes or in one, then run again with other inputs | the ledger tells what the files hold; claims rest on mature outcomes |
| Committed risk ledger (`src/decision_engine/safety/`, `V7_1/sequential_assurance.py`) | reservations, an append-only log | reserve, settle, expire | long sequences; outcomes mature late or never | open risk within the limits |
| Sequential controller (`src/decision_engine/economic_policy_v72/sequential.py`, `V7_2/sequential_assurance.py`) | state, evidence, last pause | decide, per period | old positives after a harm, old harms after a reactivation | a harm stops exposure until fresh evidence |
| Sealed validations (`V8`, `V9`) | freeze manifest, start lock, statistics, result, consumed lock | freeze, reveal, finalize | runners race, raise, are killed; sources are edited | outcomes are read once, under the freeze |
| Model tournaments (`V7`, `V7_1`, `V7_3` runners) | tournament, freezes, lock, results, git worktree | develop, validate, run | reruns, crossings, edits between commands | the validated model is the frozen one |
| Frozen benchmarks, prediction ledger (fifteen programs, `src/decision_engine/ledger/store.py`) | prediction files, DuckDB ledger, marker, selection | predict, append, reveal, evaluate, mark | reruns, overlaps, a crash between append and reveal, a ledger that is unlinked | what is scored is what was frozen |
| Decision cards (`V14`) | reservations, cards | a week | cards of several weeks are open at once | cards never expose more than the budget |
| Policies and gates (`src/decision_engine/decision/`, `economic_policy_v72/`, `stability_v73/`, V7 and V7.1 evaluation) | none | one decision each | thresholds in an order that matters | exposure is carried by the evidence |
| World state (`src/commercial_twin/world_state.py`) | a cache of series | refresh, provide, get | publication lags, revisions, fallback between geographies | nothing is shown that was not known that day |
| Merchant day-1 benchmarks V1 and V2, customer twin core (`src/commercial_twin/hm_day1.py`, `customer_twin_core.py`, their scripts) | audit, cutoffs, selection, marker, a derived Parquet | audit, dev, final; one job for the core | newer data between two commands, cutoffs walked back over revealed windows, kills | no prediction rests on a day after its cutoff |
| Commercial twin (`src/commercial_twin/service.py`, `factory.py`, `readiness.py`, two tables of the ledger, `registry/`) | twins, simulations and calibration in memory; simulations, evaluations, performance rows | build, update_twin, simulate, update | an update writes in three places; any insert may fail, the process die | what is reported of a simulation is what was recorded of it |
| Lifecycle controller V7, model registry, reconciliation | - | tests only, or append-only tables | - | - |
| Causal estimation, forecasting, population engines, the learned twin core | data files | batch computations | numeric | not a matter for a model checker |
| Web application (`app/`), other scripts | none that survives a page | pages; the retention cron route | - | - |

How they interact. The OAuth callback stores a connection and starts the first sync; `POST
/sync`, an incremental webhook and the daily worker start the later ones, refreshing the token
first where it expires. Webhooks write receipts and jobs; a sync closes the incremental jobs,
the maintenance works off the privacy jobs. Redaction and the hard delete remove rows that a
sync writes. All coordination goes through PostgreSQL: row locks, one advisory lock per shop,
unique keys. The dashboard reads what a sync writes and the agreement gate stands in front of the
OAuth flow. The decision engine's programs do not call the Shopify side: they share the prediction
ledger, the file system and the discipline freeze, then reveal.

## Modules

| Module | Models |
|---|---|
| `CommerceMirror` | what a sync promises: a copy of the orders that is never ahead of the store, never goes back and catches up |
| `ShopifySync` | the bulk synchronisation of one shop |
| `MCShopifySync` | its instances for TLC |
| `ShopifySyncProofs` | theorems about it |
| `ShopifyConnection` | the connection of one shop, the webhooks that revoke it, the jobs that purge it |
| `MCShopifyConnection` | its symmetry for TLC |
| `ShopifyConnectionProofs` | theorems about it |
| `ShopifyPrivacy` | redaction, data requests, export, expiry and hard delete against syncs of the same shop |
| `MCShopifyPrivacy`, `ShopifyPrivacyProofs` | its instance, theorems about it |
| `MerchantAccess` | tenants, agreements and the gate before a connection |
| `MerchantDashboard` | from an order in Shopify to the totals on the dashboard |
| `MerchantExperiment` | the merchant validation loop |
| `WinbackPilot` | the files of the pilot |
| `CommittedRisk` | the risk ledger and the V7.1 loop that spends it |
| `SequentialControl` | the V7.2 controller and its loop |
| `SealedValidation` | the one-shot validations of V8 and V9 |
| `ModelTournament` | development, freeze and validation of V7, V7.1, V7.3 |
| `FrozenBenchmark` | fifteen benchmark programs over the prediction ledger |
| `DecisionCards` | the weekly cards of V14 |
| `DoseDecision`, `EvidenceGates` | one decision of the dose engine, or of one of the gates |
| `WorldState` | the series of the world and what a provider shows of them |
| `DayOneBenchmark` | the days that the merchant day-1 benchmarks and the customer twin core fit, calibrate and select on |
| `CommercialTwin` | the twin factory, simulations, updates, and what the ledger and the registry keep of them |
| `MCDecisionEngine` | the fifteen modules from `MerchantAccess` on, and their instances, in one run |
| `MerchantProofs` | theorems about `MerchantAccess`, `MerchantExperiment`, `WinbackPilot`, `MerchantDashboard` |
| `ValidationProofs` | theorems about `SealedValidation`, `ModelTournament`, `DayOneBenchmark`, `FrozenBenchmark` |
| `DecisionProofs` | theorems about `DoseDecision`, `EvidenceGates`, `DecisionCards`, `WorldState`, `SequentialControl`, `CommittedRisk`, `CommercialTwin` |
| `EngineProofs` | theorems about `MCDecisionEngine`, from those about its parts |
| `FiniteFacts` | lemmas on finite sets and on sums over them |

### ShopifySync

`store[x]` counts the changes of object `x` in Shopify. A bulk operation is the snapshot it
delivers and whether its URL still works; a raw row is its object and version (the payload
hash) with the outcome of the run that owns it; a canonical order is the version last upserted.
Of `sync_runs` only the newest row is kept, because only that one is read again
(`_resume_checkpoints`, `product_service.py:351`). Several workers each run

    Acquire, Claim, StartRun, Prepare,
    per query: ResumeOperation | StartOperation, SaveCheckpoint, Await,
               AppendRaw per object, NextQuery | MapOrders,
    UpsertOrder per order, FinishRun, CompleteJobs, Release

with one action per transaction the code commits on its own. `Raise`, `OperationTerminal` and
`ResultGone` are the exceptions inside the two `try` blocks, which mark the row FAILED;
`RaiseOutside` is one between them, which leaves it RUNNING; `Crash` ends the process, and
with it its session and its lock. A call that finds the lock taken returns and is a stuttering
step. The row left RUNNING is never resumed, a FAILED one is: that is the control that decides
which snapshots a later run may bring back.

### ShopifyConnection

One shop, several tenants that may want it. A token is the tenant that consented and the
installation of the app Shopify issued it for. A callback is `ConsumeNonce` (a transaction),
`ExchangeCode` (Shopify), `PersistInstall` (a transaction); a refresh is `ReadInstallation`,
`ExchangeRefresh`, `PersistRefresh`, and writes the row as it was read. `Receive` commits
the receipt of a webhook and `Handle` does its work, in two transactions; between them the
handler may die (`LoseHook`), and a redelivery then counts as a duplicate. `StartJob` is the
maintenance's check of one due job and `FinishJob` its deletes: one transaction in the code,
but at READ COMMITTED, so that other handlers commit in between. The deletes take the
connection, the tenant's nonces and the receipts, after which a failed webhook may be
delivered anew; `FailJob` rolls back to the savepoint of the job, `AbortMaintenance` the
whole transaction. `Tick` is a day: no request but a refresh of the daily worker, which
waits in the loop over all shops, is longer.

### ShopifyPrivacy

A raw row is the order, the customer it names and the run that owns it; a canonical order has a
customer link, a customer a profile. A sync is coarse (`StartSync`, `AppendRaw`, `UpsertOrder`,
`FinishSync`, `FailSync`, `CrashSync`) because what matters is only that it writes an operation
read earlier, or lent by a FAILED run. `Maintain` is one transaction of `_run_tenant`: cutoffs,
every due job with its savepoint, and `Poisoned`, a payload whose normalisation raises outside the
savepoint and takes the whole transaction of the tenant with it.

What the model shows beyond its properties, so that nobody reads them as more than they say: rows
written by a sync after the hard delete are orphans nobody removes; a raw row a FAILED run inserted
keeps that owner when a later run meets it again, and so never expires; an export that FAILED keeps
the customer's id in its payload; `redact_customer` does not look at exports and jobs, so that an export of a
redacted customer stays until it expires (`ExportsExpire`). That an order is not linked to a customer who is
gone is not stated: a foreign key of the database says so.

### The decision engine's modules

`MerchantExperiment`: a request about an event or the experiment has an action for what it reads of the
shared state and one for every write (`ReadToFreeze`, `PublishFrozen`, `RecordFrozen`; `ReadToAssign`,
`Assign`; `ReadAssigned`, `CompareArms`, `AppendResult`, `Learn`), and other threads come between them;
building the twins and finding the opportunity are one each. Between `PublishFrozen` and `RecordFrozen`
a cohort can be assigned that the ledger does not have yet; `overtaken` remembers those. Effects are signs of intervals, and a fixed seed makes arms and outcomes functions of the customer and
the cohort. `Matches` and `Recommendations` are the evidence matcher and the card.

`WinbackPilot`: each check-and-write of a file is an action; `KillCommand` may stop a command between
two or in one, which leaves a torn file or ledger line, and `Refuse` is a command that raises. An export may be
torn between two of its lines and is then one of fewer customers (`Prefixes`): `analyze` compares it with
nothing, so that `AnalyzeShadow` counts the rows that are there. Commands
are started by hand one at a time; the date they are given is not the clock.

`CommittedRisk` and `SequentialControl`: a step is a period of the loop. `SealedValidation`: every
file operation of a runner is an action, `EditSources` may come between any two. `FrozenBenchmark`: a
program is the sequence of its file and ledger steps; interleavings are of two processes, and DuckDB
admits one at a time. `ModelTournament`: looking whether a file may be written (`CheckFreeze`, `CheckLock`,
`ReadFreeze`) and writing it are actions of their own, so that overlapping commands may all find
nothing and then write; a kill leaves a broken file, and a person edits or commits while no command runs.

`MerchantDashboard`: an order in Shopify is placed, changed and cancelled; an export carries a version,
`UpsertOrder` writes it, and a dashboard request reads orders, lines and assumptions in three actions. Several versions of the assumptions may be valid from the same date
(only their names are unique), and the last action takes any of them.
`DoseDecision` and `EvidenceGates` decide once: the inputs are enumerated, a statistic by the side of
its threshold. `WorldState`: offices publish and revise, the cache is refreshed, a provider is
made of it and asked for a day.

`DayOneBenchmark`: days are numbers, a frame is the set of days it is read from, and a prediction remembers
the days it was fitted, calibrated and selected on and what of its window had been read by then. A
command is a sequence of steps, each one file or one reading; data is downloaded and the Parquet deleted
between commands. `CommercialTwin`: a call is the change in memory, then the insert into the ledger, then the
one into the registry (`Update`, `AppendSimulationEvaluation`, `AppendDecisionPerformance`); `InsertRaises` and
`KillProcess` end it anywhere. What the estimators return for a history and an action is a constant.

`MCDecisionEngine` runs them one per behaviour: `part` says which, the others stay in an initial
state. They share no variable and every property reads one part, so that interleaving them would
only multiply states. The parts that would interact in one process, dashboard and sync, are joined
inside `MerchantDashboard`.

## Runs

| Run | Question | Result |
|---|---|---|
| `sync_safety` | two workers, customers and orders query, two changes per object, a failure, a crash, expiring results | lock, raw layer, orders and jobs stay consistent; `MirrorSafe` is implemented |
| `sync_liveness` | two orders, results that stay readable, fairness | every change becomes canonical, every job closes; `MirrorSpec` is implemented |
| `sync_reuse` | is a COMPLETED job's change canonical? | **no**: finding 1 |
| `sync_expired` | the same fairness with results that expire | a shop can stop syncing for ever: finding 2 |
| `connection_safety` | two tenants, flows and callbacks, a refresh, two installations, late and lost webhooks, failing jobs | nonces, tokens, tenant and purge jobs stay consistent |
| `connection_liveness` | jobs tried more often than they fail, a maintenance run that is lost, fairness | a revoked shop is purged, disconnected or connected again |
| `connection_refresh` | does only a consent reconnect an uninstalled shop? | **no**: finding 3 |
| `connection_grace` | is a review preceded by the whole grace period? | **no**: finding 4 |
| `connection_review` | does a review spare a connected shop? | **no**: finding 5 |
| `privacy_safety` | redaction, requests, uninstall, purge, reconnection, two syncs, a failing daily maintenance | what is erased stays erased once nothing under way carries it; expiries, exports and purges conclude |
| `privacy_redaction` | is a redacted customer's data never written again? | **no**: finding 6 |
| `decision_engine` | does what each of the fifteen parts assigns, claims, exposes, reveals, predicts, shows or admits rest on what was registered, mature, frozen, known or accepted before? | yes, with the exceptions each property names |

What the properties say is written above each of them in the modules. The properties of
`decision_engine`: `AdvicePreregistered` (merchant), `PilotLedgerHolds` (pilot), `ExposureBounded`
(risk), `ExposureFollowsHarm` (sequential), `OutcomesReadOnce` and `FinalRestsOnReveal` (sealed),
`RevealsAreFrozen` (frozen), `CardsAreCovered` (cards), `DashboardIsTheShops` (dashboard),
`AccessRestsOnConsent` (access), `DoseIsEarned` (dose), `ExposureIsEarned` (gates),
`ValidationRestsOnFreeze` (tournament), `WorldAsItWasKnown` (world), `HindsightFree` (dayone), `CalibrationIsLedgered` (twins). An "except" or "unless" in
the comment of a property is something the code really does; the last section lists them.

### Bounds and why they are enough

- `MaxVersion = 2`: an order is changed after it was read and before it is written again, which
  is what taking it back needs. `sync_liveness` uses 1 and two orders instead, so that a file is
  left half upserted.
- Two workers: the lock only tells the holder from the others. One failure and one crash: the
  longest chain of interest is a FAILED run, its resumption, and the death of that one.
- `MaxEpoch = 2`: an uninstall and an installation after it. Two flows, so that each
  installation has its consent, or two tenants compete for one. Two callbacks race for one
  nonce; one refresh is enough to write a stale row.
- `Grace = 2` days stands for 30 and `RedactDelay = 1` for 7: the code only compares them. Days
  saturate at `Grace`. `MaxAttempts` is 1 in `connection_safety`, so that a job becomes FAILED,
  2 against one failure in `connection_liveness`, and 3, as in the code, elsewhere.
- `privacy_safety`: one customer, because no action but the purge relates two of them, and the purge takes
  all; two syncs, of which the second may resume the first's operation; two faults, so that a sync fails
  and then a job or a handler does; two days to the expiry of a raw payload, so that it may be renewed.
- `decision_engine`: two threads, runners, processes or commands, which is what a race needs. Three
  customers make an arm each, and two learning records reach high support; one copy of an event is
  enough, since a twin needs one event here. Six shoppers, one without consent, leave an export of five of whom four
  may be compared when it is torn. One fee besides the unknown one is enough to tell two versions
  of the assumptions apart. Two families and nine periods fill a family's budget, pause, cool down and
  reactivate; a path of ten periods of the sequential controller does it twice. Three runs of a
  benchmark are one that crashes, one that repeats it and one beside it. Budgets are divided
  by the money of a batch, days by fifteen, thresholds are sides. The windows of `DayOneBenchmark` are two
  days long, so that cutoffs a day apart overlap; of its four last days one is too early for V2, one leaves it too
  few cutoffs and two are enough, with a revealed window among the safe ones. Two twins, simulations and updates are one
  that is used and one it is mistaken for. Constants of the code that only
  scale are listed at the CONSTANTS of each module.
- Symmetry is used in the two safety runs of the sync and the connection only, over workers, or over tenants, flows and
  callbacks, none of which is named by a property.

### Fairness and why the code justifies it

`ShopifySync!FairSpec`: the daily reconciliation keeps calling `initial_sync` for a connected
shop (`api.py:369-385`), so that some worker acquires the lock when it stays free; and a worker
that runs goes on (bulk operations are polled until they end). Nothing is assumed of the merchant, of
webhooks, or of failures, whose number is bounded because a shop whose every sync fails
promises nothing. `ShopifyPrivacy!FairSpec`: Shopify delivers a redaction it has sent, a sync that runs goes on,
days pass, and the daily cron (`app/api/cron/retention/route.ts`) calls the maintenance. The decision engine's commands are started by hand, so that nothing has to happen
in them and there is nothing to be fair to. `ShopifyConnection!FairSpec`: days pass, the daily cron calls the maintenance,
requests and deliveries under way come to an end. A tenant is not assumed to do anything.

## Proofs

Checked by TLAPS for every value of the constants; the only assumptions are the named ones of each
module (bounds are naturals, markers such as `NoOp` are not values, delays and attempts are
positive, functions have their domains, the delays of the risk ledger are finitely many), which TLC
evaluates in the runs. Every invariant and every action property of the passing runs is a theorem.

**ShopifySync.** `SyncInv` is built in layers, each proved from the ones before.

1. `TypeOK` and `OperationChosen`: past a saved checkpoint there is an operation.
2. `LockHeld` and `OwnRun`: who is past the lock is alone, so the newest row is its own.
3. `SnapshotsReal` and `CanonBehind`: no operation that a run holds or may resume is behind
   the canonical orders. This is what makes resumption safe, and it needs the layer before it,
   because two runs at once would break it.
4. `Progress`, `CanonBackedByRaw`, `CompletedRunIsMaterialised`, `FreshSyncCoversClaims`: what
   has left a worker's list has been written.

From it follow `CompletedRunSafe`, `BackedByRaw`, `FreshCovers`, the action properties
`CanonForward` and `JobsClosedSafely`, and `SyncRefinesMirror`: every step of the sync is a
step of `CommerceMirror` or leaves its variables unchanged.

**ShopifyConnection.** None of the properties is inductive. `IInv` adds what the handlers in
flight know: a callback's flow is spent and its token is of that flow (`CallbacksKnow`), a refresh holds a
consented token (`RefreshersKnow`), the worker's job is still queued and due (`WorkerKnows`).
The subtle part is `PurgeScheduled`: a review that found the shop connected is about to remove its
job, and the shop is uninstalled meanwhile. `LaterReview` says the new review is another one,
because it has its whole delay ahead of it while the worker's job is due. From `IInv` follow
`TypeCorrect`, `NonceSafe`, `TokenSafe`, `PurgeSafe`, `ConsentSafe` and `TenantSafe`.

**ShopifyPrivacy.** `IInv` adds `ErasedUnknown` (a customer whose redaction was sent is not in an operation that
starts later), `RowsOfSnapshot` (what a sync has still to write is in the operation it holds) and
`PurgedRunIsGone` (a sync that outlives the purge has lost the row of its run, so that what it writes
is orphaned). From it follow `TypeCorrect`, `PurgeSafe` and the action property `ErasureSafe`.

**SealedValidation.** `RunnerOK` says what a runner knows from its step, `StudyOK` what the files of a
study say whoever wrote them, and `HoldersAlone` that one runner at most is past the lock of a study:
without it neither survives the other runner's step. Two lemmas (`HolderFrame`, `FreeFrame`) carry the studies an
action does not touch. It gives `OutcomesSafe` and `FinalSafe`.

**WinbackPilot.** `PreparerKnows` and `AnalystKnows` say which files a command has found or written; as
nobody else runs, and a file that is whole is replaced only by itself or what a kill leaves of it, what the ledger says
stays true (`RecordOK` of every record). `BasisOfExport` ties the report to the rows it was counted from: the whole
cohort, or those of a torn export, which no later command completes. It gives `PilotSafe`.

**MerchantExperiment.** `FrozenRegistered`, `RequestsRegistered` and `AssignedRegistered` follow a cohort
from the experiment into a thread's request and the assignment: each is in the ledger by then, or the thread that
published it has still to write it (`OnItsWay`), which from the assignment on only an overtaken cohort is; the
ledger only grows, and a pending record ends in it. The request needs its own part because another thread may
overwrite the experiment meanwhile. `LearnedFromResults` ties every learning record to a result of such a
cohort. It gives `AdviceSafe`.

**SequentialControl.** The last pause is no older than any harm (`PauseCoversHarms`), and the harms have a latest
one, which is part of the invariant because it would take an induction over sets otherwise. It gives `ControlSafe`.

**CommittedRisk.** `ExposureBounded` is inductive once the ledger is typed. The work is in the sums: a period
adds or frees one reservation, and the lemmas on sums turn that into one addition or subtraction; `WorstLossBounds`
bounds what a settlement costs. It gives `RiskSafe`. `RiskTyped` is the rest of the types: the windows of four and two
outcomes the loop decides on stay that long, and a maturity lies within the run because the delays have a greatest one.

**CommercialTwin.** An update writes in three places, so the invariant says what a call knows between two of
them (`Recording`, `Updating`, `Registering`), that no two simulations share an id, and that a row of the registry is
counted in the list of its twin (`RowsCounted`), without which a twin could report one number of records twice.
It gives `CalibrationSafe`; `TwinTyped` adds that what is compared, counted and appended is well formed. `NeverReady` is about the factory alone: with the calibration count it leaves at zero no
history makes a READY twin.

**MerchantAccess.** Everyone admitted is bound to its tenant, and acceptances are never removed: `AccessSafe`.

**MerchantDashboard.** The tables are the mapping of the versions upserted last (`TablesAreMapped`), with a history
variable that says which these are; where no edit removed a line, a version only grows (`Grows`), so that lines
written for an older one are still right. `PageIsRead` ties a request to the tables. The totals then agree with the
orders by the sum lemmas: `DashboardSafe`. `DashboardTyped` needs that the rows are the mapping of a version, too.

**ModelTournament.** Commands that overlap start from the same sources and commit, because nobody edits while one runs
(`RunTogether`). The freezes that are on disk or about to be written therefore agree in both, and in the model unless
two V7.1 commands crossed (`OneFreeze`): this is what survives a write after a check that no longer holds. With it
a validation has found the freeze that is still there, if that is whole (`ValidatorsAgree`,
`OpeningsAgree`); the source freeze follows it (`SourceFollows`); a V7.1 command past the lock leaves it there
(`OpenedOnce`); and for V7.3, what a command has written of its levels is still there when it writes the outcome, as
long as nobody crosses it or is killed (`OutcomeFollows`). It gives `TournamentSafe`, and with the worktree's own
types `TournamentTyped`.

**DayOneBenchmark.** The invariant says where the cutoffs of each file and of the running command lie, that the data
never falls behind the audit (`DataOK`), and what a V2 command may have read (`ReadOK`). The hard part is that a refusal
is right: the walk back from the official cutoff is greedy, and `WalkOK` says that no choice of separate safe windows
has more windows after the day it has reached than it has found. From it follow all parts of `HindsightFree`: `DayOneSafe`.

**FrozenBenchmark.** The fifteen programs are constants, sequences of steps. What they have in common is their shape
(`RowsInOrder`, `LedgerInOrder`, `StepsInOrder`, `MarksInOrder`, `FilesInOrder`): which step finds which other done. The
shape is read off the steps of each program once; everything else is proved of a program of that shape. The
invariant says what a run that is at a step has in its hands: its ledger is the one in the directory (`LedgerKept`),
its files and rows carry its version (`FilesKept`, `RowsKept`), what is revealed is the row of one run (`RevealsKept`), the
marker was not there when it passed (`MarksKept`), and its own reveals are with its configuration (`ConfigsKept`); each
with the exception, deleted ledgers or overlapping runs, under which the program really breaks it. It gives `RevealsSafe`.

**DoseDecision, EvidenceGates.** One decision each, so that the invariant is that what is answered was asked. The
content is in the lemmas: a dose chosen by minima and maxima over a finite set exists and is the best supported one
(`DoseSafe`), and a gate lets through only what each of its thresholds lets through (`GateSafe`), for any number of doses,
candidates, actions and amounts.

**DecisionCards.** Behind every card that exposes somebody and is not mature there is a reservation of its own
(`CardInv`), because a week has one card; the exposure of the cards is then a sum over a part of the reservations,
which are within the budgets: `CardsSafe`.

**WorldState.** `ShownIsKnown`: a signal of a day was available on that day, and one of a day long past is of a series that
is not revised, so that the first value published is what the offices say at any time. `LevelsAreWithin` is the weighted
mean of a fallback, between the least and the greatest of its geographies, by the product and sum lemmas: `WorldSafe`.

**The composition.** The parts share no variable, so that a step of one is a stuttering step of every other:
`EngineComposes` says that `EngineSpec` implements the specification of each part, one lemma per part. It turns
the theorems above into theorems about the specification that TLC checks: `EngineSafe` is the conjunction of
the sixteen safety properties of `decision_engine`, and `EngineTyped` its `EngineTypeOK`. The latter reads the types of the
part that runs only, because TLC would evaluate them all in every state; its proof shows the types of all fifteen.

**FiniteFacts.** Least and greatest elements of finite sets and the sums of functions over them: that a sum exists, has
its type, unfolds at any element, is that of an image, of a part, of a union, and lies between bounds. They are
proved by way of the library's theorems on finite sets; where a proof needs an induction it takes
a least counterexample instead.

**Only model-checked.** Everything under fairness: `EveryChangeMaterialised`, `EveryJobCloses`,
`MirrorSpec`, `RevocationConcludes`, and of `privacy_safety` `CompletedPayloadsExpire`, `ExportsExpire`,
`DataRequestsConclude`, `ShopErasureConcludes`. TLAPS does not reason about ENABLED and fairness here; of `MirrorSpec`, the safety
part `MirrorSafe` is proved. The six properties that fail are shown by counterexamples only.

## Findings

1. *A webhook's job is closed without its change.* A run that resumes the orders operation of a FAILED
   run reads a snapshot older than the change, and `_complete_incremental_jobs`
   (`product_service.py:294`) then closes every RUNNING job. The change reaches the tables
   with a later fresh sync, but no job asks for it any more.
2. *An expired result blocks a shop.* A saved operation that is completed is resumed for ever,
   although its URL is gone (`ingestion.py:336`), against `SHOPIFY_DATA_CONTRACT.md:31-34`.
3. *A refresh undoes an uninstall.* `upsert_installation` (`repository.py:249`) makes the row
   CONNECTED whatever it became since the refresh read it, against
   `SECURITY_AND_PRIVACY_OVERVIEW.md:30`.
4. *A review of an earlier uninstall purges early*, against "after 30 days unless reconnected"
   (`docs/PROTECTED_CUSTOMER_DATA_OPERATIONS.md:35`): reviews of earlier uninstalls are kept.
5. *A review deletes a shop that is connected between its check and its deletes*
   (`retention.py:237`), against the same line.

6. *A redaction is undone by a sync.* A sync in flight, or one that resumes a saved operation, writes
   the redacted customer's raw row and profile again (`webhooks.py:147`, `ingestion.py:57`), against
   `docs/PROTECTED_CUSTOMER_DATA_OPERATIONS.md:33`.

## What the code does that the properties have to except

Each is in the model, and each is named by the property that would fail without the exception.

- A line or refund that an edited order has lost stays in the tables (`ingestion.py:123`), and an
  upsert between two reads of a dashboard request mixes versions (`product_service.py:375`).
- Where a program unlinks its ledger, only its marker keeps a second run from revealing again, and not one
  that overlaps; rows with fresh ids are never refused (`real_runner.py`). In `criteo_uplift.py:430` and others a
  refused rerun has already replaced the prediction file. `hm_day1` develops again after its final.
- `freeze_experiment` shows the experiment as frozen (`service.py:508`) before it appends to the ledger (`:509`), and
  the pool of threads has no lock: a cohort may be assigned, and analyzed, before its record is written.
- An export torn at the end of a line is analyzed as a smaller cohort (`winback/runner.py:198-211`): neither its hash nor
  the number of customers planned is compared, so that a profit claim may rest on a part of the cohort.
- Two versions of the assumptions may be valid from the same date (`product_service.py:90-130`); which of them a
  dashboard counts with (`:463-467`), and with it whether it claims a profit, is up to the database.
- The V7.1 freeze is checked at `runner.py:314` and written at `:316`, the lock at `:353` and `:369`: two commands may
  cross, and then the packs are opened twice, or with a model whose freeze another development overwrites, and
  the source freeze may be another one again. V7's validation may be
  repeated with edited sources. A V7.3 rerun leaves an old summary beside a failed outcome.
- V8 and V9 read the analysis configuration after its hash was compared; an edit in between is not
  seen. A crash after the first study's lock leaves the second one without a way to be revealed
  by `reveal_all`.
- Within a year of its making a provider shows the latest revision (`world_state.py:353`), and a weighted level is
  not renormalised where the own series of a geography does not reach back (`world_state.py:494`).
- V7.1 reports ACT for a personal policy that selects nobody; the fold veto of V7.3 acts on a slightly negative lower bound.
- V2 of the day-1 benchmark keeps a Parquet that is there, however old, while its audit hashes the new downloads
  (`run_hm_day1_v2.py:110`, `:129`), and is untouched only as long as every audit reports the same data; V1 may have read the
  official window in an earlier diagnosis, and appends the batch of one history after the reveal of another
  of the same window (`run_hm_day1_benchmark.py:275`). The core reads its final labels before it predicts, and picks the
  winner of its money forecast by the final scores (`run_customer_twin_core_v1.py:176`, `:205`).
- `CommercialTwin.update` adds to the calibration before the ledger may refuse the evaluation, so that memory can hold
  more than the ledger; a twin without a ledger may be registered more than once.
- `ContinuousDecisionEngine` raises when the bootstrap draws leave no dose near the best.

Three more are in the models and outside of every property. `update_twin` forgets the simulations, the calibration
and the features a twin was built with, and neither it nor `build_twin` hands on the calibration count, so that no twin is
READY; `simulate` does not ask whether it is. In V7.1 a harm signal that follows a
cooldown leads to REVALIDATING in the same period, even to ACTIVE on old positives
(`sequential_assurance.py:226-240`; its own report records the latency gate as failed). An analysis of the
pilot before maturity writes DATA_NOT_READY as the immutable report, and no mature one can
replace it.

## Not modelled, and why

- Payload mapping, HMAC, encryption, tokens, URLs: they make a handler raise, or they do not.
- A lock session that drops while its sync lives on (`product_service.py:263`).
- Numeric code: estimators, forecasts, the learned twin core, population engines, scores. What it computes is an input of
  the gates that are modelled.
- `anytime`, `anytime_v6`, `progressive` and the economic engines: their guards compare sums of floats, and any
  abstraction that keeps them finite makes the guards arbitrary.
- `lifecycle_controller_v7.py`, the V14 action lifecycle and `design_partner_contract.py`: only their tests call them.
- The pipelines of V13 and V14 around the cards: every command writes its generation of files from
  one data set, and there is nothing to interleave but a rerun by hand.
- The other tables of the prediction ledger and the model registry: a primary key each.
- Edits of the sources while a tournament command runs; two pilot commands at once.
- `data_health`, the capability matrix, reconciliation: read-only. (`data_health` would report the duplicate
  event of two overlapping requests for ever.)
- The web application, which only calls the API. Its status poll (`app/data-integrations/data-integrations-client.tsx:50-88`)
  may apply answers out of order; the next one corrects it.

`PROJECT.json` lists under "hazards" what is hard to test at its line.

## Plan

1. `ShopifySync`, `CommerceMirror` and their proofs: done.
2. `ShopifyConnection` and its proofs: done.
3. `ShopifyPrivacy` and its proofs: done.
4. `CommittedRisk`, `SequentialControl`, `DecisionCards` and their proofs: done.
5. `WinbackPilot`, `SealedValidation`, `FrozenBenchmark`, `ModelTournament` and their proofs: done.
6. `MerchantExperiment`, `MerchantAccess`, `MerchantDashboard` and their proofs: done.
7. `DoseDecision`, `EvidenceGates`, `WorldState` and their proofs: done.
8. `DayOneBenchmark`, `CommercialTwin` and their proofs: done.
9. `EngineProofs`, the composition and `EngineTypeOK`: done.
10. To extend next: a sync whose lock session drops; the governance of a design partner's pilot
   (`design_partner_contract.py`, `lifecycle_controller_v7.py`).
