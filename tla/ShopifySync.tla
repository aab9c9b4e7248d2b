----------------------------- MODULE ShopifySync ------------------------------
(***************************************************************************)
(* The bulk synchronisation of one shop: product_service.initial_sync and  *)
(* the ShopifyInitialSync.run it drives, with the queue of incremental     *)
(* webhook jobs, the session advisory lock, the newest row of sync_runs    *)
(* with its checkpoints, the raw layer and the canonical orders.           *)
(*                                                                         *)
(* A sync is started by the OAuth callback, by POST /sync, by an           *)
(* incremental webhook and by the daily reconciliation; all four call      *)
(* initial_sync, from processes that do not know of each other.  Every     *)
(* transaction the code commits on its own is an action of its own.  A     *)
(* call that finds the lock taken returns SKIPPED_ACTIVE and changes       *)
(* nothing: it is a stuttering step.                                       *)
(*                                                                         *)
(* An object of the store is abstracted to the number of times it has      *)
(* changed; the payload hash of a raw row is that version.  A bulk         *)
(* operation is abstracted to the snapshot it will deliver and to whether  *)
(* its result URL still works.  The other statuses Shopify reports for an  *)
(* operation are chosen freely where the code asks for them.               *)
(***************************************************************************)
EXTENDS Integers, FiniteSets

CONSTANTS
    Workers,        \* the threads and processes that may run a sync
    NoWorker,       \* the advisory lock is free
    Objects,        \* the objects of the store
    Queries,        \* how many bulk queries a sync runs (customers, products, orders)
    QueryOf,        \* QueryOf[x]: the query that returns object x
    NoOp,           \* no operation id in a checkpoint
    MaxVersion,     \* bound on the changes of one object
    MaxFailures,    \* bound on exceptions raised by Shopify, the network or the database
    MaxCrashes,     \* bound on worker deaths
    ResultsExpire   \* whether the result URL of a saved operation may expire

OrdersQuery == Queries
Versions == 1..MaxVersion
Snapshot == [Objects -> 0..MaxVersion]
Operation == [snap : Snapshot, expired : BOOLEAN]
Checkpoints == [1..Queries -> Operation \cup {NoOp}]

ASSUME SyncAssumption ==
    /\ NoWorker \notin Workers
    /\ Queries \in Nat \ {0}
    /\ QueryOf \in [Objects -> 1..Queries]
    /\ NoOp \notin Operation
    /\ MaxVersion \in Nat
    /\ MaxFailures \in Nat
    /\ MaxCrashes \in Nat
    /\ ResultsExpire \in BOOLEAN

Orders == {x \in Objects : QueryOf[x] = OrdersQuery}

VARIABLES
    store,      \* the merchant's Shopify store: version of every object, 0 if absent
    jobs,       \* SHOPIFY_INCREMENTAL_INGEST jobs, one per change Shopify notified
    lock,       \* holder of pg_try_advisory_lock(shop)
    latest,     \* newest row of sync_runs for the shop: status and checkpoint_json
    shopRow,    \* whether the shops row exists
    raw,        \* raw_import_objects: the outcome of the run that owns the row
    canon,      \* canonical orders: the version last upserted
    pc, at, cp, fresh, todo,    \* local state of every worker
    failures, crashes

tables == <<jobs, latest, shopRow, raw, canon>>
local == <<pc, at, cp, fresh, todo>>
faults == <<failures, crashes>>
vars == <<store, tables, lock, local, faults>>

JobStatus == {"none", "PENDING", "RUNNING", "COMPLETED"}
RunStatus == {"none", "RUNNING", "COMPLETED", "FAILED"}
RowOwner == {"none", "RUNNING", "ABANDONED", "COMPLETED", "FAILED"}
Steps == {"idle", "claim", "start", "prepare", "operation", "checkpoint", "await",
          "rows", "upsert", "complete", "release"}
\* The steps inside the two try blocks, whose exceptions mark the run FAILED.
InRun == {"prepare", "operation", "checkpoint", "await", "rows", "upsert"}

NoCheckpoints == [q \in 1..Queries |-> NoOp]

TypeOK ==
    /\ store \in Snapshot
    /\ jobs \in [Objects -> [Versions -> JobStatus]]
    /\ lock \in Workers \cup {NoWorker}
    /\ latest \in [status : RunStatus, cp : Checkpoints]
    /\ shopRow \in BOOLEAN
    /\ raw \in [Objects -> [Versions -> RowOwner]]
    /\ canon \in [Orders -> 0..MaxVersion]
    /\ pc \in [Workers -> Steps]
    /\ at \in [Workers -> 1..Queries]
    /\ cp \in [Workers -> Checkpoints]
    /\ fresh \in [Workers -> BOOLEAN]
    /\ todo \in [Workers -> SUBSET Objects]
    /\ failures \in 0..MaxFailures
    /\ crashes \in 0..MaxCrashes

Init ==
    /\ store = [x \in Objects |-> 0]
    /\ jobs = [x \in Objects |-> [v \in Versions |-> "none"]]
    /\ lock = NoWorker
    /\ latest = [status |-> "none", cp |-> NoCheckpoints]
    /\ shopRow = FALSE
    /\ raw = [x \in Objects |-> [v \in Versions |-> "none"]]
    /\ canon = [o \in Orders |-> 0]
    /\ pc = [w \in Workers |-> "idle"]
    /\ at = [w \in Workers |-> 1]
    /\ cp = [w \in Workers |-> NoCheckpoints]
    /\ fresh = [w \in Workers |-> FALSE]
    /\ todo = [w \in Workers |-> {}]
    /\ failures = 0
    /\ crashes = 0

-------------------------------------------------------------------------------
(* The store and its webhooks.                                             *)

\* The merchant or a customer changes an object in Shopify.
Change(x) ==
    /\ store[x] < MaxVersion
    /\ store' = [store EXCEPT ![x] = @ + 1]
    /\ UNCHANGED <<tables, lock, local, faults>>

\* Mutant: the job is inserted as already claimed.
NotifyClaimed(x, v) ==
    /\ v <= store[x]
    /\ jobs[x][v] = "none"
    /\ jobs' = [jobs EXCEPT ![x][v] = "RUNNING"]
    /\ UNCHANGED <<store, latest, shopRow, raw, canon, lock, local, faults>>

\* The webhook about one of the changes is delivered and its job inserted.
\* Deliveries may be late, reordered or missing; receipts reject duplicates.
Notify(x, v) ==
    /\ v <= store[x]
    /\ jobs[x][v] = "none"
    /\ jobs' = [jobs EXCEPT ![x][v] = "PENDING"]
    /\ UNCHANGED <<store, latest, shopRow, raw, canon, lock, local, faults>>

\* Days pass without a sync: the result URLs of the operations a FAILED row saved stop
\* working.  (The checkpoints of other rows are never read again.)
ExpireResults ==
    /\ ResultsExpire
    /\ latest.status = "FAILED"
    /\ \A w \in Workers : pc[w] = "idle"
    /\ \E q \in 1..Queries : latest.cp[q] # NoOp /\ ~latest.cp[q].expired
    /\ latest' = [latest EXCEPT !.cp =
                     [q \in 1..Queries |-> IF @[q] = NoOp
                                           THEN NoOp
                                           ELSE [@[q] EXCEPT !.expired = TRUE]]]
    /\ UNCHANGED <<store, jobs, shopRow, raw, canon, lock, local, faults>>

-------------------------------------------------------------------------------
(* initial_sync around the run: lock, claim, complete, release.            *)

\* Mutant: the advisory lock is not tried.
AcquireUnlocked(w) ==
    /\ pc[w] = "idle"
    /\ lock' = w
    /\ pc' = [pc EXCEPT ![w] = "claim"]
    /\ UNCHANGED <<store, tables, at, cp, fresh, todo, faults>>

Acquire(w) ==
    /\ pc[w] = "idle"
    /\ lock = NoWorker
    /\ lock' = w
    /\ pc' = [pc EXCEPT ![w] = "claim"]
    /\ UNCHANGED <<store, tables, at, cp, fresh, todo, faults>>

\* A claim moves every job that is PENDING now, whatever earlier runs left RUNNING.
Claimed == [x \in Objects |-> [v \in Versions |->
              IF jobs[x][v] = "PENDING" THEN "RUNNING" ELSE jobs[x][v]]]

Claim(w) ==
    /\ pc[w] = "claim"
    /\ jobs' = Claimed
    /\ pc' = [pc EXCEPT ![w] = "start"]
    /\ UNCHANGED <<store, latest, shopRow, raw, canon, lock, at, cp, fresh, todo, faults>>

\* Mutant: any newest run lends its checkpoints.
ResumeAny == latest.cp

\* Only a FAILED newest run lends its checkpoints to the next one.
Resume == IF latest.status = "FAILED" THEN latest.cp ELSE NoCheckpoints

StartRun(w) ==
    /\ pc[w] = "start"
    /\ latest' = [status |-> "RUNNING", cp |-> Resume]
    /\ cp' = [cp EXCEPT ![w] = Resume]
    /\ pc' = [pc EXCEPT ![w] = "prepare"]
    /\ UNCHANGED <<store, jobs, shopRow, raw, canon, lock, at, fresh, todo, faults>>

\* Mutant: the completion also closes jobs that no run has claimed.
ClosedUnclaimed == [x \in Objects |-> [v \in Versions |->
                       IF jobs[x][v] # "none" THEN "COMPLETED" ELSE "none"]]

\* The completion closes every RUNNING job of the shop, its own and inherited ones.
Closed == [x \in Objects |-> [v \in Versions |->
              IF jobs[x][v] = "RUNNING" THEN "COMPLETED" ELSE jobs[x][v]]]

CompleteJobs(w) ==
    /\ pc[w] = "complete"
    /\ jobs' = Closed
    /\ pc' = [pc EXCEPT ![w] = "release"]
    /\ UNCHANGED <<store, latest, shopRow, raw, canon, lock, at, cp, fresh, todo, faults>>

\* The worker forgets its local state when initial_sync returns or its process dies.
Forget(w) ==
    /\ pc' = [pc EXCEPT ![w] = "idle"]
    /\ at' = [at EXCEPT ![w] = 1]
    /\ cp' = [cp EXCEPT ![w] = NoCheckpoints]
    /\ fresh' = [fresh EXCEPT ![w] = FALSE]
    /\ todo' = [todo EXCEPT ![w] = {}]

\* Mutant: the lock is not released when initial_sync returns.
ReleaseKeepsLock(w) ==
    /\ pc[w] = "release"
    /\ Forget(w)
    /\ UNCHANGED <<store, tables, lock, faults>>

Release(w) ==
    /\ pc[w] = "release"
    /\ lock' = NoWorker
    /\ Forget(w)
    /\ UNCHANGED <<store, tables, faults>>

-------------------------------------------------------------------------------
(* The run: shop row, then one bulk operation per query, then the orders.  *)

Prepare(w) ==
    /\ pc[w] = "prepare"
    /\ shopRow' = TRUE
    /\ pc' = [pc EXCEPT ![w] = "operation"]
    /\ UNCHANGED <<store, jobs, latest, raw, canon, lock, at, cp, fresh, todo, faults>>

\* The saved operation is known to Shopify and not terminal: it is used again.
ResumeOperation(w) ==
    /\ pc[w] = "operation"
    /\ cp[w][at[w]] # NoOp
    /\ fresh' = [fresh EXCEPT ![w] = FALSE]
    /\ pc' = [pc EXCEPT ![w] = "checkpoint"]
    /\ UNCHANGED <<store, tables, lock, at, cp, todo, faults>>

\* The objects query q returns when it is started now.
SnapshotOf(q) == [x \in Objects |-> IF QueryOf[x] = q THEN store[x] ELSE 0]

\* A new bulk operation: what it delivers is fixed when Shopify accepts it.
NewOperation(w) ==
    /\ cp' = [cp EXCEPT ![w][at[w]] = [snap |-> SnapshotOf(at[w]), expired |-> FALSE]]
    /\ fresh' = [fresh EXCEPT ![w] = TRUE]
    /\ pc' = [pc EXCEPT ![w] = "checkpoint"]
    /\ UNCHANGED <<store, tables, lock, at, todo, faults>>

StartOperation(w) ==
    /\ pc[w] = "operation"
    /\ cp[w][at[w]] = NoOp
    /\ NewOperation(w)

\* Shopify does not know the saved operation any more, or reports it terminal.
ReplaceOperation(w) ==
    /\ pc[w] = "operation"
    /\ cp[w][at[w]] # NoOp
    /\ NewOperation(w)

SaveCheckpoint(w) ==
    /\ pc[w] = "checkpoint"
    /\ latest' = [latest EXCEPT !.cp = cp[w]]
    /\ pc' = [pc EXCEPT ![w] = "await"]
    /\ UNCHANGED <<store, jobs, shopRow, raw, canon, lock, at, cp, fresh, todo, faults>>

Op(w) == cp[w][at[w]]
Delivered(w) == {x \in Objects : QueryOf[x] = at[w] /\ Op(w).snap[x] > 0}
\* A completed operation with objects but without a result URL cannot be read.
Unreadable(w) == Op(w).expired /\ Delivered(w) # {}

Await(w) ==
    /\ pc[w] = "await"
    /\ ~Unreadable(w)
    /\ todo' = [todo EXCEPT ![w] = Delivered(w)]
    /\ pc' = [pc EXCEPT ![w] = "rows"]
    /\ UNCHANGED <<store, tables, lock, at, cp, fresh, faults>>

\* append_raw_object keeps the first row of an (object, payload hash) pair.
AppendRaw(w, x) ==
    /\ pc[w] = "rows"
    /\ x \in todo[w]
    /\ raw' = IF raw[x][Op(w).snap[x]] = "none"
              THEN [raw EXCEPT ![x][Op(w).snap[x]] = "RUNNING"]
              ELSE raw
    /\ todo' = [todo EXCEPT ![w] = @ \ {x}]
    /\ UNCHANGED <<store, jobs, latest, shopRow, canon, lock, pc, at, cp, fresh, faults>>

\* Mutant: one query too many.
NextQueryOffByOne(w) ==
    /\ pc[w] = "rows"
    /\ todo[w] = {}
    /\ at' = [at EXCEPT ![w] = @ + 1]
    /\ pc' = [pc EXCEPT ![w] = "operation"]
    /\ UNCHANGED <<store, tables, lock, cp, fresh, todo, faults>>

NextQuery(w) ==
    /\ pc[w] = "rows"
    /\ todo[w] = {}
    /\ at[w] < Queries
    /\ at' = [at EXCEPT ![w] = @ + 1]
    /\ pc' = [pc EXCEPT ![w] = "operation"]
    /\ UNCHANGED <<store, tables, lock, cp, fresh, todo, faults>>

\* Mutant: the orders are mapped while their rows are still being appended.
MapOrdersEarly(w) ==
    /\ pc[w] = "rows"
    /\ at[w] = OrdersQuery
    /\ todo' = [todo EXCEPT ![w] = Delivered(w)]
    /\ pc' = [pc EXCEPT ![w] = "upsert"]
    /\ UNCHANGED <<store, tables, lock, at, cp, fresh, faults>>

\* After the last file the rows of the orders query are mapped and upserted.
MapOrders(w) ==
    /\ pc[w] = "rows"
    /\ todo[w] = {}
    /\ at[w] = OrdersQuery
    /\ todo' = [todo EXCEPT ![w] = Delivered(w)]
    /\ pc' = [pc EXCEPT ![w] = "upsert"]
    /\ UNCHANGED <<store, tables, lock, at, cp, fresh, faults>>

\* Mutant: the order is mapped from any of its raw rows, not from the file's.
UpsertAnyRaw(w, o) ==
    /\ pc[w] = "upsert"
    /\ o \in todo[w]
    /\ \E v \in Versions : raw[o][v] # "none" /\ canon' = [canon EXCEPT ![o] = v]
    /\ todo' = [todo EXCEPT ![w] = @ \ {o}]
    /\ UNCHANGED <<store, jobs, latest, shopRow, raw, lock, pc, at, cp, fresh, faults>>

UpsertOrder(w, o) ==
    /\ pc[w] = "upsert"
    /\ o \in todo[w]
    /\ canon' = [canon EXCEPT ![o] = Op(w).snap[o]]
    /\ todo' = [todo EXCEPT ![w] = @ \ {o}]
    /\ UNCHANGED <<store, jobs, latest, shopRow, raw, lock, pc, at, cp, fresh, faults>>

\* The rows a live run inserted follow its outcome.
Settle(outcome) == [x \in Objects |-> [v \in Versions |->
                      IF raw[x][v] = "RUNNING" THEN outcome ELSE raw[x][v]]]

\* Mutant: the row is COMPLETED before the last order.
FinishRunEarly(w) ==
    /\ pc[w] = "upsert"
    /\ latest' = [status |-> "COMPLETED", cp |-> cp[w]]
    /\ raw' = Settle("COMPLETED")
    /\ pc' = [pc EXCEPT ![w] = "complete"]
    /\ UNCHANGED <<store, jobs, shopRow, canon, lock, at, cp, fresh, todo, faults>>

FinishRun(w) ==
    /\ pc[w] = "upsert"
    /\ todo[w] = {}
    /\ latest' = [status |-> "COMPLETED", cp |-> cp[w]]
    /\ raw' = Settle("COMPLETED")
    /\ pc' = [pc EXCEPT ![w] = "complete"]
    /\ UNCHANGED <<store, jobs, shopRow, canon, lock, at, cp, fresh, todo, faults>>

-------------------------------------------------------------------------------
(* Failures and crashes.                                                   *)

\* _record_sync_failure: the row is FAILED, its checkpoints stay as last saved.
RecordFailure(w, checkpoints) ==
    /\ latest' = [status |-> "FAILED", cp |-> checkpoints]
    /\ raw' = Settle("FAILED")
    /\ pc' = [pc EXCEPT ![w] = "release"]
    /\ UNCHANGED <<store, jobs, shopRow, canon, lock, at, cp, fresh, todo, crashes>>

\* A step of the run raises: request failure, rejected query, unreadable file, SQL error.
Raise(w) ==
    /\ pc[w] \in InRun
    /\ failures < MaxFailures
    /\ failures' = failures + 1
    /\ RecordFailure(w, latest.cp)

\* The operation turns out FAILED, CANCELED or EXPIRED: its checkpoint is dropped first.
OperationTerminal(w) ==
    /\ pc[w] = "await"
    /\ failures < MaxFailures
    /\ failures' = failures + 1
    /\ RecordFailure(w, [latest.cp EXCEPT ![at[w]] = NoOp])

\* "completed ... bulk operation has no result URL".
ResultGone(w) ==
    /\ pc[w] = "await"
    /\ Unreadable(w)
    /\ UNCHANGED failures
    /\ RecordFailure(w, latest.cp)

\* An exception outside the run: nothing is recorded, the lock is released.
RaiseOutside(w) ==
    /\ pc[w] \in {"claim", "start", "complete"}
    /\ failures < MaxFailures
    /\ failures' = failures + 1
    /\ pc' = [pc EXCEPT ![w] = "release"]
    /\ UNCHANGED <<store, tables, lock, at, cp, fresh, todo, crashes>>

\* Mutant: the lock outlives the process that held it.
CrashKeepsLock(w) ==
    /\ pc[w] # "idle"
    /\ crashes < MaxCrashes
    /\ crashes' = crashes + 1
    /\ raw' = Settle("ABANDONED")
    /\ Forget(w)
    /\ UNCHANGED <<store, jobs, latest, shopRow, canon, lock, failures>>

\* The process dies: its session ends, so the lock is free, and the row stays RUNNING.
Crash(w) ==
    /\ pc[w] # "idle"
    /\ crashes < MaxCrashes
    /\ crashes' = crashes + 1
    /\ raw' = Settle("ABANDONED")
    /\ lock' = NoWorker
    /\ Forget(w)
    /\ UNCHANGED <<store, jobs, latest, shopRow, canon, failures>>

-------------------------------------------------------------------------------
\* What a running sync does by itself.
Work(w) ==
    \/ Claim(w) \/ StartRun(w) \/ Prepare(w)
    \/ ResumeOperation(w) \/ StartOperation(w)
    \/ SaveCheckpoint(w) \/ Await(w) \/ NextQuery(w) \/ MapOrders(w)
    \/ (\E x \in Objects : AppendRaw(w, x))
    \/ (\E o \in Orders : UpsertOrder(w, o))
    \/ FinishRun(w) \/ CompleteJobs(w) \/ ResultGone(w) \/ Release(w)

Environment ==
    \/ \E x \in Objects : Change(x) \/ (\E v \in Versions : Notify(x, v))
    \/ ExpireResults

Fault(w) ==
    \/ ReplaceOperation(w)
    \/ Raise(w) \/ OperationTerminal(w) \/ RaiseOutside(w) \/ Crash(w)

Next ==
    \/ Environment
    \/ \E w \in Workers : Acquire(w) \/ Work(w) \/ Fault(w)

Spec == Init /\ [][Next]_vars

\* The daily reconciliation keeps calling initial_sync, and a worker that holds the
\* lock goes on until it is killed.
FairSpec ==
    /\ Spec
    /\ WF_vars(\E w \in Workers : Acquire(w))
    /\ \A w \in Workers : WF_vars(Work(w))

-------------------------------------------------------------------------------
(* Properties.                                                             *)

\* One sync per shop: whoever is past the lock is its holder (_sync_lock).
LockHeld == \A w \in Workers : pc[w] # "idle" <=> lock = w

\* A row COMPLETED in sync_runs means that the orders file of that run has been
\* materialised to the last order: the dashboard and retention rely on the status.
CompletedRunIsMaterialised ==
    latest.status = "COMPLETED" =>
        /\ latest.cp[OrdersQuery] # NoOp
        /\ \A o \in Orders : canon[o] = latest.cp[OrdersQuery].snap[o]

\* No sync, resumed, repeated or racing another, ever takes an order back to an
\* older version than the canonical tables already show.
CanonNeverRegresses == [][\A o \in Orders : canon[o] <= canon'[o]]_canon

\* Every canonical order version is backed by its immutable raw row.
CanonBackedByRaw ==
    \A o \in Orders : canon[o] # 0 => raw[o][canon[o]] # "none"

\* While a run materialises an operation it started itself, that operation was
\* started after every claimed webhook's change: none of them can be missed.
FreshSyncCoversClaims ==
    \A w \in Workers :
        /\ fresh[w]
        /\ at[w] = OrdersQuery
        /\ pc[w] \in {"checkpoint", "await", "rows", "upsert", "complete"}
        => \A o \in Orders, v \in Versions :
               jobs[o][v] = "RUNNING" => v <= Op(w).snap[o]

\* A webhook job is closed only by the sync whose row is COMPLETED, and unless that
\* sync reused a saved orders operation, only once its change is canonical.
JobsClosedAfterIngestion ==
    [][\A o \in Orders, v \in Versions :
          jobs[o][v] # "COMPLETED" /\ jobs'[o][v] = "COMPLETED" =>
              /\ jobs[o][v] = "RUNNING"
              /\ latest.status = "COMPLETED"
              /\ \E w \in Workers : pc[w] = "complete" /\ (fresh[w] => v <= canon[o])]_jobs

\* A verified incremental webhook is synced: a COMPLETED job's change is canonical.
CompletedJobIsIngested ==
    \A o \in Orders, v \in Versions : jobs[o][v] = "COMPLETED" => v <= canon[o]

\* Every change of an order becomes canonical, with or without its webhook.
EveryChangeMaterialised ==
    \A o \in Orders, v \in Versions : store[o] = v ~> v <= canon[o]

\* Every job is closed in the end, whatever run claimed it and died.
EveryJobCloses ==
    \A x \in Objects, v \in Versions : jobs[x][v] = "PENDING" ~> jobs[x][v] = "COMPLETED"

Mirror == INSTANCE CommerceMirror
              WITH source <- [o \in Orders |-> store[o]], mirror <- canon

\* The sync implements the promise of CommerceMirror.
MirrorSafe == Mirror!MirrorSafe
MirrorSpec == Mirror!MirrorSpec

-------------------------------------------------------------------------------
(* The inductive invariant behind these properties, in layers.             *)

\* From the checkpoint of a query to the end of its use there is an operation.
OperationChosen ==
    \A w \in Workers :
        /\ pc[w] \in {"checkpoint", "await", "rows", "upsert"} => Op(w) # NoOp
        /\ pc[w] \in {"upsert", "complete"} => at[w] = OrdersQuery /\ Op(w) # NoOp

\* What a worker knows of its own run: nothing while idle, its row is the RUNNING one,
\* and from the saved checkpoint on, the row's checkpoints are its own.
OwnRun ==
    \A w \in Workers :
        /\ pc[w] = "idle" => cp[w] = NoCheckpoints
        /\ pc[w] \in InRun => latest.status = "RUNNING"
        /\ pc[w] = "complete" => latest.status = "COMPLETED"
        /\ pc[w] \in {"await", "rows", "upsert", "complete"} => latest.cp = cp[w]

\* Snapshots show versions the store has had; notified changes happened.
SnapshotsReal ==
    /\ \A w \in Workers, q \in 1..Queries : cp[w][q] # NoOp =>
          \A x \in Objects : cp[w][q].snap[x] <= store[x]
    /\ \A q \in 1..Queries : latest.cp[q] # NoOp =>
          \A x \in Objects : latest.cp[q].snap[x] <= store[x]
    /\ \A x \in Objects, v \in Versions : jobs[x][v] # "none" => v <= store[x]

\* No operation a run holds or may resume is behind the canonical orders.
CanonBehind ==
    \A o \in Orders :
        /\ canon[o] <= store[o]
        /\ latest.cp[OrdersQuery] # NoOp => canon[o] <= latest.cp[OrdersQuery].snap[o]
        /\ \A w \in Workers :
              cp[w][OrdersQuery] # NoOp => canon[o] <= cp[w][OrdersQuery].snap[o]

\* What has left the worker's list is done.
Progress ==
    \A w \in Workers :
        /\ pc[w] = "rows" => \A x \in Delivered(w) \ todo[w] : raw[x][Op(w).snap[x]] # "none"
        /\ pc[w] = "upsert" =>
              /\ \A x \in Delivered(w) : raw[x][Op(w).snap[x]] # "none"
              /\ \A o \in Orders \ todo[w] : canon[o] = Op(w).snap[o]

SyncInv ==
    /\ TypeOK /\ OperationChosen
    /\ LockHeld /\ OwnRun
    /\ SnapshotsReal /\ CanonBehind
    /\ Progress /\ CanonBackedByRaw /\ CompletedRunIsMaterialised
    /\ FreshSyncCoversClaims

===============================================================================
