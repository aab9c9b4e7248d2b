-------------------------- MODULE ShopifySyncProofs ---------------------------
(***************************************************************************)
(* Proofs about ShopifySync, for every number of workers, objects, queries *)
(* and faults.  The invariants are proved in layers, each from the ones    *)
(* before it: types, the lock, what a worker knows about its own run, and  *)
(* then how snapshots, canonical orders and jobs relate.                   *)
(***************************************************************************)
EXTENDS ShopifySync, TLAPS

-------------------------------------------------------------------------------
(* Types.                                                                  *)

LEMMA ConstantTypes ==
    /\ OrdersQuery \in 1..Queries
    /\ 1 \in 1..Queries
    /\ NoCheckpoints \in Checkpoints
    /\ NoOp \notin Operation
    /\ 0 \in 0..MaxVersion
    /\ Versions \subseteq 0..MaxVersion
    /\ NoWorker \notin Workers
<1>1. OrdersQuery \in 1..Queries /\ 1 \in 1..Queries
  BY SyncAssumption DEF OrdersQuery
<1>2. NoCheckpoints \in Checkpoints
  BY DEF NoCheckpoints, Checkpoints
<1>3. 0 \in 0..MaxVersion /\ Versions \subseteq 0..MaxVersion
  BY SyncAssumption DEF Versions
<1> QED
  BY <1>1, <1>2, <1>3, SyncAssumption

LEMMA InitType == Init => TypeOK
<1> SUFFICES ASSUME Init PROVE TypeOK
  OBVIOUS
<1> USE ConstantTypes DEF Init
<1>1. store \in Snapshot /\ canon \in [Orders -> 0..MaxVersion]
  BY DEF Snapshot
<1>2. /\ jobs \in [Objects -> [Versions -> JobStatus]]
      /\ raw \in [Objects -> [Versions -> RowOwner]]
  BY DEF JobStatus, RowOwner
<1>3. latest \in [status : RunStatus, cp : Checkpoints]
  BY DEF RunStatus
<1>4. failures \in 0..MaxFailures /\ crashes \in 0..MaxCrashes
  BY SyncAssumption
<1>5. pc \in [Workers -> Steps]
  BY DEF Steps
<1> QED
  BY <1>1, <1>2, <1>3, <1>4, <1>5 DEF TypeOK

LEMMA OperationType ==
  ASSUME TypeOK, NEW w \in Workers, Op(w) # NoOp
  PROVE  Op(w) \in Operation /\ Op(w).snap \in Snapshot
<1>1. cp[w] \in Checkpoints /\ at[w] \in 1..Queries
  BY DEF TypeOK
<1>2. Op(w) \in Operation \cup {NoOp}
  BY <1>1 DEF Op, Checkpoints
<1> QED
  BY <1>2 DEF Operation

LEMMA SnapshotType ==
  ASSUME TypeOK
  PROVE  /\ \A w \in Workers, q \in 1..Queries : cp[w][q] # NoOp =>
               \A x \in Objects : cp[w][q].snap[x] \in 0..MaxVersion
         /\ \A q \in 1..Queries : latest.cp[q] # NoOp =>
               \A x \in Objects : latest.cp[q].snap[x] \in 0..MaxVersion
<1>1. ASSUME NEW c \in Checkpoints, NEW q \in 1..Queries, c[q] # NoOp, NEW x \in Objects
      PROVE  c[q].snap[x] \in 0..MaxVersion
  <2>1. c[q] \in [snap : Snapshot, expired : BOOLEAN]
    BY <1>1 DEF Checkpoints, Operation
  <2> QED
    BY <2>1 DEF Snapshot
<1> QED
  BY <1>1 DEF TypeOK

\* A worker that returns or dies leaves nothing of its local state.
LEMMA Forgotten ==
  ASSUME TypeOK, NEW w \in Workers, Release(w) \/ Crash(w)
  PROVE  /\ UNCHANGED <<store, jobs, latest, canon, shopRow>>
         /\ \A u \in Workers, q \in 1..Queries : cp'[u][q] = NoOp \/ cp'[u][q] = cp[u][q]
         /\ \A u \in Workers \ {w} : /\ pc'[u] = pc[u] /\ at'[u] = at[u] /\ cp'[u] = cp[u]
                                     /\ fresh'[u] = fresh[u] /\ todo'[u] = todo[u]
         /\ pc'[w] = "idle" /\ ~fresh'[w]
<1>1. /\ UNCHANGED <<store, jobs, latest, canon, shopRow>>
      /\ Forget(w)
  BY DEF Release, Crash, tables
<1> QED
  BY <1>1 DEF Forget, TypeOK, NoCheckpoints

LEMMA NewOperationType ==
  ASSUME TypeOK, NEW q \in 1..Queries
  PROVE  [snap |-> SnapshotOf(q), expired |-> FALSE] \in Operation
<1>1. SnapshotOf(q) \in Snapshot
  BY ConstantTypes DEF TypeOK, Snapshot, SnapshotOf
<1> QED
  BY <1>1 DEF Operation

LEMMA SettleType ==
  ASSUME TypeOK, NEW outcome \in RowOwner
  PROVE  Settle(outcome) \in [Objects -> [Versions -> RowOwner]]
  BY DEF TypeOK, Settle

LEMMA NextType == TypeOK /\ OperationChosen /\ [Next]_vars => TypeOK'
<1> SUFFICES ASSUME TypeOK, OperationChosen, [Next]_vars PROVE TypeOK'
  OBVIOUS
<1> USE DEF TypeOK, tables, local, faults
<1>1. ASSUME NEW x \in Objects, Change(x) PROVE TypeOK'
  BY <1>1, SyncAssumption DEF Change, Snapshot
<1>2. ASSUME NEW x \in Objects, NEW v \in Versions, Notify(x, v) PROVE TypeOK'
  BY <1>2 DEF Notify, JobStatus
<1>3. ASSUME ExpireResults PROVE TypeOK'
  <2> DEFINE Aged(q) == IF latest.cp[q] = NoOp THEN NoOp
                        ELSE [latest.cp[q] EXCEPT !.expired = TRUE]
  <2>1. ASSUME NEW q \in 1..Queries PROVE Aged(q) \in Operation \cup {NoOp}
    <3>1. CASE latest.cp[q] = NoOp
      BY <3>1
    <3>2. CASE latest.cp[q] # NoOp
      <4>1. latest.cp[q] \in [snap : Snapshot, expired : BOOLEAN]
        BY <3>2 DEF Checkpoints, Operation
      <4> QED
        BY <3>2, <4>1 DEF Operation
    <3> QED
      BY <3>1, <3>2
  <2>2. [q \in 1..Queries |-> Aged(q)] \in Checkpoints
    BY <2>1 DEF Checkpoints
  <2>3. latest' = [latest EXCEPT !.cp = [q \in 1..Queries |-> Aged(q)]]
    BY <1>3 DEF ExpireResults
  <2> QED
    BY <1>3, <2>2, <2>3 DEF ExpireResults
<1>4. ASSUME NEW w \in Workers, Acquire(w) PROVE TypeOK'
  BY <1>4 DEF Acquire, Steps
<1>5. ASSUME NEW w \in Workers, Claim(w) PROVE TypeOK'
  BY <1>5 DEF Claim, Claimed, Steps, JobStatus
<1>6. ASSUME NEW w \in Workers, StartRun(w) PROVE TypeOK'
  BY <1>6, ConstantTypes DEF StartRun, Resume, Steps, RunStatus
<1>7. ASSUME NEW w \in Workers, CompleteJobs(w) PROVE TypeOK'
  BY <1>7 DEF CompleteJobs, Closed, Steps, JobStatus
<1>8. ASSUME NEW w \in Workers, Release(w) PROVE TypeOK'
  BY <1>8, ConstantTypes DEF Release, Forget, Steps
<1>9. ASSUME NEW w \in Workers, Prepare(w) PROVE TypeOK'
  BY <1>9 DEF Prepare, Steps
<1>10. ASSUME NEW w \in Workers, ResumeOperation(w) PROVE TypeOK'
  BY <1>10 DEF ResumeOperation, Steps
<1>11. ASSUME NEW w \in Workers, StartOperation(w) \/ ReplaceOperation(w) PROVE TypeOK'
  <2>1. [snap |-> SnapshotOf(at[w]), expired |-> FALSE] \in Operation
    BY NewOperationType
  <2>2. NewOperation(w)
    BY <1>11 DEF StartOperation, ReplaceOperation
  <2>3. cp' \in [Workers -> Checkpoints]
    BY <2>1, <2>2 DEF NewOperation, Checkpoints
  <2> QED
    BY <2>2, <2>3 DEF NewOperation, Steps
<1>12. ASSUME NEW w \in Workers, SaveCheckpoint(w) PROVE TypeOK'
  BY <1>12 DEF SaveCheckpoint, Steps
<1>13. ASSUME NEW w \in Workers, Await(w) PROVE TypeOK'
  BY <1>13 DEF Await, Delivered, Steps
<1>14. ASSUME NEW w \in Workers, NEW x \in Objects, AppendRaw(w, x) PROVE TypeOK'
  BY <1>14 DEF AppendRaw, RowOwner
<1>15. ASSUME NEW w \in Workers, NextQuery(w) PROVE TypeOK'
  BY <1>15, SyncAssumption DEF NextQuery, Steps
<1>16. ASSUME NEW w \in Workers, MapOrders(w) PROVE TypeOK'
  BY <1>16 DEF MapOrders, Delivered, Steps
<1>17. ASSUME NEW w \in Workers, NEW o \in Orders, UpsertOrder(w, o) PROVE TypeOK'
  <2>1. Op(w).snap[o] \in 0..MaxVersion
    BY <1>17, OperationType DEF UpsertOrder, OperationChosen, Snapshot, Orders
  <2> QED
    BY <1>17, <2>1 DEF UpsertOrder
<1>18. ASSUME NEW w \in Workers, FinishRun(w) PROVE TypeOK'
  BY <1>18, SettleType DEF FinishRun, Steps, RunStatus, RowOwner
<1>19. ASSUME NEW w \in Workers, Raise(w) \/ OperationTerminal(w) \/ ResultGone(w)
       PROVE  TypeOK'
  <2>1. PICK c \in Checkpoints : RecordFailure(w, c)
    BY <1>19 DEF Raise, OperationTerminal, ResultGone, Checkpoints
  <2>2. failures' \in 0..MaxFailures
    BY <1>19, SyncAssumption DEF Raise, OperationTerminal, ResultGone
  <2> QED
    BY <2>1, <2>2, SettleType DEF RecordFailure, Steps, RunStatus, RowOwner
<1>20. ASSUME NEW w \in Workers, RaiseOutside(w) PROVE TypeOK'
  BY <1>20, SyncAssumption DEF RaiseOutside, Steps
<1>21. ASSUME NEW w \in Workers, Crash(w) PROVE TypeOK'
  BY <1>21, SyncAssumption, ConstantTypes, SettleType DEF Crash, Forget, Steps, RowOwner
<1>22. CASE UNCHANGED vars
  BY <1>22 DEF vars
<1> QED
  BY <1>1, <1>2, <1>3, <1>4, <1>5, <1>6, <1>7, <1>8, <1>9, <1>10, <1>11, <1>12, <1>13,
     <1>14, <1>15, <1>16, <1>17, <1>18, <1>19, <1>20, <1>21, <1>22
  DEF Next, Environment, Work, Fault

LEMMA InitChosen == Init => OperationChosen
  BY DEF Init, OperationChosen

LEMMA NextChosen == TypeOK /\ OperationChosen /\ [Next]_vars => OperationChosen'
<1> SUFFICES ASSUME TypeOK, OperationChosen, [Next]_vars PROVE OperationChosen'
  OBVIOUS
<1> USE DEF TypeOK, OperationChosen, Op, tables, local, faults
<1>1. CASE UNCHANGED vars \/ Environment
  BY <1>1 DEF vars, Environment, Change, Notify, ExpireResults
<1>2. ASSUME NEW w \in Workers,
             \/ Acquire(w) \/ Claim(w) \/ CompleteJobs(w) \/ Prepare(w)
             \/ RaiseOutside(w) \/ SaveCheckpoint(w) \/ Await(w)
      PROVE  OperationChosen'
  BY <1>2 DEF Acquire, Claim, CompleteJobs, Prepare, RaiseOutside, SaveCheckpoint, Await
<1>3. ASSUME NEW w \in Workers, ResumeOperation(w) \/ NextQuery(w) \/ MapOrders(w) \/ FinishRun(w)
      PROVE  OperationChosen'
  BY <1>3 DEF ResumeOperation, NextQuery, MapOrders, FinishRun
<1>4. ASSUME NEW w \in Workers, StartOperation(w) \/ ReplaceOperation(w)
      PROVE  OperationChosen'
  <2>1. /\ NewOperation(w)
        /\ [snap |-> SnapshotOf(at[w]), expired |-> FALSE] # NoOp
    BY <1>4, NewOperationType, ConstantTypes DEF StartOperation, ReplaceOperation
  <2> QED
    BY <2>1 DEF NewOperation, Checkpoints
<1>5. ASSUME NEW w \in Workers, StartRun(w) \/ Release(w) \/ Crash(w)
      PROVE  OperationChosen'
  BY <1>5 DEF StartRun, Release, Crash, Forget
<1>6. ASSUME NEW w \in Workers,
             \/ \E x \in Objects : AppendRaw(w, x)
             \/ \E o \in Orders : UpsertOrder(w, o)
      PROVE  OperationChosen'
  BY <1>6 DEF AppendRaw, UpsertOrder
<1>7. ASSUME NEW w \in Workers, Raise(w) \/ OperationTerminal(w) \/ ResultGone(w)
      PROVE  OperationChosen'
  BY <1>7 DEF Raise, OperationTerminal, ResultGone, RecordFailure
<1> QED
  BY <1>1, <1>2, <1>3, <1>4, <1>5, <1>6, <1>7 DEF Next, Work, Fault

\* Every variable keeps its type, whatever Shopify, the webhooks and the faults do.
THEOREM TypeCorrect == Spec => [](TypeOK /\ OperationChosen)
<1>1. Init => TypeOK /\ OperationChosen
  BY InitType, InitChosen
<1>2. TypeOK /\ OperationChosen /\ [Next]_vars => (TypeOK /\ OperationChosen)'
  BY NextType, NextChosen
<1> QED
  BY <1>1, <1>2, PTL DEF Spec

-------------------------------------------------------------------------------
(* The lock, and what a worker knows of its own run.                       *)

LEMMA InitLock == Init => LockHeld
  BY SyncAssumption DEF Init, LockHeld

LEMMA NextLock == TypeOK /\ LockHeld /\ [Next]_vars => LockHeld'
<1> SUFFICES ASSUME TypeOK, LockHeld, [Next]_vars PROVE LockHeld'
  OBVIOUS
<1> USE DEF TypeOK, LockHeld, tables, local, faults
<1>1. CASE UNCHANGED vars \/ Environment
  BY <1>1 DEF vars, Environment, Change, Notify, ExpireResults
<1>2. ASSUME NEW w \in Workers, Acquire(w) PROVE LockHeld'
  BY <1>2, SyncAssumption DEF Acquire
<1>3. ASSUME NEW w \in Workers, Release(w) \/ Crash(w) PROVE LockHeld'
  BY <1>3, SyncAssumption DEF Release, Crash, Forget
<1>4. ASSUME NEW w \in Workers, Work(w) \/ Fault(w), ~Release(w), ~Crash(w)
      PROVE  lock' = lock /\ \E p \in Steps \ {"idle"} :
                pc[w] # "idle" /\ pc' = [pc EXCEPT ![w] = p]
  <2>1. CASE \/ Claim(w) \/ StartRun(w) \/ Prepare(w) \/ ResumeOperation(w)
             \/ SaveCheckpoint(w) \/ Await(w) \/ NextQuery(w) \/ MapOrders(w)
    BY <2>1 DEF Claim, StartRun, Prepare, ResumeOperation, SaveCheckpoint, Await, NextQuery,
                MapOrders, Steps
  <2>2. CASE \/ StartOperation(w) \/ ReplaceOperation(w)
             \/ FinishRun(w) \/ CompleteJobs(w) \/ RaiseOutside(w)
    BY <2>2 DEF StartOperation, ReplaceOperation, NewOperation, FinishRun, CompleteJobs,
                RaiseOutside, Steps
  <2>3. CASE \/ \E x \in Objects : AppendRaw(w, x)
             \/ \E o \in Orders : UpsertOrder(w, o)
    <3>1. pc[w] \in {"rows", "upsert"} /\ pc' = pc /\ lock' = lock
      BY <2>3 DEF AppendRaw, UpsertOrder
    <3>2. pc' = [pc EXCEPT ![w] = pc[w]]
      BY <3>1
    <3> QED
      BY <3>1, <3>2 DEF Steps
  <2>4. CASE Raise(w) \/ OperationTerminal(w) \/ ResultGone(w)
    BY <2>4 DEF Raise, OperationTerminal, ResultGone, RecordFailure, InRun, Steps
  <2> QED
    BY <1>4, <2>1, <2>2, <2>3, <2>4 DEF Work, Fault
<1>5. ASSUME NEW w \in Workers, Work(w) \/ Fault(w), ~Release(w), ~Crash(w)
      PROVE  LockHeld'
  BY <1>4, <1>5
<1> QED
  BY <1>1, <1>2, <1>3, <1>5 DEF Next

LEMMA InitOwnRun == Init => OwnRun
  BY DEF Init, OwnRun, InRun

\* A worker can only be disturbed in its run by the worker that holds the lock: itself.
LEMMA Alone ==
  ASSUME LockHeld, NEW w \in Workers, NEW u \in Workers, pc[w] # "idle", pc[u] # "idle"
  PROVE  u = w
  BY DEF LockHeld

LEMMA NextOwnRun ==
  TypeOK /\ OperationChosen /\ LockHeld /\ OwnRun /\ [Next]_vars => OwnRun'
<1> SUFFICES ASSUME TypeOK, OperationChosen, LockHeld, OwnRun, [Next]_vars PROVE OwnRun'
  OBVIOUS
<1> USE DEF TypeOK, OwnRun, InRun, tables, local, faults
<1>1. CASE UNCHANGED vars \/ \E x \in Objects : Change(x) \/ \E v \in Versions : Notify(x, v)
  BY <1>1 DEF vars, Change, Notify
<1>2. CASE ExpireResults
  BY <1>2 DEF ExpireResults
<1>3. ASSUME NEW w \in Workers,
             \/ Claim(w) \/ CompleteJobs(w) \/ Prepare(w) \/ ResumeOperation(w)
             \/ Await(w) \/ NextQuery(w) \/ MapOrders(w) \/ RaiseOutside(w)
      PROVE  OwnRun'
  BY <1>3 DEF Claim, CompleteJobs, Prepare, ResumeOperation, Await, NextQuery,
              MapOrders, RaiseOutside
<1>4. ASSUME NEW w \in Workers, Acquire(w) PROVE OwnRun'
  BY <1>4 DEF Acquire
<1>5. ASSUME NEW w \in Workers, StartOperation(w) \/ ReplaceOperation(w) PROVE OwnRun'
  BY <1>5 DEF StartOperation, ReplaceOperation, NewOperation
<1>6. ASSUME NEW w \in Workers, StartRun(w) PROVE OwnRun'
  BY <1>6, Alone DEF StartRun
<1>7. ASSUME NEW w \in Workers, SaveCheckpoint(w) \/ FinishRun(w) PROVE OwnRun'
  <2>1. latest'.cp = cp[w] /\ cp' = cp /\ pc[w] \in {"checkpoint", "upsert"}
    BY <1>7 DEF SaveCheckpoint, FinishRun
  <2>2. \/ pc' = [pc EXCEPT ![w] = "await"] /\ latest'.status = latest.status
        \/ pc' = [pc EXCEPT ![w] = "complete"] /\ latest'.status = "COMPLETED"
    BY <1>7 DEF SaveCheckpoint, FinishRun
  <2>3. \A u \in Workers \ {w} : pc[u] = "idle" /\ pc'[u] = "idle"
    BY <2>1, <2>2, Alone
  <2>4. CASE pc' = [pc EXCEPT ![w] = "await"] /\ latest'.status = latest.status
    <3>1. pc'[w] = "await" /\ latest.status = "RUNNING"
      BY <2>1, <2>4
    <3> QED
      BY <2>1, <2>3, <2>4, <3>1
  <2>5. CASE pc' = [pc EXCEPT ![w] = "complete"] /\ latest'.status = "COMPLETED"
    BY <2>1, <2>3, <2>5
  <2> QED
    BY <2>2, <2>4, <2>5
<1>8. ASSUME NEW w \in Workers,
             \/ \E x \in Objects : AppendRaw(w, x)
             \/ \E o \in Orders : UpsertOrder(w, o)
      PROVE  OwnRun'
  BY <1>8 DEF AppendRaw, UpsertOrder
<1>9. ASSUME NEW w \in Workers, Raise(w) \/ OperationTerminal(w) \/ ResultGone(w)
      PROVE  OwnRun'
  BY <1>9, Alone DEF Raise, OperationTerminal, ResultGone, RecordFailure
<1>10. ASSUME NEW w \in Workers, Release(w) \/ Crash(w) PROVE OwnRun'
  BY <1>10 DEF Release, Crash, Forget
<1> QED
  BY <1>1, <1>2, <1>3, <1>4, <1>5, <1>6, <1>7, <1>8, <1>9, <1>10
  DEF Next, Environment, Work, Fault

\* At most one sync of a shop is past the advisory lock (product_service._sync_lock),
\* and the newest row of sync_runs is the one of that sync.
THEOREM OneSyncPerShop == Spec => [](LockHeld /\ OwnRun)
<1>1. Init => LockHeld /\ OwnRun
  BY InitLock, InitOwnRun
<1>2. TypeOK /\ OperationChosen /\ LockHeld /\ OwnRun /\ [Next]_vars => (LockHeld /\ OwnRun)'
  BY NextLock, NextOwnRun
<1> QED
  BY <1>1, <1>2, TypeCorrect, PTL DEF Spec

-------------------------------------------------------------------------------
(* Snapshots and the canonical orders.                                     *)

LEMMA InitSnapshots == Init => SnapshotsReal /\ CanonBehind
  BY SyncAssumption, ConstantTypes
  DEF Init, SnapshotsReal, CanonBehind, NoCheckpoints, Orders, OrdersQuery

\* The steps that touch neither the checkpoints nor the jobs, the store or the orders.
QuietStep ==
    /\ UNCHANGED <<store, jobs, canon, cp>>
    /\ latest'.cp = latest.cp

LEMMA ExpireKeepsSnapshots ==
  ASSUME TypeOK, ExpireResults
  PROVE  \A q \in 1..Queries :
            /\ latest'.cp[q] = NoOp <=> latest.cp[q] = NoOp
            /\ latest.cp[q] # NoOp => latest'.cp[q].snap = latest.cp[q].snap
<1> SUFFICES ASSUME NEW q \in 1..Queries
             PROVE  /\ latest'.cp[q] = NoOp <=> latest.cp[q] = NoOp
                    /\ latest.cp[q] # NoOp => latest'.cp[q].snap = latest.cp[q].snap
  OBVIOUS
<1>1. latest'.cp[q] = IF latest.cp[q] = NoOp
                      THEN NoOp ELSE [latest.cp[q] EXCEPT !.expired = TRUE]
  BY DEF ExpireResults, TypeOK
<1>2. CASE latest.cp[q] = NoOp
  BY <1>1, <1>2
<1>3. CASE latest.cp[q] # NoOp
  <2>1. latest.cp[q] \in [snap : Snapshot, expired : BOOLEAN]
    BY <1>3 DEF TypeOK, Checkpoints, Operation
  <2>2. latest'.cp[q] \in Operation
    BY <1>1, <1>3, <2>1 DEF Operation
  <2> QED
    BY <1>1, <1>3, <2>1, <2>2, ConstantTypes
<1> QED
  BY <1>2, <1>3

LEMMA QuietSteps ==
  ASSUME TypeOK, NEW w \in Workers,
         \/ Acquire(w) \/ Prepare(w) \/ ResumeOperation(w) \/ Await(w) \/ NextQuery(w)
         \/ MapOrders(w) \/ RaiseOutside(w) \/ Raise(w) \/ ResultGone(w)
         \/ \E x \in Objects : AppendRaw(w, x)
  PROVE  QuietStep
<1> USE DEF QuietStep, TypeOK, tables, local, faults
<1>1. CASE \/ Acquire(w) \/ Prepare(w) \/ ResumeOperation(w) \/ Await(w) \/ NextQuery(w)
           \/ MapOrders(w) \/ RaiseOutside(w)
  BY <1>1 DEF Acquire, Prepare, ResumeOperation, Await, NextQuery, MapOrders, RaiseOutside
<1>2. CASE \/ Raise(w) \/ ResultGone(w) \/ \E x \in Objects : AppendRaw(w, x)
  BY <1>2 DEF Raise, ResultGone, RecordFailure, AppendRaw
<1> QED
  BY <1>1, <1>2

LEMMA NextSnapshots == TypeOK /\ OperationChosen /\ SnapshotsReal /\ [Next]_vars => SnapshotsReal'
<1> SUFFICES ASSUME TypeOK, OperationChosen, SnapshotsReal, [Next]_vars PROVE SnapshotsReal'
  OBVIOUS
<1> USE DEF TypeOK, SnapshotsReal, tables, local, faults
<1>1. CASE UNCHANGED vars
  BY <1>1 DEF vars
<1>2. ASSUME NEW x \in Objects, Change(x) PROVE SnapshotsReal'
  <2>1. /\ \A y \in Objects : store[y] \in Int /\ store'[y] \in Int /\ store[y] <= store'[y]
        /\ cp' = cp /\ latest' = latest /\ jobs' = jobs
    BY <1>2, SyncAssumption DEF Change, Snapshot
  <2>2. \A w \in Workers, q \in 1..Queries : cp[w][q] # NoOp =>
           \A y \in Objects : cp[w][q].snap[y] \in Int
    BY SnapshotType
  <2>3. \A q \in 1..Queries : latest.cp[q] # NoOp =>
           \A y \in Objects : latest.cp[q].snap[y] \in Int
    BY SnapshotType
  <2>4. \A w \in Workers, q \in 1..Queries : cp[w][q] # NoOp =>
           \A y \in Objects : cp[w][q].snap[y] <= store'[y]
    BY <2>1, <2>2
  <2>5. \A q \in 1..Queries : latest.cp[q] # NoOp =>
           \A y \in Objects : latest.cp[q].snap[y] <= store'[y]
    BY <2>1, <2>3
  <2>6. \A y \in Objects, v \in Versions : jobs[y][v] # "none" => v <= store'[y]
    BY <2>1, SyncAssumption DEF Versions
  <2> QED
    BY <2>1, <2>4, <2>5, <2>6
<1>3. ASSUME NEW x \in Objects, NEW v \in Versions, Notify(x, v) PROVE SnapshotsReal'
  BY <1>3 DEF Notify
<1>4. CASE ExpireResults
  BY <1>4, ExpireKeepsSnapshots DEF ExpireResults
<1>5. ASSUME NEW w \in Workers, Claim(w) \/ CompleteJobs(w) PROVE SnapshotsReal'
  BY <1>5 DEF Claim, Claimed, CompleteJobs, Closed
<1>6. ASSUME NEW w \in Workers, StartRun(w) PROVE SnapshotsReal'
  BY <1>6 DEF StartRun, Resume, NoCheckpoints
<1>7. ASSUME NEW w \in Workers, StartOperation(w) \/ ReplaceOperation(w) PROVE SnapshotsReal'
  <2>1. NewOperation(w)
    BY <1>7 DEF StartOperation, ReplaceOperation
  <2>2. \A x \in Objects : SnapshotOf(at[w])[x] <= store[x]
    BY SyncAssumption DEF SnapshotOf, Snapshot
  <2> QED
    BY <2>1, <2>2 DEF NewOperation, Checkpoints
<1>8. ASSUME NEW w \in Workers, SaveCheckpoint(w) \/ FinishRun(w) PROVE SnapshotsReal'
  BY <1>8 DEF SaveCheckpoint, FinishRun
<1>9. ASSUME NEW w \in Workers, OperationTerminal(w) PROVE SnapshotsReal'
  BY <1>9 DEF OperationTerminal, RecordFailure, Checkpoints
<1>10. ASSUME NEW w \in Workers, Release(w) \/ Crash(w) PROVE SnapshotsReal'
  BY <1>10, Forgotten
<1>11. ASSUME NEW w \in Workers, \E o \in Orders : UpsertOrder(w, o) PROVE SnapshotsReal'
  BY <1>11 DEF UpsertOrder
<1>12. ASSUME QuietStep PROVE SnapshotsReal'
  BY <1>12 DEF QuietStep
<1> QED
  BY <1>1, <1>2, <1>3, <1>4, <1>5, <1>6, <1>7, <1>8, <1>9, <1>10, <1>11, <1>12, QuietSteps
  DEF Next, Environment, Work, Fault

\* What an upsert does to the orders: the snapshot it writes is the run's own.
LEMMA UpsertFacts ==
  ASSUME TypeOK, OperationChosen, LockHeld, OwnRun, SnapshotsReal, CanonBehind,
         NEW w \in Workers, NEW o \in Orders, UpsertOrder(w, o)
  PROVE  /\ at[w] = OrdersQuery /\ Op(w) # NoOp
         /\ Op(w) = cp[w][OrdersQuery] /\ Op(w) = latest.cp[OrdersQuery]
         /\ Op(w).snap[o] \in 0..MaxVersion
         /\ canon' = [canon EXCEPT ![o] = Op(w).snap[o]]
         /\ canon[o] <= Op(w).snap[o] /\ Op(w).snap[o] <= store[o]
         /\ UNCHANGED <<store, latest, cp, jobs>>
         /\ \A u \in Workers \ {w} : cp[u] = NoCheckpoints
<1>1. /\ pc[w] = "upsert"
      /\ canon' = [canon EXCEPT ![o] = Op(w).snap[o]]
      /\ UNCHANGED <<store, latest, cp, jobs>>
  BY DEF UpsertOrder
<1>2. at[w] = OrdersQuery /\ Op(w) # NoOp /\ latest.cp = cp[w]
  BY <1>1 DEF OperationChosen, OwnRun
<1>3. \A u \in Workers \ {w} : cp[u] = NoCheckpoints
  BY <1>1, Alone DEF OwnRun
<1>4. Op(w) = cp[w][OrdersQuery] /\ o \in Objects
  BY <1>2 DEF Op, Orders
<1>5. Op(w).snap \in Snapshot
  BY <1>2, OperationType
<1> QED
  BY <1>1, <1>2, <1>3, <1>4, <1>5, ConstantTypes DEF Snapshot, CanonBehind, SnapshotsReal

LEMMA NextCanonBehind ==
  TypeOK /\ OperationChosen /\ LockHeld /\ OwnRun /\ SnapshotsReal /\ CanonBehind /\ [Next]_vars
    => CanonBehind'
<1> SUFFICES ASSUME TypeOK, OperationChosen, LockHeld, OwnRun, SnapshotsReal, CanonBehind,
                    [Next]_vars
             PROVE  CanonBehind'
  OBVIOUS
<1> USE ConstantTypes DEF tables, local, faults
<1>0. \A o \in Orders : o \in Objects /\ canon[o] \in Int /\ store[o] \in Int
  BY DEF TypeOK, Snapshot, Orders
<1>1. CASE UNCHANGED vars
  BY <1>1 DEF vars, CanonBehind
<1>2. ASSUME NEW x \in Objects, Change(x) PROVE CanonBehind'
  <2>1. /\ \A o \in Orders : store'[o] \in Int /\ store[o] <= store'[o]
        /\ cp' = cp /\ latest' = latest /\ canon' = canon
    BY <1>0, <1>2 DEF Change, TypeOK, Snapshot
  <2> QED
    BY <1>0, <2>1 DEF CanonBehind
<1>3. ASSUME NEW x \in Objects, NEW v \in Versions, Notify(x, v) PROVE CanonBehind'
  BY <1>3 DEF Notify, CanonBehind
<1>4. CASE ExpireResults
  <2>1. canon' = canon /\ store' = store /\ cp' = cp
    BY <1>4 DEF ExpireResults
  <2> QED
    BY <1>4, <2>1, ExpireKeepsSnapshots DEF CanonBehind
<1>5. ASSUME NEW w \in Workers, Claim(w) \/ CompleteJobs(w) PROVE CanonBehind'
  BY <1>5 DEF Claim, CompleteJobs, CanonBehind
<1>6. ASSUME NEW w \in Workers, StartRun(w) PROVE CanonBehind'
  BY <1>6 DEF StartRun, Resume, NoCheckpoints, CanonBehind, TypeOK
<1>7. ASSUME NEW w \in Workers, StartOperation(w) \/ ReplaceOperation(w) PROVE CanonBehind'
  <2>1. NewOperation(w)
    BY <1>7 DEF StartOperation, ReplaceOperation
  <2>2. \A o \in Orders : SnapshotOf(OrdersQuery)[o] = store[o]
    BY DEF SnapshotOf, Orders
  <2>3. /\ cp' = [cp EXCEPT ![w] = [cp[w] EXCEPT
                     ![at[w]] = [snap |-> SnapshotOf(at[w]), expired |-> FALSE]]]
        /\ UNCHANGED <<store, latest, canon>>
    BY <2>1 DEF NewOperation
  <2>4. \A u \in Workers : cp'[u][OrdersQuery] = cp[u][OrdersQuery]
                           \/ cp'[u][OrdersQuery].snap = SnapshotOf(OrdersQuery)
    BY <2>3 DEF TypeOK, Checkpoints
  <2> QED
    BY <1>0, <2>2, <2>3, <2>4 DEF CanonBehind
<1>8. ASSUME NEW w \in Workers, SaveCheckpoint(w) \/ FinishRun(w) PROVE CanonBehind'
  BY <1>8 DEF SaveCheckpoint, FinishRun, CanonBehind, TypeOK
<1>9. ASSUME NEW w \in Workers, OperationTerminal(w) PROVE CanonBehind'
  BY <1>9 DEF OperationTerminal, RecordFailure, CanonBehind, TypeOK, Checkpoints
<1>10. ASSUME NEW w \in Workers, Release(w) \/ Crash(w) PROVE CanonBehind'
  BY <1>10, Forgotten DEF CanonBehind
<1>11. ASSUME NEW w \in Workers, NEW o \in Orders, UpsertOrder(w, o) PROVE CanonBehind'
  <2>0. NoCheckpoints[OrdersQuery] = NoOp
    BY DEF NoCheckpoints
  <2>1. \A u \in Workers : u # w => cp[u][OrdersQuery] = NoOp
    BY <1>11, <2>0, UpsertFacts
  <2>2. canon'[o] = Op(w).snap[o] /\ \A p \in Orders \ {o} : canon'[p] = canon[p]
    BY <1>11, UpsertFacts DEF TypeOK
  <2>3. store' = store /\ latest' = latest /\ cp' = cp /\ Op(w) = cp[w][OrdersQuery]
        /\ Op(w) = latest.cp[OrdersQuery] /\ Op(w).snap[o] <= store[o]
        /\ Op(w).snap[o] \in Int
    BY <1>11, UpsertFacts
  <2>4. /\ canon'[o] <= store'[o]
        /\ canon'[o] <= latest'.cp[OrdersQuery].snap[o]
        /\ \A u \in Workers : cp'[u][OrdersQuery] # NoOp =>
               canon'[o] <= cp'[u][OrdersQuery].snap[o]
    <3>1. ASSUME NEW u \in Workers, cp'[u][OrdersQuery] # NoOp
          PROVE  canon'[o] <= cp'[u][OrdersQuery].snap[o]
      <4>1. u = w
        BY <2>1, <2>3, <3>1
      <4>2. cp'[u][OrdersQuery].snap[o] = Op(w).snap[o]
        BY <2>3, <4>1
      <4> QED
        BY <2>2, <2>3, <4>2
    <3> QED
      BY <2>2, <2>3, <3>1
  <2> QED
    BY <2>2, <2>3, <2>4 DEF CanonBehind
<1>12. ASSUME QuietStep PROVE CanonBehind'
  BY <1>12 DEF QuietStep, CanonBehind
<1> QED
  BY <1>1, <1>2, <1>3, <1>4, <1>5, <1>6, <1>7, <1>8, <1>9, <1>10, <1>11, <1>12, QuietSteps
  DEF TypeOK, Next, Environment, Work, Fault

SafeInv == TypeOK /\ OperationChosen /\ LockHeld /\ OwnRun /\ SnapshotsReal /\ CanonBehind

LEMMA SafeInvariant == Spec => []SafeInv
<1>1. Init => SafeInv
  BY InitType, InitChosen, InitLock, InitOwnRun, InitSnapshots DEF SafeInv
<1>2. SafeInv /\ [Next]_vars => SafeInv'
  BY NextType, NextChosen, NextLock, NextOwnRun, NextSnapshots, NextCanonBehind DEF SafeInv
<1> QED
  BY <1>1, <1>2, PTL DEF Spec

-------------------------------------------------------------------------------
(* The canonical orders only move forward, and so implement CommerceMirror. *)

\* Every step but an upsert leaves the canonical orders alone.
LEMMA CanonStep ==
  ASSUME TypeOK, [Next]_vars
  PROVE  \/ canon' = canon /\ store' = store
         \/ canon' = canon /\ \E x \in Objects : Change(x)
         \/ \E w \in Workers, o \in Orders : UpsertOrder(w, o)
<1> USE DEF tables, local, faults
<1>1. CASE UNCHANGED vars
  BY <1>1 DEF vars
<1>2. CASE Environment
  BY <1>2 DEF Environment, Change, Notify, ExpireResults
<1>3. ASSUME NEW w \in Workers,
             \/ Claim(w) \/ CompleteJobs(w) \/ StartRun(w) \/ SaveCheckpoint(w) \/ FinishRun(w)
      PROVE  canon' = canon /\ store' = store
  BY <1>3 DEF Claim, CompleteJobs, StartRun, SaveCheckpoint, FinishRun
<1>4. ASSUME NEW w \in Workers,
             \/ StartOperation(w) \/ ReplaceOperation(w) \/ OperationTerminal(w)
             \/ Release(w) \/ Crash(w)
      PROVE  canon' = canon /\ store' = store
  BY <1>4, Forgotten DEF StartOperation, ReplaceOperation, NewOperation, OperationTerminal,
                         RecordFailure
<1>5. ASSUME QuietStep PROVE canon' = canon /\ store' = store
  BY <1>5 DEF QuietStep
<1> QED
  BY <1>1, <1>2, <1>3, <1>4, <1>5, QuietSteps DEF Next, Work, Fault

\* No sync takes an order back: the snapshot of a resumed operation is never older than
\* what the canonical tables show, because only the newest row, when FAILED, is resumed.
THEOREM CanonForward == Spec => CanonNeverRegresses
<1>1. SafeInv /\ [Next]_vars => [\A o \in Orders : canon[o] <= canon'[o]]_canon
  <2> SUFFICES ASSUME SafeInv, [Next]_vars, canon' # canon
               PROVE  \A o \in Orders : canon[o] <= canon'[o]
    OBVIOUS
  <2>1. PICK w \in Workers, p \in Orders : UpsertOrder(w, p)
    BY CanonStep DEF SafeInv
  <2>2. \A o \in Orders : canon[o] \in Int
    BY DEF SafeInv, TypeOK
  <2>3. canon' = [canon EXCEPT ![p] = Op(w).snap[p]] /\ canon[p] <= Op(w).snap[p]
    BY <2>1, UpsertFacts DEF SafeInv
  <2> QED
    BY <2>2, <2>3 DEF SafeInv, TypeOK
<1> QED
  BY <1>1, SafeInvariant, PTL DEF Spec, CanonNeverRegresses

\* The sync refines the safe part of CommerceMirror: a change of the store is a change of
\* the source, an upsert that brings news is an advance, and everything else stutters.
THEOREM SyncRefinesMirror == Spec => MirrorSafe
<1> USE DEF Mirror!mirrorVars
<1>1. Init => Mirror!MirrorInit
  BY DEF Init, Mirror!MirrorInit, Orders
<1>2. SafeInv /\ [Next]_vars => [Mirror!MirrorNext]_(Mirror!mirrorVars)
  <2> SUFFICES ASSUME SafeInv, [Next]_vars PROVE [Mirror!MirrorNext]_(Mirror!mirrorVars)
    OBVIOUS
  <2> USE DEF SafeInv
  <2>1. CASE canon' = canon /\ store' = store
    BY <2>1
  <2>2. ASSUME NEW x \in Objects, Change(x), canon' = canon
        PROVE  [Mirror!MirrorNext]_(Mirror!mirrorVars)
    <3>1. store \in [Objects -> 0..MaxVersion] /\ Orders \subseteq Objects
      BY DEF TypeOK, Snapshot, Orders
    <3>2. CASE x \in Orders
      <4>1. /\ [o \in Orders |-> store[o]][x] < MaxVersion
            /\ [o \in Orders |-> store[o]]'
                 = [[o \in Orders |-> store[o]] EXCEPT ![x] = @ + 1]
        BY <2>2, <3>1, <3>2 DEF Change
      <4> QED
        BY <2>2, <3>2, <4>1 DEF Mirror!MirrorNext, Mirror!MirrorChange
    <3>3. CASE x \notin Orders
      BY <2>2, <3>1, <3>3 DEF Change
    <3> QED
      BY <3>2, <3>3
  <2>3. ASSUME NEW w \in Workers, NEW o \in Orders, UpsertOrder(w, o)
        PROVE  [Mirror!MirrorNext]_(Mirror!mirrorVars)
    <3> DEFINE v == Op(w).snap[o]
    <3>1. /\ v \in 0..MaxVersion /\ canon[o] <= v /\ v <= store[o]
          /\ canon' = [canon EXCEPT ![o] = v] /\ store' = store
      BY <2>3, UpsertFacts
    <3>2. canon \in [Orders -> 0..MaxVersion]
      BY DEF TypeOK
    <3>3. CASE canon[o] = v
      BY <3>1, <3>2, <3>3
    <3>4. CASE canon[o] # v
      <4>1. canon[o] < v
        BY <3>1, <3>2, <3>4
      <4> QED
        BY <3>1, <4>1 DEF Mirror!MirrorNext, Mirror!MirrorAdvance
    <3> QED
      BY <3>3, <3>4
  <2> QED
    BY <2>1, <2>2, <2>3, CanonStep
<1> QED
  BY <1>1, <1>2, SafeInvariant, PTL DEF Spec, MirrorSafe, Mirror!MirrorSafe

-------------------------------------------------------------------------------
(* The raw layer and the completed run.                                    *)

\* While a worker takes a step of its sync, every other worker is idle.
LEMMA OthersIdle ==
  ASSUME TypeOK, LockHeld, NEW w \in Workers, Work(w) \/ Fault(w)
  PROVE  /\ pc[w] # "idle"
         /\ \A u \in Workers \ {w} : pc[u] = "idle" /\ pc'[u] = "idle"
<1> USE DEF TypeOK
<1>1. pc[w] # "idle" /\ \A u \in Workers \ {w} : pc'[u] = pc[u]
  <2>1. CASE \/ Claim(w) \/ StartRun(w) \/ Prepare(w) \/ ResumeOperation(w)
             \/ SaveCheckpoint(w) \/ Await(w) \/ NextQuery(w) \/ MapOrders(w)
    BY <2>1 DEF Claim, StartRun, Prepare, ResumeOperation, SaveCheckpoint, Await, NextQuery,
                MapOrders
  <2>2. CASE \/ StartOperation(w) \/ ReplaceOperation(w)
             \/ FinishRun(w) \/ CompleteJobs(w) \/ RaiseOutside(w)
    BY <2>2 DEF StartOperation, ReplaceOperation, NewOperation, FinishRun, CompleteJobs,
                RaiseOutside
  <2>3. CASE \/ \E x \in Objects : AppendRaw(w, x)
             \/ \E o \in Orders : UpsertOrder(w, o)
    BY <2>3 DEF AppendRaw, UpsertOrder
  <2>4. CASE Raise(w) \/ OperationTerminal(w) \/ ResultGone(w) \/ Release(w) \/ Crash(w)
    BY <2>4 DEF Raise, OperationTerminal, ResultGone, RecordFailure, InRun, Release, Crash, Forget
  <2> QED
    BY <2>1, <2>2, <2>3, <2>4 DEF Work, Fault
<1> QED
  BY <1>1, Alone

\* Only these steps leave a worker inside a file or among the orders.
LEMMA InFileSteps ==
  ASSUME TypeOK, NEW w \in Workers, Work(w) \/ Fault(w), pc'[w] \in {"rows", "upsert"}
  PROVE  \/ Await(w) \/ MapOrders(w)
         \/ \E x \in Objects : AppendRaw(w, x)
         \/ \E o \in Orders : UpsertOrder(w, o)
<1> USE DEF TypeOK
<1>1. ~(Claim(w) \/ StartRun(w) \/ Prepare(w) \/ ResumeOperation(w) \/ SaveCheckpoint(w))
  BY DEF Claim, StartRun, Prepare, ResumeOperation, SaveCheckpoint
<1>2. ~(StartOperation(w) \/ ReplaceOperation(w) \/ NextQuery(w) \/ FinishRun(w))
  BY DEF StartOperation, ReplaceOperation, NewOperation, NextQuery, FinishRun
<1>3. ~(CompleteJobs(w) \/ RaiseOutside(w) \/ Release(w) \/ Crash(w))
  BY DEF CompleteJobs, RaiseOutside, Release, Crash, Forget
<1>4. ~(Raise(w) \/ OperationTerminal(w) \/ ResultGone(w))
  BY DEF Raise, OperationTerminal, ResultGone, RecordFailure
<1> QED
  BY <1>1, <1>2, <1>3, <1>4 DEF Work, Fault

\* A raw row, once inserted, stays.
LEMMA RawKept ==
  ASSUME TypeOK, [Next]_vars
  PROVE  \A x \in Objects, v \in Versions : raw[x][v] # "none" => raw'[x][v] # "none"
<1> USE DEF TypeOK, tables, local, faults
<1>1. CASE UNCHANGED vars
  BY <1>1 DEF vars
<1>2. CASE Environment
  BY <1>2 DEF Environment, Change, Notify, ExpireResults
<1>3. ASSUME NEW outcome \in RowOwner \ {"none"}, raw' = Settle(outcome)
      PROVE  \A x \in Objects, v \in Versions : raw[x][v] # "none" => raw'[x][v] # "none"
  BY <1>3 DEF Settle
<1>4. ASSUME NEW w \in Workers, Fault(w) \/ FinishRun(w) \/ ResultGone(w)
      PROVE  raw' = raw \/ \E outcome \in RowOwner \ {"none"} : raw' = Settle(outcome)
  BY <1>4 DEF Fault, ReplaceOperation, NewOperation, Raise, OperationTerminal, ResultGone,
              RecordFailure, RaiseOutside, Crash, FinishRun, RowOwner
<1>5. ASSUME NEW w \in Workers, NEW x \in Objects, AppendRaw(w, x)
      PROVE  \A y \in Objects, v \in Versions : raw[y][v] # "none" => raw'[y][v] # "none"
  BY <1>5 DEF AppendRaw
<1>6. ASSUME NEW w \in Workers, Acquire(w) \/ Work(w), ~FinishRun(w), ~ResultGone(w),
             ~\E x \in Objects : AppendRaw(w, x)
      PROVE  raw' = raw
  <2>1. CASE \/ Acquire(w) \/ Claim(w) \/ StartRun(w) \/ Prepare(w) \/ ResumeOperation(w)
             \/ SaveCheckpoint(w) \/ Await(w) \/ NextQuery(w) \/ MapOrders(w)
    BY <2>1 DEF Acquire, Claim, StartRun, Prepare, ResumeOperation, SaveCheckpoint, Await,
                NextQuery, MapOrders
  <2>2. CASE StartOperation(w) \/ CompleteJobs(w) \/ Release(w) \/ \E o \in Orders : UpsertOrder(w, o)
    BY <2>2 DEF StartOperation, NewOperation, CompleteJobs, Release, UpsertOrder
  <2> QED
    BY <1>6, <2>1, <2>2 DEF Work
<1> QED
  BY <1>1, <1>2, <1>3, <1>4, <1>5, <1>6 DEF Next

LEMMA NextProgress == SafeInv /\ Progress /\ [Next]_vars => Progress'
<1> SUFFICES ASSUME SafeInv, Progress, [Next]_vars PROVE Progress'
  OBVIOUS
<1> USE DEF SafeInv
<1>1. CASE UNCHANGED vars \/ Environment
  BY <1>1 DEF vars, tables, local, faults, Environment, Change, Notify, ExpireResults, Progress,
              Delivered, Op
<1>2. ASSUME NEW w \in Workers, Acquire(w) PROVE Progress'
  BY <1>2 DEF Acquire, Progress, Delivered, Op, TypeOK, tables
<1>3. ASSUME NEW w \in Workers, Work(w) \/ Fault(w) PROVE Progress'
  <2> USE <1>3
  <2> DEFINE Rows == \A x \in Delivered(w) \ todo[w] : raw[x][Op(w).snap[x]] # "none"
             AllRows == \A x \in Delivered(w) : raw[x][Op(w).snap[x]] # "none"
             Orders_ == \A o \in Orders \ todo[w] : canon[o] = Op(w).snap[o]
  <2>1. SUFFICES ASSUME pc'[w] \in {"rows", "upsert"}
                 PROVE  /\ pc'[w] = "rows" => Rows'
                        /\ pc'[w] = "upsert" => AllRows' /\ Orders_'
    BY OthersIdle DEF Progress
  <2>2. ASSUME NEW x \in Delivered(w) PROVE x \in Objects /\ (Op(w) # NoOp => Op(w).snap[x] \in Versions)
    BY OperationType DEF Delivered, Snapshot, Versions
  <2>3. CASE Await(w)
    <3>1. pc'[w] = "rows" /\ Delivered(w)' = Delivered(w) /\ todo'[w] = Delivered(w)
      BY <2>3 DEF Await, Delivered, Op, TypeOK, tables, faults
    <3> QED
      BY <3>1
  <2>4. ASSUME NEW x \in Objects, AppendRaw(w, x) PROVE pc'[w] = "rows" /\ Rows'
    <3>1. /\ pc[w] = "rows" /\ pc' = pc /\ Delivered(w)' = Delivered(w) /\ Op(w)' = Op(w)
          /\ todo'[w] = todo[w] \ {x}
          /\ Op(w) # NoOp
      BY <2>4 DEF AppendRaw, Delivered, Op, TypeOK, OperationChosen
    <3>2. Rows
      BY <3>1 DEF Progress
    <3>3. x \in Delivered(w) => raw'[x][Op(w).snap[x]] # "none"
      <4> SUFFICES ASSUME x \in Delivered(w) PROVE raw'[x][Op(w).snap[x]] # "none"
        OBVIOUS
      <4>1. Op(w).snap[x] \in Versions
        BY <2>2, <3>1
      <4> QED
        BY <2>4, <4>1 DEF AppendRaw, TypeOK
    <3> QED
      BY <2>2, <3>1, <3>2, <3>3, RawKept
  <2>5. CASE MapOrders(w)
    <3>1. /\ pc[w] = "rows" /\ todo[w] = {} /\ at[w] = OrdersQuery /\ Op(w) # NoOp
          /\ pc'[w] = "upsert" /\ Delivered(w)' = Delivered(w) /\ Op(w)' = Op(w)
          /\ todo'[w] = Delivered(w) /\ raw' = raw /\ canon' = canon
      BY <2>5 DEF MapOrders, Delivered, Op, TypeOK, OperationChosen, tables
    <3>2. AllRows'
      BY <3>1 DEF Progress
    <3>3. ASSUME NEW o \in Orders, o \notin Delivered(w) PROVE canon[o] = Op(w).snap[o]
      <4>1. /\ o \in Objects /\ QueryOf[o] = at[w] /\ Op(w) = cp[w][OrdersQuery]
            /\ Op(w).snap[o] \in 0..MaxVersion /\ canon[o] \in 0..MaxVersion
        BY <3>1, OperationType DEF Orders, Op, Snapshot, TypeOK
      <4>2. Op(w).snap[o] = 0
        BY <3>3, <4>1 DEF Delivered
      <4>3. canon[o] <= Op(w).snap[o]
        BY <3>1, <4>1 DEF CanonBehind
      <4> QED
        BY <4>1, <4>2, <4>3
    <3> QED
      BY <3>1, <3>2, <3>3
  <2>6. ASSUME NEW o \in Orders, UpsertOrder(w, o) PROVE pc'[w] = "upsert" /\ AllRows' /\ Orders_'
    <3>1. /\ pc[w] = "upsert" /\ pc' = pc /\ Delivered(w)' = Delivered(w) /\ Op(w)' = Op(w)
          /\ todo'[w] = todo[w] \ {o} /\ raw' = raw
          /\ canon' = [canon EXCEPT ![o] = Op(w).snap[o]]
      BY <2>6 DEF UpsertOrder, Delivered, Op, TypeOK
    <3>2. AllRows /\ Orders_
      BY <3>1 DEF Progress
    <3> QED
      BY <3>1, <3>2 DEF TypeOK
  <2> QED
    BY <2>1, <2>3, <2>4, <2>5, <2>6, InFileSteps
<1> QED
  BY <1>1, <1>2, <1>3 DEF Next

LEMMA NextBacked ==
  SafeInv /\ Progress /\ CanonBackedByRaw /\ [Next]_vars => CanonBackedByRaw'
<1> SUFFICES ASSUME SafeInv, Progress, CanonBackedByRaw, [Next]_vars PROVE CanonBackedByRaw'
  OBVIOUS
<1> USE DEF SafeInv
<1>1. CASE canon' = canon
  <2>1. \A o \in Orders : canon[o] # 0 => o \in Objects /\ canon[o] \in Versions
    BY DEF TypeOK, Versions, Orders
  <2> QED
    BY <1>1, <2>1, RawKept DEF CanonBackedByRaw
<1>2. ASSUME NEW w \in Workers, NEW o \in Orders, UpsertOrder(w, o) PROVE CanonBackedByRaw'
  <2>1. /\ raw' = raw /\ pc[w] = "upsert" /\ at[w] = OrdersQuery
        /\ canon' = [canon EXCEPT ![o] = Op(w).snap[o]] /\ Op(w).snap[o] \in 0..MaxVersion
    BY <1>2, UpsertFacts DEF UpsertOrder
  <2>2. Op(w).snap[o] # 0 => o \in Delivered(w)
    BY <2>1 DEF Delivered, Orders
  <2>3. Op(w).snap[o] # 0 => raw[o][Op(w).snap[o]] # "none"
    BY <2>1, <2>2 DEF Progress
  <2> QED
    BY <2>1, <2>3 DEF CanonBackedByRaw, TypeOK
<1> QED
  BY <1>1, <1>2, CanonStep

LEMMA NextCompletedRun ==
  SafeInv /\ Progress /\ CompletedRunIsMaterialised /\ [Next]_vars => CompletedRunIsMaterialised'
<1> SUFFICES ASSUME SafeInv, Progress, CompletedRunIsMaterialised, [Next]_vars
             PROVE  CompletedRunIsMaterialised'
  OBVIOUS
<1> USE DEF SafeInv, CompletedRunIsMaterialised, tables, local, faults
<1>1. CASE latest' = latest /\ canon' = canon
  BY <1>1
<1>2. ASSUME NEW w \in Workers, FinishRun(w) PROVE CompletedRunIsMaterialised'
  <2>1. /\ pc[w] = "upsert" /\ todo[w] = {} /\ canon' = canon /\ latest'.cp = cp[w]
        /\ at[w] = OrdersQuery /\ Op(w) # NoOp
    BY <1>2 DEF FinishRun, OperationChosen
  <2> QED
    BY <2>1 DEF Progress, Op
<1>3. CASE ExpireResults
  BY <1>3 DEF ExpireResults, TypeOK
<1>4. ASSUME NEW w \in Workers, StartRun(w) \/ SaveCheckpoint(w) PROVE latest'.status # "COMPLETED"
  BY <1>4 DEF StartRun, SaveCheckpoint, OwnRun, InRun, TypeOK
<1>5. ASSUME NEW w \in Workers, Raise(w) \/ OperationTerminal(w) \/ ResultGone(w)
      PROVE  latest'.status # "COMPLETED"
  BY <1>5 DEF Raise, OperationTerminal, ResultGone, RecordFailure
<1>6. ASSUME NEW w \in Workers, NEW o \in Orders, UpsertOrder(w, o)
      PROVE  latest'.status # "COMPLETED"
  BY <1>6 DEF UpsertOrder, OwnRun, InRun
<1>7. CASE UNCHANGED vars \/ \E x \in Objects : Change(x) \/ (\E v \in Versions : Notify(x, v))
  BY <1>7 DEF vars, Change, Notify
<1>8. ASSUME NEW w \in Workers,
             \/ Acquire(w) \/ Claim(w) \/ CompleteJobs(w) \/ Release(w) \/ Prepare(w)
             \/ ResumeOperation(w) \/ StartOperation(w) \/ ReplaceOperation(w)
      PROVE  latest' = latest /\ canon' = canon
  BY <1>8 DEF Acquire, Claim, CompleteJobs, Release, Prepare, ResumeOperation, StartOperation,
              ReplaceOperation, NewOperation
<1>9. ASSUME NEW w \in Workers,
             \/ Await(w) \/ NextQuery(w) \/ MapOrders(w) \/ RaiseOutside(w) \/ Crash(w)
             \/ \E x \in Objects : AppendRaw(w, x)
      PROVE  latest' = latest /\ canon' = canon
  BY <1>9 DEF Await, NextQuery, MapOrders, RaiseOutside, Crash, AppendRaw
<1> QED
  BY <1>1, <1>2, <1>3, <1>4, <1>5, <1>6, <1>7, <1>8, <1>9 DEF Next, Environment, Work, Fault

-------------------------------------------------------------------------------
(* Webhook jobs.                                                           *)

\* The part of a worker's run in which it holds the orders operation.
OrdersSteps == {"checkpoint", "await", "rows", "upsert", "complete"}

LEMMA NextFresh ==
  SafeInv /\ FreshSyncCoversClaims /\ [Next]_vars => FreshSyncCoversClaims'
<1> SUFFICES ASSUME SafeInv, FreshSyncCoversClaims, [Next]_vars PROVE FreshSyncCoversClaims'
  OBVIOUS
<1> USE DEF SafeInv, tables, local, faults
<1>1. CASE UNCHANGED vars \/ \E x \in Objects : Change(x) \/ (\E v \in Versions : Notify(x, v))
  BY <1>1 DEF vars, Change, Notify, FreshSyncCoversClaims, Op, TypeOK, Orders
<1>2. CASE ExpireResults
  BY <1>2 DEF ExpireResults, FreshSyncCoversClaims, Op
<1>3. ASSUME NEW w \in Workers, Acquire(w) PROVE FreshSyncCoversClaims'
  BY <1>3 DEF Acquire, FreshSyncCoversClaims, Op, TypeOK
<1>4. ASSUME NEW w \in Workers, Work(w) \/ Fault(w) PROVE FreshSyncCoversClaims'
  <2> USE <1>4
  <2>1. SUFFICES ASSUME fresh'[w], at'[w] = OrdersQuery, pc'[w] \in OrdersSteps,
                        NEW o \in Orders, NEW v \in Versions, jobs'[o][v] = "RUNNING"
                 PROVE  v <= Op(w).snap[o]'
    BY OthersIdle DEF FreshSyncCoversClaims, OrdersSteps
  <2>2. o \in Objects /\ QueryOf[o] = OrdersQuery
    BY DEF Orders
  <2>3. CASE StartOperation(w) \/ ReplaceOperation(w)
    <3>1. /\ Op(w)' = [snap |-> SnapshotOf(at[w]), expired |-> FALSE]
          /\ jobs' = jobs /\ at' = at
      <4>1. NewOperation(w)
        BY <2>3 DEF StartOperation, ReplaceOperation
      <4>2. cp' = [cp EXCEPT ![w][at[w]] = [snap |-> SnapshotOf(at[w]), expired |-> FALSE]]
            /\ jobs' = jobs /\ at' = at
        BY <4>1 DEF NewOperation
      <4> QED
        BY <4>2 DEF Op, TypeOK, Checkpoints
    <3>2. Op(w).snap[o]' = store[o]
      BY <2>1, <2>2, <3>1 DEF SnapshotOf
    <3>3. v <= store[o]
      BY <2>1, <2>2, <3>1 DEF SnapshotsReal
    <3> QED
      BY <3>2, <3>3
  <2>4. CASE \/ Claim(w) \/ StartRun(w) \/ Prepare(w) \/ ResumeOperation(w) \/ NextQuery(w)
             \/ CompleteJobs(w) \/ RaiseOutside(w) \/ Release(w) \/ Crash(w)
    BY <2>1, <2>4 DEF Claim, StartRun, Prepare, ResumeOperation, NextQuery, CompleteJobs,
                      RaiseOutside, Release, Crash, Forget, OrdersSteps, TypeOK
  <2>5. CASE Raise(w) \/ OperationTerminal(w) \/ ResultGone(w)
    BY <2>1, <2>5 DEF Raise, OperationTerminal, ResultGone, RecordFailure, OrdersSteps, TypeOK
  <2>6. CASE \/ SaveCheckpoint(w) \/ Await(w) \/ MapOrders(w) \/ FinishRun(w)
             \/ \E x \in Objects : AppendRaw(w, x)
             \/ \E p \in Orders : UpsertOrder(w, p)
    <3>1. /\ pc[w] \in OrdersSteps /\ at' = at /\ fresh' = fresh /\ jobs' = jobs /\ cp' = cp
      BY <2>6 DEF SaveCheckpoint, Await, MapOrders, FinishRun, AppendRaw, UpsertOrder, OrdersSteps
    <3> QED
      BY <2>1, <3>1 DEF FreshSyncCoversClaims, Op, OrdersSteps
  <2> QED
    BY <2>3, <2>4, <2>5, <2>6 DEF Work, Fault
<1> QED
  BY <1>1, <1>2, <1>3, <1>4 DEF Next, Environment

LEMMA InitLate == Init => Progress /\ CanonBackedByRaw /\ CompletedRunIsMaterialised /\ FreshSyncCoversClaims
  BY DEF Init, Progress, CanonBackedByRaw, CompletedRunIsMaterialised, FreshSyncCoversClaims

LEMMA SyncInvariant == Spec => []SyncInv
<1>1. Init => SyncInv
  BY InitType, InitChosen, InitLock, InitOwnRun, InitSnapshots, InitLate DEF SyncInv
<1>2. SyncInv /\ [Next]_vars => SyncInv'
  BY NextType, NextChosen, NextLock, NextOwnRun, NextSnapshots, NextCanonBehind,
     NextProgress, NextBacked, NextCompletedRun, NextFresh
  DEF SyncInv, SafeInv
<1> QED
  BY <1>1, <1>2, PTL DEF Spec

\* The row the dashboard calls COMPLETED stands for orders materialised to the last one.
THEOREM CompletedRunSafe == Spec => []CompletedRunIsMaterialised
<1>1. SyncInv => CompletedRunIsMaterialised
  BY DEF SyncInv
<1> QED
  BY <1>1, SyncInvariant, PTL

\* No canonical order without the immutable raw row it was mapped from.
THEOREM BackedByRaw == Spec => []CanonBackedByRaw
<1>1. SyncInv => CanonBackedByRaw
  BY DEF SyncInv
<1> QED
  BY <1>1, SyncInvariant, PTL

\* A run that started its own orders operation covers every change it claimed a job for.
THEOREM FreshCovers == Spec => []FreshSyncCoversClaims
<1>1. SyncInv => FreshSyncCoversClaims
  BY DEF SyncInv
<1> QED
  BY <1>1, SyncInvariant, PTL

\* The only step that closes jobs is CompleteJobs, and it comes after a run whose row is
\* COMPLETED; unless that run reused a saved operation, the closed changes are canonical.
THEOREM JobsClosedSafely == Spec => JobsClosedAfterIngestion
<1> DEFINE Closing(o, v) == jobs[o][v] # "COMPLETED" /\ jobs'[o][v] = "COMPLETED"
           Ingested(o, v) ==
              /\ jobs[o][v] = "RUNNING"
              /\ latest.status = "COMPLETED"
              /\ \E w \in Workers : pc[w] = "complete" /\ (fresh[w] => v <= canon[o])
<1>1. SyncInv /\ [Next]_vars => [\A o \in Orders, v \in Versions : Closing(o, v) => Ingested(o, v)]_jobs
  <2> SUFFICES ASSUME SyncInv, [Next]_vars, NEW o \in Orders, NEW v \in Versions, Closing(o, v)
               PROVE  Ingested(o, v)
    OBVIOUS
  <2> USE DEF SyncInv, tables, local, faults
  <2>0. o \in Objects
    BY DEF Orders
  <2>1. ~(UNCHANGED vars)
    BY DEF vars
  <2>2. ~Environment
    <3>1. ASSUME NEW x \in Objects, NEW u \in Versions PROVE ~Notify(x, u)
      BY <2>0 DEF Notify, TypeOK
    <3> QED
      BY <3>1 DEF Environment, Change, ExpireResults
  <2>3. ASSUME NEW w \in Workers PROVE ~(Acquire(w) \/ Fault(w))
    BY Forgotten DEF Acquire, Fault, ReplaceOperation, NewOperation, Raise, OperationTerminal,
                     RecordFailure, RaiseOutside
  <2>4. ASSUME NEW w \in Workers, Work(w) PROVE CompleteJobs(w)
    <3>1. ~(Claim(w) \/ StartRun(w) \/ Prepare(w) \/ SaveCheckpoint(w) \/ FinishRun(w))
      BY <2>0 DEF Claim, Claimed, StartRun, Prepare, SaveCheckpoint, FinishRun
    <3>2. ~(ResumeOperation(w) \/ StartOperation(w) \/ Await(w) \/ NextQuery(w) \/ MapOrders(w))
      BY DEF ResumeOperation, StartOperation, NewOperation, Await, NextQuery, MapOrders
    <3>3. ~(Release(w) \/ ResultGone(w) \/ (\E x \in Objects : AppendRaw(w, x))
            \/ (\E p \in Orders : UpsertOrder(w, p)))
      BY Forgotten DEF ResultGone, RecordFailure, AppendRaw, UpsertOrder
    <3> QED
      BY <2>4, <3>1, <3>2, <3>3 DEF Work
  <2>5. PICK w \in Workers : CompleteJobs(w)
    BY <2>1, <2>2, <2>3, <2>4 DEF Next
  <2>6. jobs[o][v] = "RUNNING" /\ pc[w] = "complete"
    BY <2>0, <2>5 DEF CompleteJobs, Closed
  <2>7. /\ latest.status = "COMPLETED" /\ latest.cp = cp[w]
        /\ at[w] = OrdersQuery
        /\ canon[o] = latest.cp[OrdersQuery].snap[o]
    BY <2>6 DEF OwnRun, OperationChosen, CompletedRunIsMaterialised
  <2>8. fresh[w] => v <= canon[o]
    BY <2>6, <2>7 DEF FreshSyncCoversClaims, Op
  <2> QED
    BY <2>6, <2>7, <2>8
<1> QED
  BY <1>1, SyncInvariant, PTL DEF Spec, JobsClosedAfterIngestion

===============================================================================
