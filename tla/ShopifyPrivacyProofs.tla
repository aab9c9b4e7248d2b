------------------------- MODULE ShopifyPrivacyProofs --------------------------
(***************************************************************************)
(* Proofs about ShopifyPrivacy, for every number of customers, syncs and   *)
(* faults and every retention period.  The inductive invariant adds to the *)
(* properties what a sync carries: only customers Shopify knew when its    *)
(* operation was started, and the row of its run only while the shop has   *)
(* not been purged under it.                                               *)
(***************************************************************************)
EXTENDS ShopifyPrivacy, TLAPS

-------------------------------------------------------------------------------
(* The inductive invariant.                                                *)

\* A customer whose redaction was sent is not delivered by a new operation.
ErasedUnknown == \A c \in Customers : hook[c] # "none" => c \notin known

\* The rows a sync still has to append are those of its operation.
RowsOfSnapshot == sync.step = "rows" => sync.todo \subseteq sync.snap

\* A sync that outlives the purge of its shop has lost the row of its run.
PurgedRunIsGone == conn = "none" /\ sync # Idle => ~sync.stored

IInv ==
    /\ TypeOK
    /\ ErasedUnknown
    /\ RowsOfSnapshot
    /\ PurgedRunIsGone
    /\ PurgedDataIsOrphaned

-------------------------------------------------------------------------------
(* Types.                                                                  *)

LEMMA ConstantTypes ==
    /\ 0 \in 0..RawDays /\ 0 \in 0..ExportDays /\ 0 \in 0..MaxAttempts
    /\ 0 \in 0..MaxSyncs /\ 0 \in 0..MaxFaults
    /\ 0 \in Delays /\ 1 \in Delays /\ Grace \in Delays /\ RedactDelay \in Delays
BY PrivacyAssumption DEF Delays

LEMMA NewJobType ==
  ASSUME NEW k \in Kinds, NEW c \in Customers \cup {NoCustomer}, NEW d \in Delays
  PROVE  NewJob(k, c, d) \in Job
BY ConstantTypes DEF NewJob, Job

LEMMA IdleType == Idle \in SyncState
BY DEF Idle, SyncState

LEMMA InitType == Init => TypeOK
<1> SUFFICES ASSUME Init PROVE TypeOK
  OBVIOUS
<1> USE ConstantTypes DEF Init
<1>1. \A c \in requested : [NewJob("SHOPIFY_CUSTOMER_DATA_EXPORT", c, 0) EXCEPT !.legacy = TRUE] \in Job
  <2> SUFFICES ASSUME NEW c \in requested
               PROVE  [NewJob("SHOPIFY_CUSTOMER_DATA_EXPORT", c, 0) EXCEPT !.legacy = TRUE] \in Job
    OBVIOUS
  <2>1. c \in Customers
    BY PrivacyAssumption
  <2>2. NewJob("SHOPIFY_CUSTOMER_DATA_EXPORT", c, 0) \in Job
    BY <2>1, NewJobType DEF Kinds
  <2> QED
    BY <2>2 DEF Job
<1>2. jobs \in SUBSET Job
  BY <1>1
<1>3. requested \subseteq Customers
  BY PrivacyAssumption
<1> QED
  BY <1>2, <1>3, IdleType DEF TypeOK

LEMMA FaultType == TypeOK /\ Fault => faults' \in 0..MaxFaults
BY PrivacyAssumption DEF TypeOK, Fault

LEMMA SettleType ==
  ASSUME TypeOK, NEW o \in Outcomes, Settle(o)
  PROVE  raw' \in [Customers -> RawRow \cup {NoRow}]
<1>1. ASSUME NEW c \in Customers, raw[c] # NoRow
      PROVE  [raw[c] EXCEPT !.run = o] \in RawRow
  BY <1>1 DEF TypeOK, RawRow
<1> QED
  BY <1>1 DEF TypeOK, Settle

LEMMA OlderType == ASSUME NEW n \in Nat, NEW a \in 0..n PROVE Older(a, n) \in 0..n
BY DEF Older

LEMMA TickType == TypeOK /\ Tick => TypeOK'
<1> SUFFICES ASSUME TypeOK, Tick PROVE TypeOK'
  OBVIOUS
<1>1. raw' \in [Customers -> RawRow \cup {NoRow}]
  <2>1. ASSUME NEW c \in Customers, raw[c] # NoRow
        PROVE  [raw[c] EXCEPT !.age = Older(@, RawDays)] \in RawRow
    <3>1. raw[c] \in RawRow
      BY <2>1 DEF TypeOK
    <3>2. Older(raw[c].age, RawDays) \in 0..RawDays
      BY <3>1, OlderType, PrivacyAssumption DEF RawRow
    <3> QED
      BY <3>1, <3>2 DEF RawRow
  <2> QED
    BY <2>1 DEF Tick, TypeOK
<1>2. export' \in [Customers -> Export \cup {NoRow}]
  <2>1. ASSUME NEW c \in Customers, export[c] # NoRow
        PROVE  [export[c] EXCEPT !.age = Older(@, ExportDays)] \in Export
    <3>1. export[c] \in Export
      BY <2>1 DEF TypeOK
    <3>2. Older(export[c].age, ExportDays) \in 0..ExportDays
      BY <3>1, OlderType, PrivacyAssumption DEF Export
    <3> QED
      BY <3>1, <3>2 DEF Export
  <2> QED
    BY <2>1 DEF Tick, TypeOK
<1>3. jobs' \in SUBSET Job
  <2>1. ASSUME NEW j \in jobs
        PROVE  [j EXCEPT !.left = IF @ > 0 THEN @ - 1 ELSE 0] \in Job
    <3>1. j \in Job
      BY <2>1 DEF TypeOK
    <3>2. (IF j.left > 0 THEN j.left - 1 ELSE 0) \in Delays
      BY <3>1, PrivacyAssumption DEF Job, Delays
    <3> QED
      BY <3>1, <3>2 DEF Job
  <2> QED
    BY <2>1 DEF Tick
<1> QED
  BY <1>1, <1>2, <1>3 DEF Tick, TypeOK

\* What either branch of the maintenance does to the data of the shop.
LEMMA MaintainedType ==
  ASSUME TypeOK, Purge \/ Cutoffs
  PROVE  /\ raw' \in [Customers -> RawRow \cup {NoRow}]
         /\ hook' \in [Customers -> {"none", "sent", "handling", "done", "ignored", "lost"}]
         /\ conn' \in {"none", "CONNECTED", "UNINSTALLED", "SHOP_REDACTION_PENDING"}
         /\ order' \in [Customers -> {"none", "linked", "anonymous", "CUSTOMER_REDACTED"}]
         /\ profile' \subseteq Customers
         /\ saved' \subseteq SUBSET Customers /\ \A s, t \in saved' : s = t
         /\ sync' \in SyncState
<1>1. CASE Purge
  <2>1. sync' \in SyncState
    BY <1>1, IdleType DEF Purge, TypeOK, SyncState
  <2> QED
    BY <1>1, <2>1 DEF Purge, TypeOK
<1>2. CASE Cutoffs
  BY <1>2 DEF Cutoffs, TypeOK
<1> QED
  BY <1>1, <1>2

LEMMA RetriedType ==
  ASSUME TypeOK, NEW bad \in SUBSET Due, NEW retried \in Retried(bad)
  PROVE  retried \in SUBSET Job
<1> DEFINE ahead == {p \in jobs : p.customer = NoCustomer /\ p.left <= 1}
           kinds(ps) == {p.kind : p \in ps}
           behind(tied, j) == IF j.legacy THEN kinds(ahead \ Due) \cup kinds(tied) ELSE {}
           retry(j, b) == [j EXCEPT !.attempts = @ + 1, !.left = 1, !.behind = b]
<1>1. PICK tied \in SUBSET (bad \cap ahead) : retried = {retry(j, behind(tied, j)) : j \in bad}
  BY DEF Retried
<1>2. \A ps \in SUBSET jobs : kinds(ps) \subseteq Kinds
  BY DEF TypeOK, Job
<1>3. ASSUME NEW j \in bad PROVE retry(j, behind(tied, j)) \in Job
  <2>1. j \in Job /\ j.attempts < MaxAttempts
    BY DEF Due, TypeOK
  <2>2. j.attempts + 1 \in 0..MaxAttempts
    BY <2>1, PrivacyAssumption DEF Job
  <2>3. ahead \ Due \in SUBSET jobs /\ tied \in SUBSET jobs
    OBVIOUS
  <2>4. behind(tied, j) \in SUBSET Kinds
    <3>1. kinds(ahead \ Due) \subseteq Kinds
      BY <1>2, <2>3
    <3>2. kinds(tied) \subseteq Kinds
      BY <1>2, <2>3
    <3> HIDE DEF kinds
    <3> QED
      BY <3>1, <3>2
  <2> HIDE DEF behind
  <2> QED
    BY <2>1, <2>2, <2>4, ConstantTypes DEF Job
<1> HIDE DEF retry, behind
<1> QED
  BY <1>1, <1>3

LEMMA MaintainType == TypeOK /\ Maintain => TypeOK'
<1> SUFFICES ASSUME TypeOK, Maintain PROVE TypeOK'
  OBVIOUS
<1>1. PICK bad \in SUBSET Due :
         /\ IF bad = {} THEN UNCHANGED faults ELSE Fault
         /\ LET done == Due \ bad
                purge == \E j \in done : Purges(j)
            IN  /\ IF purge THEN Purge ELSE Cutoffs
                /\ \E rows \in [Customers -> Export \cup {NoRow}] :
                       /\ \A c \in Customers : rows[c] \in ExportRow(c, done, purge)
                       /\ export' = rows
                /\ \E retried \in Retried(bad) : jobs' = (jobs \ Due) \cup retried
  BY DEF Maintain
<1>2. faults' \in 0..MaxFaults
  BY <1>1, FaultType DEF TypeOK
<1>3. export' \in [Customers -> Export \cup {NoRow}]
  BY <1>1
<1>4. jobs' \in SUBSET Job
  <2>1. PICK retried \in Retried(bad) : jobs' = (jobs \ Due) \cup retried
    BY <1>1
  <2>2. retried \in SUBSET Job
    BY <2>1, RetriedType
  <2> QED
    BY <2>1, <2>2 DEF TypeOK
<1>5. Purge \/ Cutoffs
  BY <1>1
<1>6. UNCHANGED <<known, requested, revoked, syncs>>
  BY DEF Maintain
<1> QED
  BY <1>2, <1>3, <1>4, <1>5, <1>6, MaintainedType DEF TypeOK

LEMMA NextType == TypeOK /\ [Next]_vars => TypeOK'
<1> SUFFICES ASSUME TypeOK, [Next]_vars PROVE TypeOK'
  OBVIOUS
<1> USE ConstantTypes DEF shopData
<1>1. ASSUME NEW c \in Customers, Erase(c) PROVE TypeOK'
  BY <1>1 DEF Erase, TypeOK
<1>2. ASSUME NEW c \in Customers, DataRequest(c) PROVE TypeOK'
  <2>1. NewJob("SHOPIFY_CUSTOMER_DATA_EXPORT", c, 0) \in Job
    BY NewJobType DEF Kinds
  <2> QED
    BY <1>2, <2>1 DEF DataRequest, TypeOK
<1>3. ASSUME NEW topic \in ShopTopics, NEW kind \in Kinds, NEW d \in Delays,
             NEW status \in {"UNINSTALLED", "SHOP_REDACTION_PENDING"},
             RevokeShop(topic, status, kind, d)
      PROVE  TypeOK'
  <2>1. NewJob(kind, NoCustomer, d) \in Job
    BY NewJobType
  <2> QED
    BY <1>3, <2>1 DEF RevokeShop, TypeOK
<1>4. ASSUME Uninstall PROVE TypeOK'
  BY <1>3, <1>4 DEF Uninstall, ShopTopics, Kinds
<1>5. ASSUME RedactShop PROVE TypeOK'
  BY <1>3, <1>5 DEF RedactShop, ShopTopics, Kinds
<1>6. ASSUME Reconnect PROVE TypeOK'
  BY <1>6 DEF Reconnect, TypeOK
<1>7. ASSUME StartSync PROVE TypeOK'
  <2>1. \A snap \in {known} \cup saved :
            [step |-> "rows", snap |-> snap, todo |-> snap, stored |-> TRUE] \in SyncState
    BY DEF TypeOK, SyncState
  <2>2. sync' \in SyncState
    BY <1>7, <2>1 DEF StartSync
  <2>3. syncs' \in 0..MaxSyncs
    BY <1>7, PrivacyAssumption DEF StartSync, TypeOK
  <2> QED
    BY <1>7, <2>2, <2>3 DEF StartSync, TypeOK
<1>8. ASSUME NEW c \in Customers, AppendRaw(c) PROVE TypeOK'
  <2>1. \A r \in {"RUNNING", "GONE"} : [run |-> r, age |-> 0] \in RawRow
    BY DEF RawRow, Outcomes
  <2>2. raw' \in [Customers -> RawRow \cup {NoRow}]
    BY <1>8, <2>1 DEF AppendRaw, TypeOK
  <2>3. sync' \in SyncState
    BY <1>8 DEF AppendRaw, TypeOK, SyncState
  <2> QED
    BY <1>8, <2>2, <2>3 DEF AppendRaw, TypeOK
<1>9. ASSUME NEW c \in Customers, UpsertOrder(c) PROVE TypeOK'
  <2>1. sync' \in SyncState
    BY <1>9 DEF UpsertOrder, TypeOK, SyncState
  <2> QED
    BY <1>9, <2>1 DEF UpsertOrder, TypeOK
<1>10. ASSUME MapOrders PROVE TypeOK'
  <2>1. sync' \in SyncState
    BY <1>10 DEF MapOrders, TypeOK, SyncState
  <2> QED
    BY <1>10, <2>1 DEF MapOrders, TypeOK
<1>11. ASSUME FinishSync PROVE TypeOK'
  BY <1>11, SettleType, IdleType DEF FinishSync, TypeOK, Outcomes
<1>12. ASSUME FailSync PROVE TypeOK'
  <2>1. saved' \subseteq SUBSET Customers /\ \A s, t \in saved' : s = t
    BY <1>12 DEF FailSync, TypeOK, SyncState
  <2>2. raw' \in [Customers -> RawRow \cup {NoRow}]
    BY <1>12, SettleType DEF FailSync, Outcomes
  <2>3. faults' \in 0..MaxFaults
    BY <1>12, FaultType DEF FailSync
  <2> QED
    BY <1>12, <2>1, <2>2, <2>3, IdleType DEF FailSync, TypeOK
<1>13. ASSUME CrashSync PROVE TypeOK'
  <2>1. raw' \in [Customers -> RawRow \cup {NoRow}]
    BY <1>13, SettleType DEF CrashSync, Outcomes
  <2>2. faults' \in 0..MaxFaults
    BY <1>13, FaultType DEF CrashSync
  <2> QED
    BY <1>13, <2>1, <2>2, IdleType DEF CrashSync, TypeOK
<1>14. ASSUME NEW c \in Customers, Receive(c) PROVE TypeOK'
  BY <1>14 DEF Receive, TypeOK
<1>15. ASSUME NEW c \in Customers, RedactCustomer(c) PROVE TypeOK'
  BY <1>15 DEF RedactCustomer, Handled, TypeOK
<1>16. ASSUME NEW c \in Customers, RejectHook(c) PROVE TypeOK'
  BY <1>16 DEF RejectHook, TypeOK
<1>17. ASSUME NEW c \in Customers, LoseHook(c) PROVE TypeOK'
  <2>1. faults' \in 0..MaxFaults
    BY <1>17, FaultType DEF LoseHook
  <2> QED
    BY <1>17, <2>1 DEF LoseHook, TypeOK
<1>18. ASSUME UNCHANGED vars PROVE TypeOK'
  BY <1>18 DEF vars, TypeOK
<1> QED
  BY <1>1, <1>2, <1>4, <1>5, <1>6, <1>7, <1>8, <1>9, <1>10, <1>11, <1>12, <1>13, <1>14,
     <1>15, <1>16, <1>17, <1>18, TickType, MaintainType
  DEF Next, Shopify, Sync, Deliver

-------------------------------------------------------------------------------
(* The parts of the invariant.                                             *)

LEMMA InitInv == Init => IInv
<1> SUFFICES ASSUME Init PROVE IInv
  OBVIOUS
<1>1. ErasedUnknown /\ PurgedDataIsOrphaned
  BY DEF Init, ErasedUnknown, PurgedDataIsOrphaned
<1>2. RowsOfSnapshot /\ PurgedRunIsGone
  BY DEF Init, RowsOfSnapshot, PurgedRunIsGone, Idle
<1> QED
  BY <1>1, <1>2, InitType DEF IInv

LEMMA MaintainSplits ==
  Maintain => (Purge \/ Cutoffs) /\ UNCHANGED <<known, requested, revoked, syncs>>
BY DEF Maintain

LEMMA RevokeSplits ==
  Uninstall \/ RedactShop =>
      /\ conn # "none" /\ conn' # "none"
      /\ raw' = [c \in Customers |-> NoRow]
      /\ UNCHANGED <<known, hook, requested, order, profile, sync, saved, export>>
BY DEF Uninstall, RedactShop, RevokeShop

LEMMA ErasedUnknownStep == TypeOK /\ ErasedUnknown /\ [Next]_vars => ErasedUnknown'
<1> SUFFICES ASSUME TypeOK, ErasedUnknown, [Next]_vars PROVE ErasedUnknown'
  OBVIOUS
<1> USE DEF ErasedUnknown
<1>1. ASSUME NEW c \in Customers, Erase(c) PROVE ErasedUnknown'
  BY <1>1 DEF Erase, TypeOK
<1>2. ASSUME NEW c \in Customers, Receive(c) \/ RejectHook(c) \/ LoseHook(c) PROVE ErasedUnknown'
  BY <1>2 DEF Receive, RejectHook, LoseHook, TypeOK
<1>3. ASSUME NEW c \in Customers, RedactCustomer(c) PROVE ErasedUnknown'
  BY <1>3 DEF RedactCustomer, Handled, TypeOK
<1>4. ASSUME Maintain PROVE ErasedUnknown'
  <2>1. known' = known /\ (Purge \/ Cutoffs)
    BY <1>4, MaintainSplits
  <2>2. \A c \in Customers : hook'[c] # "none" => hook[c] # "none"
    BY <2>1 DEF Purge, Cutoffs, TypeOK
  <2> QED
    BY <2>1, <2>2
<1>5. ASSUME UNCHANGED <<known, hook>> PROVE ErasedUnknown'
  BY <1>5
<1> QED
  BY <1>1, <1>2, <1>3, <1>4, <1>5, RevokeSplits
  DEF Next, Shopify, Sync, Deliver, DataRequest, Reconnect, StartSync, AppendRaw,
      UpsertOrder, MapOrders, FinishSync, FailSync, CrashSync, Tick, vars

LEMMA SyncStep ==
  ASSUME TypeOK, RowsOfSnapshot, PurgedRunIsGone, [Next]_vars
  PROVE  RowsOfSnapshot' /\ PurgedRunIsGone'
<1> USE DEF RowsOfSnapshot, PurgedRunIsGone
<1>1. ASSUME StartSync PROVE RowsOfSnapshot' /\ PurgedRunIsGone'
  BY <1>1 DEF StartSync
<1>2. ASSUME NEW c \in Customers, AppendRaw(c) PROVE RowsOfSnapshot' /\ PurgedRunIsGone'
  <2>1. /\ sync.step = "rows" /\ conn' = conn
        /\ sync' = [sync EXCEPT !.todo = sync.todo \ {c}]
    BY <1>2 DEF AppendRaw
  <2>2. /\ sync'.step = "rows" /\ sync'.snap = sync.snap /\ sync'.stored = sync.stored
        /\ sync'.todo \subseteq sync.todo
    BY <2>1 DEF TypeOK, SyncState
  <2>3. sync # Idle
    BY <2>1 DEF Idle
  <2> QED
    BY <2>1, <2>2, <2>3
<1>3. ASSUME NEW c \in Customers, UpsertOrder(c) PROVE RowsOfSnapshot' /\ PurgedRunIsGone'
  <2>1. /\ sync.step = "upsert" /\ conn' = conn
        /\ sync' = [sync EXCEPT !.todo = sync.todo \ {c}]
    BY <1>3 DEF UpsertOrder
  <2>2. sync'.step = "upsert" /\ sync'.stored = sync.stored
    BY <2>1 DEF TypeOK, SyncState
  <2>3. sync # Idle
    BY <2>1 DEF Idle
  <2> QED
    BY <2>1, <2>2, <2>3
<1>4. ASSUME MapOrders PROVE RowsOfSnapshot' /\ PurgedRunIsGone'
  <2>1. /\ sync.step = "rows" /\ conn' = conn
        /\ sync' = [sync EXCEPT !.step = "upsert", !.todo = Customers]
    BY <1>4 DEF MapOrders
  <2>2. sync'.step = "upsert" /\ sync'.stored = sync.stored
    BY <2>1 DEF TypeOK, SyncState
  <2>3. sync # Idle
    BY <2>1 DEF Idle
  <2> QED
    BY <2>1, <2>2, <2>3
<1>5. ASSUME FinishSync \/ FailSync \/ CrashSync PROVE RowsOfSnapshot' /\ PurgedRunIsGone'
  BY <1>5 DEF FinishSync, FailSync, CrashSync, Idle
<1>6. ASSUME Maintain PROVE RowsOfSnapshot' /\ PurgedRunIsGone'
  <2>1. CASE Purge
    <3>1. CASE sync = Idle
      BY <2>1, <3>1 DEF Purge, Idle
    <3>2. CASE sync # Idle
      <4>1. sync' = [sync EXCEPT !.stored = FALSE]
        BY <2>1, <3>2 DEF Purge
      <4>2. /\ sync'.step = sync.step /\ sync'.snap = sync.snap /\ sync'.todo = sync.todo
            /\ ~sync'.stored
        BY <4>1 DEF TypeOK, SyncState
      <4> QED
        BY <4>2
    <3> QED
      BY <3>1, <3>2
  <2>2. CASE Cutoffs
    BY <2>2 DEF Cutoffs
  <2> QED
    BY <1>6, <2>1, <2>2, MaintainSplits
<1>7. ASSUME Uninstall \/ RedactShop \/ Reconnect PROVE RowsOfSnapshot' /\ PurgedRunIsGone'
  BY <1>7, RevokeSplits DEF Reconnect
<1>8. ASSUME UNCHANGED <<conn, sync>> PROVE RowsOfSnapshot' /\ PurgedRunIsGone'
  BY <1>8
<1> QED
  BY <1>1, <1>2, <1>3, <1>4, <1>5, <1>6, <1>7, <1>8
  DEF Next, Shopify, Sync, Deliver, Erase, DataRequest, Receive, RedactCustomer, RejectHook,
      LoseHook, Tick, vars

LEMMA OrphanStep ==
  ASSUME TypeOK, PurgedRunIsGone, PurgedDataIsOrphaned, [Next]_vars
  PROVE  PurgedDataIsOrphaned'
<1> USE DEF PurgedDataIsOrphaned
<1>1. ASSUME NEW c \in Customers, AppendRaw(c) PROVE PurgedDataIsOrphaned'
  <2> SUFFICES ASSUME conn = "none", NEW d \in Customers, raw'[d] # NoRow
               PROVE  raw'[d].run = "GONE"
    BY <1>1 DEF AppendRaw
  <2>1. ~sync.stored
    <3>1. sync # Idle
      BY <1>1 DEF AppendRaw, Idle
    <3> QED
      BY <3>1 DEF PurgedRunIsGone
  <2>2. raw' = raw \/ raw' = [raw EXCEPT ![c] = [run |-> "GONE", age |-> 0]]
    BY <1>1, <2>1 DEF AppendRaw
  <2> QED
    BY <2>2 DEF TypeOK
<1>2. ASSUME NEW o \in Outcomes, Settle(o), conn' = conn PROVE PurgedDataIsOrphaned'
  <2> SUFFICES ASSUME conn = "none", NEW d \in Customers, raw'[d] # NoRow
               PROVE  raw'[d].run = "GONE"
    BY <1>2
  <2>1. CASE raw[d] # NoRow /\ raw[d].run = "RUNNING"
    BY <2>1
  <2>2. CASE ~(raw[d] # NoRow /\ raw[d].run = "RUNNING")
    <3>1. raw'[d] = raw[d]
      BY <1>2, <2>2 DEF Settle
    <3> QED
      BY <3>1
  <2> QED
    BY <2>1, <2>2
<1>3. ASSUME FinishSync \/ FailSync \/ CrashSync PROVE PurgedDataIsOrphaned'
  BY <1>2, <1>3 DEF FinishSync, FailSync, CrashSync, Outcomes
<1>4. ASSUME NEW c \in Customers, RedactCustomer(c) PROVE PurgedDataIsOrphaned'
  BY <1>4 DEF RedactCustomer, TypeOK
<1>5. ASSUME Tick PROVE PurgedDataIsOrphaned'
  <2> SUFFICES ASSUME conn = "none", NEW d \in Customers, raw'[d] # NoRow
               PROVE  raw'[d].run = "GONE"
    BY <1>5 DEF Tick
  <2>1. raw[d] # NoRow /\ raw'[d] = [raw[d] EXCEPT !.age = Older(@, RawDays)]
    BY <1>5 DEF Tick
  <2>2. raw[d] \in RawRow /\ raw[d].run = "GONE"
    BY <2>1 DEF TypeOK
  <2> QED
    BY <2>1, <2>2 DEF RawRow
<1>6. ASSUME Maintain PROVE PurgedDataIsOrphaned'
  <2>1. CASE Purge
    BY <2>1 DEF Purge
  <2>2. CASE Cutoffs
    BY <2>2 DEF Cutoffs
  <2> QED
    BY <1>6, <2>1, <2>2, MaintainSplits
<1>7. ASSUME UNCHANGED <<conn, raw>> \/ Reconnect \/ Uninstall \/ RedactShop
      PROVE  PurgedDataIsOrphaned'
  BY <1>7, RevokeSplits DEF Reconnect
<1> QED
  BY <1>1, <1>3, <1>4, <1>5, <1>6, <1>7
  DEF Next, Shopify, Sync, Deliver, Erase, DataRequest, StartSync, UpsertOrder, MapOrders,
      Receive, RejectHook, LoseHook, vars, shopData

\* What every step of Shopify, the syncs, the webhooks and the maintenance keeps.
THEOREM Invariant == Spec => []IInv
<1>1. Init => IInv
  BY InitInv
<1>2. IInv /\ [Next]_vars => IInv'
  BY NextType, ErasedUnknownStep, SyncStep, OrphanStep DEF IInv
<1> QED
  BY <1>1, <1>2, PTL DEF Spec

\* Every variable keeps its type.
THEOREM TypeCorrect == Spec => []TypeOK
<1>1. IInv => TypeOK
  BY DEF IInv
<1> QED
  BY <1>1, Invariant, PTL

\* After the purge of a shop only rows of a run that is gone are left.
THEOREM PurgeSafe == Spec => []PurgedDataIsOrphaned
<1>1. IInv => PurgedDataIsOrphaned
  BY DEF IInv
<1> QED
  BY <1>1, Invariant, PTL

-------------------------------------------------------------------------------
(* What is erased stays erased.                                            *)

Absent(c) == Redacted(c) /\ ~Held(c) /\ ~Carried(c)

ErasureStep == \A c \in Customers : Absent(c) => ~Held(c)' /\ ~Carried(c)'

LEMMA AbsentUnfolds ==
  ASSUME IInv, NEW c \in Customers, Absent(c)
  PROVE  /\ c \notin known
         /\ c \notin sync.snap
         /\ \A s \in saved : c \notin s
         /\ sync.step = "rows" => c \notin sync.todo
         /\ raw[c] = NoRow /\ order[c] # "linked" /\ c \notin profile
         /\ export[c] # NoRow => ~export[c].linked
BY DEF IInv, ErasedUnknown, RowsOfSnapshot, Absent, Redacted, Held, Personal, Carried

\* What a step has to leave alone for the customer to stay absent.
LEMMA AbsentFrame ==
  ASSUME NEW c \in Customers,
         raw'[c] = NoRow, order'[c] # "linked", c \notin profile',
         export'[c] # NoRow => ~export'[c].linked,
         c \notin sync'.snap, \A s \in saved' : c \notin s
  PROVE  ~Held(c)' /\ ~Carried(c)'
BY DEF Held, Personal, Carried

LEMMA AbsentSync ==
  ASSUME IInv, NEW c \in Customers, Absent(c),
         StartSync \/ Sync \/ FailSync \/ CrashSync
  PROVE  ~Held(c)' /\ ~Carried(c)'
<1> USE AbsentUnfolds
<1> TypeOK
  BY DEF IInv
<1>1. ASSUME StartSync PROVE ~Held(c)' /\ ~Carried(c)'
  <2>1. c \notin sync'.snap
    BY <1>1 DEF StartSync
  <2> QED
    BY <1>1, <2>1, AbsentFrame DEF StartSync, shopData
<1>2. ASSUME NEW d \in Customers, AppendRaw(d) PROVE ~Held(c)' /\ ~Carried(c)'
  <2>1. d # c
    BY <1>2 DEF AppendRaw
  <2>2. raw'[c] = NoRow
    BY <1>2, <2>1 DEF AppendRaw, TypeOK
  <2>3. sync'.snap = sync.snap
    BY <1>2 DEF AppendRaw, TypeOK, SyncState
  <2> QED
    BY <1>2, <2>2, <2>3, AbsentFrame DEF AppendRaw
<1>3. ASSUME NEW d \in Customers, UpsertOrder(d) PROVE ~Held(c)' /\ ~Carried(c)'
  <2>1. order'[c] # "linked"
    BY <1>3 DEF UpsertOrder, TypeOK
  <2>2. c \notin profile'
    BY <1>3 DEF UpsertOrder
  <2>3. sync'.snap = sync.snap
    BY <1>3 DEF UpsertOrder, TypeOK, SyncState
  <2> QED
    BY <1>3, <2>1, <2>2, <2>3, AbsentFrame DEF UpsertOrder
<1>4. ASSUME MapOrders PROVE ~Held(c)' /\ ~Carried(c)'
  <2>1. sync'.snap = sync.snap
    BY <1>4 DEF MapOrders, TypeOK, SyncState
  <2> QED
    BY <1>4, <2>1, AbsentFrame DEF MapOrders, shopData
<1>5. ASSUME FinishSync \/ FailSync \/ CrashSync PROVE ~Held(c)' /\ ~Carried(c)'
  <2>1. raw'[c] = NoRow
    BY <1>5 DEF FinishSync, FailSync, CrashSync, Settle
  <2>2. c \notin sync'.snap
    BY <1>5 DEF FinishSync, FailSync, CrashSync, Idle
  <2>3. \A s \in saved' : c \notin s
    BY <1>5 DEF FinishSync, FailSync, CrashSync
  <2> QED
    BY <1>5, <2>1, <2>2, <2>3, AbsentFrame DEF FinishSync, FailSync, CrashSync
<1> QED
  BY <1>1, <1>2, <1>3, <1>4, <1>5 DEF Sync

LEMMA ExportOfNothing ==
  ASSUME NEW c \in Customers, c \notin profile, export[c] # NoRow => ~export[c].linked,
         NEW done, NEW purge \in BOOLEAN, NEW e \in ExportRow(c, done, purge)
  PROVE  e # NoRow => ~e.linked
<1>1. (c \in profile) = FALSE
  OBVIOUS
<1>2. \/ e = NoRow
      \/ e = [linked |-> FALSE, age |-> 0]
      \/ e = [linked |-> c \in profile, age |-> 0]
      \/ e = export[c]
  BY Zenon DEF ExportRow
<1>3. e = NoRow \/ e = [linked |-> FALSE, age |-> 0] \/ e = export[c]
  BY <1>1, <1>2, Zenon
<1> QED
  BY <1>3

LEMMA AbsentMaintain ==
  ASSUME IInv, NEW c \in Customers, Absent(c), Maintain
  PROVE  ~Held(c)' /\ ~Carried(c)'
<1> USE AbsentUnfolds
<1> TypeOK
  BY DEF IInv
<1>1. Purge \/ Cutoffs
  BY MaintainSplits
<1>2. /\ raw'[c] = NoRow /\ order'[c] # "linked" /\ c \notin profile'
      /\ \A s \in saved' : c \notin s
  BY <1>1 DEF Purge, Cutoffs
<1>3. c \notin sync'.snap
  <2>1. sync'.snap = sync.snap
    BY <1>1 DEF Purge, Cutoffs, TypeOK, SyncState
  <2> QED
    BY <2>1
<1>4. export'[c] # NoRow => ~export'[c].linked
  <2>1. PICK bad \in SUBSET Due :
           \E rows \in [Customers -> Export \cup {NoRow}] :
               /\ \A d \in Customers :
                      rows[d] \in ExportRow(d, Due \ bad, \E j \in Due \ bad : Purges(j))
               /\ export' = rows
    BY DEF Maintain
  <2>3. export'[c] \in ExportRow(c, Due \ bad, \E j \in Due \ bad : Purges(j))
    BY <2>1
  <2>2. c \notin profile
    OBVIOUS
  <2> QED
    BY <2>2, <2>3, ExportOfNothing
<1> QED
  BY <1>2, <1>3, <1>4, AbsentFrame

LEMMA AbsentStep == IInv /\ [Next]_vars => ErasureStep
<1> SUFFICES ASSUME IInv, [Next]_vars, NEW c \in Customers, Absent(c)
             PROVE  ~Held(c)' /\ ~Carried(c)'
  BY DEF ErasureStep
<1> USE AbsentUnfolds
<1> TypeOK
  BY DEF IInv
<1>1. ASSUME Tick PROVE ~Held(c)' /\ ~Carried(c)'
  <2>1. raw'[c] = NoRow
    BY <1>1 DEF Tick
  <2>2. export'[c] # NoRow => ~export'[c].linked
    <3>1. CASE export[c] = NoRow
      BY <1>1, <3>1 DEF Tick
    <3>2. CASE export[c] # NoRow
      <4>1. export[c] \in Export /\ export'[c] = [export[c] EXCEPT !.age = Older(@, ExportDays)]
        BY <1>1, <3>2 DEF Tick, TypeOK
      <4> QED
        BY <3>2, <4>1 DEF Export
    <3> QED
      BY <3>1, <3>2
  <2> QED
    BY <1>1, <2>1, <2>2, AbsentFrame DEF Tick
<1>2. ASSUME NEW d \in Customers, RedactCustomer(d) PROVE ~Held(c)' /\ ~Carried(c)'
  <2>1. raw'[c] = NoRow /\ order'[c] # "linked" /\ c \notin profile'
    BY <1>2 DEF RedactCustomer, TypeOK
  <2> QED
    BY <1>2, <2>1, AbsentFrame DEF RedactCustomer
<1>3. ASSUME Uninstall \/ RedactShop PROVE ~Held(c)' /\ ~Carried(c)'
  <2>1. raw'[c] = NoRow
    BY <1>3, RevokeSplits
  <2> QED
    BY <1>3, <2>1, RevokeSplits, AbsentFrame
<1>4. ASSUME UNCHANGED <<shopData, sync, saved, export>> PROVE ~Held(c)' /\ ~Carried(c)'
  BY <1>4, AbsentFrame DEF shopData
<1> QED
  BY <1>1, <1>2, <1>3, <1>4, AbsentSync, AbsentMaintain
  DEF Next, Shopify, Deliver, Erase, DataRequest, Reconnect, Receive, RejectHook, LoseHook, vars

\* A redacted customer that is gone and that no running or saved operation delivers is never
\* brought back, whatever is retried, resumed, exported or connected again.
THEOREM ErasureSafe == Spec => ErasedForGood
<1>1. IInv /\ [Next]_vars =>
        [\A c \in Customers :
            Redacted(c) /\ ~Held(c) /\ ~Carried(c) => ~Held(c)' /\ ~Carried(c)']_vars
  BY AbsentStep DEF ErasureStep, Absent
<1> QED
  BY <1>1, Invariant, PTL DEF Spec, ErasedForGood
===============================================================================
