----------------------- MODULE ShopifyConnectionProofs ------------------------
(***************************************************************************)
(* Proofs about ShopifyConnection, for every number of tenants, flows,     *)
(* handlers, installations and days.  The inductive invariant adds to the  *)
(* properties what the handlers in flight know: which flow a callback has  *)
(* consumed, which token a refresh has read, which job the worker holds.   *)
(***************************************************************************)
EXTENDS ShopifyConnection, TLAPS

-------------------------------------------------------------------------------
(* The inductive invariant.                                                *)

Consented(flows, t, k) ==
    /\ k.tenant = t
    /\ \E f \in Flows : flows[f].tenant = t /\ flows[f].code = k.epoch

\* A flow has its tenant from its first step on and a code only after it.
FlowsInOrder ==
    \A f \in Flows : /\ flow[f].nonce = "none" <=> flow[f].tenant = NoTenant
                     /\ flow[f].code # 0 => flow[f].nonce # "none"

InstalledOnce == installed => epoch \in Epochs

\* A callback holds a spent nonce, and the token of its own flow.
CallbacksKnow ==
    \A c \in Callbacks :
        /\ callback[c].flow # NoFlow => flow[callback[c].flow].nonce = "consumed"
        /\ callback[c].token # NoToken =>
              /\ callback[c].flow # NoFlow
              /\ callback[c].token.tenant = flow[callback[c].flow].tenant
              /\ callback[c].token.epoch = flow[callback[c].flow].code

\* A refresh answers with a token for what it was asked.
RefreshersKnow ==
    \A r \in Refreshers :
        /\ refresh[r].old # NoToken => Consented(flow, refresh[r].tenant, refresh[r].old)
        /\ refresh[r].new # NoToken => refresh[r].old = refresh[r].new

RowKnown ==
    /\ conn.tenant = NoTenant <=> conn = NoRow
    /\ conn.token # NoToken => Consented(flow, conn.tenant, conn.token)

WorkerKnows ==
    /\ worker.job # NoJob => worker.job \in jobs /\ Due(worker.job)
    /\ worker.spare => worker.job # NoJob /\ worker.job.kind = "SHOPIFY_RETENTION_REVIEW"

\* A review that found the shop connected leaves the review of a later uninstall behind.
LaterReview ==
    worker.spare /\ conn.status = "UNINSTALLED" =>
        \E j \in jobs : /\ j.kind = "SHOPIFY_RETENTION_REVIEW"
                        /\ j.tenant = conn.tenant
                        /\ j # worker.job

IInv ==
    /\ TypeOK
    /\ FlowsInOrder
    /\ InstalledOnce
    /\ CallbacksKnow
    /\ RefreshersKnow
    /\ RowKnown
    /\ NonceSpentOnce
    /\ ConnectedIffToken
    /\ WorkerKnows
    /\ LaterReview
    /\ PurgeScheduled

-------------------------------------------------------------------------------
(* Types.                                                                  *)

LEMMA ConstantTypes ==
    /\ 0 \in 0..MaxEpoch /\ Epochs \subseteq 0..MaxEpoch
    /\ 0 \in Days /\ 1 \in Days /\ RedactDelay \in Days /\ Grace \in Days /\ Grace # 0
    /\ 0 \in 0..MaxAttempts /\ 0 \in 0..MaxFailures /\ 0 \in 0..MaxCrashes
    /\ NoRow \in Row
BY ConnectionAssumption DEF Epochs, Days, NoRow, Row, Statuses

LEMMA InitType == Init => TypeOK
<1> SUFFICES ASSUME Init PROVE TypeOK
  OBVIOUS
<1> USE ConstantTypes DEF Init
<1>1. installed \in BOOLEAN /\ epoch \in 0..MaxEpoch /\ conn \in Row
  OBVIOUS
<1>2. flow \in [Flows -> FlowState] /\ hook \in [Topics -> [Epochs -> HookState]]
  BY DEF FlowState, HookState
<1>3. callback \in [Callbacks -> CallbackState] /\ refresh \in [Refreshers -> RefreshState]
  BY DEF IdleCallback, CallbackState, IdleRefresh, RefreshState
<1>4. /\ jobs \in SUBSET Job
      /\ worker \in [job : Job \cup {NoJob}, spare : BOOLEAN]
      /\ failures \in 0..MaxFailures
      /\ crashes \in 0..MaxCrashes
  BY DEF IdleWorker
<1> QED
  BY <1>1, <1>2, <1>3, <1>4 DEF TypeOK

LEMMA StoreType ==
  ASSUME TypeOK, NEW t \in Tenants \cup {NoTenant}, NEW token \in Tokens, Store(t, token)
  PROVE  conn' \in Row
BY ConstantTypes DEF TypeOK, Store, Row, Statuses

LEMMA RevokedType ==
  ASSUME TypeOK, NEW s \in Statuses, Revoked(s)
  PROVE  conn' \in Row
BY DEF TypeOK, Revoked, Row

LEMMA NewJobType ==
  ASSUME NEW k \in Kinds, NEW t \in Tenants, NEW delay \in Days
  PROVE  NewJob(k, t, delay) \in Job
BY ConstantTypes DEF NewJob, Job

\* What a record of TypeOK still is after one of its fields is assigned.
LEMMA Assigned ==
  ASSUME TypeOK
  PROVE  /\ \A f \in Flows : flow[f] \in FlowState
         /\ \A c \in Callbacks : callback[c] \in CallbackState
         /\ \A r \in Refreshers : refresh[r] \in RefreshState
         /\ \A f \in Flows, n \in {"open", "consumed", "expired"} :
                [flow[f] EXCEPT !.nonce = n] \in FlowState
         /\ \A f \in Flows, e \in 0..MaxEpoch : [flow[f] EXCEPT !.code = e] \in FlowState
         /\ \A c \in Callbacks, f \in Flows : [callback[c] EXCEPT !.flow = f] \in CallbackState
         /\ \A c \in Callbacks, k \in Tokens : [callback[c] EXCEPT !.token = k] \in CallbackState
         /\ \A r \in Refreshers, k \in Tokens : [refresh[r] EXCEPT !.new = k] \in RefreshState
         /\ IdleCallback \in CallbackState
         /\ IdleRefresh \in RefreshState
<1>1. \A f \in Flows : flow[f] \in FlowState
  BY DEF TypeOK
<1>2. \A c \in Callbacks : callback[c] \in CallbackState
  BY DEF TypeOK
<1>3. \A r \in Refreshers : refresh[r] \in RefreshState
  BY DEF TypeOK
<1>4. IdleCallback \in CallbackState /\ IdleRefresh \in RefreshState
  BY DEF IdleCallback, IdleRefresh, CallbackState, RefreshState
<1>5. /\ \A f \in Flows, n \in {"open", "consumed", "expired"} :
             [flow[f] EXCEPT !.nonce = n] \in FlowState
      /\ \A f \in Flows, e \in 0..MaxEpoch : [flow[f] EXCEPT !.code = e] \in FlowState
  BY <1>1 DEF FlowState
<1>6. /\ \A c \in Callbacks, f \in Flows : [callback[c] EXCEPT !.flow = f] \in CallbackState
      /\ \A c \in Callbacks, k \in Tokens : [callback[c] EXCEPT !.token = k] \in CallbackState
  BY <1>2 DEF CallbackState
<1>7. \A r \in Refreshers, k \in Tokens : [refresh[r] EXCEPT !.new = k] \in RefreshState
  BY <1>3 DEF RefreshState
<1> QED
  BY <1>1, <1>2, <1>3, <1>4, <1>5, <1>6, <1>7

LEMMA NextType == IInv /\ [Next]_vars => TypeOK'
<1> SUFFICES ASSUME IInv, [Next]_vars PROVE TypeOK'
  OBVIOUS
<1> TypeOK
  BY DEF IInv
<1> USE Assigned DEF TypeOK, shopify, faults
<1>1. ASSUME NEW f \in Flows, NEW t \in Tenants, Begin(f, t) PROVE TypeOK'
  <2>1. [flow[f] EXCEPT !.nonce = "open", !.tenant = t] \in FlowState
    BY DEF FlowState
  <2>2. flow' = [flow EXCEPT ![f] = [flow[f] EXCEPT !.nonce = "open", !.tenant = t]]
    BY <1>1 DEF Begin
  <2> QED
    BY <1>1, <2>1, <2>2 DEF Begin
<1>2. ASSUME NEW f \in Flows, ExpireNonce(f) PROVE TypeOK'
  BY <1>2 DEF ExpireNonce
<1>3. ASSUME NEW f \in Flows, Approve(f) PROVE TypeOK'
  <2>1. epoch' \in 0..MaxEpoch
    BY <1>3, ConnectionAssumption DEF Approve
  <2> QED
    BY <1>3, <2>1 DEF Approve
<1>4. ASSUME NEW t \in Tenants, Disconnect(t) PROVE TypeOK'
  <2>1. conn' \in Row
    BY <1>4, RevokedType DEF Disconnect, Statuses
  <2> QED
    BY <1>4, <2>1 DEF Disconnect
<1>5. ASSUME UninstallApp PROVE TypeOK'
  BY <1>5 DEF UninstallApp, Topics, HookState
<1>6. ASSUME SendRedact PROVE TypeOK'
  BY <1>6 DEF SendRedact, Topics, HookState
<1>7. ASSUME NEW c \in Callbacks, NEW f \in Flows, ConsumeNonce(c, f) PROVE TypeOK'
  BY <1>7 DEF ConsumeNonce
<1>8. ASSUME NEW c \in Callbacks, ExchangeCode(c) PROVE TypeOK'
  <2> DEFINE token == [tenant |-> flow[callback[c].flow].tenant, epoch |-> epoch]
  <2>1. callback[c].flow \in Flows /\ epoch \in Epochs
    BY <1>8 DEF ExchangeCode, InstalledOnce, IInv, CallbackState
  <2>2. flow[callback[c].flow].tenant \in Tenants
    BY <1>8, <2>1 DEF ExchangeCode, IInv, CallbacksKnow, FlowsInOrder, FlowState
  <2>3. token \in Tokens
    BY <2>1, <2>2 DEF Tokens
  <2> HIDE DEF token
  <2>4. callback' = [callback EXCEPT ![c] = [callback[c] EXCEPT !.token = token]]
    BY <1>8 DEF ExchangeCode, token
  <2> QED
    BY <1>8, <2>3, <2>4 DEF ExchangeCode
<1>9. ASSUME NEW c \in Callbacks, PersistInstall(c) PROVE TypeOK'
  <2>1. callback[c].flow \in Flows /\ callback[c].token \in Tokens
    BY <1>9 DEF PersistInstall, IInv, CallbacksKnow, CallbackState
  <2>2. conn' \in Row
    BY <1>9, <2>1, StoreType DEF PersistInstall, FlowState
  <2> QED
    BY <1>9, <2>2 DEF PersistInstall
<1>10. ASSUME NEW c \in Callbacks, AbandonCallback(c) PROVE TypeOK'
  BY <1>10 DEF AbandonCallback
<1>11. ASSUME NEW r \in Refreshers, ReadInstallation(r) PROVE TypeOK'
  <2>1. [refresh[r] EXCEPT !.tenant = conn.tenant, !.old = conn.token] \in RefreshState
    BY DEF RefreshState, Row
  <2>2. refresh' = [refresh EXCEPT ![r] =
                       [refresh[r] EXCEPT !.tenant = conn.tenant, !.old = conn.token]]
    BY <1>11 DEF ReadInstallation
  <2> QED
    BY <1>11, <2>1, <2>2 DEF ReadInstallation
<1>12. ASSUME NEW r \in Refreshers, ExchangeRefresh(r) PROVE TypeOK'
  <2>1. refresh[r].old \in Tokens
    BY <1>12 DEF ExchangeRefresh, RefreshState
  <2>2. refresh' = [refresh EXCEPT ![r] = [refresh[r] EXCEPT !.new = refresh[r].old]]
    BY <1>12 DEF ExchangeRefresh
  <2> QED
    BY <1>12, <2>1, <2>2 DEF ExchangeRefresh
<1>13. ASSUME NEW r \in Refreshers, PersistRefresh(r) PROVE TypeOK'
  <2>1. refresh[r].new \in Tokens
    BY <1>13 DEF PersistRefresh, RefreshState
  <2>2. conn' \in Row
    BY <1>13, <2>1, StoreType DEF PersistRefresh, RefreshState
  <2> QED
    BY <1>13, <2>2 DEF PersistRefresh
<1>14. ASSUME NEW r \in Refreshers, AbandonRefresh(r) PROVE TypeOK'
  BY <1>14 DEF AbandonRefresh
<1>15. ASSUME NEW k \in Topics, NEW e \in Epochs, Receive(k, e) PROVE TypeOK'
  BY <1>15 DEF Receive, HookState
<1>16. ASSUME NEW k \in Topics, NEW e \in Epochs, Handle(k, e) PROVE TypeOK'
  <2>1. conn.tenant \in Tenants
    BY <1>16 DEF Handle, Row
  <2>2. conn' \in Row
    BY <1>16, RevokedType DEF Handle, Statuses
  <2>3. jobs' \in SUBSET Job
    BY <1>16, <2>1, ConstantTypes, NewJobType DEF Handle, Kinds
  <2> QED
    BY <1>16, <2>2, <2>3 DEF Handle, HookState
<1>17. ASSUME NEW k \in Topics, NEW e \in Epochs, RejectHook(k, e) PROVE TypeOK'
  BY <1>17 DEF RejectHook, HookState
<1>18. ASSUME NEW k \in Topics, NEW e \in Epochs, LoseHook(k, e) PROVE TypeOK'
  BY <1>18, ConnectionAssumption DEF LoseHook, HookState
<1>19. ASSUME Tick PROVE TypeOK'
  <2> DEFINE days == IF conn.away < Grace /\ Gone THEN conn.away + 1 ELSE conn.away
  <2>0. days \in Days
    <3>1. conn.away \in Days
      BY DEF Row
    <3> QED
      BY <3>1, ConnectionAssumption DEF Days
  <2>1. conn' \in Row
    <3>1. conn' = [conn EXCEPT !.away = days]
      BY <1>19 DEF Tick
    <3> HIDE DEF days
    <3> QED
      BY <2>0, <3>1 DEF Row
  <2>2. ASSUME NEW j \in jobs
        PROVE  [j EXCEPT !.left = IF @ > 0 THEN @ - 1 ELSE 0] \in Job
    BY ConnectionAssumption DEF Job, Days
  <2> QED
    BY <1>19, <2>1, <2>2 DEF Tick
<1>20. ASSUME NEW j \in jobs, StartJob(j) PROVE TypeOK'
  BY <1>20 DEF StartJob
<1>21. ASSUME FinishJob PROVE TypeOK'
  <2>1. conn' \in Row
    BY <1>21, ConstantTypes DEF FinishJob, Purge
  <2>2. flow' \in [Flows -> FlowState]
    <3>1. \A f \in Flows : flow[f] \in FlowState /\ [flow[f] EXCEPT !.nonce = "expired"] \in FlowState
      OBVIOUS
    <3>2. UNCHANGED flow \/ DeleteNonces(worker.job.tenant)
      BY <1>21 DEF FinishJob
    <3> QED
      BY <3>1, <3>2 DEF DeleteNonces
  <2>3. hook' \in [Topics -> [Epochs -> HookState]]
    BY <1>21 DEF FinishJob, DeleteReceipts, HookState
  <2> QED
    BY <1>21, <2>1, <2>2, <2>3 DEF FinishJob, IdleWorker
<1>22. ASSUME FailJob PROVE TypeOK'
  <2>1. worker.job \in Job /\ worker.job.attempts < MaxAttempts
    BY <1>22 DEF FailJob, IInv, WorkerKnows, Due
  <2>2. [worker.job EXCEPT !.attempts = @ + 1, !.left = 1] \in Job
    <3>1. /\ worker.job.attempts + 1 \in 0..MaxAttempts
          /\ 1 \in Days
      BY <2>1, ConstantTypes, ConnectionAssumption DEF Job
    <3>2. ASSUME NEW j \in Job, j.attempts + 1 \in 0..MaxAttempts
          PROVE  [j EXCEPT !.attempts = j.attempts + 1, !.left = 1] \in Job
      BY <3>1, <3>2 DEF Job
    <3> QED
      BY <2>1, <3>1, <3>2
  <2>3. failures' \in 0..MaxFailures
    BY <1>22, ConnectionAssumption DEF FailJob
  <2> QED
    BY <1>22, <2>2, <2>3 DEF FailJob, IdleWorker
<1>23. ASSUME AbortMaintenance PROVE TypeOK'
  BY <1>23, ConnectionAssumption DEF AbortMaintenance, IdleWorker
<1>24. CASE UNCHANGED vars
  BY <1>24 DEF vars
<1> QED
  BY <1>1, <1>2, <1>3, <1>4, <1>5, <1>6, <1>7, <1>8, <1>9, <1>10, <1>11, <1>12, <1>13, <1>14,
     <1>15, <1>16, <1>17, <1>18, <1>19, <1>20, <1>21, <1>22, <1>23, <1>24
     DEF Next, Tenant, Callback, Serve, Refresh, Delivery, Maintenance

-------------------------------------------------------------------------------
(* Which steps write which variable.                                       *)

LEMMA FlowSteps ==
  ASSUME [Next]_vars
  PROVE  \/ UNCHANGED flow
         \/ \E f \in Flows, t \in Tenants : Begin(f, t)
         \/ \E f \in Flows : ExpireNonce(f) \/ Approve(f)
         \/ \E c \in Callbacks, f \in Flows : ConsumeNonce(c, f)
         \/ FinishJob
BY DEF Next, vars, Tenant, Disconnect, UninstallApp, SendRedact, Callback, Serve, ExchangeCode,
       PersistInstall, AbandonCallback, Refresh, ReadInstallation, ExchangeRefresh, PersistRefresh,
       AbandonRefresh, Delivery, Receive, Handle, RejectHook, LoseHook, Tick, Maintenance,
       StartJob, FailJob, AbortMaintenance

LEMMA CallbackSteps ==
  ASSUME [Next]_vars
  PROVE  \/ UNCHANGED callback
         \/ \E c \in Callbacks : Callback(c)
BY DEF Next, vars, Tenant, Begin, ExpireNonce, Approve, Disconnect, UninstallApp, SendRedact,
       Refresh, ReadInstallation, ExchangeRefresh, PersistRefresh, AbandonRefresh,
       Delivery, Receive, Handle, RejectHook, LoseHook, Tick, Maintenance, StartJob, FinishJob,
       FailJob, AbortMaintenance

LEMMA RefreshSteps ==
  ASSUME [Next]_vars
  PROVE  \/ UNCHANGED refresh
         \/ \E r \in Refreshers : Refresh(r)
BY DEF Next, vars, Tenant, Begin, ExpireNonce, Approve, Disconnect, UninstallApp, SendRedact,
       Callback, Serve, ConsumeNonce, ExchangeCode, PersistInstall, AbandonCallback,
       Delivery, Receive, Handle, RejectHook, LoseHook, Tick, Maintenance, StartJob, FinishJob,
       FailJob, AbortMaintenance

LEMMA RowSteps ==
  ASSUME [Next]_vars
  PROVE  \/ UNCHANGED conn
         \/ \E t \in Tenants : Disconnect(t)
         \/ \E c \in Callbacks : PersistInstall(c)
         \/ \E r \in Refreshers : PersistRefresh(r)
         \/ \E k \in Topics, e \in Epochs : Handle(k, e)
         \/ Tick
         \/ FinishJob
BY DEF Next, vars, Tenant, Begin, ExpireNonce, Approve, UninstallApp, SendRedact,
       Callback, Serve, ConsumeNonce, ExchangeCode, AbandonCallback,
       Refresh, ReadInstallation, ExchangeRefresh, AbandonRefresh,
       Delivery, Receive, RejectHook, LoseHook, Maintenance, StartJob, FailJob,
       AbortMaintenance

LEMMA JobSteps ==
  ASSUME [Next]_vars
  PROVE  \/ UNCHANGED <<jobs, worker>>
         \/ \E k \in Topics, e \in Epochs : Handle(k, e)
         \/ Tick
         \/ \E j \in jobs : StartJob(j)
         \/ FinishJob
         \/ FailJob
         \/ AbortMaintenance
BY DEF Next, vars, Tenant, Begin, ExpireNonce, Approve, Disconnect, UninstallApp, SendRedact,
       Callback, Serve, ConsumeNonce, ExchangeCode, PersistInstall, AbandonCallback,
       Refresh, ReadInstallation, ExchangeRefresh, PersistRefresh, AbandonRefresh,
       Delivery, Receive, RejectHook, LoseHook, Maintenance

-------------------------------------------------------------------------------
(* Flows and consents.                                                     *)

\* What is settled about a flow stays.
LEMMA FlowsKept ==
  ASSUME IInv, [Next]_vars, NEW f \in Flows
  PROVE  /\ flow[f].tenant # NoTenant => flow'[f].tenant = flow[f].tenant
         /\ flow[f].code # 0 => flow'[f].code = flow[f].code
         /\ flow[f].nonce = "consumed" => flow'[f].nonce = "consumed"
         /\ flow'[f].nonce = "none" <=> flow'[f].tenant = NoTenant
         /\ flow'[f].code # 0 => flow'[f].nonce # "none"
<1> DEFINE Kept == /\ flow[f].tenant # NoTenant => flow'[f].tenant = flow[f].tenant
                   /\ flow[f].code # 0 => flow'[f].code = flow[f].code
                   /\ flow[f].nonce = "consumed" => flow'[f].nonce = "consumed"
                   /\ flow'[f].nonce = "none" <=> flow'[f].tenant = NoTenant
                   /\ flow'[f].code # 0 => flow'[f].nonce # "none"
<1> USE ConnectionAssumption DEF IInv, TypeOK, FlowsInOrder, FlowState
<1>1. CASE UNCHANGED flow
  BY <1>1
<1>2. ASSUME NEW g \in Flows, NEW t \in Tenants, Begin(g, t) PROVE Kept
  BY <1>2 DEF Begin
<1>3. ASSUME NEW g \in Flows, ExpireNonce(g) PROVE Kept
  BY <1>3 DEF ExpireNonce
<1>4. ASSUME NEW g \in Flows, Approve(g) PROVE Kept
  BY <1>4 DEF Approve
<1>5. ASSUME NEW c \in Callbacks, NEW g \in Flows, ConsumeNonce(c, g) PROVE Kept
  BY <1>5 DEF ConsumeNonce
<1>6. ASSUME FinishJob PROVE Kept
  BY <1>1, <1>6 DEF FinishJob, DeleteNonces
<1> QED
  BY <1>1, <1>2, <1>3, <1>4, <1>5, <1>6, FlowSteps

LEMMA ConsentKept ==
  ASSUME IInv, [Next]_vars
  PROVE  \A t \in Tenants, k \in Tokens : Consented(flow, t, k) => Consented(flow', t, k)
<1> SUFFICES ASSUME NEW t \in Tenants, NEW k \in Tokens, Consented(flow, t, k)
             PROVE  Consented(flow', t, k)
  OBVIOUS
<1>1. PICK f \in Flows : flow[f].tenant = t /\ flow[f].code = k.epoch
  BY DEF Consented
<1>2. t # NoTenant /\ k.epoch # 0
  BY ConnectionAssumption DEF Tokens, Epochs
<1> QED
  BY <1>1, <1>2, FlowsKept DEF Consented

LEMMA NextInstalled == IInv /\ [Next]_vars => InstalledOnce'
<1> SUFFICES ASSUME IInv, [Next]_vars, installed' PROVE epoch' \in Epochs
  BY DEF InstalledOnce
<1>1. CASE UNCHANGED shopify
  BY <1>1 DEF shopify, IInv, InstalledOnce
<1>2. ASSUME NEW f \in Flows, Approve(f) PROVE epoch' \in Epochs
  BY <1>2, ConnectionAssumption DEF Approve, IInv, TypeOK, InstalledOnce, Epochs
<1>3. CASE UninstallApp
  BY <1>3 DEF UninstallApp
<1> QED
  BY <1>1, <1>2, <1>3
     DEF Next, vars, shopify, Tenant, Begin, ExpireNonce, Disconnect, SendRedact,
         Callback, Serve, ConsumeNonce, ExchangeCode, PersistInstall, AbandonCallback,
         Refresh, ReadInstallation, ExchangeRefresh, PersistRefresh, AbandonRefresh, Delivery,
         Receive, Handle, RejectHook, LoseHook, Tick, Maintenance, StartJob, FinishJob, FailJob,
         AbortMaintenance

-------------------------------------------------------------------------------
(* Callbacks, refreshes and the row.                                       *)

LEMMA NextCallbacks == IInv /\ [Next]_vars => CallbacksKnow' /\ NonceSpentOnce'
<1> SUFFICES ASSUME IInv, [Next]_vars PROVE CallbacksKnow' /\ NonceSpentOnce'
  OBVIOUS
<1> DEFINE Known(d) ==
      /\ callback'[d].flow # NoFlow => flow'[callback'[d].flow].nonce = "consumed"
      /\ callback'[d].token # NoToken =>
            /\ callback'[d].flow # NoFlow
            /\ callback'[d].token.tenant = flow'[callback'[d].flow].tenant
            /\ callback'[d].token.epoch = flow'[callback'[d].flow].code
<1>1. ASSUME NEW d \in Callbacks, callback'[d] = callback[d] PROVE Known(d)
  <2>1. CASE callback[d].flow = NoFlow
    BY <1>1, <2>1 DEF IInv, CallbacksKnow
  <2>2. CASE callback[d].flow # NoFlow
    <3> DEFINE f == callback[d].flow
    <3>1. f \in Flows /\ flow[f].nonce = "consumed"
      BY <2>2 DEF IInv, TypeOK, CallbackState, CallbacksKnow
    <3>2. flow'[f].nonce = "consumed"
      BY <3>1, FlowsKept
    <3>3. ASSUME callback[d].token # NoToken
          PROVE  /\ callback[d].token.tenant = flow'[f].tenant
                 /\ callback[d].token.epoch = flow'[f].code
      <4>1. callback[d].token \in Tokens
        BY <3>3 DEF IInv, TypeOK, CallbackState
      <4>2. callback[d].token.tenant = flow[f].tenant /\ callback[d].token.epoch = flow[f].code
        BY <3>3 DEF IInv, CallbacksKnow
      <4>3. flow[f].tenant # NoTenant /\ flow[f].code # 0
        BY <4>1, <4>2, ConnectionAssumption DEF Tokens, Epochs
      <4> QED
        BY <3>1, <4>2, <4>3, FlowsKept
    <3> QED
      BY <1>1, <2>2, <3>2, <3>3
  <2> QED
    BY <2>1, <2>2
<1>2. ASSUME NEW c \in Callbacks, callback' = [callback EXCEPT ![c] = IdleCallback]
      PROVE  CallbacksKnow' /\ NonceSpentOnce'
  <2>1. \A d \in Callbacks : callback'[d] = callback[d] \/ callback'[d] = IdleCallback
    BY <1>2 DEF IInv, TypeOK
  <2>2. \A d \in Callbacks : Known(d)
    BY <1>1, <2>1 DEF IdleCallback
  <2> QED
    BY <2>1, <2>2 DEF CallbacksKnow, NonceSpentOnce, IInv, IdleCallback
<1>3. ASSUME UNCHANGED callback PROVE CallbacksKnow' /\ NonceSpentOnce'
  BY <1>1, <1>3 DEF CallbacksKnow, NonceSpentOnce, IInv
<1>4. ASSUME NEW c \in Callbacks, NEW f \in Flows, ConsumeNonce(c, f)
      PROVE  CallbacksKnow' /\ NonceSpentOnce'
  <2>1. /\ flow[f].nonce = "open"
        /\ flow'[f].nonce = "consumed"
        /\ callback'[c].flow = f
        /\ callback'[c].token = NoToken
        /\ \A d \in Callbacks \ {c} : callback'[d] = callback[d]
    BY <1>4, Assigned DEF ConsumeNonce, IInv, TypeOK, FlowState, CallbackState, IdleCallback
  <2>2. \A d \in Callbacks : Known(d)
    BY <1>1, <2>1
  <2>3. \A d \in Callbacks \ {c} : callback[d].flow # f
    BY <2>1, ConnectionAssumption DEF IInv, CallbacksKnow
  <2> QED
    BY <2>1, <2>2, <2>3 DEF CallbacksKnow, NonceSpentOnce, IInv
<1>5. ASSUME NEW c \in Callbacks, ExchangeCode(c) PROVE CallbacksKnow' /\ NonceSpentOnce'
  <2> DEFINE f == callback[c].flow
  <2>1. /\ f # NoFlow /\ flow[f].nonce = "consumed"
        /\ flow[f].code = epoch
        /\ UNCHANGED flow
    BY <1>5 DEF ExchangeCode, IInv, CallbacksKnow
  <2>2. /\ callback'[c].flow = f
        /\ callback'[c].token = [tenant |-> flow[f].tenant, epoch |-> epoch]
        /\ \A d \in Callbacks \ {c} : callback'[d] = callback[d]
    BY <1>5, Assigned DEF ExchangeCode, IInv, TypeOK, CallbackState
  <2>3. \A d \in Callbacks : Known(d)
    BY <1>1, <2>1, <2>2
  <2> QED
    BY <2>2, <2>3 DEF CallbacksKnow, NonceSpentOnce, IInv
<1> QED
  BY <1>2, <1>3, <1>4, <1>5, CallbackSteps DEF Callback, Serve, PersistInstall, AbandonCallback

LEMMA NextRefreshers == IInv /\ [Next]_vars => RefreshersKnow'
<1> SUFFICES ASSUME IInv, [Next]_vars, NEW r \in Refreshers
             PROVE  /\ refresh'[r].old # NoToken => Consented(flow', refresh'[r].tenant, refresh'[r].old)
                    /\ refresh'[r].new # NoToken => refresh'[r].old = refresh'[r].new
  BY DEF RefreshersKnow
<1> DEFINE Known == /\ refresh'[r].old # NoToken => Consented(flow', refresh'[r].tenant, refresh'[r].old)
                    /\ refresh'[r].new # NoToken => refresh'[r].old = refresh'[r].new
<1>1. ASSUME refresh'[r].tenant = refresh[r].tenant, refresh'[r].old = refresh[r].old,
             refresh'[r].new \in {NoToken, refresh[r].new, refresh[r].old}
      PROVE  Known
  <2>1. CASE refresh[r].old = NoToken
    BY <1>1, <2>1 DEF IInv, RefreshersKnow
  <2>2. CASE refresh[r].old # NoToken
    <3>1. refresh[r].old \in Tokens /\ Consented(flow, refresh[r].tenant, refresh[r].old)
      BY <2>2 DEF IInv, TypeOK, RefreshState, RefreshersKnow
    <3>2. refresh[r].tenant \in Tenants
      BY <3>1 DEF Consented, Tokens
    <3>3. Consented(flow', refresh[r].tenant, refresh[r].old)
      BY <1>1, <3>1, <3>2, ConsentKept DEF Consented
    <3> QED
      BY <1>1, <3>3 DEF IInv, RefreshersKnow, Consented
  <2> QED
    BY <2>1, <2>2
<1>2. ASSUME refresh'[r] = IdleRefresh PROVE Known
  BY <1>2 DEF IdleRefresh
<1>3. CASE UNCHANGED refresh
  BY <1>1, <1>3, Assigned DEF IInv, RefreshState
<1>4. ASSUME NEW q \in Refreshers, refresh' = [refresh EXCEPT ![q] = IdleRefresh] PROVE Known
  <2>1. refresh'[r] \in {IdleRefresh, refresh[r]}
    BY <1>4 DEF IInv, TypeOK
  <2> QED
    BY <1>1, <1>2, <2>1
<1>5. ASSUME NEW q \in Refreshers, ReadInstallation(q) PROVE Known
  <2>1. CASE r # q
    BY <1>1, <1>5, <2>1 DEF ReadInstallation, IInv, TypeOK
  <2>2. CASE r = q
    <3>1. /\ refresh'[r].tenant = conn.tenant
          /\ refresh'[r].old = conn.token
          /\ refresh'[r].new = NoToken
          /\ UNCHANGED flow
      BY <1>5, <2>2, Assigned DEF ReadInstallation, IInv, TypeOK, RefreshState, IdleRefresh
    <3> QED
      BY <3>1 DEF IInv, RowKnown
  <2> QED
    BY <2>1, <2>2
<1>6. ASSUME NEW q \in Refreshers, ExchangeRefresh(q) PROVE Known
  <2>1. /\ refresh'[r].tenant = refresh[r].tenant
        /\ refresh'[r].old = refresh[r].old
        /\ refresh'[r].new \in {refresh[r].new, refresh[r].old}
    BY <1>6, Assigned DEF ExchangeRefresh, IInv, TypeOK, RefreshState
  <2> QED
    BY <1>1, <2>1
<1> QED
  BY <1>3, <1>4, <1>5, <1>6, RefreshSteps DEF Refresh, PersistRefresh, AbandonRefresh

\* What a write of the row stores: nothing, a consented token or a revocation.
LEMMA RowWritten ==
  ASSUME IInv, [Next]_vars
  PROVE  \/ conn' = conn
         \/ conn' = NoRow
         \/ /\ conn.tenant # NoTenant
            /\ \E d \in Days : conn' = [conn EXCEPT !.away = d]
         \/ /\ conn.tenant # NoTenant
            /\ \E s \in Statuses \ {"CONNECTED"} : Revoked(s)
         \/ \E t \in Tenants, k \in Tokens : Consented(flow, t, k) /\ Store(t, k)
<1> DEFINE Written == \/ conn' = conn
                      \/ conn' = NoRow
                      \/ /\ conn.tenant # NoTenant
                         /\ \E d \in Days : conn' = [conn EXCEPT !.away = d]
                      \/ /\ conn.tenant # NoTenant
                         /\ \E s \in Statuses \ {"CONNECTED"} : Revoked(s)
                      \/ \E t \in Tenants, k \in Tokens : Consented(flow, t, k) /\ Store(t, k)
<1>1. ASSUME NEW t \in Tenants, Disconnect(t) PROVE Written
  BY <1>1, ConnectionAssumption DEF Disconnect, Statuses
<1>2. ASSUME NEW c \in Callbacks, PersistInstall(c) PROVE Written
  <2> DEFINE t == flow[callback[c].flow].tenant
             k == callback[c].token
  <2>1. callback[c].flow \in Flows /\ k \in Tokens
    BY <1>2 DEF PersistInstall, IInv, TypeOK, CallbacksKnow, CallbackState
  <2>2. k.tenant = t /\ k.epoch = flow[callback[c].flow].code
    BY <1>2 DEF PersistInstall, IInv, CallbacksKnow
  <2>3. t \in Tenants
    BY <2>1, <2>2 DEF Tokens
  <2>4. Consented(flow, t, k) /\ Store(t, k)
    BY <1>2, <2>1, <2>2 DEF Consented, PersistInstall
  <2> QED
    BY <2>1, <2>3, <2>4
<1>3. ASSUME NEW r \in Refreshers, PersistRefresh(r) PROVE Written
  <2> DEFINE t == refresh[r].tenant
             k == refresh[r].new
  <2>1. k \in Tokens /\ Consented(flow, t, k)
    BY <1>3 DEF PersistRefresh, IInv, TypeOK, RefreshersKnow, RefreshState
  <2>2. t \in Tenants
    BY <2>1 DEF Consented, Tokens
  <2> QED
    BY <1>3, <2>1, <2>2 DEF PersistRefresh
<1>4. ASSUME NEW k \in Topics, NEW e \in Epochs, Handle(k, e) PROVE Written
  BY <1>4 DEF Handle, Statuses
<1>5. ASSUME Tick PROVE Written
  <2> DEFINE d == IF conn.away < Grace /\ Gone THEN conn.away + 1 ELSE conn.away
  <2>1. d \in Days
    <3>1. conn.away \in Days
      BY DEF IInv, TypeOK, Row
    <3> QED
      BY <3>1, ConnectionAssumption DEF Days
  <2>2. conn' = [conn EXCEPT !.away = d]
    BY <1>5 DEF Tick
  <2>3. conn.tenant = NoTenant => conn' = conn
    BY <2>2 DEF Gone, IInv, TypeOK, Row
  <2> QED
    BY <2>1, <2>2, <2>3
<1>6. ASSUME FinishJob PROVE Written
  BY <1>6 DEF FinishJob, Purge
<1> QED
  BY <1>1, <1>2, <1>3, <1>4, <1>5, <1>6, RowSteps

LEMMA NextRow == IInv /\ [Next]_vars => RowKnown' /\ ConnectedIffToken'
<1> SUFFICES ASSUME IInv, [Next]_vars PROVE RowKnown' /\ ConnectedIffToken'
  OBVIOUS
<1> DEFINE Good == /\ conn'.tenant = NoTenant <=> conn' = NoRow
                   /\ conn'.token # NoToken => Consented(flow', conn'.tenant, conn'.token)
                   /\ conn'.status = "CONNECTED" <=> conn'.token # NoToken
<1>1. SUFFICES Good
  BY DEF RowKnown, ConnectedIffToken
<1>2. conn.token # NoToken => Consented(flow', conn.tenant, conn.token)
  <2> SUFFICES ASSUME conn.token # NoToken PROVE Consented(flow', conn.tenant, conn.token)
    OBVIOUS
  <2>1. conn.token \in Tokens /\ Consented(flow, conn.tenant, conn.token)
    BY DEF IInv, TypeOK, Row, RowKnown
  <2>2. conn.tenant \in Tenants
    BY <2>1 DEF Consented, Tokens
  <2> QED
    BY <2>1, <2>2, ConsentKept
<1>3. /\ conn \in Row
      /\ conn.tenant = NoTenant <=> conn = NoRow
      /\ conn.status = "CONNECTED" <=> conn.token # NoToken
  BY DEF IInv, TypeOK, RowKnown, ConnectedIffToken
<1>4. CASE conn' = conn
  BY <1>2, <1>3, <1>4
<1>5. CASE conn' = NoRow
  BY <1>5 DEF NoRow
<1>6. ASSUME conn.tenant # NoTenant, NEW d \in Days, conn' = [conn EXCEPT !.away = d]
      PROVE  Good
  <2>1. conn'.tenant = conn.tenant /\ conn'.token = conn.token /\ conn'.status = conn.status
    BY <1>3, <1>6 DEF Row
  <2> QED
    BY <1>2, <1>3, <1>6, <2>1 DEF NoRow
<1>7. ASSUME conn.tenant # NoTenant, NEW s \in Statuses \ {"CONNECTED"}, Revoked(s)
      PROVE  Good
  <2>1. conn'.tenant = conn.tenant /\ conn'.token = NoToken /\ conn'.status = s
    BY <1>3, <1>7 DEF Row, Revoked
  <2> QED
    BY <1>7, <2>1 DEF NoRow
<1>8. ASSUME NEW t \in Tenants, NEW k \in Tokens, Consented(flow, t, k), Store(t, k)
      PROVE  Good
  <2>1. CASE conn' = conn
    BY <1>4, <2>1
  <2>2. CASE conn' = [tenant |-> t, status |-> "CONNECTED", token |-> k, away |-> 0]
    BY <1>8, <2>2, ConsentKept, ConnectionAssumption DEF NoRow
  <2> QED
    BY <1>8, <2>1, <2>2 DEF Store
<1> QED
  BY <1>4, <1>5, <1>6, <1>7, <1>8, RowWritten

-------------------------------------------------------------------------------
(* The purge jobs.                                                         *)

LEMMA NextWorker == IInv /\ [Next]_vars => WorkerKnows'
<1> SUFFICES ASSUME IInv, [Next]_vars PROVE WorkerKnows'
  OBVIOUS
<1> USE DEF WorkerKnows
<1> WorkerKnows /\ TypeOK
  BY DEF IInv
<1>1. CASE UNCHANGED <<jobs, worker>>
  BY <1>1 DEF Due
<1>2. ASSUME NEW k \in Topics, NEW e \in Epochs, Handle(k, e) PROVE WorkerKnows'
  BY <1>2 DEF Handle, Due
<1>3. ASSUME Tick PROVE WorkerKnows'
  BY <1>3 DEF Tick, Quiet
<1>4. ASSUME NEW j \in jobs, StartJob(j) PROVE WorkerKnows'
  BY <1>4, ConnectionAssumption DEF StartJob, TypeOK, Due
<1>5. ASSUME FinishJob \/ FailJob \/ AbortMaintenance PROVE WorkerKnows'
  BY <1>5 DEF FinishJob, FailJob, AbortMaintenance, IdleWorker
<1> QED
  BY <1>1, <1>2, <1>3, <1>4, <1>5, JobSteps

\* The status a job waits for, and the job that purges a row of that status.
Awaits(kind) == IF kind = "SHOPIFY_RETENTION_REVIEW" THEN "UNINSTALLED" ELSE "SHOP_REDACTION_PENDING"

Scheduled(queue, kind, t) == \E j \in queue : j.kind = kind /\ j.tenant = t

LEMMA JobsFate ==
  ASSUME IInv, [Next]_vars, NEW kind \in Kinds, NEW t \in Tenants,
         Scheduled(jobs, kind, t)
  PROVE  \/ Scheduled(jobs', kind, t)
         \/ FinishJob /\ worker.job.kind = kind /\ worker.job.tenant = t
<1> DEFINE Fate == \/ Scheduled(jobs', kind, t)
                   \/ FinishJob /\ worker.job.kind = kind /\ worker.job.tenant = t
<1>1. PICK j \in jobs : j.kind = kind /\ j.tenant = t
  BY DEF Scheduled
<1>2. j \in Job
  BY DEF IInv, TypeOK
<1>3. CASE UNCHANGED <<jobs, worker>>
  BY <1>1, <1>3 DEF Scheduled
<1>4. ASSUME NEW k \in Topics, NEW e \in Epochs, Handle(k, e) PROVE Fate
  BY <1>1, <1>4 DEF Handle, Scheduled
<1>5. CASE Tick
  <2> DEFINE older == [j EXCEPT !.left = IF @ > 0 THEN @ - 1 ELSE 0]
  <2>1. older \in jobs' /\ older.kind = kind /\ older.tenant = t
    BY <1>1, <1>2, <1>5 DEF Tick, Job
  <2> QED
    BY <2>1 DEF Scheduled
<1>6. ASSUME NEW i \in jobs, StartJob(i) PROVE Fate
  BY <1>1, <1>6 DEF StartJob, Scheduled
<1>7. CASE FinishJob
  BY <1>1, <1>7 DEF FinishJob, Scheduled
<1>8. CASE FailJob
  <2> DEFINE again == [worker.job EXCEPT !.attempts = @ + 1, !.left = 1]
  <2>1. CASE j # worker.job
    BY <1>1, <1>8, <2>1 DEF FailJob, Scheduled
  <2>2. CASE j = worker.job
    <3>1. again \in jobs' /\ again.kind = kind /\ again.tenant = t
      BY <1>1, <1>2, <1>8, <2>2 DEF FailJob, Job
    <3> QED
      BY <3>1 DEF Scheduled
  <2> QED
    BY <2>1, <2>2
<1>9. CASE AbortMaintenance
  BY <1>1, <1>9 DEF AbortMaintenance, Scheduled
<1> QED
  BY <1>3, <1>4, <1>5, <1>6, <1>7, <1>8, <1>9, JobSteps

\* A step that sets a status queues the job that waits for it, at its full delay.
LEMMA StatusSet ==
  ASSUME IInv, [Next]_vars, NEW kind \in Kinds,
         conn'.status = Awaits(kind), conn'.status # conn.status \/ conn'.tenant # conn.tenant
  PROVE  /\ conn'.tenant = conn.tenant
         /\ \E k \in Topics, e \in Epochs : Handle(k, e)
         /\ \E j \in jobs' : j.kind = kind /\ j.tenant = conn.tenant /\ j.left # 0
<1> DEFINE Set == /\ conn'.tenant = conn.tenant
                  /\ \E k \in Topics, e \in Epochs : Handle(k, e)
                  /\ \E j \in jobs' : j.kind = kind /\ j.tenant = conn.tenant /\ j.left # 0
<1>1. conn \in Row /\ Awaits(kind) \notin {"none", "CONNECTED", "DISCONNECTED"}
  BY DEF IInv, TypeOK, Awaits
<1>2. CASE UNCHANGED conn
  BY <1>2
<1>3. ASSUME NEW t \in Tenants, Disconnect(t) PROVE Set
  BY <1>1, <1>3 DEF Disconnect, Revoked, Row
<1>4. ASSUME NEW c \in Callbacks, PersistInstall(c) PROVE Set
  BY <1>1, <1>4 DEF PersistInstall, Store
<1>5. ASSUME NEW r \in Refreshers, PersistRefresh(r) PROVE Set
  BY <1>1, <1>5 DEF PersistRefresh, Store
<1>6. CASE Tick
  <2>1. conn'.status = conn.status /\ conn'.tenant = conn.tenant
    BY <1>1, <1>6 DEF Tick, Row
  <2> QED
    BY <2>1
<1>7. CASE FinishJob
  BY <1>1, <1>7 DEF FinishJob, Purge, NoRow
<1>8. ASSUME NEW k \in Topics, NEW e \in Epochs, Handle(k, e) PROVE Set
  <2>1. CASE k = "app/uninstalled"
    <3> DEFINE j == NewJob("SHOPIFY_RETENTION_REVIEW", conn.tenant, Grace)
    <3>1. conn'.status = "UNINSTALLED" /\ conn'.tenant = conn.tenant /\ j \in jobs'
      BY <1>1, <1>8, <2>1 DEF Handle, Revoked, Row
    <3>2. kind = "SHOPIFY_RETENTION_REVIEW"
      BY <3>1 DEF Awaits
    <3>3. j.kind = kind /\ j.tenant = conn.tenant /\ j.left # 0
      BY <3>2, ConstantTypes DEF NewJob
    <3> QED
      BY <1>8, <3>1, <3>3
  <2>2. CASE k # "app/uninstalled"
    <3> DEFINE j == NewJob("SHOPIFY_SHOP_HARD_DELETE", conn.tenant, RedactDelay)
    <3>1. conn'.status = "SHOP_REDACTION_PENDING" /\ conn'.tenant = conn.tenant /\ j \in jobs'
      BY <1>1, <1>8, <2>2 DEF Handle, Revoked, Row
    <3>2. kind = "SHOPIFY_SHOP_HARD_DELETE"
      BY <3>1 DEF Awaits, Kinds
    <3>3. j.kind = kind /\ j.tenant = conn.tenant /\ j.left # 0
      BY <3>2, ConnectionAssumption DEF NewJob
    <3> QED
      BY <1>8, <3>1, <3>3
  <2> QED
    BY <2>1, <2>2
<1> QED
  BY <1>2, <1>3, <1>4, <1>5, <1>6, <1>7, <1>8, RowSteps

LEMMA NextScheduled == IInv /\ [Next]_vars => PurgeScheduled'
<1> SUFFICES ASSUME IInv, [Next]_vars, NEW kind \in Kinds, conn'.status = Awaits(kind)
             PROVE  Scheduled(jobs', kind, conn'.tenant)
  BY DEF PurgeScheduled, Scheduled, Awaits, Kinds
<1>1. CASE conn'.status # conn.status \/ conn'.tenant # conn.tenant
  BY <1>1, StatusSet DEF Scheduled
<1>2. CASE conn'.status = conn.status /\ conn'.tenant = conn.tenant
  <2>1. Scheduled(jobs, kind, conn.tenant)
    BY <1>2 DEF IInv, PurgeScheduled, Scheduled, Awaits, Kinds
  <2>2. conn.tenant \in Tenants
    BY <2>1 DEF Scheduled, IInv, TypeOK, Job
  <2>3. CASE FinishJob /\ worker.job.kind = kind /\ worker.job.tenant = conn.tenant
    <3>1. CASE worker.spare
      <4>1. kind = "SHOPIFY_RETENTION_REVIEW" /\ conn.status = "UNINSTALLED"
        BY <1>2, <2>3, <3>1 DEF IInv, WorkerKnows, Awaits
      <4>2. PICK j \in jobs : /\ j.kind = kind
                             /\ j.tenant = conn.tenant
                             /\ j # worker.job
        BY <3>1, <4>1 DEF IInv, LaterReview
      <4> QED
        BY <1>2, <2>3, <4>2 DEF FinishJob, Scheduled
    <3>2. CASE ~worker.spare
      <4>1. conn' = NoRow
        BY <2>3, <3>2 DEF FinishJob, Purge
      <4> QED
        BY <2>2, <4>1, <1>2, ConnectionAssumption DEF NoRow
    <3> QED
      BY <3>1, <3>2
  <2> QED
    BY <1>2, <2>1, <2>2, <2>3, JobsFate
<1> QED
  BY <1>1, <1>2

LEMMA NextLaterReview == IInv /\ [Next]_vars => LaterReview'
<1> SUFFICES ASSUME IInv, [Next]_vars, worker'.spare, conn'.status = "UNINSTALLED"
             PROVE  \E j \in jobs' : /\ j.kind = "SHOPIFY_RETENTION_REVIEW"
                                     /\ j.tenant = conn'.tenant
                                     /\ j # worker'.job
  BY DEF LaterReview
<1> DEFINE Left == \E j \in jobs' : /\ j.kind = "SHOPIFY_RETENTION_REVIEW"
                                    /\ j.tenant = conn'.tenant
                                    /\ j # worker'.job
<1>1. ASSUME worker' = worker, jobs \subseteq jobs' PROVE Left
  <2>1. CASE conn'.status # conn.status \/ conn'.tenant # conn.tenant
    <3>1. PICK j \in jobs' : /\ j.kind = "SHOPIFY_RETENTION_REVIEW"
                            /\ j.tenant = conn.tenant
                            /\ j.left # 0
      BY <2>1, StatusSet DEF Awaits, Kinds
    <3>2. conn'.tenant = conn.tenant
      BY <2>1, StatusSet DEF Awaits, Kinds
    <3>3. worker.job.left = 0
      BY <1>1 DEF IInv, WorkerKnows, Due
    <3> QED
      BY <1>1, <3>1, <3>2, <3>3
  <2>2. CASE conn'.status = conn.status /\ conn'.tenant = conn.tenant
    BY <1>1, <2>2 DEF IInv, LaterReview
  <2> QED
    BY <2>1, <2>2
<1>2. ASSUME NEW k \in Topics, NEW e \in Epochs, Handle(k, e) PROVE Left
  BY <1>1, <1>2 DEF Handle
<1>3. ~Tick
  BY DEF Tick, Quiet, IInv, WorkerKnows
<1>4. ASSUME NEW j \in jobs, StartJob(j) PROVE FALSE
  BY <1>4 DEF StartJob, Reconnected
<1>5. ~(FinishJob \/ FailJob \/ AbortMaintenance)
  BY DEF FinishJob, FailJob, AbortMaintenance, IdleWorker
<1> QED
  BY <1>1, <1>2, <1>3, <1>4, <1>5, JobSteps

-------------------------------------------------------------------------------
(* Theorems.                                                               *)

\* The invariant holds in every reachable state: what the handlers in flight know stays
\* true under every interleaving of OAuth callbacks, refreshes, webhooks and maintenance.
THEOREM Invariance == Spec => []IInv
<1>1. Init => IInv
  <2> SUFFICES ASSUME Init PROVE IInv
    OBVIOUS
  <2> USE DEF Init
  <2>1. TypeOK
    BY InitType
  <2>2. FlowsInOrder /\ InstalledOnce
    BY DEF FlowsInOrder, InstalledOnce
  <2>3. CallbacksKnow /\ NonceSpentOnce
    BY DEF CallbacksKnow, NonceSpentOnce, IdleCallback
  <2>4. RefreshersKnow
    BY DEF RefreshersKnow, IdleRefresh
  <2>5. RowKnown /\ ConnectedIffToken /\ PurgeScheduled
    BY DEF RowKnown, ConnectedIffToken, PurgeScheduled, NoRow
  <2>6. WorkerKnows /\ LaterReview
    BY DEF WorkerKnows, LaterReview, IdleWorker
  <2> QED
    BY <2>1, <2>2, <2>3, <2>4, <2>5, <2>6 DEF IInv
<1>2. IInv /\ [Next]_vars => IInv'
  BY NextType, NextInstalled, NextCallbacks, NextRefreshers, NextRow, NextWorker, NextScheduled,
     NextLaterReview, FlowsKept
     DEF IInv, FlowsInOrder
<1> QED
  BY <1>1, <1>2, PTL DEF Spec

\* Every variable keeps its type.
THEOREM TypeCorrect == Spec => []TypeOK
BY Invariance, PTL DEF IInv

\* consume_oauth_nonce admits one callback for each state the tenant was given.
THEOREM NonceSafe == Spec => []NonceSpentOnce
BY Invariance, PTL DEF IInv

\* A row has a token exactly while it is CONNECTED, whichever handler wrote it last.
THEOREM TokenSafe == Spec => []ConnectedIffToken
BY Invariance, PTL DEF IInv

\* An uninstalled or redacted shop keeps the job that purges it through every retry,
\* every other job and every later connection (uninstall, redact_shop, _process_job).
THEOREM PurgeSafe == Spec => []PurgeScheduled
BY Invariance, PTL DEF IInv

\* No tenant's row or handler ever holds a token that came from another tenant's consent.
THEOREM ConsentSafe == Spec => []TokensByConsent
<1>1. IInv => TokensByConsent
  BY DEF IInv, RowKnown, RefreshersKnow, TokensByConsent, Consented
<1> QED
  BY <1>1, Invariance, PTL

\* A shop changes hands only by way of a purge for the tenant that had it.
THEOREM TenantSafe == Spec => OneTenantPerShop
<1> DEFINE Kept == conn # NoRow /\ conn'.tenant # conn.tenant =>
                     /\ conn' = NoRow
                     /\ worker.job # NoJob
                     /\ worker.job.tenant = conn.tenant
<1>1. IInv /\ [Next]_vars => Kept
  <2> SUFFICES ASSUME IInv, [Next]_vars, conn # NoRow, conn'.tenant # conn.tenant
               PROVE  /\ conn' = NoRow
                      /\ worker.job # NoJob
                      /\ worker.job.tenant = conn.tenant
    OBVIOUS
  <2>1. conn \in Row /\ conn.tenant # NoTenant
    BY DEF IInv, TypeOK, RowKnown
  <2>2. ASSUME NEW t \in Tenants PROVE ~Disconnect(t)
    BY <2>1 DEF Disconnect, Revoked, Row
  <2>3. ASSUME NEW k \in Topics, NEW e \in Epochs PROVE ~Handle(k, e)
    BY <2>1 DEF Handle, Revoked, Row
  <2>4. ASSUME NEW c \in Callbacks PROVE ~PersistInstall(c)
    BY <2>1 DEF PersistInstall, Store
  <2>5. ASSUME NEW r \in Refreshers PROVE ~PersistRefresh(r)
    BY <2>1 DEF PersistRefresh, Store
  <2>6. ~Tick
    BY <2>1 DEF Tick, Row
  <2>7. FinishJob
    BY <2>2, <2>3, <2>4, <2>5, <2>6, RowSteps
  <2> QED
    BY <2>7 DEF FinishJob, Purge
<1> QED
  BY <1>1, Invariance, PTL DEF Spec, OneTenantPerShop

===============================================================================
