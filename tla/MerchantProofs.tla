---------------------------- MODULE MerchantProofs -----------------------------
(***************************************************************************)
(* Proofs about the merchant's side: who reaches a tenant, the experiment  *)
(* the service preregisters, the files of the winback pilot and what the   *)
(* dashboard shows of the shop.                                            *)
(***************************************************************************)
EXTENDS MerchantAccess, MerchantExperiment, WinbackPilot, MerchantDashboard, FiniteFacts, TLAPS

-------------------------------------------------------------------------------
(***************************************************************************)
(* Proofs about MerchantAccess, for every number of identities, keys and   *)
(* bundles.  The property says nothing of identity_tenants; it holds       *)
(* because whoever was let through is bound there to the tenant it was let *)
(* through as, and a binding never changes.                                *)
(***************************************************************************)

\* Who was let through is bound to that tenant.
AdmittedAreBound == \A c \in admitted : boundTo[c.identity] = c.tenant

Consented == \A c \in admitted : [tenant |-> c.tenant, bundle |-> c.bundle] \in acceptances

AccessInv ==
    /\ AccessTypeOK
    /\ AdmittedAreBound
    /\ Consented

-------------------------------------------------------------------------------
(* Types.                                                                  *)

LEMMA TenantType == ASSUME AccessTypeOK, NEW i \in Identities PROVE TenantOf(i) \in Tenants
BY DEF AccessTypeOK, TenantOf, Tenants

LEMMA ResolveType ==
  ASSUME AccessTypeOK, NEW i \in Identities, Resolve(i)
  PROVE  boundTo' \in [Identities -> Tenants \cup {Unbound}]
BY TenantType DEF AccessTypeOK, Resolve

LEMMA AccessTypeStep == AccessTypeOK /\ [AccessNext]_accessVars => AccessTypeOK'
<1> SUFFICES ASSUME AccessTypeOK, [AccessNext]_accessVars PROVE AccessTypeOK'
  OBVIOUS
<1>1. CASE Deploy
  BY <1>1 DEF Deploy, AccessTypeOK
<1>2. ASSUME NEW i \in Identities, ShowAgreements(i) PROVE AccessTypeOK'
  <2>1. bundle.version \in BundleVersions
    BY DEF AccessTypeOK, Bundles
  <2> QED
    BY <1>2, <2>1, ResolveType DEF ShowAgreements, AccessTypeOK
<1>3. ASSUME NEW i \in Identities, AcceptAgreements(i) PROVE AccessTypeOK'
  <2>1. [tenant |-> TenantOf(i), bundle |-> bundle] \in [tenant : Tenants, bundle : Bundles]
    BY TenantType DEF AccessTypeOK
  <2> QED
    BY <1>3, <2>1, ResolveType DEF AcceptAgreements, AccessTypeOK
<1>4. ASSUME NEW i \in Identities, Connect(i) PROVE AccessTypeOK'
  <2>1. [identity |-> i, tenant |-> TenantOf(i), bundle |-> bundle]
            \in [identity : Identities, tenant : Tenants, bundle : Bundles]
    BY TenantType DEF AccessTypeOK
  <2> QED
    BY <1>4, <2>1, ResolveType DEF Connect, AccessTypeOK
<1>5. CASE UNCHANGED accessVars
  BY <1>5 DEF accessVars, AccessTypeOK
<1> QED
  BY <1>1, <1>2, <1>3, <1>4, <1>5 DEF AccessNext

-------------------------------------------------------------------------------
(* The binding and the acceptance behind an admission.                     *)

\* A binding, once made, is what every later resolution of the identity finds.
LEMMA BoundForGood ==
  ASSUME AccessTypeOK, NEW i \in Identities, Resolve(i), NEW j \in Identities,
         boundTo[j] # Unbound
  PROVE  boundTo'[j] = boundTo[j]
BY DEF AccessTypeOK, Resolve

LEMMA TenantIsBound == ASSUME NEW t \in Tenants PROVE t # Unbound
<1>1. t.key # "none"
  BY AccessAssumption DEF Tenants
<1>2. Unbound.key = "none"
  BY DEF Unbound
<1> QED
  BY <1>1, <1>2

LEMMA AdmittedStep ==
  ASSUME AccessInv, NEW i \in Identities, Resolve(i), admitted' = admitted
  PROVE  AdmittedAreBound'
<1> SUFFICES ASSUME NEW c \in admitted PROVE boundTo'[c.identity] = c.tenant
  BY DEF AdmittedAreBound
<1>1. c.identity \in Identities /\ c.tenant \in Tenants
  BY DEF AccessInv, AccessTypeOK
<1>2. boundTo[c.identity] = c.tenant
  BY DEF AccessInv, AdmittedAreBound
<1> QED
  BY <1>1, <1>2, BoundForGood, TenantIsBound DEF AccessInv

LEMMA ConnectStep ==
  ASSUME AccessInv, NEW i \in Identities, Connect(i)
  PROVE  AdmittedAreBound' /\ Consented'
<1> DEFINE new == [identity |-> i, tenant |-> TenantOf(i), bundle |-> bundle]
<1>1. Resolve(i) /\ admitted' = admitted \cup {new} /\ acceptances' = acceptances
  BY DEF Connect
<1>2. AdmittedAreBound'
  <2> SUFFICES ASSUME NEW c \in admitted' PROVE boundTo'[c.identity] = c.tenant
    BY DEF AdmittedAreBound
  <2>1. CASE c \in admitted
    <3>1. c.identity \in Identities /\ c.tenant \in Tenants
      BY <2>1 DEF AccessInv, AccessTypeOK
    <3>2. boundTo[c.identity] = c.tenant
      BY <2>1 DEF AccessInv, AdmittedAreBound
    <3> QED
      BY <1>1, <3>1, <3>2, BoundForGood, TenantIsBound DEF AccessInv
  <2>2. CASE c = new
    BY <1>1, <2>2 DEF Resolve, AccessInv, AccessTypeOK
  <2> QED
    BY <1>1, <2>1, <2>2
<1>3. [tenant |-> TenantOf(i), bundle |-> bundle] \in acceptances
  <2>1. PICK a \in acceptances : /\ a.tenant = TenantOf(i)
                                 /\ a.bundle.version = bundle.version
                                 /\ a.bundle.hashes = bundle.hashes
    BY DEF Connect, Status, Accepted
  <2>2. a.bundle \in Bundles /\ bundle \in Bundles
    BY DEF AccessInv, AccessTypeOK
  <2>3. a.bundle = bundle
    BY <2>1, <2>2 DEF Bundles
  <2>4. a \in [tenant : Tenants, bundle : Bundles]
    BY DEF AccessInv, AccessTypeOK
  <2>5. a = [tenant |-> TenantOf(i), bundle |-> bundle]
    BY <2>1, <2>3, <2>4
  <2> QED
    BY <2>5
<1>4. Consented'
  <2> SUFFICES ASSUME NEW c \in admitted'
               PROVE  [tenant |-> c.tenant, bundle |-> c.bundle] \in acceptances'
    BY DEF Consented
  <2>1. CASE c \in admitted
    BY <1>1, <2>1 DEF AccessInv, Consented
  <2>2. CASE c = new
    BY <1>1, <1>3, <2>2
  <2> QED
    BY <1>1, <2>1, <2>2
<1> QED
  BY <1>2, <1>4

LEMMA AccessStep == AccessInv /\ [AccessNext]_accessVars => AccessInv'
<1> SUFFICES ASSUME AccessInv, [AccessNext]_accessVars
             PROVE  AdmittedAreBound' /\ Consented'
  BY AccessTypeStep DEF AccessInv
<1>1. CASE Deploy \/ UNCHANGED accessVars
  BY <1>1 DEF Deploy, accessVars, AccessInv, AdmittedAreBound, Consented
<1>2. ASSUME NEW i \in Identities, ShowAgreements(i) PROVE AdmittedAreBound' /\ Consented'
  BY <1>2, AdmittedStep DEF ShowAgreements, AccessInv, Consented
<1>3. ASSUME NEW i \in Identities, AcceptAgreements(i) PROVE AdmittedAreBound' /\ Consented'
  BY <1>3, AdmittedStep DEF AcceptAgreements, AccessInv, Consented
<1> QED
  BY <1>1, <1>2, <1>3, ConnectStep DEF AccessNext

\* The bindings and acceptances behind every admission stay what they were.
THEOREM AccessInvariant == AccessSpec => []AccessInv
<1>1. AccessInit => AccessInv
  BY DEF AccessInit, AccessInv, AccessTypeOK, AdmittedAreBound, Consented
<1> QED
  BY <1>1, AccessStep, PTL DEF AccessSpec

\* Whoever was let through to connect a shop had accepted the very documents in force, in the
\* tenant it connects, and acts in no other tenant.
THEOREM AccessSafe == AccessSpec => []AccessRestsOnConsent
<1>1. AccessInv => AccessRestsOnConsent
  <2> SUFFICES ASSUME AccessInv PROVE AccessRestsOnConsent
    OBVIOUS
  <2>1. \A c \in admitted, d \in admitted : c.identity = d.identity => c.tenant = d.tenant
    BY DEF AccessInv, AdmittedAreBound
  <2> QED
    BY <2>1 DEF AccessInv, Consented, AccessRestsOnConsent
<1> QED
  BY <1>1, AccessInvariant, PTL

-------------------------------------------------------------------------------
(***************************************************************************)
(* Proofs about MerchantExperiment, for every set of customers and every   *)
(* number of threads.  The inductive invariant says where a cohort that is *)
(* frozen, assigned or about to be comes from: an entry of the ledger,     *)
(* which only grows, or a request that has yet to append it; and that      *)
(* every learning record has a result behind such an entry.                *)
(***************************************************************************)

-------------------------------------------------------------------------------
(* The inductive invariant.                                                *)

PreEntry(c) == [type |-> "PRE_OUTCOME_EXPERIMENT", cohort |-> c]

\* In the ledger, or about to be put there by the request that froze the cohort.
OnItsWay(c) == InLedger(c) \/ Pending(c)

\* What an assigned cohort is: without an overlap it is in the ledger.
Registered(c) == InLedger(c) \/ (c \in overtaken /\ Pending(c))

\* A result of the ledger in which the action came out best, of a cohort registered before it, or
\* overtaken.
ResultOf(action) ==
    \E j \in DOMAIN journal :
        /\ journal[j].type = "EXPERIMENT_RESULT"
        /\ journal[j].best = action
        /\ \/ \E i \in DOMAIN journal : i < j /\ Preregistered(journal[j].cohort, i)
           \/ journal[j].cohort \in overtaken /\ OnItsWay(journal[j].cohort)

FrozenRegistered == spec.frozen = TRUE => OnItsWay(spec.cohort)
RequestsRegistered ==
    \A t \in Threads :
        /\ request[t].op \in {"assign", "compare", "result"} => Registered(request[t].cohort)
        /\ request[t].op = "learn" => ResultOf(BestOf[request[t].cohort])
AssignedRegistered == assigned # NoCohort => Registered(assigned)
LearnedFromResults == \A k \in DOMAIN learned : ResultOf(learned[k].action)

MerchantInv ==
    /\ MerchantTypeOK
    /\ FrozenRegistered
    /\ RequestsRegistered
    /\ AssignedRegistered
    /\ LearnedFromResults

-------------------------------------------------------------------------------
(* Types.                                                                  *)

PreEntries == [type : {"PRE_OUTCOME_EXPERIMENT"}, cohort : Cohorts]
ResultEntries == [type : {"EXPERIMENT_RESULT"}, cohort : Cohorts, best : Treatments]
Ingests == [op : {"ingest"}, event : EventIds]
Claims == [op : RequestSteps, cohort : Cohorts]

LEMMA RequestTypes ==
  ASSUME NEW r \in Requests
  PROVE  /\ r.op \in RequestSteps => r \in Claims /\ r.cohort \in Cohorts
         /\ r.op = "ingest" => r \in Ingests /\ r.event \in EventIds
<1>1. r = Free \/ r \in Ingests \/ r \in Claims
  BY Zenon DEF Requests, Ingests, Claims
<1>2. CASE r = Free
  BY <1>2 DEF Free, RequestSteps
<1>3. CASE r \in Ingests
  BY <1>3 DEF Ingests, RequestSteps
<1>4. CASE r \in Claims
  BY <1>4 DEF Claims, RequestSteps
<1> QED
  BY <1>1, <1>2, <1>3, <1>4

LEMMA RequestSets ==
    /\ Free \in Requests /\ Ingests \subseteq Requests
    /\ \A op \in RequestSteps, c \in Cohorts : [op |-> op, cohort |-> c] \in Requests
<1>1. Free \in Requests /\ Ingests \subseteq Requests /\ Claims \subseteq Requests
  BY Zenon DEF Requests, Ingests, Claims
<1>2. \A op \in RequestSteps, c \in Cohorts : [op |-> op, cohort |-> c] \in Claims
  BY DEF Claims
<1> QED
  BY <1>1, <1>2

LEMMA EntryTypes ==
    /\ \A c \in Cohorts : PreEntry(c) \in Entries
    /\ \A c \in Cohorts, b \in Treatments :
           [type |-> "EXPERIMENT_RESULT", cohort |-> c, best |-> b] \in Entries
<1>1. \A c \in Cohorts : PreEntry(c) \in PreEntries
  BY DEF PreEntry, PreEntries
<1>2. \A c \in Cohorts, b \in Treatments :
          [type |-> "EXPERIMENT_RESULT", cohort |-> c, best |-> b] \in ResultEntries
  BY DEF ResultEntries
<1>3. PreEntries \subseteq Entries /\ ResultEntries \subseteq Entries
  BY Zenon DEF Entries, PreEntries, ResultEntries
<1> QED
  BY <1>1, <1>2, <1>3

LEMMA ArmSizes == ASSUME NEW c \in Cohorts, NEW arm PROVE InArm(c, arm) \in Nat
<1>1. IsFiniteSet(Members) /\ {m \in c : ArmOf[m] = arm} \subseteq Members
  BY MerchantAssumption DEF Cohorts
<1>2. IsFiniteSet({m \in c : ArmOf[m] = arm})
  BY <1>1, FS_Subset
<1> QED
  BY <1>2, FS_CardinalityType DEF InArm

-------------------------------------------------------------------------------
(* What a step keeps: the ledger only grows, a cohort that was overtaken   *)
(* stays so, and a request between its two writes only ends by the second. *)

JournalKept == \A i \in DOMAIN journal : i \in DOMAIN journal' /\ journal'[i] = journal[i]

PendingKept == \A c : Pending(c) => OnItsWay(c)'

LEMMA JournalGrows ==
  ASSUME journal \in Seq(Entries), NEW e \in Entries, journal' = Append(journal, e)
  PROVE  /\ journal' \in Seq(Entries)
         /\ Len(journal') = Len(journal) + 1 /\ Len(journal) \in Nat
         /\ journal'[Len(journal) + 1] = e
         /\ Len(journal) + 1 \in DOMAIN journal'
         /\ JournalKept
         /\ \A i \in DOMAIN journal : i < Len(journal) + 1
BY DEF JournalKept

LEMMA RegisteredStays ==
  ASSUME JournalKept, PendingKept, overtaken \subseteq overtaken'
  PROVE  /\ \A c : InLedger(c) => InLedger(c)'
         /\ \A c : OnItsWay(c) => OnItsWay(c)'
         /\ \A c : Registered(c) => Registered(c)'
         /\ \A a : ResultOf(a) => ResultOf(a)'
<1>1. \A c, i : Preregistered(c, i) => Preregistered(c, i)'
  BY DEF JournalKept, Preregistered
<1>2. \A c : InLedger(c) => InLedger(c)'
  BY <1>1 DEF JournalKept, InLedger
<1>3. \A c : OnItsWay(c) => OnItsWay(c)'
  BY <1>2 DEF PendingKept, OnItsWay
<1>4. \A c : Registered(c) => Registered(c)'
  BY <1>2 DEF PendingKept, OnItsWay, Registered
<1>5. ASSUME NEW a, ResultOf(a) PROVE ResultOf(a)'
  <2>1. PICK j \in DOMAIN journal :
            /\ journal[j].type = "EXPERIMENT_RESULT"
            /\ journal[j].best = a
            /\ \/ \E i \in DOMAIN journal : i < j /\ Preregistered(journal[j].cohort, i)
               \/ journal[j].cohort \in overtaken /\ OnItsWay(journal[j].cohort)
    BY <1>5 DEF ResultOf
  <2>2. j \in DOMAIN journal' /\ journal'[j] = journal[j]
    BY DEF JournalKept
  <2>3. \A i \in DOMAIN journal : i \in DOMAIN journal'
    BY DEF JournalKept
  <2>4. CASE \E i \in DOMAIN journal : i < j /\ Preregistered(journal[j].cohort, i)
    BY <2>1, <2>2, <2>3, <2>4, <1>1 DEF ResultOf
  <2>5. CASE journal[j].cohort \in overtaken /\ OnItsWay(journal[j].cohort)
    BY <2>1, <2>2, <2>5, <1>3 DEF ResultOf
  <2> QED
    BY <2>1, <2>4, <2>5
<1> QED
  BY <1>2, <1>3, <1>4, <1>5

LEMMA RequestUpdate ==
  ASSUME MerchantTypeOK, NEW t \in Threads, NEW r \in Requests,
         request' = [request EXCEPT ![t] = r]
  PROVE  /\ request' \in [Threads -> Requests]
         /\ request'[t] = r
         /\ \A u \in Threads : u # t => request'[u] = request[u]
BY DEF MerchantTypeOK

\* One request goes on to r, with the ledger as it is or longer.
LEMMA RequestStep ==
  ASSUME MerchantInv, NEW t \in Threads, NEW r \in Requests,
         request' = [request EXCEPT ![t] = r],
         \/ request[t].op # "record"
         \/ \A c : request[t] = [op |-> "record", cohort |-> c] => InLedger(c)',
         JournalKept, overtaken \subseteq overtaken'
  PROVE  /\ request' \in [Threads -> Requests]
         /\ \A c : InLedger(c) => InLedger(c)'
         /\ \A c : OnItsWay(c) => OnItsWay(c)'
         /\ \A c : Registered(c) => Registered(c)'
         /\ \A a : ResultOf(a) => ResultOf(a)'
         /\ AssignedRegistered /\ assigned' = assigned => AssignedRegistered'
         /\ spec' = spec => FrozenRegistered'
         /\ learned' = learned => LearnedFromResults'
         /\ /\ r.op \in {"assign", "compare", "result"} => Registered(r.cohort)'
            /\ r.op = "learn" => ResultOf(BestOf[r.cohort])'
            => RequestsRegistered'
<1>1. /\ request' \in [Threads -> Requests]
      /\ request'[t] = r /\ \A u \in Threads : u # t => request'[u] = request[u]
  BY RequestUpdate DEF MerchantInv
<1>2. PendingKept
  <2> SUFFICES ASSUME NEW c, Pending(c) PROVE OnItsWay(c)'
    BY DEF PendingKept
  <2>1. PICK u \in Threads : request[u] = [op |-> "record", cohort |-> c]
    BY DEF Pending
  <2>2. CASE u = t
    BY <2>1, <2>2 DEF OnItsWay
  <2>3. CASE u # t
    <3>1. request'[u] = [op |-> "record", cohort |-> c]
      BY <2>1, <2>3, <1>1
    <3> QED
      BY <3>1 DEF OnItsWay, Pending
  <2> QED
    BY <2>2, <2>3
<1>3. /\ \A c : InLedger(c) => InLedger(c)'
      /\ \A c : OnItsWay(c) => OnItsWay(c)'
      /\ \A c : Registered(c) => Registered(c)'
      /\ \A a : ResultOf(a) => ResultOf(a)'
  BY <1>2, RegisteredStays
<1>4. assigned' = assigned => AssignedRegistered'
  BY <1>3 DEF MerchantInv, AssignedRegistered
<1>5. spec' = spec => FrozenRegistered'
  BY <1>3 DEF MerchantInv, FrozenRegistered
<1>6. learned' = learned => LearnedFromResults'
  BY <1>3 DEF MerchantInv, LearnedFromResults
<1>7. ASSUME r.op \in {"assign", "compare", "result"} => Registered(r.cohort)',
             r.op = "learn" => ResultOf(BestOf[r.cohort])'
      PROVE  RequestsRegistered'
  <2> SUFFICES ASSUME NEW u \in Threads, NEW q, q = request'[u]
               PROVE  /\ q.op \in {"assign", "compare", "result"} => Registered(q.cohort)'
                      /\ q.op = "learn" => ResultOf(BestOf[q.cohort])'
    BY DEF RequestsRegistered
  <2>1. CASE u = t
    BY <2>1, <1>1, <1>7
  <2>2. CASE u # t
    <3>1. q = request[u]
      BY <2>2, <1>1
    <3>2. /\ q.op \in {"assign", "compare", "result"} => Registered(q.cohort)
          /\ q.op = "learn" => ResultOf(BestOf[q.cohort])
      BY <3>1 DEF MerchantInv, RequestsRegistered
    <3> QED
      BY <3>2, <1>3
  <2> QED
    BY <2>1, <2>2
<1> QED
  BY <1>1, <1>3, <1>4, <1>5, <1>6, <1>7

-------------------------------------------------------------------------------
(* The steps.                                                              *)

\* A request about an event, or one that writes neither the ledger nor the assignments.
LEMMA QuietStep ==
  ASSUME MerchantInv, NEW t \in Threads,
         \/ \E e \in EventIds : CheckEvent(t, e)
         \/ AppendEvent(t)
         \/ ReadToCreate(t) \/ CreateExperiment(t) \/ ReadToFreeze(t)
         \/ ReadAssigned(t, "reveal") \/ RevealDemoOutcomes(t)
  PROVE  MerchantInv'
<1> USE DEF RequestSteps
<1>1. UNCHANGED <<twins, opportunity, assigned, journal, learned, overtaken>>
  BY DEF CheckEvent, AppendEvent, ReadToCreate, CreateExperiment, ReadToFreeze, ReadAssigned,
         RevealDemoOutcomes
<1>2. /\ spec \in Specs /\ spec.cohort \in Cohorts /\ opportunity \in Cohorts /\ assigned \in Cohorts
      /\ request[t] \in Requests /\ outcomes \in Cohorts /\ events \in [EventIds -> 0..MaxEvents]
  BY DEF MerchantInv, MerchantTypeOK, Specs
<1>3. PICK r \in Requests :
          /\ request' = [request EXCEPT ![t] = r]
          /\ r.op \notin {"assign", "compare", "result", "learn"}
          /\ request[t].op # "record"
  <2>1. CASE \E e \in EventIds : CheckEvent(t, e)
    <3>1. PICK e \in EventIds : CheckEvent(t, e)
      BY <2>1
    <3>2. PICK q \in Requests : q = [op |-> "ingest", event |-> e]
      BY RequestSets DEF Ingests
    <3>3. /\ request' = [request EXCEPT ![t] = q]
          /\ q.op \notin {"assign", "compare", "result", "learn"}
          /\ request[t].op # "record"
      BY <3>1, <3>2 DEF CheckEvent, Begin, Free
    <3> QED
      BY <3>3
  <2>2. CASE AppendEvent(t) \/ CreateExperiment(t) \/ RevealDemoOutcomes(t)
    BY <2>2, RequestSets DEF AppendEvent, CreateExperiment, RevealDemoOutcomes, End, Free
  <2>3. CASE ReadToCreate(t)
    <3>1. PICK q \in Requests : q = [op |-> "create", cohort |-> opportunity]
      BY <1>2, RequestSets
    <3>2. /\ request' = [request EXCEPT ![t] = q]
          /\ q.op \notin {"assign", "compare", "result", "learn"}
          /\ request[t].op # "record"
      BY <2>3, <3>1 DEF ReadToCreate, Begin, Free
    <3> QED
      BY <3>2
  <2>4. CASE ReadToFreeze(t)
    <3>1. PICK q \in Requests : q = [op |-> "freeze", cohort |-> spec.cohort]
      BY <1>2, RequestSets
    <3>2. /\ request' = [request EXCEPT ![t] = q]
          /\ q.op \notin {"assign", "compare", "result", "learn"}
          /\ request[t].op # "record"
      BY <2>4, <3>1 DEF ReadToFreeze, Begin, Free
    <3> QED
      BY <3>2
  <2>5. CASE ReadAssigned(t, "reveal")
    <3>1. PICK q \in Requests : q = [op |-> "reveal", cohort |-> assigned]
      BY <1>2, RequestSets
    <3>2. /\ request' = [request EXCEPT ![t] = q]
          /\ q.op \notin {"assign", "compare", "result", "learn"}
          /\ request[t].op # "record"
      BY <2>5, <3>1 DEF ReadAssigned, Begin, Free
    <3> QED
      BY <3>2
  <2> QED
    BY <2>1, <2>2, <2>3, <2>4, <2>5
<1>4. events' \in [EventIds -> 0..MaxEvents]
  <2>1. CASE AppendEvent(t)
    <3>1. request[t].event \in EventIds
      BY <2>1, <1>2, RequestTypes DEF AppendEvent
    <3> QED
      BY <2>1, <3>1, <1>2, MerchantAssumption DEF AppendEvent
  <2>2. CASE events' = events
    BY <2>2, <1>2
  <2> QED
    BY <2>1, <2>2 DEF CheckEvent, ReadToCreate, CreateExperiment, ReadToFreeze, ReadAssigned,
                      RevealDemoOutcomes
<1>5. outcomes' \in Cohorts
  <2>1. CASE RevealDemoOutcomes(t)
    BY <2>1, <1>2, RequestTypes DEF RevealDemoOutcomes
  <2>2. CASE outcomes' = outcomes
    BY <2>2, <1>2
  <2> QED
    BY <2>1, <2>2 DEF CheckEvent, AppendEvent, ReadToCreate, CreateExperiment, ReadToFreeze,
                      ReadAssigned
<1>6. spec' \in Specs /\ (spec' = spec \/ spec'.frozen = FALSE)
  <2>1. CASE CreateExperiment(t)
    <3>1. request[t].cohort \in Cohorts
      BY <2>1, <1>2, RequestTypes DEF CreateExperiment
    <3> QED
      BY <2>1, <3>1 DEF CreateExperiment, Specs
  <2>2. CASE spec' = spec
    BY <2>2, <1>2
  <2> QED
    BY <2>1, <2>2 DEF CheckEvent, AppendEvent, ReadToCreate, ReadToFreeze, ReadAssigned,
                      RevealDemoOutcomes
<1>7. JournalKept
  BY <1>1 DEF JournalKept
<1>8. /\ request' \in [Threads -> Requests]
      /\ RequestsRegistered' /\ AssignedRegistered' /\ LearnedFromResults'
      /\ spec' = spec => FrozenRegistered'
  <2>1. /\ r.op \in {"assign", "compare", "result"} => Registered(r.cohort)'
        /\ r.op = "learn" => ResultOf(BestOf[r.cohort])'
    BY <1>3
  <2>2. AssignedRegistered
    BY DEF MerchantInv
  <2> QED
    BY <2>1, <2>2, <1>1, <1>3, <1>7, RequestStep
<1>9. FrozenRegistered'
  <2>1. CASE spec'.frozen = FALSE
    BY <2>1 DEF FrozenRegistered
  <2> QED
    BY <2>1, <1>6, <1>8
<1>10. MerchantTypeOK'
  BY <1>1, <1>4, <1>5, <1>6, <1>8 DEF MerchantInv, MerchantTypeOK
<1> QED
  BY <1>8, <1>9, <1>10 DEF MerchantInv

\* The cohort is frozen for everybody, and the request that froze it has yet to write it down.
LEMMA PublishFrozenStep ==
  ASSUME MerchantInv, NEW t \in Threads, PublishFrozen(t)
  PROVE  MerchantInv'
<1>0. PICK c, r : c = request[t].cohort /\ r = [op |-> "record", cohort |-> c]
  OBVIOUS
<1>1. /\ request[t] \in Requests /\ request[t].op = "freeze"
      /\ spec' = [cohort |-> c, frozen |-> TRUE]
      /\ request' = [request EXCEPT ![t] = r]
      /\ UNCHANGED <<events, twins, opportunity, assigned, outcomes, journal, learned, overtaken>>
  BY <1>0 DEF MerchantInv, MerchantTypeOK, PublishFrozen, Proceed
<1>2. c \in Cohorts
  BY <1>0, <1>1, RequestTypes DEF RequestSteps
<1>3. r \in Requests
  BY <1>0, <1>2, RequestSets DEF RequestSteps
<1>4. JournalKept
  BY <1>1 DEF JournalKept
<1>5. request' \in [Threads -> Requests] /\ RequestsRegistered' /\ AssignedRegistered' /\ LearnedFromResults'
  <2>1. AssignedRegistered
    BY DEF MerchantInv
  <2>2. r.op # "assign" /\ r.op # "compare" /\ r.op # "result" /\ r.op # "learn"
    BY <1>0
  <2> QED
    BY <2>1, <2>2, <1>1, <1>3, <1>4, RequestStep
<1>6. FrozenRegistered'
  <2>1. request'[t] = [op |-> "record", cohort |-> spec'.cohort]
    BY <1>0, <1>1, <1>3, RequestUpdate DEF MerchantInv
  <2> QED
    BY <2>1 DEF FrozenRegistered, OnItsWay, Pending
<1>7. MerchantTypeOK'
  <2>1. spec' \in Specs
    BY <1>1, <1>2 DEF Specs
  <2> QED
    BY <2>1, <1>1, <1>5 DEF MerchantInv, MerchantTypeOK
<1> QED
  BY <1>5, <1>6, <1>7 DEF MerchantInv

LEMMA RecordFrozenStep ==
  ASSUME MerchantInv, NEW t \in Threads, RecordFrozen(t)
  PROVE  MerchantInv'
<1>0. PICK c : c = request[t].cohort
  OBVIOUS
<1>1. /\ request[t] \in Requests /\ request[t].op = "record"
      /\ journal \in Seq(Entries) /\ journal' = Append(journal, PreEntry(c))
      /\ request' = [request EXCEPT ![t] = Free]
      /\ UNCHANGED <<events, twins, opportunity, spec, assigned, outcomes, learned, overtaken>>
  BY <1>0 DEF MerchantInv, MerchantTypeOK, RecordFrozen, End, PreEntry
<1>2. PreEntry(c) \in Entries
  BY <1>0, <1>1, RequestTypes, EntryTypes DEF RequestSteps
<1>3. /\ journal' \in Seq(Entries) /\ JournalKept
      /\ Len(journal) + 1 \in DOMAIN journal' /\ journal'[Len(journal) + 1] = PreEntry(c)
  BY <1>1, <1>2, JournalGrows
<1>4. \A d : request[t] = [op |-> "record", cohort |-> d] => InLedger(d)'
  BY <1>0, <1>3 DEF InLedger, Preregistered, PreEntry
<1>5. /\ request' \in [Threads -> Requests]
      /\ FrozenRegistered' /\ RequestsRegistered' /\ AssignedRegistered' /\ LearnedFromResults'
  <2>1. AssignedRegistered
    BY DEF MerchantInv
  <2>2. Free \in Requests
    BY RequestSets
  <2>3. Free.op # "assign" /\ Free.op # "compare" /\ Free.op # "result" /\ Free.op # "learn"
    BY DEF Free
  <2> QED
    BY <2>1, <2>2, <2>3, <1>1, <1>3, <1>4, RequestStep
<1>6. MerchantTypeOK'
  BY <1>1, <1>3, <1>5 DEF MerchantInv, MerchantTypeOK
<1> QED
  BY <1>5, <1>6 DEF MerchantInv

LEMMA ReadToAssignStep ==
  ASSUME MerchantInv, NEW t \in Threads, ReadToAssign(t)
  PROVE  MerchantInv'
<1>0. PICK c, r : c = spec.cohort /\ r = [op |-> "assign", cohort |-> c]
  OBVIOUS
<1>1. /\ UNCHANGED <<events, twins, opportunity, spec, assigned, outcomes, journal, learned>>
      /\ request[t] = Free /\ request' = [request EXCEPT ![t] = r]
      /\ spec.frozen
      /\ overtaken' = IF Pending(c) /\ ~InLedger(c) THEN overtaken \cup {c} ELSE overtaken
  BY <1>0 DEF ReadToAssign, Begin
<1>2. c \in Cohorts /\ spec.frozen = TRUE /\ overtaken \subseteq Cohorts
  BY <1>0, <1>1 DEF MerchantInv, MerchantTypeOK, Specs
<1>3. r \in Requests /\ request[t].op # "record"
  BY <1>0, <1>1, <1>2, RequestSets DEF RequestSteps, Free
<1>4. JournalKept /\ overtaken \subseteq overtaken' /\ overtaken' \subseteq Cohorts
  BY <1>1, <1>2 DEF JournalKept
<1>5. /\ request' \in [Threads -> Requests]
      /\ \A d : OnItsWay(d) => OnItsWay(d)'
      /\ \A d : InLedger(d) => InLedger(d)'
  BY <1>1, <1>3, <1>4, RequestStep
<1>6. Registered(c)'
  <2>1. OnItsWay(c) /\ OnItsWay(c)'
    BY <1>0, <1>2, <1>5 DEF MerchantInv, FrozenRegistered
  <2>2. CASE InLedger(c)
    BY <2>2, <1>5 DEF Registered
  <2>3. CASE ~InLedger(c)
    <3>1. c \in overtaken'
      BY <2>1, <2>3, <1>1 DEF OnItsWay
    <3> QED
      BY <2>1, <3>1 DEF OnItsWay, Registered
  <2> QED
    BY <2>2, <2>3
<1>7. FrozenRegistered' /\ RequestsRegistered' /\ AssignedRegistered' /\ LearnedFromResults'
  <2>1. AssignedRegistered
    BY DEF MerchantInv
  <2>2. Registered(r.cohort)' /\ r.op # "learn"
    BY <1>0, <1>6
  <2> QED
    BY <2>1, <2>2, <1>1, <1>3, <1>4, RequestStep
<1>8. MerchantTypeOK'
  BY <1>1, <1>4, <1>5 DEF MerchantInv, MerchantTypeOK
<1> QED
  BY <1>7, <1>8 DEF MerchantInv

LEMMA AssignStep ==
  ASSUME MerchantInv, NEW t \in Threads, Assign(t)
  PROVE  MerchantInv'
<1>0. PICK c : c = request[t].cohort
  OBVIOUS
<1>1. /\ UNCHANGED <<events, twins, opportunity, spec, outcomes, journal, learned, overtaken>>
      /\ request' = [request EXCEPT ![t] = Free]
      /\ assigned' = c
      /\ request[t] \in Requests /\ request[t].op = "assign"
  BY <1>0 DEF Assign, End, MerchantInv, MerchantTypeOK
<1>2. c \in Cohorts /\ Registered(c)
  BY <1>0, <1>1, RequestTypes DEF MerchantInv, RequestsRegistered, RequestSteps
<1>3. Free \in Requests /\ JournalKept
  BY <1>1, RequestSets DEF JournalKept
<1>4. /\ request' \in [Threads -> Requests]
      /\ Registered(c)'
      /\ FrozenRegistered' /\ RequestsRegistered' /\ LearnedFromResults'
  <2>1. Free.op # "assign" /\ Free.op # "compare" /\ Free.op # "result" /\ Free.op # "learn"
    BY DEF Free
  <2> QED
    BY <2>1, <1>1, <1>2, <1>3, RequestStep
<1>5. AssignedRegistered'
  BY <1>1, <1>2, <1>4 DEF AssignedRegistered
<1>6. MerchantTypeOK'
  BY <1>1, <1>2, <1>4 DEF MerchantInv, MerchantTypeOK
<1> QED
  BY <1>4, <1>5, <1>6 DEF MerchantInv

\* An analysis reads the assignments and compares the arms.
LEMMA CompareStep ==
  ASSUME MerchantInv, NEW t \in Threads, ReadAssigned(t, "compare") \/ CompareArms(t)
  PROVE  MerchantInv'
<1>1. /\ UNCHANGED <<events, twins, opportunity, spec, assigned, outcomes, journal, learned, overtaken>>
      /\ request[t] \in Requests /\ assigned \in Cohorts
  BY DEF ReadAssigned, CompareArms, MerchantInv, MerchantTypeOK
<1>2. PICK r \in Requests :
          /\ request' = [request EXCEPT ![t] = r]
          /\ request[t].op # "record"
          /\ r = Free \/ (r.op \in {"compare", "result"} /\ Registered(r.cohort))
  <2>1. CASE ReadAssigned(t, "compare")
    <3>1. PICK q \in Requests : q = [op |-> "compare", cohort |-> assigned]
      BY <1>1, RequestSets DEF RequestSteps
    <3>2. Registered(assigned) /\ request[t] = Free
      BY <2>1 DEF ReadAssigned, Begin, MerchantInv, AssignedRegistered
    <3>3. /\ request' = [request EXCEPT ![t] = q]
          /\ request[t].op # "record" /\ q.op \in {"compare", "result"} /\ Registered(q.cohort)
      BY <2>1, <3>1, <3>2 DEF ReadAssigned, Begin, Free
    <3> QED
      BY <3>3
  <2>2. CASE CompareArms(t)
    <3>1. request[t].op = "compare" /\ request[t].cohort \in Cohorts
      BY <2>2, <1>1, RequestTypes DEF CompareArms, RequestSteps
    <3>2. /\ Free \in Requests
          /\ \E q \in Requests : q = [op |-> "result", cohort |-> request[t].cohort]
      BY <3>1, RequestSets DEF RequestSteps
    <3>3. Registered(request[t].cohort)
      BY <3>1 DEF MerchantInv, RequestsRegistered
    <3> QED
      BY <2>2, <3>1, <3>2, <3>3 DEF CompareArms, Proceed, End
  <2> QED
    BY <2>1, <2>2
<1>3. JournalKept
  BY <1>1 DEF JournalKept
<1>4. \A c : Registered(c) => Registered(c)'
  BY <1>1, <1>2, <1>3, RequestStep
<1>5. /\ r.op \in {"assign", "compare", "result"} => Registered(r.cohort)'
      /\ r.op # "learn"
  BY <1>2, <1>4 DEF Free
<1>6. /\ request' \in [Threads -> Requests]
      /\ FrozenRegistered' /\ RequestsRegistered' /\ AssignedRegistered' /\ LearnedFromResults'
  <2>1. AssignedRegistered
    BY DEF MerchantInv
  <2> QED
    BY <2>1, <1>1, <1>2, <1>3, <1>5, RequestStep
<1>7. MerchantTypeOK'
  BY <1>1, <1>6 DEF MerchantInv, MerchantTypeOK
<1> QED
  BY <1>6, <1>7 DEF MerchantInv

LEMMA AppendResultStep ==
  ASSUME MerchantInv, NEW t \in Threads, AppendResult(t)
  PROVE  MerchantInv'
<1>0. PICK c, e, r :
          /\ c = request[t].cohort
          /\ e = [type |-> "EXPERIMENT_RESULT", cohort |-> c, best |-> BestOf[c]]
          /\ r = [op |-> "learn", cohort |-> c]
  OBVIOUS
<1>1. /\ UNCHANGED <<events, twins, opportunity, spec, assigned, outcomes, learned, overtaken>>
      /\ journal' = Append(journal, e) /\ journal \in Seq(Entries)
      /\ request[t] \in Requests /\ request[t].op = "result"
      /\ request' = [request EXCEPT ![t] = r]
  BY <1>0 DEF AppendResult, Proceed, MerchantInv, MerchantTypeOK
<1>2. c \in Cohorts /\ Registered(c)
  BY <1>0, <1>1, RequestTypes DEF MerchantInv, RequestsRegistered, RequestSteps
<1>3. e \in Entries /\ r \in Requests
  BY <1>0, <1>2, EntryTypes, RequestSets, MerchantAssumption DEF RequestSteps
<1>4. /\ journal' \in Seq(Entries) /\ JournalKept
      /\ journal'[Len(journal) + 1] = e /\ Len(journal) + 1 \in DOMAIN journal'
      /\ \A i \in DOMAIN journal : i < Len(journal) + 1
  BY <1>1, <1>3, JournalGrows
<1>5. \A d : OnItsWay(d) => OnItsWay(d)'
  BY <1>1, <1>3, <1>4, RequestStep
<1>6. ResultOf(BestOf[c])'
  <2>1. e.type = "EXPERIMENT_RESULT" /\ e.best = BestOf[c] /\ e.cohort = c
    BY <1>0
  <2>2. CASE InLedger(c)
    <3>1. PICK i \in DOMAIN journal : Preregistered(c, i)
      BY <2>2 DEF InLedger
    <3>2. i \in DOMAIN journal' /\ journal'[i] = PreEntry(c) /\ i < Len(journal) + 1
      BY <3>1, <1>4 DEF JournalKept, Preregistered, PreEntry
    <3> QED
      BY <3>2, <2>1, <1>4 DEF ResultOf, Preregistered, PreEntry
  <2>3. CASE c \in overtaken /\ Pending(c)
    <3>1. c \in overtaken' /\ OnItsWay(c)'
      BY <2>3, <1>1, <1>5 DEF OnItsWay
    <3> QED
      BY <3>1, <2>1, <1>4 DEF ResultOf
  <2> QED
    BY <2>2, <2>3, <1>2 DEF Registered
<1>7. /\ request' \in [Threads -> Requests]
      /\ FrozenRegistered' /\ RequestsRegistered' /\ AssignedRegistered' /\ LearnedFromResults'
  <2>1. AssignedRegistered
    BY DEF MerchantInv
  <2>2. ResultOf(BestOf[r.cohort])'
    BY <1>0, <1>6
  <2>3. r.op # "assign" /\ r.op # "compare" /\ r.op # "result"
    BY <1>0
  <2> QED
    BY <2>1, <2>2, <2>3, <1>1, <1>3, <1>4, RequestStep
<1>8. MerchantTypeOK'
  BY <1>1, <1>4, <1>7 DEF MerchantInv, MerchantTypeOK
<1> QED
  BY <1>7, <1>8 DEF MerchantInv

LEMMA LearnStep ==
  ASSUME MerchantInv, NEW t \in Threads, Learn(t)
  PROVE  MerchantInv'
<1>0. PICK c, best, rec :
          /\ c = request[t].cohort /\ best = BestOf[c]
          /\ rec = [action |-> best, sign |-> EffectOf[c][best], stale |-> FALSE,
                    sample |-> InArm(c, "no_action") + InArm(c, best)]
  OBVIOUS
<1>1. /\ UNCHANGED <<events, twins, opportunity, spec, assigned, outcomes, journal, overtaken>>
      /\ learned' = Append(learned, rec) /\ learned \in Seq(Records)
      /\ request[t] \in Requests /\ request[t].op = "learn"
      /\ request' = [request EXCEPT ![t] = Free]
  BY <1>0 DEF Learn, End, MerchantInv, MerchantTypeOK
<1>2. c \in Cohorts /\ ResultOf(best)
  BY <1>0, <1>1, RequestTypes DEF MerchantInv, RequestsRegistered, RequestSteps
<1>3. rec \in Records
  <2>1. best \in Treatments /\ EffectOf[c][best] \in Signs
    BY <1>0, <1>2, MerchantAssumption
  <2>2. InArm(c, "no_action") + InArm(c, best) \in Nat
    BY <1>2, ArmSizes
  <2> QED
    BY <1>0, <2>1, <2>2 DEF Records
<1>4. Free \in Requests /\ JournalKept
  BY <1>1, RequestSets DEF JournalKept
<1>5. /\ request' \in [Threads -> Requests]
      /\ \A a : ResultOf(a) => ResultOf(a)'
      /\ FrozenRegistered' /\ RequestsRegistered' /\ AssignedRegistered'
  <2>1. Free.op # "assign" /\ Free.op # "compare" /\ Free.op # "result" /\ Free.op # "learn"
    BY DEF Free
  <2>2. AssignedRegistered
    BY DEF MerchantInv
  <2> QED
    BY <2>1, <2>2, <1>1, <1>4, RequestStep
<1>6. LearnedFromResults'
  <2> SUFFICES ASSUME NEW k \in DOMAIN learned', NEW a, a = learned'[k].action PROVE ResultOf(a)'
    BY DEF LearnedFromResults
  <2>1. CASE k \in DOMAIN learned
    <3>1. learned'[k] = learned[k]
      BY <2>1, <1>1, <1>3
    <3>2. ResultOf(a)
      BY <2>1, <3>1 DEF MerchantInv, LearnedFromResults
    <3> QED
      BY <3>2, <1>5
  <2>2. CASE k \notin DOMAIN learned
    <3>1. learned'[k] = rec
      BY <2>2, <1>1, <1>3
    <3>2. a = best
      BY <1>0, <3>1
    <3> QED
      BY <3>2, <1>2, <1>5
  <2> QED
    BY <2>1, <2>2
<1>7. MerchantTypeOK'
  <2>1. learned' \in Seq(Records)
    BY <1>1, <1>3
  <2> QED
    BY <2>1, <1>1, <1>5 DEF MerchantInv, MerchantTypeOK
<1> QED
  BY <1>5, <1>6, <1>7 DEF MerchantInv

\* Steps that no request has to finish, and stuttering ones.
LEMMA OtherStep ==
  ASSUME MerchantInv,
         BuildTwins \/ DiscoverOpportunities \/ RecordsAge \/ UNCHANGED merchantVars
  PROVE  MerchantInv'
<1>1. UNCHANGED <<events, spec, assigned, outcomes, journal, request, overtaken>>
  BY DEF BuildTwins, DiscoverOpportunities, RecordsAge, merchantVars
<1>2. twins' \subseteq Members /\ opportunity' \in Cohorts
  BY MerchantAssumption DEF BuildTwins, DiscoverOpportunities, RecordsAge, merchantVars,
                            MerchantInv, MerchantTypeOK, Cohorts
<1>3. learned' \in Seq(Records) /\ DOMAIN learned' = DOMAIN learned
      /\ \A i \in DOMAIN learned : learned'[i].action = learned[i].action
  <2>1. learned \in Seq(Records)
    BY DEF MerchantInv, MerchantTypeOK
  <2>2. CASE learned' = learned
    BY <2>1, <2>2
  <2>3. CASE RecordsAge
    <3>1. learned' = [i \in DOMAIN learned |-> [learned[i] EXCEPT !.stale = TRUE]]
      BY <2>3 DEF RecordsAge
    <3>2. \A i \in DOMAIN learned : learned[i] \in Records
      BY <2>1
    <3>3. \A i \in DOMAIN learned : learned'[i] \in Records /\ learned'[i].action = learned[i].action
      BY <3>1, <3>2 DEF Records
    <3>4. DOMAIN learned' = DOMAIN learned /\ DOMAIN learned = 1..Len(learned) /\ Len(learned) \in Nat
      BY <2>1, <3>1
    <3> QED
      BY <3>1, <3>3, <3>4
  <2> QED
    BY <2>2, <2>3 DEF BuildTwins, DiscoverOpportunities, merchantVars
<1>4. /\ \A c : OnItsWay(c) => OnItsWay(c)'
      /\ \A c : Registered(c) => Registered(c)'
      /\ \A a : ResultOf(a) => ResultOf(a)'
  <2>1. JournalKept /\ PendingKept /\ overtaken \subseteq overtaken'
    BY <1>1 DEF JournalKept, PendingKept, OnItsWay, Pending
  <2> QED
    BY <2>1, RegisteredStays
<1>5. FrozenRegistered' /\ RequestsRegistered' /\ AssignedRegistered' /\ LearnedFromResults'
  <2>1. FrozenRegistered' /\ AssignedRegistered'
    BY <1>1, <1>4 DEF MerchantInv, FrozenRegistered, AssignedRegistered
  <2>2. RequestsRegistered'
    BY <1>1, <1>4 DEF MerchantInv, RequestsRegistered
  <2>3. LearnedFromResults'
    BY <1>3, <1>4 DEF MerchantInv, LearnedFromResults
  <2> QED
    BY <2>1, <2>2, <2>3
<1>6. MerchantTypeOK'
  BY <1>1, <1>2, <1>3 DEF MerchantInv, MerchantTypeOK
<1> QED
  BY <1>5, <1>6 DEF MerchantInv

LEMMA MerchantStep == MerchantInv /\ [MerchantNext]_merchantVars => MerchantInv'
<1> SUFFICES ASSUME MerchantInv, [MerchantNext]_merchantVars PROVE MerchantInv'
  OBVIOUS
<1>1. ASSUME NEW t \in Threads, \E op \in {"reveal", "compare"} : ReadAssigned(t, op)
      PROVE  MerchantInv'
  BY <1>1, QuietStep, CompareStep
<1>2. ASSUME NEW t \in Threads,
             \/ \E e \in EventIds : CheckEvent(t, e)
             \/ AppendEvent(t)
             \/ ReadToCreate(t) \/ CreateExperiment(t)
             \/ ReadToFreeze(t) \/ RevealDemoOutcomes(t)
      PROVE  MerchantInv'
  BY <1>2, QuietStep
<1>3. ASSUME NEW t \in Threads,
             \/ PublishFrozen(t) \/ RecordFrozen(t)
             \/ ReadToAssign(t) \/ Assign(t)
             \/ CompareArms(t) \/ AppendResult(t) \/ Learn(t)
      PROVE  MerchantInv'
  BY <1>3, PublishFrozenStep, RecordFrozenStep, ReadToAssignStep, AssignStep, CompareStep,
     AppendResultStep, LearnStep
<1> QED
  BY <1>1, <1>2, <1>3, OtherStep DEF MerchantNext

-------------------------------------------------------------------------------
(* Theorems.                                                               *)

LEMMA MerchantStarts == ASSUME MerchantInit PROVE MerchantInv
<1>1. MerchantTypeOK
  <2>1. NoCohort \in Cohorts /\ 0 \in 0..MaxEvents /\ Spec0 \in Specs
    BY MerchantAssumption DEF NoCohort, Cohorts, Spec0, Specs
  <2>2. <<>> \in Seq(Entries) /\ <<>> \in Seq(Records)
    OBVIOUS
  <2>3. request \in [Threads -> Requests] /\ events \in [EventIds -> 0..MaxEvents]
    BY <2>1, RequestSets DEF MerchantInit
  <2>4. twins \subseteq Members /\ overtaken \subseteq Cohorts
    BY DEF MerchantInit
  <2> QED
    BY <2>1, <2>2, <2>3, <2>4, Zenon DEF MerchantInit, MerchantTypeOK
<1>2. FrozenRegistered /\ AssignedRegistered /\ LearnedFromResults
  BY DEF MerchantInit, FrozenRegistered, AssignedRegistered, LearnedFromResults, Spec0
<1>3. RequestsRegistered
  BY DEF MerchantInit, RequestsRegistered, Free
<1> QED
  BY <1>1, <1>2, <1>3 DEF MerchantInv

\* Every frozen or assigned cohort is registered, or overtaken while its registration is on its way,
\* and every learning record has its result, in every behaviour.
THEOREM MerchantInvariant == MerchantSpec => []MerchantInv
BY MerchantStarts, MerchantStep, PTL DEF MerchantSpec

\* Only a cohort the ledger holds, or the freezing request is about to write, is assigned; and the
\* card tells a merchant to do something only on a result of a cohort recorded before it, or of an
\* overtaken one.
THEOREM AdviceSafe == MerchantSpec => []AdvicePreregistered
<1>1. MerchantInv => AdvicePreregistered
  <2> SUFFICES ASSUME MerchantInv PROVE AdvicePreregistered
    OBVIOUS
  <2>1. assigned # NoCohort => InLedger(assigned) \/ (Pending(assigned) /\ assigned \in overtaken)
    BY DEF MerchantInv, AssignedRegistered, Registered
  <2>2. ASSUME NEW action \in Arms, "DO_THIS" \in Recommendations(action)
        PROVE  ResultOf(action)
    <3>1. "ACT" \in Matches(action)
      BY <2>2 DEF Recommendations
    <3>2. Exact(action) # {}
      BY <3>1 DEF Matches
    <3>3. PICK k \in DOMAIN learned : learned[k].action = action
      BY <3>2 DEF Exact
    <3> QED
      BY <3>3 DEF MerchantInv, LearnedFromResults
  <2>3. ASSUME NEW action \in Arms, "DO_THIS" \in Recommendations(action)
        PROVE  \E j \in DOMAIN journal :
                   /\ journal[j].type = "EXPERIMENT_RESULT"
                   /\ journal[j].best = action
                   /\ \/ \E i \in 1..(j - 1) : Preregistered(journal[j].cohort, i)
                      \/ /\ journal[j].cohort \in overtaken
                         /\ InLedger(journal[j].cohort) \/ Pending(journal[j].cohort)
    <3>1. PICK j \in DOMAIN journal :
              /\ journal[j].type = "EXPERIMENT_RESULT"
              /\ journal[j].best = action
              /\ \/ \E i \in DOMAIN journal : i < j /\ Preregistered(journal[j].cohort, i)
                 \/ journal[j].cohort \in overtaken /\ OnItsWay(journal[j].cohort)
      BY <2>2, <2>3 DEF ResultOf
    <3>2. DOMAIN journal = 1..Len(journal) /\ Len(journal) \in Nat
      BY DEF MerchantInv, MerchantTypeOK
    <3>3. \A i \in DOMAIN journal : i < j => i \in 1..(j - 1)
      BY <3>2
    <3> QED
      BY <3>1, <3>3 DEF OnItsWay
  <2> QED
    BY <2>1, <2>3 DEF AdvicePreregistered
<1> QED
  BY <1>1, MerchantInvariant, PTL

-------------------------------------------------------------------------------
(***************************************************************************)
(* Proofs about WinbackPilot, for every extract, configuration, date and   *)
(* number of commands.  The inductive invariant adds what a command knows  *)
(* of the files it has written or read: nobody else writes them, and a     *)
(* file that is whole is never replaced by another, nor a torn one by any. *)
(***************************************************************************)

-------------------------------------------------------------------------------
(* The inductive invariant.                                                *)

Dated(issued) == issued.assigned_at >= issued.contract.frozen_at

\* A basis on which a profit may be claimed.
Claimable(b) ==
    /\ b \in Bases
    /\ b.as_of >= b.export.assigned_at + Maturity
    /\ b.measured_at >= b.export.assigned_at + Maturity
    /\ Dated(b.export)
    /\ Comparable(b.rows)

\* What an analysis rests on is what the export file holds, whole or without its end.
ReadFrom(b, file) ==
    \/ file = b.export /\ b.rows = b.export.contract.cohort
    \/ file = [of |-> b.export, rows |-> b.rows]

\* And what a kill may have made of it later.
Followed(b, file) == ReadFrom(b, file) \/ (b.rows = b.export.contract.cohort /\ file \in LeftOf(b.export))

PreparerKnows ==
    /\ command.step \in {"contract", "export", "ledger", "assignment"} => Dated(command.export)
    /\ command.step \in {"export", "ledger", "assignment"} => contractFile = command.export.contract
    /\ command.step \in {"ledger", "assignment"} => exportFile = command.export

AnalystKnows ==
    /\ command.step \in {"report", "result"} =>
           /\ ReadFrom(command.basis, exportFile)
           /\ command.report.status = "ANALYZED" => Claimable(command.basis)
    /\ command.step = "result" => reportFile = command.report /\ basis = command.basis

ExportDated ==
    /\ exportFile \in Exports => Dated(exportFile)
    /\ exportFile \in TornExports => Dated(exportFile.of)

BasisOfExport == basis \in Bases => Followed(basis, exportFile)

\* What a record of the ledger says of the files and of the last basis.
RecordOK(rec) ==
    /\ rec.type = "PRE_OUTCOME_EXPECTATION" => contractFile \in {rec.payload, Torn}
    /\ rec.type = "IMMUTABLE_ASSIGNMENT_EXPORT" =>
           /\ exportFile \in {rec.payload} \cup LeftOf(rec.payload)
           /\ contractFile \in {rec.payload.contract, Torn}
           /\ basis \in Bases => rec.payload = basis.export
    /\ rec.type = "MATURE_RANDOMIZED_ITT_RESULT" =>
           /\ reportFile \in {rec.payload, Torn}
           /\ rec.payload.status = "ANALYZED" => Claimable(basis)

RecordsOK == \A i \in DOMAIN pilotLedger : RecordOK(pilotLedger[i])

PilotInv ==
    /\ PilotTypeOK
    /\ PreparerKnows
    /\ AnalystKnows
    /\ ExportDated
    /\ BasisOfExport
    /\ RecordsOK

-------------------------------------------------------------------------------
(* Types.                                                                  *)

LEMMA Distinct ==
    /\ Absent \notin Contracts /\ Absent \notin Exports /\ Absent \notin Reports
    /\ Torn \notin Contracts /\ Torn \notin Exports /\ Torn \notin Reports
    /\ Absent \notin TornExports /\ Torn \notin TornExports
    /\ Absent # Torn /\ NoBasis \notin Bases
    /\ Exports \cap TornExports = {}
<1>1. /\ Absent \notin Contracts /\ Absent \notin Exports /\ Absent \notin Reports
      /\ Torn \notin Contracts /\ Torn \notin Exports /\ Torn \notin Reports
      /\ Absent \notin TornExports /\ Torn \notin TornExports
      /\ Absent # Torn
  BY PilotAssumption, Zenon DEF PilotAssumption
<1>2. NoBasis.export = Absent /\ \A b \in Bases : b.export \in Exports
  BY DEF NoBasis, Bases
<1>3. \A e \in Exports, t \in TornExports : e # t
  <2>1. \A e \in Exports : DOMAIN e = {"contract", "assigned_at"}
    BY DEF Exports
  <2>2. \A t \in TornExports : DOMAIN t = {"of", "rows"}
    BY DEF TornExports
  <2> QED
    BY <2>1, <2>2
<1> QED
  BY <1>1, <1>2, <1>3

Prepares == [step : {"contract", "export", "ledger", "assignment"}, export : Exports]
Analyzes == [step : {"report", "result"}, report : Reports, basis : Bases]

LEMMA CommandTypes ==
  ASSUME PilotTypeOK
  PROVE  /\ command \in PilotCommands
         /\ command.step \in {"contract", "export", "ledger", "assignment"} => command \in Prepares
         /\ command.step \in {"report", "result"} => command \in Analyzes
         /\ NoCommand \in PilotCommands /\ NoCommand.step = "none"
         /\ Prepares \subseteq PilotCommands /\ Analyzes \subseteq PilotCommands
<1>1. command \in PilotCommands /\ NoCommand.step = "none"
  BY DEF PilotTypeOK, NoCommand
<1>2. command = NoCommand \/ command \in Prepares \/ command \in Analyzes
  BY <1>1, Zenon DEF PilotCommands, Prepares, Analyzes
<1>3. Prepares \subseteq PilotCommands /\ Analyzes \subseteq PilotCommands /\ NoCommand \in PilotCommands
  BY Zenon DEF PilotCommands, Prepares, Analyzes
<1>4. command \in Prepares => command.step \in {"contract", "export", "ledger", "assignment"}
  BY DEF Prepares
<1>5. command \in Analyzes => command.step \in {"report", "result"}
  BY DEF Analyzes
<1> QED
  BY <1>1, <1>2, <1>3, <1>4, <1>5

LEMMA CohortType ==
  ASSUME NEW x \in Extracts, NEW c \in Configs
  PROVE  /\ FreezeContract(x, c) \in Contracts
         /\ AssignCohort(FreezeContract(x, c), c.assigned_at) \in Exports
<1>1. EligibleCohort(x, c) \subseteq Shoppers
  BY PilotAssumption DEF EligibleCohort, Ids
<1>2. c.frozen_at \in Days /\ c.assigned_at \in Days
  BY PilotAssumption
<1>3. FreezeContract(x, c) \in Contracts
  BY <1>1, <1>2 DEF FreezeContract, Contracts
<1> QED
  BY <1>2, <1>3 DEF AssignCohort, Exports

LEMMA ReportType ==
  ASSUME NEW e, NEW table, NEW as_of
  PROVE  AnalyzeItt(e, table, as_of) \in Reports
BY DEF AnalyzeItt, Reports

LEMMA RecordTypes ==
    /\ \A c \in Contracts : [type |-> "PRE_OUTCOME_EXPECTATION", payload |-> c] \in PilotRecords
    /\ \A e \in Exports : [type |-> "IMMUTABLE_ASSIGNMENT_EXPORT", payload |-> e] \in PilotRecords
    /\ \A r \in Reports : [type |-> "MATURE_RANDOMIZED_ITT_RESULT", payload |-> r] \in PilotRecords
<1> DEFINE E == [type : {"PRE_OUTCOME_EXPECTATION"}, payload : Contracts]
           A == [type : {"IMMUTABLE_ASSIGNMENT_EXPORT"}, payload : Exports]
           R == [type : {"MATURE_RANDOMIZED_ITT_RESULT"}, payload : Reports]
<1>1. \A c \in Contracts : [type |-> "PRE_OUTCOME_EXPECTATION", payload |-> c] \in E
  OBVIOUS
<1>2. \A e \in Exports : [type |-> "IMMUTABLE_ASSIGNMENT_EXPORT", payload |-> e] \in A
  OBVIOUS
<1>3. \A r \in Reports : [type |-> "MATURE_RANDOMIZED_ITT_RESULT", payload |-> r] \in R
  OBVIOUS
<1>4. PilotRecords = E \cup A \cup R
  BY DEF PilotRecords
<1> QED
  BY <1>1, <1>2, <1>3, <1>4, Zenon

\* What analyze loads is an export that was assigned, and rows of its cohort.
LEMMA LoadedTypes ==
  ASSUME exportFile \in Exports \cup TornExports
  PROVE  LoadAssignments.of \in Exports /\ LoadAssignments.rows \in SUBSET Shoppers
<1>1. CASE exportFile \in Exports
  BY <1>1 DEF LoadAssignments, Exports, Contracts
<1>2. CASE exportFile \notin Exports
  BY <1>2 DEF LoadAssignments, TornExports
<1> QED
  BY <1>1, <1>2

LEMMA StartType == PilotTypeOK /\ Started => commands' \in 0..MaxCommands
BY PilotAssumption DEF PilotTypeOK, Started

LEMMA PilotTypeStep == PilotInv /\ [PilotNext]_pilotVars => PilotTypeOK'
<1> SUFFICES ASSUME PilotInv, [PilotNext]_pilotVars PROVE PilotTypeOK'
  OBVIOUS
<1> PilotTypeOK
  BY DEF PilotInv
<1> USE DEF pilotFiles
<1>1. CASE PrepareRefused
  BY <1>1, StartType DEF PrepareRefused, PilotTypeOK
<1>2. CASE PrepareShadow
  <2>1. PICK x \in Extracts, c \in Configs :
            command' = [step |-> "contract", export |-> AssignCohort(FreezeContract(x, c), c.assigned_at)]
    BY <1>2 DEF PrepareShadow
  <2>2. command' \in PilotCommands
    BY <2>1, CohortType, CommandTypes DEF Prepares
  <2> QED
    BY <1>2, <2>2, StartType DEF PrepareShadow, PilotTypeOK
<1>3. CASE WriteContract
  <2>1. command \in Prepares
    BY <1>3, CommandTypes DEF WriteContract
  <2>2. command' \in Prepares /\ command.export.contract \in Contracts
    BY <1>3, <2>1 DEF WriteContract, Prepares, Exports
  <2> QED
    BY <1>3, <2>2, CommandTypes DEF WriteContract, PilotTypeOK
<1>4. CASE ExportAssignments
  <2>1. command \in Prepares
    BY <1>4, CommandTypes DEF ExportAssignments
  <2>2. command' \in Prepares /\ command.export \in Exports
    BY <1>4, <2>1 DEF ExportAssignments, Prepares
  <2> QED
    BY <1>4, <2>2, CommandTypes DEF ExportAssignments, PilotTypeOK
<1>5. CASE RecordExpectation
  <2>1. command \in Prepares
    BY <1>5, CommandTypes DEF RecordExpectation
  <2>2. command' \in Prepares /\ command.export.contract \in Contracts
    BY <1>5, <2>1 DEF RecordExpectation, Prepares, Exports
  <2>3. pilotLedger' \in Seq(PilotRecords)
    BY <1>5, <2>2, RecordTypes DEF RecordExpectation, PilotTypeOK
  <2> QED
    BY <1>5, <2>2, <2>3, CommandTypes DEF RecordExpectation, PilotTypeOK
<1>6. CASE PrepareAgain
  BY <1>6, CommandTypes DEF PrepareAgain, PilotTypeOK
<1>7. CASE RecordAssignment
  <2>1. command.export \in Exports
    BY <1>7, CommandTypes DEF RecordAssignment, Prepares
  <2>2. pilotLedger' \in Seq(PilotRecords)
    BY <1>7, <2>1, RecordTypes DEF RecordAssignment, PilotTypeOK
  <2> QED
    BY <1>7, <2>2, CommandTypes DEF RecordAssignment, PilotTypeOK
<1>8. CASE AnalyzeShadow
  <2>1. PICK table \in OutcomeTables, as_of \in Days :
            command' = [step |-> "report", report |-> AnalyzeItt(LoadAssignments.of, table, as_of),
                        basis |-> [export |-> LoadAssignments.of, rows |-> LoadAssignments.rows,
                                   as_of |-> as_of, measured_at |-> table.measured_at]]
    BY <1>8 DEF AnalyzeShadow
  <2>2. [export |-> LoadAssignments.of, rows |-> LoadAssignments.rows, as_of |-> as_of,
         measured_at |-> table.measured_at] \in Bases
    BY <1>8, LoadedTypes DEF AnalyzeShadow, Bases, OutcomeTables
  <2>3. command' \in Analyzes
    BY <2>1, <2>2, ReportType DEF Analyzes
  <2> QED
    BY <1>8, <2>3, StartType, CommandTypes DEF AnalyzeShadow, PilotTypeOK
<1>10. CASE WriteReport
  <2>1. command \in Analyzes
    BY <1>10, CommandTypes DEF WriteReport
  <2>2. command' \in Analyzes /\ command.report \in Reports /\ command.basis \in Bases
    BY <1>10, <2>1 DEF WriteReport, Analyzes
  <2> QED
    BY <1>10, <2>2, CommandTypes DEF WriteReport, PilotTypeOK
<1>11. CASE RecordResult
  <2>1. command.report \in Reports
    BY <1>11, CommandTypes DEF RecordResult, Analyzes
  <2>2. pilotLedger' \in Seq(PilotRecords)
    BY <1>11, <2>1, RecordTypes DEF RecordResult, PilotTypeOK
  <2> QED
    BY <1>11, <2>2, CommandTypes DEF RecordResult, PilotTypeOK
<1>12. CASE Refuse
  BY <1>12, CommandTypes DEF Refuse, PilotTypeOK
<1>13. CASE KillCommand
  <2>1. exportFile' \in Exports \cup TornExports \cup {Absent, Torn}
    <3>1. command.step = "export" => \A rows \in Prefixes(command.export.contract.cohort) :
              [of |-> command.export, rows |-> rows] \in TornExports
      BY CommandTypes DEF Prepares, Prefixes, TornExports, Exports, Contracts
    <3> QED
      BY <1>13, <3>1 DEF KillCommand, PilotTypeOK
  <2> QED
    BY <1>13, <2>1, CommandTypes DEF KillCommand, PilotTypeOK
<1>14. CASE UNCHANGED pilotVars
  BY <1>14 DEF pilotVars, PilotTypeOK
<1> QED
  BY <1>1, <1>2, <1>3, <1>4, <1>5, <1>6, <1>7, <1>8, <1>10, <1>11, <1>12, <1>13, <1>14
  DEF PilotNext

-------------------------------------------------------------------------------
(* The ledger.                                                             *)

\* Only three steps append, each what the files say at that moment.
LEMMA AppendStep ==
  ASSUME PilotTypeOK, RecordsOK, NEW rec \in PilotRecords,
         pilotLedger' = pilotLedger \/ (pilotLedger' = Append(pilotLedger, rec) /\ RecordOK(rec)),
         UNCHANGED <<contractFile, exportFile, reportFile, basis>>
  PROVE  RecordsOK'
<1> SUFFICES ASSUME NEW i \in DOMAIN pilotLedger' PROVE RecordOK(pilotLedger[i])'
  BY DEF RecordsOK
<1>1. pilotLedger \in Seq(PilotRecords)
  BY DEF PilotTypeOK
<1>2. RecordOK(pilotLedger'[i])
  <2>1. CASE i \in DOMAIN pilotLedger
    <3>1. pilotLedger'[i] = pilotLedger[i]
      BY <1>1, <2>1
    <3> QED
      BY <2>1, <3>1 DEF RecordsOK
  <2>2. CASE i \notin DOMAIN pilotLedger
    <3>1. pilotLedger'[i] = rec /\ pilotLedger' # pilotLedger
      BY <1>1, <2>2
    <3> QED
      BY <3>1
  <2> QED
    BY <2>1, <2>2
<1>3. Claimable(basis) => Claimable(basis)'
  BY DEF Claimable
<1> QED
  BY <1>2, <1>3 DEF RecordOK

\* A file keeps its content or is torn.
Kept(old, new) == new = old \/ new = Torn
ExportKept(old, new) == new = old \/ \E e \in Exports : old \in {Absent, e} /\ new \in LeftOf(e)

\* What a kill leaves of an export is not whole, and is of no other one.
LEMMA LeftTypes ==
  ASSUME NEW e \in Exports
  PROVE  /\ \A file \in LeftOf(e) : file = Torn \/ (file \in TornExports /\ file.of = e)
         /\ LeftOf(e) \cap Exports = {} /\ Absent \notin LeftOf(e)
<1>1. \A file \in LeftOf(e) : file = Torn \/ (file \in TornExports /\ file.of = e)
  BY DEF LeftOf, TornExports
<1> QED
  BY <1>1, Distinct

\* So a file tells which assignment an analysis that read it, or read what it was, rests on.
LEMMA OneExport ==
  ASSUME NEW b \in Bases, NEW e \in Exports, NEW file \in {e} \cup LeftOf(e), file # Torn, Followed(b, file)
  PROVE  b.export = e
<1>1. b.export \in Exports /\ b.rows \in SUBSET Shoppers
  BY DEF Bases
<1>2. [of |-> b.export, rows |-> b.rows] \in LeftOf(b.export) /\ [of |-> b.export, rows |-> b.rows] # Torn
  BY <1>1, Distinct DEF LeftOf, TornExports
<1>3. file = b.export \/ file \in LeftOf(b.export)
  BY <1>2 DEF Followed, ReadFrom
<1> QED
  BY <1>1, <1>3, LeftTypes

\* Files that are kept, for a basis that is kept, leave the records true.
LEMMA KeptStep ==
  ASSUME PilotTypeOK, RecordsOK, UNCHANGED <<pilotLedger, basis>>,
         Kept(contractFile, contractFile'), ExportKept(exportFile, exportFile'),
         Kept(reportFile, reportFile')
  PROVE  RecordsOK'
<1> SUFFICES ASSUME NEW i \in DOMAIN pilotLedger PROVE RecordOK(pilotLedger[i])'
  BY DEF RecordsOK
<1>1. RecordOK(pilotLedger[i]) /\ pilotLedger[i] \in PilotRecords
  BY DEF RecordsOK, PilotTypeOK
<1>2. CASE pilotLedger[i].type = "IMMUTABLE_ASSIGNMENT_EXPORT"
  <2> DEFINE p == pilotLedger[i].payload
  <2>1. p \in Exports
    BY <1>1, <1>2 DEF PilotRecords
  <2>2. exportFile \in {p} \cup LeftOf(p)
    BY <1>1, <1>2 DEF RecordOK
  <2>3. exportFile' \in {p} \cup LeftOf(p)
    <3>1. CASE exportFile' = exportFile
      BY <2>2, <3>1
    <3>2. CASE exportFile' # exportFile
      <4>1. PICK e \in Exports : exportFile \in {Absent, e} /\ exportFile' \in LeftOf(e)
        BY <3>2 DEF ExportKept
      <4>2. exportFile = e
        BY <2>1, <2>2, <4>1, LeftTypes, Distinct
      <4>3. e = p
        BY <2>1, <2>2, <4>2, LeftTypes
      <4> QED
        BY <4>1, <4>3
    <3> QED
      BY <3>1, <3>2
  <2> QED
    BY <1>1, <1>2, <2>3 DEF RecordOK, Kept
<1> QED
  BY <1>1, <1>2 DEF RecordOK, Kept, Claimable

-------------------------------------------------------------------------------
(* The steps.                                                              *)

Rest == ExportDated' /\ BasisOfExport' /\ RecordsOK'

LEMMA SameFiles == PilotInv /\ UNCHANGED <<pilotFiles, basis>> => Rest
<1> SUFFICES ASSUME PilotInv, UNCHANGED <<pilotFiles, basis>> PROVE Rest
  OBVIOUS
<1>1. RecordsOK'
  BY KeptStep DEF PilotInv, Kept, ExportKept, pilotFiles
<1> QED
  BY <1>1 DEF PilotInv, Rest, ExportDated, BasisOfExport, pilotFiles, Dated, Followed, ReadFrom

LEMMA NothingKnown == command' = NoCommand => PreparerKnows' /\ AnalystKnows'
BY DEF PreparerKnows, AnalystKnows, NoCommand

LEMMA PrepareStep ==
  ASSUME PilotInv, PrepareShadow \/ WriteContract \/ ExportAssignments
  PROVE  PreparerKnows' /\ AnalystKnows' /\ Rest
<1> PilotTypeOK
  BY DEF PilotInv
<1> USE Distinct
<1>1. CASE PrepareShadow
  <2>1. PICK x \in Extracts, c \in Configs :
            /\ c.assigned_at >= c.frozen_at
            /\ command' = [step |-> "contract", export |-> AssignCohort(FreezeContract(x, c), c.assigned_at)]
    BY <1>1 DEF PrepareShadow
  <2>2. Dated(AssignCohort(FreezeContract(x, c), c.assigned_at))
    BY <2>1 DEF Dated, AssignCohort, FreezeContract
  <2>3. PreparerKnows' /\ AnalystKnows'
    <3>1. command'.step = "contract" /\ command'.export = AssignCohort(FreezeContract(x, c), c.assigned_at)
      BY <2>1
    <3>2. Dated(command'.export)
      BY <2>2, <3>1
    <3> QED
      BY <3>1, <3>2 DEF PreparerKnows, AnalystKnows, Dated
  <2> QED
    BY <1>1, <2>3, SameFiles DEF PrepareShadow
<1>2. CASE WriteContract
  <2>1. /\ command \in Prepares /\ command.step = "contract" /\ Dated(command.export)
        /\ command.export.contract \in Contracts
    BY <1>2, CommandTypes DEF WriteContract, Prepares, Exports, PilotInv, PreparerKnows
  <2>2. /\ command'.step = "export" /\ command'.export = command.export
        /\ contractFile' = command.export.contract
        /\ UNCHANGED <<exportFile, reportFile, pilotLedger, basis>>
    BY <1>2, <2>1 DEF WriteContract, Prepares
  <2>3. PreparerKnows' /\ AnalystKnows'
    BY <2>1, <2>2 DEF PreparerKnows, AnalystKnows, Dated
  <2>4. RecordsOK'
    <3>1. contractFile = Absent \/ contractFile = contractFile'
      BY <1>2, <2>2 DEF WriteContract, Writable
    <3>2. CASE contractFile = contractFile'
      BY <2>2, <3>2, KeptStep DEF Kept, ExportKept, PilotInv
    <3>3. CASE contractFile = Absent
      <4> SUFFICES ASSUME NEW i \in DOMAIN pilotLedger PROVE RecordOK(pilotLedger[i])'
        BY <2>2 DEF RecordsOK
      <4>1. pilotLedger[i] \in PilotRecords /\ RecordOK(pilotLedger[i])
        BY DEF PilotTypeOK, PilotInv, RecordsOK
      <4>2. \/ pilotLedger[i].type = "PRE_OUTCOME_EXPECTATION" /\ pilotLedger[i].payload \in Contracts
            \/ /\ pilotLedger[i].type = "IMMUTABLE_ASSIGNMENT_EXPORT"
               /\ pilotLedger[i].payload.contract \in Contracts
            \/ pilotLedger[i].type = "MATURE_RANDOMIZED_ITT_RESULT"
        BY <4>1 DEF PilotRecords, Exports
      <4>3. pilotLedger[i].type = "MATURE_RANDOMIZED_ITT_RESULT"
        BY <3>3, <4>1, <4>2 DEF RecordOK
      <4> QED
        BY <2>2, <4>1, <4>3 DEF RecordOK, Claimable
    <3> QED
      BY <3>1, <3>2, <3>3
  <2> QED
    BY <2>2, <2>3, <2>4 DEF Rest, PilotInv, ExportDated, BasisOfExport, Dated, Followed, ReadFrom
<1>3. CASE ExportAssignments
  <2>1. /\ command \in Prepares /\ command.step = "export" /\ Dated(command.export)
        /\ command.export \in Exports /\ contractFile = command.export.contract
    BY <1>3, CommandTypes DEF ExportAssignments, Prepares, PilotInv, PreparerKnows
  <2>2. /\ command'.step = "ledger" /\ command'.export = command.export
        /\ exportFile' = command.export
        /\ UNCHANGED <<contractFile, reportFile, pilotLedger, basis>>
    BY <1>3, <2>1 DEF ExportAssignments, Prepares
  <2>3. PreparerKnows' /\ AnalystKnows'
    BY <2>1, <2>2 DEF PreparerKnows, AnalystKnows, Dated
  <2>4. exportFile = Absent \/ exportFile = exportFile'
    BY <1>3, <2>2 DEF ExportAssignments, Writable
  <2>5. RecordsOK' /\ BasisOfExport'
    <3>1. CASE exportFile = exportFile'
      BY <2>2, <3>1, KeptStep DEF Kept, ExportKept, PilotInv, BasisOfExport, Followed, ReadFrom
    <3>2. CASE exportFile = Absent
      <4>1. basis \notin Bases
        <5> SUFFICES ASSUME basis \in Bases
                     PROVE  FALSE
          OBVIOUS
        <5>1. basis.export \in Exports /\ basis.rows \in SUBSET Shoppers
          BY DEF Bases
        <5>2. [of |-> basis.export, rows |-> basis.rows] \in TornExports
          BY <5>1 DEF TornExports
        <5> QED
          BY <3>2, <5>1, <5>2, LeftTypes DEF PilotInv, BasisOfExport, Followed, ReadFrom
      <4>2. ASSUME NEW i \in DOMAIN pilotLedger PROVE RecordOK(pilotLedger[i])'
        <5>1. pilotLedger[i] \in PilotRecords /\ RecordOK(pilotLedger[i])
          BY DEF PilotTypeOK, PilotInv, RecordsOK
        <5>2. pilotLedger[i].type = "IMMUTABLE_ASSIGNMENT_EXPORT" => pilotLedger[i].payload \in Exports
          BY <5>1 DEF PilotRecords
        <5>3. pilotLedger[i].type # "IMMUTABLE_ASSIGNMENT_EXPORT"
          BY <3>2, <5>1, <5>2, LeftTypes DEF RecordOK
        <5> QED
          BY <2>2, <5>1, <5>3 DEF RecordOK, Claimable
      <4> QED
        BY <2>2, <4>1, <4>2 DEF RecordsOK, BasisOfExport
    <3> QED
      BY <2>4, <3>1, <3>2
  <2> QED
    BY <2>1, <2>2, <2>3, <2>5 DEF Rest, ExportDated, Dated
<1> QED
  BY <1>1, <1>2, <1>3

LEMMA RecordStep ==
  ASSUME PilotInv, RecordExpectation \/ RecordAssignment \/ RecordResult
  PROVE  PreparerKnows' /\ AnalystKnows' /\ Rest
<1> PilotTypeOK
  BY DEF PilotInv
<1> USE Distinct
<1>1. UNCHANGED <<contractFile, exportFile, reportFile, basis>>
  BY DEF RecordExpectation, RecordAssignment, RecordResult
<1>2. ExportDated' /\ BasisOfExport'
  BY <1>1 DEF PilotInv, ExportDated, BasisOfExport, Dated, Followed, ReadFrom
<1>3. CASE RecordExpectation
  <2> DEFINE rec == [type |-> "PRE_OUTCOME_EXPECTATION", payload |-> command.export.contract]
  <2>1. /\ command \in Prepares /\ command.step = "ledger"
        /\ command.export \in Exports /\ command.export.contract \in Contracts
        /\ contractFile = command.export.contract
        /\ Dated(command.export) /\ exportFile = command.export
    BY <1>3, CommandTypes DEF RecordExpectation, Prepares, Exports, PilotInv, PreparerKnows
  <2>2. command'.step = "assignment" /\ command'.export = command.export
    BY <1>3, <2>1 DEF RecordExpectation, Prepares
  <2>3. rec \in PilotRecords /\ RecordOK(rec) /\ pilotLedger' = Append(pilotLedger, rec)
    BY <1>3, <2>1, RecordTypes DEF RecordOK, RecordExpectation
  <2>4. RecordsOK'
    BY <1>1, <2>3, AppendStep DEF PilotInv
  <2>5. PreparerKnows' /\ AnalystKnows'
    BY <1>1, <2>1, <2>2 DEF PreparerKnows, AnalystKnows, Dated
  <2> QED
    BY <1>2, <2>4, <2>5 DEF Rest
<1>4. CASE RecordAssignment
  <2> DEFINE rec == [type |-> "IMMUTABLE_ASSIGNMENT_EXPORT", payload |-> command.export]
  <2>1. /\ command \in Prepares /\ command.step = "assignment" /\ command.export \in Exports
        /\ contractFile = command.export.contract /\ exportFile = command.export
    BY <1>4, CommandTypes DEF RecordAssignment, Prepares, PilotInv, PreparerKnows
  <2>2. basis \in Bases => basis.export = command.export
    BY <2>1, OneExport DEF PilotInv, BasisOfExport
  <2>3. rec \in PilotRecords /\ RecordOK(rec) /\ pilotLedger' = Append(pilotLedger, rec)
    BY <1>4, <2>1, <2>2, RecordTypes DEF RecordOK, RecordAssignment
  <2>4. RecordsOK'
    BY <1>1, <2>3, AppendStep DEF PilotInv
  <2> QED
    BY <1>2, <1>4, <2>4, NothingKnown DEF Rest, RecordAssignment
<1>5. CASE RecordResult
  <2> DEFINE rec == [type |-> "MATURE_RANDOMIZED_ITT_RESULT", payload |-> command.report]
  <2>1. /\ command.step = "result" /\ command.report \in Reports
        /\ reportFile = command.report /\ basis = command.basis
        /\ command.report.status = "ANALYZED" => Claimable(command.basis)
    BY <1>5, CommandTypes DEF RecordResult, Analyzes, PilotInv, AnalystKnows
  <2>2. rec \in PilotRecords /\ RecordOK(rec)
    BY <2>1, RecordTypes DEF RecordOK
  <2>3. pilotLedger' = pilotLedger \/ pilotLedger' = Append(pilotLedger, rec)
    BY <1>5 DEF RecordResult
  <2>4. RecordsOK'
    BY <1>1, <2>2, <2>3, AppendStep DEF PilotInv
  <2> QED
    BY <1>2, <1>5, <2>4, NothingKnown DEF Rest, RecordResult
<1> QED
  BY <1>3, <1>4, <1>5

LEMMA PilotAnalyzeStep ==
  ASSUME PilotInv, AnalyzeShadow
  PROVE  PreparerKnows' /\ AnalystKnows' /\ Rest
<1> PilotTypeOK
  BY DEF PilotInv
<1> DEFINE e == LoadAssignments.of
           rows == LoadAssignments.rows
<1>1. Rest
  BY SameFiles DEF AnalyzeShadow
<1>2. PICK table \in OutcomeTables, as_of \in Days :
          /\ AnalyzeItt(e, table, as_of).status = "ANALYZED" => Comparable(rows)
          /\ command' = [step |-> "report", report |-> AnalyzeItt(e, table, as_of),
                         basis |-> [export |-> e, rows |-> rows, as_of |-> as_of,
                                    measured_at |-> table.measured_at]]
  BY DEF AnalyzeShadow
<1> DEFINE b == [export |-> e, rows |-> rows, as_of |-> as_of, measured_at |-> table.measured_at]
<1>3. exportFile \in Exports \cup TornExports /\ exportFile' = exportFile
  BY DEF AnalyzeShadow, pilotFiles
<1>4. b \in Bases
  BY <1>3, LoadedTypes DEF Bases, OutcomeTables
<1>5. ReadFrom(b, exportFile)
  <2>1. CASE exportFile \in Exports
    BY <2>1 DEF ReadFrom, LoadAssignments
  <2>2. CASE exportFile \notin Exports
    <3>1. exportFile = [of |-> exportFile.of, rows |-> exportFile.rows]
      BY <1>3, <2>2 DEF TornExports
    <3> QED
      BY <2>2, <3>1 DEF ReadFrom, LoadAssignments
  <2> QED
    BY <2>1, <2>2
<1>6. Dated(e)
  BY <1>3, Distinct DEF PilotInv, ExportDated, LoadAssignments
<1> HIDE DEF e, rows
<1>7. AnalyzeItt(e, table, as_of).status = "ANALYZED" => Claimable(b)
  <2>1. AnalyzeItt(e, table, as_of).status = "ANALYZED" => Mature(e, table, as_of)
    BY DEF AnalyzeItt
  <2> QED
    BY <1>2, <1>4, <1>6, <2>1 DEF Claimable, Mature
<1>8. /\ command'.step = "report" /\ command'.basis = b
      /\ command'.report = AnalyzeItt(e, table, as_of)
  BY <1>2
<1> HIDE DEF b
<1>9. /\ command'.report.status = "ANALYZED" => Claimable(command'.basis)
      /\ ReadFrom(command'.basis, exportFile')
  BY <1>3, <1>5, <1>7, <1>8
<1> QED
  BY <1>1, <1>8, <1>9 DEF PreparerKnows, AnalystKnows, Claimable, ReadFrom

LEMMA ReportStep == PilotInv /\ WriteReport => PreparerKnows' /\ AnalystKnows' /\ Rest
<1> SUFFICES ASSUME PilotInv, WriteReport PROVE PreparerKnows' /\ AnalystKnows' /\ Rest
  OBVIOUS
<1> PilotTypeOK
  BY DEF PilotInv
<1> USE Distinct
<1>1. /\ command \in Analyzes /\ command.step = "report"
      /\ command.report \in Reports /\ command.basis \in Bases
      /\ ReadFrom(command.basis, exportFile)
      /\ command.report.status = "ANALYZED" => Claimable(command.basis)
  BY CommandTypes DEF WriteReport, Analyzes, PilotInv, AnalystKnows
<1>2. /\ command'.step = "result" /\ command'.report = command.report
      /\ command'.basis = command.basis
      /\ reportFile' = command.report /\ basis' = command.basis
      /\ UNCHANGED <<contractFile, exportFile, pilotLedger>>
      /\ reportFile = Absent \/ reportFile = command.report
  BY <1>1 DEF WriteReport, Analyzes, Writable
<1>3. command'.report.status = "ANALYZED" => Claimable(command'.basis)
  BY <1>1, <1>2
<1>4. PreparerKnows' /\ AnalystKnows'
  BY <1>1, <1>2, <1>3 DEF PreparerKnows, AnalystKnows, Claimable, ReadFrom
<1>5. BasisOfExport'
  BY <1>1, <1>2 DEF BasisOfExport, Followed, ReadFrom
<1>6. ASSUME NEW i \in DOMAIN pilotLedger PROVE RecordOK(pilotLedger[i])'
  <2> DEFINE rec == pilotLedger[i]
  <2>1. rec \in PilotRecords /\ RecordOK(rec) /\ pilotLedger'[i] = rec
    BY <1>2 DEF PilotTypeOK, PilotInv, RecordsOK
  <2>2. CASE rec.type = "PRE_OUTCOME_EXPECTATION"
    BY <1>2, <2>1, <2>2 DEF RecordOK
  <2>3. CASE rec.type = "IMMUTABLE_ASSIGNMENT_EXPORT"
    <3>1. rec.payload \in Exports /\ exportFile \in {rec.payload} \cup LeftOf(rec.payload)
      BY <2>1, <2>3 DEF PilotRecords, RecordOK
    <3>2. exportFile # Torn
      <4>1. /\ command.basis.export \in Exports
            /\ [of |-> command.basis.export, rows |-> command.basis.rows] \in TornExports
        BY <1>1 DEF Bases, TornExports
      <4> QED
        BY <1>1, <4>1 DEF ReadFrom
    <3>3. rec.payload = basis'.export
      BY <1>1, <1>2, <3>1, <3>2, OneExport DEF Followed
    <3> QED
      BY <1>2, <2>1, <2>3, <3>1, <3>3 DEF RecordOK
  <2>4. CASE rec.type = "MATURE_RANDOMIZED_ITT_RESULT"
    <3>1. rec.payload \in Reports /\ reportFile \in {rec.payload, Torn}
      BY <2>1, <2>4 DEF PilotRecords, RecordOK
    <3>2. reportFile' = rec.payload /\ rec.payload = command.report
      BY <1>1, <1>2, <3>1
    <3>3. rec.payload.status = "ANALYZED" => Claimable(basis)'
      BY <1>1, <1>2, <3>2 DEF Claimable
    <3> QED
      BY <2>1, <2>4, <3>2, <3>3 DEF RecordOK
  <2>5. rec.type \in {"PRE_OUTCOME_EXPECTATION", "IMMUTABLE_ASSIGNMENT_EXPORT",
                      "MATURE_RANDOMIZED_ITT_RESULT"}
    BY <2>1 DEF PilotRecords
  <2> QED
    BY <2>2, <2>3, <2>4, <2>5
<1>7. RecordsOK'
  BY <1>2, <1>6 DEF RecordsOK
<1> QED
  BY <1>2, <1>4, <1>5, <1>7 DEF Rest, PilotInv, ExportDated, Dated

LEMMA KillStep == PilotInv /\ KillCommand => PreparerKnows' /\ AnalystKnows' /\ Rest
<1> SUFFICES ASSUME PilotInv, KillCommand PROVE Rest
  BY NothingKnown DEF KillCommand
<1> PilotTypeOK
  BY DEF PilotInv
<1>1. /\ Kept(contractFile, contractFile') /\ Kept(reportFile, reportFile')
      /\ UNCHANGED <<pilotLedger, basis>>
  BY DEF KillCommand, Kept, pilotFiles
<1>2. \/ exportFile' = exportFile
      \/ /\ command.step = "export" /\ Writable(exportFile, command.export)
         /\ \/ exportFile' = Torn
            \/ \E rows \in Prefixes(command.export.contract.cohort) :
                   exportFile' = [of |-> command.export, rows |-> rows]
  BY DEF KillCommand, pilotFiles
<1>3. CASE exportFile' = exportFile
  <2>1. RecordsOK'
    BY <1>1, <1>3, KeptStep DEF PilotInv, ExportKept
  <2> QED
    BY <1>1, <1>3, <2>1 DEF Rest, PilotInv, ExportDated, BasisOfExport, Dated, Followed, ReadFrom
<1>4. CASE exportFile' # exportFile
  <2> DEFINE e == command.export
  <2>1. e \in Exports /\ Dated(e) /\ e.contract.cohort \subseteq Shoppers
    BY <1>2, <1>4, CommandTypes DEF Prepares, Exports, Contracts, PilotInv, PreparerKnows
  <2>2. exportFile \in {Absent, e} /\ exportFile' \in LeftOf(e)
    BY <1>2, <1>4, <2>1 DEF Writable, LeftOf, Prefixes
  <2>3. RecordsOK'
    <3>1. ExportKept(exportFile, exportFile')
      BY <2>1, <2>2 DEF ExportKept
    <3> QED
      BY <1>1, <3>1, KeptStep DEF PilotInv
  <2>4. ExportDated'
    <3>1. exportFile' \notin Exports
      BY <2>1, <2>2, LeftTypes
    <3>2. exportFile' \in TornExports => exportFile'.of = e
      BY <2>1, <2>2, LeftTypes, Distinct
    <3> QED
      BY <2>1, <3>1, <3>2 DEF ExportDated, Dated
  <2>5. BasisOfExport'
    <3> SUFFICES ASSUME basis \in Bases
                 PROVE  basis.rows = basis.export.contract.cohort /\ exportFile' \in LeftOf(basis.export)
      BY <1>1 DEF BasisOfExport, Followed
    <3>1. basis.export \in Exports /\ basis.rows \in SUBSET Shoppers
      BY DEF Bases
    <3>2. [of |-> basis.export, rows |-> basis.rows] \in TornExports
      BY <3>1 DEF TornExports
    <3>3. Followed(basis, exportFile)
      BY DEF PilotInv, BasisOfExport
    <3>4. exportFile \notin TornExports /\ exportFile \notin LeftOf(basis.export)
      BY <2>1, <2>2, <3>1, LeftTypes, Distinct
    <3>5. exportFile = basis.export /\ basis.rows = basis.export.contract.cohort
      BY <3>2, <3>3, <3>4 DEF Followed, ReadFrom
    <3>6. basis.export = e
      BY <2>2, <3>1, <3>5, Distinct
    <3> QED
      BY <2>2, <3>5, <3>6
  <2> QED
    BY <2>3, <2>4, <2>5 DEF Rest
<1> QED
  BY <1>3, <1>4

LEMMA PilotStep == PilotInv /\ [PilotNext]_pilotVars => PilotInv'
<1> SUFFICES ASSUME PilotInv, [PilotNext]_pilotVars PROVE PreparerKnows' /\ AnalystKnows' /\ Rest
  BY PilotTypeStep DEF PilotInv, Rest
<1>1. CASE PrepareAgain \/ Refuse
  BY <1>1, SameFiles, NothingKnown DEF PrepareAgain, Refuse
<1>2. CASE PrepareRefused \/ UNCHANGED pilotVars
  <2>1. UNCHANGED <<pilotFiles, command, basis>>
    BY <1>2 DEF PrepareRefused, pilotVars
  <2>2. PreparerKnows' /\ AnalystKnows'
    BY <2>1 DEF PilotInv, PreparerKnows, AnalystKnows, pilotFiles, Dated, Claimable, ReadFrom
  <2> QED
    BY <2>1, <2>2, SameFiles
<1> QED
  BY <1>1, <1>2, PrepareStep, RecordStep, PilotAnalyzeStep, ReportStep, KillStep DEF PilotNext

\* What the commands know of the files, and the ledger of both, in every behaviour.
THEOREM PilotInvariant == PilotSpec => []PilotInv
<1>1. PilotInit => PilotInv
  <2> SUFFICES ASSUME PilotInit PROVE PilotInv
    OBVIOUS
  <2>1. PilotTypeOK
    <3>1. command \in PilotCommands
      BY DEF PilotInit, PilotCommands
    <3>2. 0 \in 0..MaxCommands
      BY PilotAssumption
    <3>3. <<>> \in Seq(PilotRecords)
      OBVIOUS
    <3>4. /\ contractFile \in Contracts \cup {Absent, Torn}
          /\ exportFile \in Exports \cup TornExports \cup {Absent, Torn}
          /\ reportFile \in Reports \cup {Absent, Torn}
          /\ basis \in Bases \cup {NoBasis}
      BY Zenon DEF PilotInit
    <3>5. commands \in 0..MaxCommands
      BY <3>2 DEF PilotInit
    <3>6. pilotLedger \in Seq(PilotRecords) /\ ledgerTorn \in BOOLEAN
      BY <3>3, Zenon DEF PilotInit
    <3> QED
      BY <3>1, <3>4, <3>5, <3>6, Zenon DEF PilotTypeOK
  <2>2. PreparerKnows /\ AnalystKnows
    BY DEF PilotInit, PreparerKnows, AnalystKnows, NoCommand
  <2>3. ExportDated /\ BasisOfExport /\ RecordsOK
    BY Distinct DEF PilotInit, ExportDated, BasisOfExport, RecordsOK
  <2> QED
    BY <2>1, <2>2, <2>3 DEF PilotInv
<1> QED
  BY <1>1, PilotStep, PTL DEF PilotSpec

\* The ledger of the pilot and the files it speaks of agree, and a profit it claims rests on mature
\* outcomes of the assignment it has recorded.
THEOREM PilotSafe == PilotSpec => []PilotLedgerHolds
<1>1. PilotInv => PilotLedgerHolds
  <2> SUFFICES ASSUME PilotInv PROVE PilotLedgerHolds
    OBVIOUS
  <2>1. \A i \in DOMAIN pilotLedger :
            RecordOK(pilotLedger[i]) /\ pilotLedger[i] \in PilotRecords
    BY DEF PilotInv, RecordsOK, PilotTypeOK
  <2>2. PilotFilesAgree
    <3> SUFFICES ASSUME NEW i \in DOMAIN pilotLedger
                 PROVE  LET payload == pilotLedger[i].payload IN
                        CASE pilotLedger[i].type = "PRE_OUTCOME_EXPECTATION" -> contractFile \in {payload, Torn}
                          [] pilotLedger[i].type = "IMMUTABLE_ASSIGNMENT_EXPORT" ->
                                 /\ exportFile \in {payload} \cup LeftOf(payload)
                                 /\ contractFile \in {payload.contract, Torn}
                          [] pilotLedger[i].type = "MATURE_RANDOMIZED_ITT_RESULT" -> reportFile \in {payload, Torn}
      BY DEF PilotFilesAgree
    <3>1. pilotLedger[i].type \in {"PRE_OUTCOME_EXPECTATION", "IMMUTABLE_ASSIGNMENT_EXPORT",
                                   "MATURE_RANDOMIZED_ITT_RESULT"}
      BY <2>1 DEF PilotRecords
    <3> QED
      BY <2>1, <3>1 DEF RecordOK
  <2>3. ProfitClaimsMature
    <3> SUFFICES ASSUME NEW i \in DOMAIN pilotLedger,
                        pilotLedger[i].type = "MATURE_RANDOMIZED_ITT_RESULT",
                        pilotLedger[i].payload.status = "ANALYZED"
                 PROVE  /\ basis.as_of >= basis.export.assigned_at + Maturity
                        /\ basis.measured_at >= basis.export.assigned_at + Maturity
                        /\ basis.export.assigned_at >= basis.export.contract.frozen_at
                        /\ Comparable(basis.rows)
                        /\ basis.rows # basis.export.contract.cohort =>
                               exportFile = [of |-> basis.export, rows |-> basis.rows]
                        /\ \A j \in DOMAIN pilotLedger :
                               pilotLedger[j].type = "IMMUTABLE_ASSIGNMENT_EXPORT" =>
                                   pilotLedger[j].payload = basis.export
      BY DEF ProfitClaimsMature
    <3>1. Claimable(basis)
      BY <2>1 DEF RecordOK
    <3>2. \A j \in DOMAIN pilotLedger :
              pilotLedger[j].type = "IMMUTABLE_ASSIGNMENT_EXPORT" => pilotLedger[j].payload = basis.export
      BY <2>1, <3>1 DEF RecordOK, Claimable
    <3>3. Followed(basis, exportFile)
      BY <3>1 DEF Claimable, PilotInv, BasisOfExport
    <3> QED
      BY <3>1, <3>2, <3>3 DEF Claimable, Dated, Followed, ReadFrom
  <2> QED
    BY <2>2, <2>3 DEF PilotLedgerHolds
<1> QED
  BY <1>1, PilotInvariant, PTL

-------------------------------------------------------------------------------
(* The merchant's dashboard.                                               *)

RowOf(version) == IF version.placed THEN MapOrder(version) ELSE NoOrder
LinesOf(version, costed) == IF version.placed THEN MapLines(version, costed) ELSE {}
\* An order that is placed has lines, and keeps those it has.
Grows(old, new) == old.placed => new.placed /\ old.items # {} /\ old.items \subseteq new.items

DashboardTypes ==
    /\ shop \in [ShopOrders -> OrderVersions]
    /\ export \in [orders : SUBSET ShopOrders, versions : [ShopOrders -> OrderVersions],
                   costed : SUBSET Variants]
    /\ origin \in [ShopOrders -> [version : OrderVersions, costed : SUBSET Variants]]
    /\ unitCosts \subseteq Variants
    /\ assumptions \subseteq ValidFrom \X (Fees \cup {Unknown})
    /\ shrunk \in BOOLEAN
    /\ DOMAIN orderRows = ShopOrders /\ DOMAIN lineRows = ShopOrders
    /\ page.step \in {"none", "lines", "assumptions", "company", "error"}
    /\ page.step \in {"lines", "assumptions"} =>
           {"step", "disturbed", "orders"} \subseteq DOMAIN page
    /\ page.step = "assumptions" => "lines" \in DOMAIN page

\* The tables hold the versions that were upserted last, all their lines among them, and of an order
\* that lost no line nothing else.
TablesAreMapped ==
    /\ \A o \in export.orders : export.versions[o].placed
    /\ \A o \in ShopOrders : orderRows[o] = RowOf(origin[o].version)
    /\ ~shrunk => \A o \in ShopOrders :
           /\ Grows(shop[o], shop[o])
           /\ Grows(export.versions[o], shop[o])
           /\ Grows(origin[o].version, export.versions[o])
           /\ lineRows[o] = LinesOf(origin[o].version, origin[o].costed)

\* A request that no upsert came between has read the tables as they are.
PageIsRead ==
    /\ page.step \in {"lines", "assumptions"} /\ ~page.disturbed => page.orders = orderRows
    /\ page.step = "assumptions" /\ ~page.disturbed => page.lines = lineRows

\* What ShowCompany leaves of a request.
PageOf(today, fee) ==
    IF Cardinality({page.orders[o].currency : o \in EligibleOrders(page)}) > 1
    THEN [step |-> "error"]
    ELSE [step |-> "company", disturbed |-> page.disturbed, today |-> today,
          company |-> CompanyState(page, fee), diagnostics |-> Diagnostics(page, today),
          card |-> FirstDecisionCard(page, today), fees |-> AssumedFees(today), versions |-> origin]

DashboardInv == DashboardTypes /\ TablesAreMapped /\ PageIsRead /\ DashboardIsTheShops

\* What there is of the values of a function up to one of them.
UpTo(f, v) == {x \in DOMAIN f : f[x] <= v}
Below(f, v) == {x \in DOMAIN f : f[x] < v}

\* The value that comes i-th is there, and of the last one there is no greater.
LEMMA NthIs ==
    ASSUME NEW f, IsFiniteSet(DOMAIN f), \A x \in DOMAIN f : f[x] \in Int, NEW i \in 1..Cardinality(DOMAIN f)
    PROVE  /\ Nth(f, i) \in Int
           /\ i = Cardinality(DOMAIN f) => \A x \in DOMAIN f : f[x] <= Nth(f, i)
<1> DEFINE D == DOMAIN f
           values == {f[x] : x \in D}
           enough == {v \in values : Cardinality(UpTo(f, v)) >= i}
<1>1. /\ IsFiniteSet(values) /\ values \subseteq Int
      /\ \A T \in SUBSET D : IsFiniteSet(T) /\ Cardinality(T) \in Nat /\ Cardinality(T) <= Cardinality(D)
      /\ \A T \in SUBSET D : Cardinality(T) = Cardinality(D) => T = D
  BY FiniteImage, FS_Subset, FS_CardinalityType
<1>2. D # {} /\ values # {}
  <2> SUFFICES ASSUME D = {}
               PROVE  FALSE
    OBVIOUS
  <2>1. Cardinality(D) = 0 /\ i \in 1..Cardinality(D)
    BY FS_EmptySet
  <2>. HIDE DEF D
  <2>. QED  BY <2>1
<1>3. Max(values) \in enough
  <2>1. Max(values) \in values /\ \A v \in values : Max(values) >= v
    <3>. HIDE DEF values
    <3>. QED  BY <1>1, <1>2, GreatestOfFinite
  <2>2. UpTo(f, Max(values)) = D
    BY <2>1 DEF UpTo
  <2>3. Cardinality(D) \in Nat /\ Cardinality(D) >= i
    BY <1>1
  <2>. QED  BY <2>1, <2>2, <2>3
<1> DEFINE v == Min(enough)
<1>4. v \in enough /\ \A u \in enough : v <= u
  <2>1. IsFiniteSet(enough) /\ enough \subseteq Int /\ enough # {}
    BY <1>1, <1>3, FS_Subset
  <2>. HIDE DEF enough
  <2>. QED  BY <2>1, LeastOfFinite
<1>5. Cardinality(Below(f, v)) < i
  <2> DEFINE under == {f[x] : x \in Below(f, v)}
  <2>1. CASE Below(f, v) = {}
    BY <2>1, FS_EmptySet
  <2>2. CASE Below(f, v) # {}
    <3>1. IsFiniteSet(under) /\ under \subseteq Int /\ under # {} /\ under \subseteq values
      <4>1. Below(f, v) \in SUBSET D
        BY DEF Below
      <4>2. IsFiniteSet(Below(f, v))
        BY <1>1, <4>1
      <4>3. IsFiniteSet(under)
        <5>. HIDE DEF v
        <5>. QED  BY <4>2, FiniteImage
      <4>4. under \subseteq values /\ under # {}
        <5>. HIDE DEF v
        <5>. QED  BY <2>2, <4>1
      <4>. HIDE DEF values, under
      <4>. QED  BY <1>1, <4>3, <4>4
    <3> DEFINE u == Max(under)
    <3>2. u \in under /\ \A y \in under : u >= y
      <4>. HIDE DEF under
      <4>. QED  BY <3>1, GreatestOfFinite
    <3>3. u \in values /\ u < v /\ u \in Int /\ v \in Int
      <4>1. v \in values
        BY <1>4
      <4>2. \A y \in under : y < v
        <5>. HIDE DEF v
        <5>. QED  BY DEF Below
      <4>. HIDE DEF u, v, under, values
      <4>. QED  BY <1>1, <3>1, <3>2, <4>1, <4>2
    <3>4. Below(f, v) = UpTo(f, u)
      <4>1. \A x \in Below(f, v) : f[x] <= u
        BY <3>2, <3>3
      <4>2. \A x \in D : f[x] <= u => f[x] < v
        BY <3>3
      <4>. HIDE DEF u, v, under
      <4>. QED  BY <4>1, <4>2 DEF Below, UpTo
    <3>5. u \notin enough
      <4>. HIDE DEF u, v, enough
      <4>. QED  BY <1>4, <3>3
    <3>6. Cardinality(UpTo(f, u)) \in Nat
      <4>1. UpTo(f, u) \in SUBSET D
        BY DEF UpTo
      <4>. QED  BY <1>1, <4>1
    <3>7. ~(Cardinality(UpTo(f, u)) >= i)
      <4>. HIDE DEF u, values
      <4>. QED  BY <3>3, <3>5
    <3>. HIDE DEF u, v
    <3>. QED  BY <3>4, <3>6, <3>7
  <2>. QED  BY <2>1, <2>2
<1> DEFINE n == Nth(f, i)
<1>6. n \in values /\ Cardinality(Below(f, n)) < i /\ Cardinality(UpTo(f, n)) >= i
  <2>1. v \in values /\ Cardinality(UpTo(f, v)) >= i
    BY <1>4
  <2>. HIDE DEF v, enough
  <2>. QED  BY <1>5, <2>1 DEF Nth, Below, UpTo
<1>7. n \in Int
  BY <1>1, <1>6
<1>8. ASSUME i = Cardinality(D)
      PROVE  \A x \in D : f[x] <= n
  <2>1. UpTo(f, n) \in SUBSET D
    BY DEF UpTo
  <2>2. Cardinality(UpTo(f, n)) = Cardinality(D)
    BY <1>1, <1>6, <1>8, <2>1
  <2>3. UpTo(f, n) = D
    BY <1>1, <2>1, <2>2
  <2>. QED  BY <2>3 DEF UpTo
<1>. QED  BY <1>7, <1>8

\* A customer who is cooling or dormant has bought nothing for more than thirty days, whatever the
\* customer's cadence is.
LEMMA LateCustomers ==
    ASSUME NEW f, IsFiniteSet(DOMAIN f), DOMAIN f # {}, \A x \in DOMAIN f : f[x] \in Nat, NEW today \in Int,
           Lifecycle(f, today) \in {"COOLING", "DORMANT"}
    PROVE  \A x \in DOMAIN f : today - f[x] > 2
<1> DEFINE n == Cardinality(DOMAIN f)
           gaps == [i \in 1..(n - 1) |-> Nth(f, i + 1) - Nth(f, i)]
           recency == today - Nth(f, n)
           cadence == TwiceMedian(gaps)
           late == Max({16, 5 * cadence})
<1>1. n \in Nat \ {0} /\ n \in 1..n
  BY FS_CardinalityType, FS_EmptySet
<1>2. \A i \in 1..n : Nth(f, i) \in Int
  BY NthIs
<1>3. recency \in Int /\ \A x \in DOMAIN f : f[x] <= Nth(f, n)
  BY <1>1, <1>2, NthIs
<1>4. n > 1 => cadence \in Int
  <2> SUFFICES ASSUME n > 1
               PROVE  cadence \in Int
    OBVIOUS
  <2>1. DOMAIN gaps = 1..(n - 1) /\ \A i \in DOMAIN gaps : gaps[i] \in Int
    BY <1>1, <1>2
  <2>2. n - 1 \in Nat \ {0}
    BY <1>1
  <2>3. IsFiniteSet(DOMAIN gaps) /\ Cardinality(DOMAIN gaps) = n - 1
    BY <2>1, <2>2, FS_Interval
  <2> DEFINE m == n - 1
  <2>4. (m + 1) \div 2 \in 1..m /\ (m \div 2) + 1 \in 1..m
    <3>1. m \in Nat \ {0}
      BY <2>2
    <3>. HIDE DEF m
    <3>2. \A k \in Nat \ {0} : (k + 1) \div 2 \in 1..k /\ (k \div 2) + 1 \in 1..k
      OBVIOUS
    <3>. QED  BY <3>1, <3>2
  <2>. HIDE DEF gaps, n
  <2>5. Nth(gaps, (m + 1) \div 2) \in Int /\ Nth(gaps, (m \div 2) + 1) \in Int
    BY <2>1, <2>3, <2>4, NthIs
  <2>. QED  BY <2>3, <2>5 DEF TwiceMedian
<1>5. n > 1 => late \in Int /\ late >= 16
  <2> SUFFICES ASSUME n > 1
               PROVE  late \in Int /\ late >= 16
    OBVIOUS
  <2>1. 5 * cadence \in Int
    BY <1>4
  <2> DEFINE c == 5 * cadence
  <2>. HIDE DEF c, cadence, n
  <2>2. IsFiniteSet({16, c}) /\ {16, c} \subseteq Int
    <3>1. c \in Int
      BY <2>1 DEF c
    <3>2. IsFiniteSet({16, c})
      BY FinitePair
    <3>3. 16 \in Int
      OBVIOUS
    <3>. QED  BY <3>1, <3>2, <3>3
  <2>3. Max({16, c}) \in {16, c} /\ Max({16, c}) >= 16
    BY <2>2, GreatestOfFinite
  <2>. QED  BY <2>1, <2>3 DEF c
<1>6. recency > 2
  <2>1. CASE n = 1
    <3>1. Lifecycle(f, today) =
             CASE n = 1 /\ recency <= 2 -> "NEW"
               [] n = 1 /\ recency = 3 -> "ACTIVE"
               [] n = 1 /\ recency > 3 -> "DORMANT"
               [] n > 1 /\ 4 * gaps[n - 1] > late /\ 2 * recency <= cadence -> "REACTIVATED"
               [] OTHER -> IF 8 * recency <= late THEN "ACTIVE"
                           ELSE IF 4 * recency <= late THEN "COOLING" ELSE "DORMANT"
      BY DEF Lifecycle
    <3>. HIDE DEF n, recency, gaps, cadence, late
    <3>2. recency <= 2 => Lifecycle(f, today) = "NEW"
      BY <1>3, <2>1, <3>1
    <3>. QED  BY <1>3, <3>2
  <2>2. CASE n > 1
    <3>1. \/ Lifecycle(f, today) = "REACTIVATED"
          \/ Lifecycle(f, today) = IF 8 * recency <= late THEN "ACTIVE"
                           ELSE IF 4 * recency <= late THEN "COOLING" ELSE "DORMANT"
      <4>1. Lifecycle(f, today) =
             CASE n = 1 /\ recency <= 2 -> "NEW"
               [] n = 1 /\ recency = 3 -> "ACTIVE"
               [] n = 1 /\ recency > 3 -> "DORMANT"
               [] n > 1 /\ 4 * gaps[n - 1] > late /\ 2 * recency <= cadence -> "REACTIVATED"
               [] OTHER -> IF 8 * recency <= late THEN "ACTIVE"
                           ELSE IF 4 * recency <= late THEN "COOLING" ELSE "DORMANT"
        BY DEF Lifecycle
      <4>. HIDE DEF n, recency, gaps, cadence, late
      <4>2. n # 1
        BY <1>1, <2>2
      <4>. QED  BY <2>2, <4>1, <4>2
    <3>2. 8 * recency > late
      <4>. HIDE DEF n, recency, gaps, cadence, late
      <4>. QED  BY <1>3, <1>5, <2>2, <3>1
    <3>. HIDE DEF n, recency, gaps, cadence, late
    <3>. QED  BY <1>3, <1>5, <2>2, <3>2
  <2>. QED  BY <1>1, <2>1, <2>2
<1>7. SUFFICES ASSUME NEW x \in DOMAIN f
               PROVE  today - f[x] > 2
  OBVIOUS
<1>8. f[x] <= Nth(f, n) /\ Nth(f, n) \in Int /\ f[x] \in Int
  BY <1>1, <1>2, <1>3
<1>. QED  BY <1>6, <1>8

\* A version that is placed, and its row and lines.
LEMMA VersionIs ==
    ASSUME NEW version \in OrderVersions, version.placed, NEW costed \in SUBSET Variants
    PROVE  /\ version.items \in SUBSET Variants /\ IsFiniteSet(version.items)
           /\ Cardinality(version.items) \in Nat /\ Net(version) \in Int
           /\ \A fee \in Nat : Profit(version, fee) \in Int
           /\ version.cancelled \in BOOLEAN
           /\ RowOf(version).active /\ RowOf(version).cancelled = version.cancelled
           /\ RowOf(version).net_sales - RowOf(version).refunds = Net(version)
           /\ Cardinality(LinesOf(version, costed)) = Cardinality(version.items)
           /\ LinesOf(version, costed) = {} <=> version.items = {}
           /\ (\A l \in LinesOf(version, costed) : l[2]) <=> version.items \subseteq costed
<1>1. version \in [placed : {TRUE}, items : SUBSET Variants, refunds : {0, Refund},
                   cancelled : BOOLEAN, currency : {"home", "foreign"}]
  <2>1. ~NotPlaced.placed
    BY DEF NotPlaced
  <2>2. version # NotPlaced
    BY <2>1
  <2>. QED  BY <2>2 DEF OrderVersions
<1>2. version.items \in SUBSET Variants /\ version.refunds \in {0, Refund} /\ version.cancelled \in BOOLEAN
  BY <1>1
<1>3. IsFiniteSet(version.items) /\ Cardinality(version.items) \in Nat
  BY <1>2, DashboardAssumption, FS_Subset, FS_CardinalityType DEF DashboardAssumption
<1>4. version.refunds \in Int /\ LinePrice \in Int /\ UnitCost \in Int
  BY <1>2, DashboardAssumption DEF DashboardAssumption
<1> DEFINE size == Cardinality(version.items)
<1>5. Net(version) \in Int /\ \A fee \in Nat : Profit(version, fee) \in Int
  <2>1. \A n \in Nat : n * LinePrice \in Int /\ n * UnitCost \in Int
    BY <1>4
  <2>. QED  BY <1>3, <1>4, <2>1 DEF Net, Profit
<1>6. /\ RowOf(version).active /\ RowOf(version).cancelled = version.cancelled
      /\ RowOf(version).net_sales - RowOf(version).refunds = Net(version)
  BY DEF RowOf, MapOrder, NetSales, Net
<1> DEFINE f == [v \in version.items |-> <<v, v \in costed>>]
<1>7. LinesOf(version, costed) = {f[v] : v \in version.items}
  BY DEF LinesOf, MapLines
<1>8. \A u, v \in version.items : f[u] = f[v] => u = v
  OBVIOUS
<1>9. Cardinality(LinesOf(version, costed)) = size
  <2>. HIDE DEF f
  <2>. QED  BY <1>3, <1>7, <1>8, SizeOfImage
<1>10. /\ LinesOf(version, costed) = {} <=> version.items = {}
       /\ (\A l \in LinesOf(version, costed) : l[2]) <=> version.items \subseteq costed
  <2>1. \A v \in version.items : f[v][2] = (v \in costed)
    OBVIOUS
  <2>. HIDE DEF f
  <2>. QED  BY <1>7, <2>1
<1>. QED  BY <1>2, <1>3, <1>5, <1>6, <1>9, <1>10

\* A page whose reads no upsert came between tells what the orders come to.
LEMMA PageTells ==
    ASSUME DashboardTypes, TablesAreMapped, ~shrunk, page.orders = orderRows, page.lines = lineRows,
           NEW today \in Todays, NEW fee \in AssumedFees(today),
           NEW shown, shown.versions = origin, shown.today = today,
           shown.company = CompanyState(page, fee), shown.diagnostics = Diagnostics(page, today),
           shown.card = FirstDecisionCard(page, today), shown.fees = AssumedFees(today)
    PROVE  TellsTheShop(shown)
<1> DEFINE version(o) == origin[o].version
           counted == Counted(origin)
<1>0. fee = Unknown \/ fee \in Nat
  <2>1. \A a \in assumptions : a[2] = Unknown \/ a[2] \in Nat
    BY DashboardAssumption DEF DashboardAssumption, DashboardTypes
  <2>. QED  BY <2>1 DEF AssumedFees
<1>1. \A o \in ShopOrders : version(o) \in OrderVersions /\ origin[o].costed \in SUBSET Variants
  BY DEF DashboardTypes
<1>2. \A o \in ShopOrders : page.orders[o] = RowOf(version(o)) /\ page.lines[o] = LinesOf(version(o), origin[o].costed)
  BY DEF TablesAreMapped
<1>3. counted \subseteq ShopOrders /\ IsFiniteSet(counted)
      /\ \A o \in ShopOrders : o \in counted <=> version(o).placed /\ ~version(o).cancelled
  BY DashboardAssumption, FS_Subset DEF Counted, DashboardAssumption
<1>4. EligibleOrders(page) = counted
  <2>1. ASSUME NEW o \in ShopOrders, version(o).placed
        PROVE  RowOf(version(o)).active /\ RowOf(version(o)).cancelled = version(o).cancelled
    BY <1>1, <2>1, VersionIs
  <2>2. ASSUME NEW o \in ShopOrders, ~version(o).placed
        PROVE  ~RowOf(version(o)).active
    BY <2>2 DEF RowOf, NoOrder
  <2>. HIDE DEF version, counted
  <2>. QED  BY <1>2, <1>3, <2>1, <2>2 DEF EligibleOrders
<1>5. ASSUME NEW o \in counted
      PROVE  /\ Net(version(o)) \in Int /\ (fee # Unknown => Profit(version(o), fee) \in Int)
             /\ page.orders[o].net_sales - page.orders[o].refunds = Net(version(o))
             /\ OrderContribution(page.orders[o], page.lines[o], fee) =
                    IF fee # Unknown /\ version(o).items \subseteq origin[o].costed THEN Profit(version(o), fee) ELSE Unknown
  <2>1. o \in ShopOrders /\ version(o).placed
    BY <1>3
  <2>2. version(o).items # {}
    BY <2>1 DEF TablesAreMapped, Grows
  <2> DEFINE v == version(o)
             row == RowOf(v)
             lines == LinesOf(v, origin[o].costed)
  <2>3. /\ Net(v) \in Int /\ (fee # Unknown => Profit(v, fee) \in Int)
        /\ row.net_sales - row.refunds = Net(v)
        /\ Cardinality(lines) = Cardinality(v.items) /\ Cardinality(v.items) \in Nat
        /\ lines # {} /\ ((\A l \in lines : l[2]) <=> v.items \subseteq origin[o].costed)
    <3>. HIDE DEF version
    <3>. QED  BY <1>0, <1>1, <2>1, <2>2, VersionIs
  <2>4. page.orders[o] = row /\ page.lines[o] = lines
    BY <1>2, <2>1
  <2>. HIDE DEF v, row, lines
  <2>5. fee # Unknown => row.net_sales - row.refunds - UnitCost * Cardinality(lines) - fee = Profit(v, fee)
    <3>1. UnitCost \in Int
      BY DashboardAssumption DEF DashboardAssumption
    <3>. QED  BY <1>0, <2>3, <3>1 DEF Profit
  <2>. QED  BY <2>3, <2>4, <2>5 DEF OrderContribution, v
<1>6. shown.company.contribution =
          IF (\E o \in counted : ~(version(o).items \subseteq origin[o].costed)) \/ fee = Unknown \/ counted = {}
          THEN Unknown ELSE SumFunctionOnSet([o \in counted |-> Profit(version(o), fee)], counted)
  <2> DEFINE contribution == [o \in counted |-> OrderContribution(page.orders[o], page.lines[o], fee)]
             known == counted # {} /\ \A o \in counted : contribution[o] # Unknown
             profit == [o \in counted |-> Profit(version(o), fee)]
  <2>1. shown.company.contribution = IF known THEN SumFunctionOnSet(contribution, counted) ELSE Unknown
    BY <1>4 DEF CompanyState
  <2>2. \A o \in counted : contribution[o] # Unknown <=> fee # Unknown /\ version(o).items \subseteq origin[o].costed
    BY <1>5, DashboardAssumption DEF DashboardAssumption
  <2>3. known <=> ~((\E o \in counted : ~(version(o).items \subseteq origin[o].costed)) \/ fee = Unknown \/ counted = {})
    <3>. HIDE DEF contribution, version, counted
    <3>. QED  BY <2>2
  <2>4. known => SumFunctionOnSet(contribution, counted) = SumFunctionOnSet(profit, counted)
    <3> SUFFICES ASSUME known
                 PROVE  SumFunctionOnSet(contribution, counted) = SumFunctionOnSet(profit, counted)
      OBVIOUS
    <3>1. \A o \in counted : contribution[o] = profit[o]
      BY <1>5, <2>2
    <3>. HIDE DEF contribution, profit, counted
    <3>. QED  BY <1>3, <3>1, SumSame
  <2>. HIDE DEF contribution, known, counted, version
  <2>. QED  BY <2>1, <2>3, <2>4
<1>7. ASSUME NEW S \in SUBSET counted, NEW w, \A o \in S : w[o] = Net(version(o))
      PROVE  NetRevenue(page, S) = SumFunctionOnSet(w, S)
  <2> DEFINE u == [o \in S |-> page.orders[o].net_sales - page.orders[o].refunds]
  <2>1. \A o \in S : u[o] = w[o]
    BY <1>5, <1>7
  <2>2. IsFiniteSet(S)
    BY <1>3, FS_Subset
  <2>. HIDE DEF u
  <2>3. SumFunctionOnSet(u, S) = SumFunctionOnSet(w, S)
    BY <2>1, <2>2, SumSame
  <2>. QED  BY <2>3 DEF NetRevenue, u
<1>8. LET recent == {o \in counted : PlacedOn[o] > today - 4} IN
      shown.diagnostics.current + shown.diagnostics.previous =
          SumFunctionOnSet([o \in recent |-> Net(version(o))], recent)
  <2> DEFINE recent == {o \in counted : PlacedOn[o] > today - 4}
             A == {o \in counted : today - 2 < PlacedOn[o]}
             B == {o \in counted : today - 4 < PlacedOn[o] /\ PlacedOn[o] <= today - 2}
             w == [o \in recent |-> Net(version(o))]
  <2>1. shown.diagnostics.current = NetRevenue(page, A) /\ shown.diagnostics.previous = NetRevenue(page, B)
    BY <1>4 DEF Diagnostics
  <2>2. today \in Int /\ \A o \in counted : PlacedOn[o] \in Int
    BY <1>3, DashboardAssumption DEF DashboardAssumption
  <2>3. recent = A \cup B /\ A \cap B = {} /\ A \in SUBSET counted /\ B \in SUBSET counted
    <3>. HIDE DEF counted
    <3>. QED  BY <2>2
  <2>4. IsFiniteSet(A) /\ IsFiniteSet(B)
    BY <1>3, <2>3, FS_Subset
  <2>5. \A o \in recent : w[o] = Net(version(o)) /\ w[o] \in Int
    BY <1>5
  <2>. HIDE DEF w, recent, A, B, counted, version
  <2>6. SumFunctionOnSet(w, recent) = SumFunctionOnSet(w, A) + SumFunctionOnSet(w, B)
    BY <2>3, <2>4, <2>5, SumOfUnion
  <2>7. NetRevenue(page, A) = SumFunctionOnSet(w, A) /\ NetRevenue(page, B) = SumFunctionOnSet(w, B)
    BY <1>7, <2>3, <2>5
  <2>. QED  BY <2>1, <2>6, <2>7 DEF recent, w
<1>9. ASSUME shown.card = "TEST"
      PROVE  /\ Cardinality(counted) >= MinOrders
             /\ \E k \in Known(counted) : \A o \in counted : CustomerOf[o] = k => today - PlacedOn[o] > 2
  <2>1. Diagnostics(page, today).affected # {} /\ Cardinality(counted) >= MinOrders
    BY <1>4, <1>9 DEF FirstDecisionCard
  <2>2. PICK k \in Known(counted) : CustomerStates(page, today)[k] \in {"COOLING", "DORMANT"}
    BY <1>4, <2>1 DEF Diagnostics
  <2> DEFINE orders == {o \in counted : CustomerOf[o] = k}
             placed == [o \in orders |-> PlacedOn[o]]
  <2>3. CustomerStates(page, today)[k] = Lifecycle(placed, today)
    BY <1>4 DEF CustomerStates
  <2>4. IsFiniteSet(orders) /\ orders # {} /\ \A o \in orders : PlacedOn[o] \in Nat
    <3>1. orders \in SUBSET counted
      OBVIOUS
    <3>2. orders # {}
      BY DEF Known
    <3>3. \A o \in counted : PlacedOn[o] \in Nat
      BY <1>3, DashboardAssumption DEF DashboardAssumption
    <3>. HIDE DEF counted
    <3>. QED  BY <1>3, <3>1, <3>2, <3>3, FS_Subset
  <2>5. DOMAIN placed = orders /\ \A o \in orders : placed[o] = PlacedOn[o]
    OBVIOUS
  <2>6. today \in Int
    BY DashboardAssumption DEF DashboardAssumption
  <2>. HIDE DEF placed, orders, counted
  <2>7. \A o \in orders : today - placed[o] > 2
    BY <2>2, <2>3, <2>4, <2>5, <2>6, LateCustomers
  <2>8. \A o \in counted : CustomerOf[o] = k => today - PlacedOn[o] > 2
    BY <2>5, <2>7 DEF orders
  <2>. QED  BY <2>1, <2>2, <2>8
<1>. QED  BY <1>6, <1>8, <1>9 DEF TellsTheShop

\* Orders are placed with lines and keep what they have, but for what counts as lost.
LEMMA ShopMoves ==
    ASSUME DashboardTypes, NEW o \in ShopOrders, PlaceOrder(o) \/ ChangeOrder(o)
    PROVE  /\ shop' \in [ShopOrders -> OrderVersions] /\ shrunk' \in BOOLEAN
           /\ \A p \in ShopOrders : p # o => shop'[p] = shop[p]
           /\ ~shrunk' => ~shrunk /\ (Grows(shop[o], shop[o]) => Grows(shop[o], shop'[o]) /\ Grows(shop'[o], shop'[o]))
<1> DEFINE Placed == [placed : {TRUE}, items : SUBSET Variants, refunds : {0, Refund},
                      cancelled : BOOLEAN, currency : {"home", "foreign"}]
<1>1. shop \in [ShopOrders -> OrderVersions] /\ shrunk \in BOOLEAN
  BY DEF DashboardTypes
<1>2. Placed \subseteq OrderVersions
  BY DEF OrderVersions
<1>3. CASE PlaceOrder(o)
  <2>1. PICK new \in Placed : shop' = [shop EXCEPT ![o] = new] /\ new.items # {}
    <3>1. PICK items \in (SUBSET Variants) \ {{}}, currency \in {"home", "foreign"} :
             shop' = [shop EXCEPT ![o] =
               [placed |-> TRUE, items |-> items, refunds |-> 0, cancelled |-> FALSE, currency |-> currency]]
      BY <1>3 DEF PlaceOrder
    <3> DEFINE new == [placed |-> TRUE, items |-> items, refunds |-> 0, cancelled |-> FALSE, currency |-> currency]
    <3>2. new \in Placed /\ new.items # {}
      OBVIOUS
    <3>. HIDE DEF Placed
    <3>. QED  BY <3>1, <3>2
  <2>2. ~shop[o].placed /\ shrunk' = shrunk
    BY <1>3 DEF PlaceOrder
  <2>3. new \in OrderVersions /\ shop'[o] = new
    BY <1>1, <1>2, <2>1
  <2>. HIDE DEF Placed
  <2>4. \A p \in ShopOrders : p # o => shop'[p] = shop[p]
    BY <1>1, <2>1
  <2>5. Grows(new, new)
    BY <2>1 DEF Grows
  <2>. QED  BY <1>1, <2>1, <2>2, <2>3, <2>4, <2>5 DEF Grows
<1>4. CASE ChangeOrder(o)
  <2>1. shop[o] \in Placed
    <3>1. shop[o].placed /\ shop[o] \in OrderVersions
      BY <1>1, <1>4 DEF ChangeOrder
    <3>2. ~NotPlaced.placed
      BY DEF NotPlaced
    <3>. QED  BY <3>1, <3>2 DEF OrderVersions
  <2> DEFINE old == shop[o]
             new == shop'[o]
  <2>2. PICK changed \in Placed : shop' = [shop EXCEPT ![o] = changed]
    <3>1. CASE shop' = [shop EXCEPT ![o].refunds = Refund]
      <4>1. [old EXCEPT !.refunds = Refund] \in Placed
        BY <2>1
      <4>. QED  BY <1>1, <3>1, <4>1
    <3>2. CASE shop' = [shop EXCEPT ![o].cancelled = TRUE]
      <4>1. [old EXCEPT !.cancelled = TRUE] \in Placed
        BY <2>1
      <4>. QED  BY <1>1, <3>2, <4>1
    <3>3. ASSUME NEW v \in Variants, shop' = [shop EXCEPT ![o].items = @ \cup {v}]
          PROVE  \E changed \in Placed : shop' = [shop EXCEPT ![o] = changed]
      <4>1. [old EXCEPT !.items = @ \cup {v}] \in Placed
        BY <2>1
      <4>. QED  BY <1>1, <3>3, <4>1
    <3>4. ASSUME NEW v \in Variants, shop' = [shop EXCEPT ![o].items = @ \ {v}]
          PROVE  \E changed \in Placed : shop' = [shop EXCEPT ![o] = changed]
      <4>1. [old EXCEPT !.items = @ \ {v}] \in Placed
        BY <2>1
      <4>. QED  BY <1>1, <3>4, <4>1
    <3>. QED  BY <1>4, <3>1, <3>2, <3>3, <3>4 DEF ChangeOrder
  <2>3. new = changed /\ new \in OrderVersions /\ new.placed /\ old.placed
    BY <1>1, <1>2, <2>1, <2>2
  <2>4. shrunk' = (shrunk \/ ~(old.items \subseteq new.items))
    BY <1>4 DEF ChangeOrder
  <2>. HIDE DEF Placed
  <2>5. shop' \in [ShopOrders -> OrderVersions] /\ \A p \in ShopOrders : p # o => shop'[p] = shop[p]
    BY <1>1, <2>2, <2>3
  <2>. HIDE DEF old, new
  <2>6. ~shrunk' => ~shrunk /\ (Grows(old, old) => Grows(old, new) /\ Grows(new, new))
    BY <1>1, <2>3, <2>4 DEF Grows
  <2>7. shrunk' \in BOOLEAN
    BY <2>4
  <2>. QED  BY <2>5, <2>6, <2>7 DEF old, new
<1>. QED  BY <1>3, <1>4

LEMMA GrowsOn ==
    ASSUME NEW u, NEW v, NEW w, Grows(u, v), Grows(v, w)
    PROVE  Grows(u, w)
BY DEF Grows

LEMMA UpsertMoves ==
    ASSUME DashboardTypes, TablesAreMapped, NEW o \in ShopOrders, UpsertOrder(o)
    PROVE  DashboardTypes' /\ TablesAreMapped'
<1> DEFINE version == export.versions[o]
           costed == export.costed
<1>1. o \in export.orders /\ version.placed /\ version \in OrderVersions /\ costed \in SUBSET Variants
  BY DEF UpsertOrder, TablesAreMapped, DashboardTypes
<1>2. /\ orderRows' = [orderRows EXCEPT ![o] = MapOrder(version)]
      /\ lineRows' = [lineRows EXCEPT ![o] = (@ \ (version.items \X BOOLEAN)) \cup MapLines(version, costed)]
      /\ origin' = [origin EXCEPT ![o] = [version |-> version, costed |-> costed]]
      /\ export' = [export EXCEPT !.orders = @ \ {o}]
      /\ page' = IF page.step \in {"lines", "assumptions"} THEN [page EXCEPT !.disturbed = TRUE] ELSE page
      /\ shop' = shop /\ unitCosts' = unitCosts /\ shrunk' = shrunk /\ assumptions' = assumptions
  BY DEF UpsertOrder, shopVars
<1>3. /\ export'.versions = export.versions /\ export'.orders \subseteq export.orders
      /\ export' \in [orders : SUBSET ShopOrders, versions : [ShopOrders -> OrderVersions], costed : SUBSET Variants]
  BY <1>2 DEF DashboardTypes
<1>4. /\ origin' \in [ShopOrders -> [version : OrderVersions, costed : SUBSET Variants]]
      /\ origin'[o].version = version /\ origin'[o].costed = costed
      /\ \A p \in ShopOrders : p # o => origin'[p] = origin[p]
  <2>. HIDE DEF version, costed
  <2>1. [version |-> version, costed |-> costed] \in [version : OrderVersions, costed : SUBSET Variants]
    BY <1>1
  <2>. QED  BY <1>2, <2>1 DEF DashboardTypes
<1>5. /\ page'.step = page.step
      /\ page.step \in {"lines", "assumptions"} => {"step", "disturbed", "orders"} \subseteq DOMAIN page'
      /\ page.step = "assumptions" => "lines" \in DOMAIN page'
  BY <1>2 DEF DashboardTypes
<1>6. /\ DOMAIN orderRows' = ShopOrders /\ DOMAIN lineRows' = ShopOrders
      /\ orderRows'[o] = MapOrder(version)
      /\ lineRows'[o] = (lineRows[o] \ (version.items \X BOOLEAN)) \cup MapLines(version, costed)
      /\ \A p \in ShopOrders : p # o => orderRows'[p] = orderRows[p] /\ lineRows'[p] = lineRows[p]
  <2>. HIDE DEF version, costed
  <2>. QED  BY <1>2 DEF DashboardTypes
<1> HIDE DEF version, costed
<1>7. DashboardTypes'
  BY <1>2, <1>3, <1>4, <1>5, <1>6 DEF DashboardTypes
<1>8. \A p \in export'.orders : export'.versions[p].placed
  BY <1>3 DEF TablesAreMapped
<1>9. \A p \in ShopOrders : orderRows'[p] = RowOf(origin'[p].version)
  BY <1>1, <1>4, <1>6 DEF TablesAreMapped, RowOf
<1>10. ASSUME ~shrunk'
       PROVE  \A p \in ShopOrders :
                  /\ Grows(shop'[p], shop'[p])
                  /\ Grows(export'.versions[p], shop'[p])
                  /\ Grows(origin'[p].version, export'.versions[p])
                  /\ lineRows'[p] = LinesOf(origin'[p].version, origin'[p].costed)
  <2>1. Grows(version, version)
    BY <1>1, <1>2, <1>10 DEF TablesAreMapped, Grows, version
  <2>2. lineRows'[o] = LinesOf(version, costed)
    <3>1. lineRows[o] = LinesOf(origin[o].version, origin[o].costed) /\ Grows(origin[o].version, version)
      BY <1>2, <1>10 DEF TablesAreMapped, version
    <3>2. lineRows[o] \subseteq version.items \X BOOLEAN
      <4>1. CASE ~origin[o].version.placed
        BY <3>1, <4>1 DEF LinesOf
      <4>2. CASE origin[o].version.placed
        <5>1. origin[o].version.items \subseteq version.items
          BY <3>1, <4>2 DEF Grows
        <5>2. ASSUME NEW v \in origin[o].version.items
              PROVE  <<v, v \in origin[o].costed>> \in version.items \X BOOLEAN
          <6> DEFINE known == v \in origin[o].costed
          <6>1. known \in BOOLEAN /\ v \in version.items
            BY <5>1
          <6>. HIDE DEF known
          <6>2. <<v, known>> \in version.items \X BOOLEAN
            BY <6>1
          <6>. QED  BY <6>2 DEF known
        <5>. QED  BY <3>1, <4>2, <5>2 DEF LinesOf, MapLines
      <4>. QED  BY <4>1, <4>2
    <3>3. MapLines(version, costed) = LinesOf(version, costed)
      BY <1>1 DEF LinesOf
    <3>. QED  BY <1>6, <3>2, <3>3
  <2>3. origin'[o].version = export'.versions[o]
    BY <1>3, <1>4 DEF version
  <2>. QED  BY <1>2, <1>3, <1>4, <1>6, <1>10, <2>1, <2>2, <2>3 DEF TablesAreMapped, version
<1>. QED  BY <1>7, <1>8, <1>9, <1>10 DEF TablesAreMapped

LEMMA DashboardStep == DashboardInv /\ [DashboardNext]_dashboardVars => DashboardInv'
<1> SUFFICES ASSUME DashboardInv, [DashboardNext]_dashboardVars
             PROVE  DashboardInv'
  OBVIOUS
<1>1. DashboardTypes /\ TablesAreMapped /\ PageIsRead /\ DashboardIsTheShops
  BY DEF DashboardInv
<1>2. ASSUME page' = page, ~shrunk' => ~shrunk
      PROVE  DashboardIsTheShops'
  BY <1>1, <1>2 DEF DashboardIsTheShops
<1>3. ASSUME NEW o \in ShopOrders, PlaceOrder(o) \/ ChangeOrder(o)
      PROVE  DashboardInv'
  <2>1. UNCHANGED <<unitCosts, tableVars, assumptions, export, page>> /\ edits' = edits + 1
    BY <1>3 DEF PlaceOrder, ChangeOrder, Edit
  <2>2. /\ shop' \in [ShopOrders -> OrderVersions] /\ shrunk' \in BOOLEAN
        /\ \A p \in ShopOrders : p # o => shop'[p] = shop[p]
        /\ ~shrunk' => ~shrunk /\ (Grows(shop[o], shop[o]) => Grows(shop[o], shop'[o]) /\ Grows(shop'[o], shop'[o]))
    BY <1>1, <1>3, ShopMoves
  <2>3. DashboardTypes'
    BY <1>1, <2>1, <2>2 DEF DashboardTypes, tableVars
  <2>4. TablesAreMapped'
    <3>1. ASSUME ~shrunk', NEW p \in ShopOrders
          PROVE  /\ Grows(shop'[p], shop'[p])
                 /\ Grows(export.versions[p], shop'[p])
                 /\ Grows(origin[p].version, export.versions[p])
                 /\ lineRows[p] = LinesOf(origin[p].version, origin[p].costed)
      <4>1. /\ Grows(shop[p], shop[p]) /\ Grows(export.versions[p], shop[p])
            /\ Grows(origin[p].version, export.versions[p])
            /\ lineRows[p] = LinesOf(origin[p].version, origin[p].costed)
        BY <1>1, <2>2, <3>1 DEF TablesAreMapped
      <4>2. Grows(shop[p], shop'[p]) /\ Grows(shop'[p], shop'[p])
        BY <2>2, <3>1, <4>1
      <4>. QED  BY <4>1, <4>2, GrowsOn
    <3>2. export' = export /\ origin' = origin /\ lineRows' = lineRows /\ orderRows' = orderRows
      BY <2>1 DEF tableVars
    <3>. QED  BY <1>1, <3>1, <3>2 DEF TablesAreMapped
  <2>5. PageIsRead'
    BY <1>1, <2>1 DEF PageIsRead, tableVars
  <2>. QED  BY <1>2, <2>1, <2>2, <2>3, <2>4, <2>5 DEF DashboardInv
<1>4. ASSUME NEW o \in ShopOrders, UpsertOrder(o)
      PROVE  DashboardInv'
  <2>1. /\ page' = IF page.step \in {"lines", "assumptions"} THEN [page EXCEPT !.disturbed = TRUE] ELSE page
        /\ shrunk' = shrunk
    BY <1>4 DEF UpsertOrder, shopVars
  <2>2. page.step \in {"lines", "assumptions"} => page'.step = page.step /\ page'.disturbed
    BY <1>1, <2>1 DEF DashboardTypes
  <2>3. PageIsRead'
    BY <2>1, <2>2 DEF PageIsRead
  <2>4. DashboardIsTheShops'
    <3>1. CASE page.step \in {"lines", "assumptions"}
      BY <2>2, <3>1 DEF DashboardIsTheShops
    <3>2. CASE page.step \notin {"lines", "assumptions"}
      BY <1>2, <2>1, <3>2
    <3>. QED  BY <3>1, <3>2
  <2>. QED  BY <1>1, <1>4, <2>3, <2>4, UpsertMoves DEF DashboardInv
<1>5. ASSUME NEW v \in Variants, CostVariant(v)
      PROVE  DashboardInv'
  <2>1. UNCHANGED <<shop, shrunk, tableVars, assumptions, export, page>> /\ unitCosts' = unitCosts \cup {v}
    BY <1>5 DEF CostVariant
  <2>2. DashboardTypes' /\ TablesAreMapped' /\ PageIsRead'
    BY <1>1, <2>1 DEF DashboardTypes, TablesAreMapped, PageIsRead, tableVars
  <2>. QED  BY <1>2, <2>1, <2>2 DEF DashboardInv
<1>6. CASE SaveAssumptions \/ UNCHANGED dashboardVars
  <2>1. UNCHANGED <<shopVars, tableVars, export, page>>
    BY <1>6 DEF SaveAssumptions, dashboardVars
  <2>2. assumptions' \subseteq ValidFrom \X (Fees \cup {Unknown})
    BY <1>1, <1>6 DEF DashboardTypes, SaveAssumptions, dashboardVars
  <2>3. DashboardTypes' /\ TablesAreMapped' /\ PageIsRead'
    BY <1>1, <2>1, <2>2 DEF DashboardTypes, TablesAreMapped, PageIsRead, tableVars, shopVars
  <2>. QED  BY <1>2, <2>1, <2>3 DEF DashboardInv, shopVars
<1>7. CASE ExportOrders
  <2>1. /\ export' = [orders |-> {o \in ShopOrders : shop[o].placed}, versions |-> shop, costed |-> unitCosts]
        /\ UNCHANGED <<shopVars, tableVars, assumptions, page>>
    BY <1>7 DEF ExportOrders
  <2>2. DashboardTypes'
    BY <1>1, <2>1 DEF DashboardTypes, shopVars, tableVars
  <2>3. TablesAreMapped'
    <3>1. \A o \in export'.orders : export'.versions[o].placed
      BY <2>1
    <3>2. ASSUME ~shrunk', NEW o \in ShopOrders
          PROVE  /\ Grows(shop[o], shop[o]) /\ Grows(origin[o].version, shop[o])
                 /\ lineRows[o] = LinesOf(origin[o].version, origin[o].costed)
      <4>1. /\ Grows(shop[o], shop[o]) /\ Grows(export.versions[o], shop[o])
            /\ Grows(origin[o].version, export.versions[o])
            /\ lineRows[o] = LinesOf(origin[o].version, origin[o].costed)
        BY <1>1, <2>1, <3>2 DEF TablesAreMapped, shopVars
      <4>. QED  BY <4>1, GrowsOn
    <3>3. export'.versions = shop /\ shop' = shop /\ shrunk' = shrunk
          /\ origin' = origin /\ lineRows' = lineRows /\ orderRows' = orderRows
      BY <2>1 DEF shopVars, tableVars
    <3>. QED  BY <1>1, <3>1, <3>2, <3>3 DEF TablesAreMapped
  <2>4. PageIsRead'
    BY <1>1, <2>1 DEF PageIsRead, tableVars
  <2>. QED  BY <1>2, <2>1, <2>2, <2>3, <2>4 DEF DashboardInv, shopVars
<1>8. CASE ReadOrders \/ ReadLines \/ ShowCompany \/ EndRequest
  <2>1. UNCHANGED <<shopVars, tableVars, assumptions, export>>
    BY <1>8 DEF ReadOrders, ReadLines, ShowCompany, EndRequest
  <2>2. TablesAreMapped'
    BY <1>1, <2>1 DEF TablesAreMapped, shopVars, tableVars
  <2>3. SUFFICES ASSUME TRUE
                 PROVE  DashboardTypes' /\ PageIsRead' /\ DashboardIsTheShops'
    BY <2>2 DEF DashboardInv
  <2>4. CASE ReadOrders
    <3>1. page' = [step |-> "lines", orders |-> orderRows, disturbed |-> FALSE]
      BY <2>4 DEF ReadOrders
    <3>. QED  BY <1>1, <2>1, <3>1 DEF DashboardTypes, PageIsRead, DashboardIsTheShops, shopVars, tableVars
  <2>5. CASE ReadLines
    <3>1. /\ page.step = "lines"
          /\ page' = [step |-> "assumptions", orders |-> page.orders, disturbed |-> page.disturbed, lines |-> lineRows]
      BY <2>5 DEF ReadLines
    <3>. QED  BY <1>1, <2>1, <3>1 DEF DashboardTypes, PageIsRead, DashboardIsTheShops, shopVars, tableVars
  <2>6. CASE EndRequest
    <3>1. page' = NoRequest
      BY <2>6 DEF EndRequest
    <3>. QED  BY <1>1, <2>1, <3>1 DEF DashboardTypes, PageIsRead, DashboardIsTheShops, shopVars, tableVars, NoRequest
  <2>7. CASE ShowCompany
    <3>1. page.step = "assumptions"
      BY <2>7 DEF ShowCompany
    <3>1a. PICK today \in Todays : \E fee \in AssumedFees(today) : page' = PageOf(today, fee)
      BY <2>7 DEF ShowCompany, PageOf
    <3>2. PICK fee \in AssumedFees(today) : page' = PageOf(today, fee)
      BY <3>1a
    <3>3. page'.step \in {"error", "company"}
      BY <3>2 DEF PageOf
    <3>4. DashboardTypes' /\ PageIsRead'
      BY <1>1, <2>1, <3>3 DEF DashboardTypes, PageIsRead, shopVars, tableVars
    <3>5. ASSUME page'.step = "company", ~page'.disturbed, ~shrunk'
          PROVE  TellsTheShop(page')
      <4>1. /\ page'.disturbed = page.disturbed /\ page'.versions = origin /\ page'.today = today
            /\ page'.company = CompanyState(page, fee) /\ page'.diagnostics = Diagnostics(page, today)
            /\ page'.card = FirstDecisionCard(page, today) /\ page'.fees = AssumedFees(today)
        BY <3>2, <3>5 DEF PageOf
      <4>2. page.orders = orderRows /\ page.lines = lineRows /\ ~shrunk
        BY <1>1, <2>1, <3>1, <3>5, <4>1 DEF PageIsRead, shopVars
      <4>. QED  BY <1>1, <4>1, <4>2, PageTells
    <3>6. TellsTheShop(page)' <=> TellsTheShop(page')
      BY DEF TellsTheShop, Counted, Known, Net, Profit
    <3>. QED  BY <3>4, <3>5, <3>6 DEF DashboardIsTheShops
  <2>. QED  BY <1>8, <2>4, <2>5, <2>6, <2>7
<1>. QED  BY <1>3, <1>4, <1>5, <1>6, <1>7, <1>8 DEF DashboardNext

\* What the tables hold and a request has read, in every reachable state.
THEOREM DashboardInvariant == DashboardSpec => []DashboardInv
<1>1. DashboardInit => DashboardInv
  <2> SUFFICES ASSUME DashboardInit
               PROVE  DashboardInv
    OBVIOUS
  <2>1. NotPlaced \in OrderVersions /\ NotPlaced.placed = FALSE
    BY DEF OrderVersions, NotPlaced
  <2>2. /\ shop = [o \in ShopOrders |-> NotPlaced] /\ unitCosts = {} /\ shrunk = FALSE
        /\ export = [orders |-> {}, versions |-> shop, costed |-> {}]
        /\ orderRows = [o \in ShopOrders |-> NoOrder] /\ lineRows = [o \in ShopOrders |-> {}]
        /\ page.step = "none" /\ assumptions = {}
        /\ origin = [o \in ShopOrders |-> [version |-> NotPlaced, costed |-> {}]]
    BY DEF DashboardInit, NoRequest
  <2>3. DashboardTypes
    BY <2>1, <2>2 DEF DashboardTypes
  <2>4. TablesAreMapped
    BY <2>1, <2>2 DEF TablesAreMapped, RowOf, LinesOf, Grows
  <2>. QED  BY <2>2, <2>3, <2>4 DEF DashboardInv, PageIsRead, DashboardIsTheShops
<1>. QED  BY <1>1, DashboardStep, PTL DEF DashboardSpec

\* The contribution profit, the two windows and the advice on the dashboard are those of the orders in
\* the versions that were upserted last, for every shop, cost, day and bound, unless an order lost a
\* line or an upsert came between the reads of the request.
THEOREM DashboardSafe == DashboardSpec => []DashboardIsTheShops
<1>1. DashboardInv => DashboardIsTheShops
  BY DEF DashboardInv
<1>. QED  BY <1>1, DashboardInvariant, PTL

\* The remaining variables, and the claim a page makes.
DashboardRest ==
    /\ assumptions \subseteq ValidFrom \X (Fees \cup {Unknown})
    /\ \A o \in ShopOrders : lineRows[o] \subseteq Variants \X BOOLEAN
    /\ page.step = "company" => page.company.authority \in Authorities
    /\ edits \in 0..MaxEdits

LEMMA PlacedVersion ==
    ASSUME NEW version \in OrderVersions, version.placed
    PROVE  version \in [placed : {TRUE}, items : SUBSET Variants, refunds : {0, Refund},
                        cancelled : BOOLEAN, currency : {"home", "foreign"}]
<1>1. NotPlaced.placed = FALSE
  BY DEF NotPlaced
<1>2. version # NotPlaced
  BY <1>1
<1>. QED  BY <1>2 DEF OrderVersions

LEMMA DashboardRestStep ==
    ASSUME DashboardTypes, TablesAreMapped, DashboardRest, [DashboardNext]_dashboardVars
    PROVE  DashboardRest'
<1> USE DEF DashboardRest
<1>1. ASSUME Edit
      PROVE  edits' \in 0..MaxEdits
  BY <1>1, DashboardAssumption DEF Edit
<1>2. ASSUME NEW o \in ShopOrders, PlaceOrder(o) \/ ChangeOrder(o)
      PROVE  DashboardRest'
  BY <1>1, <1>2 DEF PlaceOrder, ChangeOrder, tableVars
<1>3. ASSUME NEW v \in Variants, CostVariant(v)
      PROVE  DashboardRest'
  BY <1>1, <1>3 DEF CostVariant, tableVars
<1>4. ASSUME NEW o \in ShopOrders, UpsertOrder(o)
      PROVE  DashboardRest'
  <2> DEFINE version == export.versions[o]
             replaced == version.items \X BOOLEAN
  <2>1. version \in OrderVersions /\ version.placed
    BY <1>4 DEF UpsertOrder, DashboardTypes, TablesAreMapped
  <2>. HIDE DEF version, replaced
  <2>2. version.items \subseteq Variants
    BY <2>1, PlacedVersion
  <2>3. MapLines(version, export.costed) \subseteq Variants \X BOOLEAN
    <3> SUFFICES ASSUME NEW v \in version.items
                 PROVE  <<v, v \in export.costed>> \in Variants \X BOOLEAN
      BY DEF MapLines
    <3>1. (v \in export.costed) \in BOOLEAN
      OBVIOUS
    <3>. QED  BY <2>2, <3>1
  <2>4. lineRows' = [lineRows EXCEPT ![o] = (@ \ replaced) \cup MapLines(version, export.costed)]
    BY <1>4 DEF UpsertOrder, version, replaced
  <2>5. \A p \in ShopOrders : lineRows'[p] \subseteq Variants \X BOOLEAN
    BY <2>3, <2>4 DEF DashboardTypes
  <2>6. page' = IF page.step \in {"lines", "assumptions"} THEN [page EXCEPT !.disturbed = TRUE] ELSE page
    BY <1>4 DEF UpsertOrder
  <2>7. page'.step = "company" => page' = page
    BY <2>6 DEF DashboardTypes
  <2>. QED  BY <1>4, <2>5, <2>7 DEF UpsertOrder, shopVars
<1>5. CASE SaveAssumptions
  BY <1>5 DEF SaveAssumptions, shopVars, tableVars
<1>6. CASE ExportOrders \/ UNCHANGED dashboardVars
  BY <1>6 DEF ExportOrders, dashboardVars, shopVars, tableVars
<1>7. CASE ReadOrders \/ ReadLines \/ EndRequest
  BY <1>7 DEF ReadOrders, ReadLines, EndRequest, NoRequest, shopVars, tableVars
<1>8. CASE ShowCompany
  <2>0. PICK today \in Todays : \E fee \in AssumedFees(today) : page' = PageOf(today, fee)
    BY <1>8 DEF ShowCompany, PageOf
  <2>1. PICK fee \in AssumedFees(today) : page' = PageOf(today, fee)
    BY <2>0
  <2>2. CompanyState(page, fee).authority \in Authorities
    BY DEF CompanyState, Authorities
  <2>3. page'.step = "company" => page'.company.authority \in Authorities
    BY <2>1, <2>2 DEF PageOf
  <2>. QED  BY <1>8, <2>3 DEF ShowCompany, shopVars, tableVars
<1>. QED  BY <1>2, <1>3, <1>4, <1>5, <1>6, <1>7, <1>8 DEF DashboardNext

LEMMA MappedRows ==
    ASSUME NEW version \in OrderVersions
    PROVE  RowOf(version) \in OrderRows
<1>1. CASE version.placed
  <2>1. version \in [placed : {TRUE}, items : SUBSET Variants, refunds : {0, Refund},
                     cancelled : BOOLEAN, currency : {"home", "foreign"}]
    BY <1>1, PlacedVersion
  <2>2. Cardinality(version.items) \in Nat
    BY <2>1, DashboardAssumption, FS_Subset, FS_CardinalityType
  <2>3. NetSales(version) \in Nat
    BY <2>2, DashboardAssumption DEF NetSales
  <2>. QED  BY <1>1, <2>1, <2>3 DEF RowOf, MapOrder, OrderRows
<1>2. CASE ~version.placed
  BY <1>2 DEF RowOf, OrderRows
<1>. QED  BY <1>1, <1>2

\* The tables and the page have their types, for every shop and bound.
THEOREM DashboardTyped == DashboardSpec => []DashboardTypeOK
<1>1. DashboardInit => DashboardRest
  BY DashboardAssumption DEF DashboardInit, DashboardRest, NoRequest
<1>2. DashboardInv /\ DashboardRest /\ [DashboardNext]_dashboardVars => DashboardRest'
  BY DashboardRestStep DEF DashboardInv
<1>3. DashboardInv /\ DashboardRest => DashboardTypeOK
  <2> SUFFICES ASSUME DashboardTypes, TablesAreMapped, DashboardRest
               PROVE  DashboardTypeOK
    BY DEF DashboardInv
  <2>1. \A o \in ShopOrders : shop[o] \in OrderVersions /\ orderRows[o] \in OrderRows
    BY MappedRows DEF DashboardTypes, TablesAreMapped
  <2>2. export.orders \subseteq ShopOrders
    BY DEF DashboardTypes
  <2>. QED  BY <2>1, <2>2 DEF DashboardTypes, DashboardRest, DashboardTypeOK
<1>. QED  BY <1>1, <1>2, <1>3, DashboardInvariant, PTL DEF DashboardSpec

===============================================================================
