-------------------------- MODULE MerchantExperiment ---------------------------
(***************************************************************************)
(* The merchant validation loop: events, customer twins, an opportunity,   *)
(* the experiment on its cohort, and the learning records the next         *)
(* decision card is made from.                                             *)
(*                                                                         *)
(* The service keeps everything in memory and FastAPI serves its requests  *)
(* from a pool of threads without a lock.  A request about an event or     *)
(* the experiment has one action for every read of the shared state and    *)
(* one for every write, and other requests may come between them; building *)
(* the twins and finding the opportunity are one each.  The id of the      *)
(* experiment is derived from the merchant, so there is one experiment;    *)
(* its seed is fixed, so ArmOf gives the arm of a customer in every        *)
(* assignment and the simulated outcomes depend on the assigned cohort     *)
(* only.  An effect is the sign of its interval: -1 below zero, 0 around   *)
(* it, 1 above it.                                                         *)
(***************************************************************************)
EXTENDS Integers, Sequences, FiniteSets

CONSTANTS
    Members,        \* customers of the merchant
    Lapsed,         \* those whose last purchase is 35 days old
    EventIds,       \* external event ids
    ActorOf,        \* customer of an event
    ArmOf,          \* arm the hash of a customer falls in
    EffectOf,       \* sign of the effect of an arm, by the assigned cohort
    BestOf,         \* arm with the largest effect, by the assigned cohort
    Threads,        \* threads of the pool
    IntentEvents,   \* recent events that make a high intent (2 of 5)
    MinCohort,      \* customers an opportunity needs (10)
    MinPerArm,      \* customers an arm needs for its variance (2)
    HighSupport,    \* samples high support needs (100)
    MaxEvents,      \* bound on the copies of an event
    MaxJournal      \* bound on the merchant's ledger

Treatments == {"free_shipping", "discount"}
Arms == Treatments \cup {"no_action"}
Signs == {-1, 0, 1}
Cohorts == SUBSET Members
NoCohort == {}    \* MinCohort is positive

ASSUME MerchantAssumption ==
    /\ IsFiniteSet(Members) /\ Lapsed \subseteq Members
    /\ ActorOf \in [EventIds -> Members]
    /\ ArmOf \in [Members -> Arms]
    /\ EffectOf \in [Cohorts -> [Treatments -> Signs]]
    /\ BestOf \in [Cohorts -> Treatments]
    /\ IntentEvents \in Nat /\ MinCohort \in Nat \ {0} /\ MinPerArm \in Nat
    /\ HighSupport \in Nat /\ MaxEvents \in Nat \ {0} /\ MaxJournal \in Nat

VARIABLES
    events,         \* copies of every event in the list
    twins,          \* customers with a twin that is a cooling high-intent one
    opportunity,    \* cohort of the opportunity
    spec,           \* the experiment
    assigned,       \* cohort with assignments
    outcomes,       \* cohort with outcomes
    journal,        \* the merchant's ledger
    learned,        \* learning records
    request,        \* what every thread has read and not written yet
    overtaken       \* history: cohorts read for assignment while the request that froze them
                    \* had not written them to the ledger

merchantVars == <<events, twins, opportunity, spec, assigned, outcomes,
                  journal, learned, request, overtaken>>

Spec0 == [cohort |-> NoCohort, frozen |-> FALSE]
Specs == [cohort : Cohorts, frozen : BOOLEAN]
Free == [op |-> "free"]
RequestSteps == {"create", "freeze", "record", "assign", "reveal", "compare", "result", "learn"}
Requests ==
    {Free} \cup [op : {"ingest"}, event : EventIds]
           \cup [op : RequestSteps, cohort : Cohorts]
\* A result names the cohort whose outcomes were compared and the best arm.
Entries == [type : {"PRE_OUTCOME_EXPERIMENT"}, cohort : Cohorts]
    \cup [type : {"EXPERIMENT_RESULT"}, cohort : Cohorts, best : Treatments]
Records == [action : Treatments, sign : Signs, sample : Nat, stale : BOOLEAN]

MerchantTypeOK ==
    /\ events \in [EventIds -> 0..MaxEvents]
    /\ twins \subseteq Members
    /\ opportunity \in Cohorts
    /\ spec \in Specs
    /\ assigned \in Cohorts
    /\ outcomes \in Cohorts
    /\ journal \in Seq(Entries)
    /\ learned \in Seq(Records)
    /\ request \in [Threads -> Requests]
    /\ overtaken \subseteq Cohorts

MerchantInit ==
    /\ events = [e \in EventIds |-> 0]
    /\ twins = {}
    /\ opportunity = NoCohort
    /\ spec = Spec0
    /\ assigned = NoCohort
    /\ outcomes = NoCohort
    /\ journal = <<>>
    /\ learned = <<>>
    /\ request = [t \in Threads |-> Free]
    /\ overtaken = {}

-------------------------------------------------------------------------------
(* Events, twins and the opportunity.                                      *)

Begin(t, r) == request[t] = Free /\ request' = [request EXCEPT ![t] = r]
Proceed(t, op) == request' = [request EXCEPT ![t] = [op |-> op, cohort |-> request[t].cohort]]
End(t) == request' = [request EXCEPT ![t] = Free]

\* ingest_event found no event of this id.
CheckEvent(t, e) ==
    /\ events[e] = 0
    /\ Begin(t, [op |-> "ingest", event |-> e])
    /\ UNCHANGED <<events, twins, opportunity, spec, assigned, outcomes, journal, learned, overtaken>>

AppendEvent(t) ==
    /\ request[t].op = "ingest"
    /\ LET e == request[t].event IN
       /\ events[e] < MaxEvents
       /\ events' = [events EXCEPT ![e] = @ + 1]
    /\ End(t)
    /\ UNCHANGED <<twins, opportunity, spec, assigned, outcomes, journal, learned, overtaken>>

EventsOf(c) == {copy \in EventIds \X (1..MaxEvents) : ActorOf[copy[1]] = c /\ copy[2] <= events[copy[1]]}

\* The twins are stored before build_twins asks data_health and raises, so they do not depend
\* on it.
BuildTwins ==
    /\ twins' = {c \in Lapsed : Cardinality(EventsOf(c)) >= IntentEvents}
    /\ UNCHANGED <<events, opportunity, spec, assigned, outcomes, journal, learned, request, overtaken>>

\* Too small a cohort leaves an opportunity found earlier in place.
DiscoverOpportunities ==
    /\ Cardinality(twins) >= MinCohort
    /\ opportunity' = twins
    /\ UNCHANGED <<events, twins, spec, assigned, outcomes, journal, learned, request, overtaken>>

-------------------------------------------------------------------------------
(* The experiment.                                                         *)

ReadToCreate(t) ==
    /\ opportunity # NoCohort
    /\ Begin(t, [op |-> "create", cohort |-> opportunity])
    /\ UNCHANGED <<events, twins, opportunity, spec, assigned, outcomes, journal, learned, overtaken>>

\* The id is the same every time: an experiment of an earlier call is overwritten.
CreateExperiment(t) ==
    /\ request[t].op = "create"
    /\ spec' = [cohort |-> request[t].cohort, frozen |-> FALSE]
    /\ End(t)
    /\ UNCHANGED <<events, twins, opportunity, assigned, outcomes, journal, learned, overtaken>>

ReadToFreeze(t) ==
    /\ spec.cohort # NoCohort /\ ~spec.frozen
    /\ Begin(t, [op |-> "freeze", cohort |-> spec.cohort])
    /\ UNCHANGED <<events, twins, opportunity, spec, assigned, outcomes, journal, learned, overtaken>>

\* The experiment is there as frozen for every other request before the ledger has its entry.
PublishFrozen(t) ==
    /\ request[t].op = "freeze"
    /\ spec' = [cohort |-> request[t].cohort, frozen |-> TRUE]
    /\ Proceed(t, "record")
    /\ UNCHANGED <<events, twins, opportunity, assigned, outcomes, journal, learned, overtaken>>

RecordFrozen(t) ==
    /\ request[t].op = "record"
    /\ Len(journal) < MaxJournal
    /\ journal' = Append(journal, [type |-> "PRE_OUTCOME_EXPERIMENT", cohort |-> request[t].cohort])
    /\ End(t)
    /\ UNCHANGED <<events, twins, opportunity, spec, assigned, outcomes, learned, overtaken>>

Preregistered(cohort, i) ==
    i \in DOMAIN journal /\ journal[i] = [type |-> "PRE_OUTCOME_EXPERIMENT", cohort |-> cohort]

InLedger(cohort) == \E i \in DOMAIN journal : Preregistered(cohort, i)

\* Some request has published the cohort as frozen and not written it to the ledger yet.
Pending(cohort) == \E t \in Threads : request[t] = [op |-> "record", cohort |-> cohort]

\* Mutant: an experiment that is not frozen is assigned.
AssignUnfrozen(t) ==
    /\ assigned = NoCohort
    /\ spec.cohort # NoCohort
    /\ Begin(t, [op |-> "assign", cohort |-> spec.cohort])
    /\ UNCHANGED <<events, twins, opportunity, spec, assigned, outcomes, journal, learned, overtaken>>

\* Existing assignments are returned whatever the experiment is by now.
ReadToAssign(t) ==
    /\ assigned = NoCohort
    /\ spec.cohort # NoCohort /\ spec.frozen
    /\ Begin(t, [op |-> "assign", cohort |-> spec.cohort])
    /\ overtaken' = IF Pending(spec.cohort) /\ ~InLedger(spec.cohort)
                    THEN overtaken \cup {spec.cohort}
                    ELSE overtaken
    /\ UNCHANGED <<events, twins, opportunity, spec, assigned, outcomes, journal, learned>>

Assign(t) ==
    /\ request[t].op = "assign"
    /\ assigned' = request[t].cohort
    /\ End(t)
    /\ UNCHANGED <<events, twins, opportunity, spec, outcomes, journal, learned, overtaken>>

\* The simulated outcomes, and the analysis, start from the assignments as they are.
ReadAssigned(t, op) ==
    /\ assigned # NoCohort
    /\ Begin(t, [op |-> op, cohort |-> assigned])
    /\ UNCHANGED <<events, twins, opportunity, spec, assigned, outcomes, journal, learned, overtaken>>

RevealDemoOutcomes(t) ==
    /\ request[t].op = "reveal"
    /\ outcomes' = request[t].cohort
    /\ End(t)
    /\ UNCHANGED <<events, twins, opportunity, spec, assigned, journal, learned, overtaken>>

InArm(cohort, arm) == Cardinality({c \in cohort : ArmOf[c] = arm})

\* analyze raises when a customer has no outcome or an arm too few for a variance.
Analyzable(cohort) ==
    /\ outcomes # NoCohort
    /\ cohort \subseteq outcomes
    /\ \A arm \in Arms : InArm(cohort, arm) >= MinPerArm

CompareArms(t) ==
    /\ request[t].op = "compare"
    /\ IF Analyzable(request[t].cohort) THEN Proceed(t, "result") ELSE End(t)
    /\ UNCHANGED <<events, twins, opportunity, spec, assigned, outcomes, journal, learned, overtaken>>

\* Every call appends a result and a learning record, frozen or not, analyzed before or not.
AppendResult(t) ==
    /\ request[t].op = "result"
    /\ Len(journal) < MaxJournal
    /\ LET cohort == request[t].cohort IN
       journal' = Append(journal, [type |-> "EXPERIMENT_RESULT", cohort |-> cohort, best |-> BestOf[cohort]])
    /\ Proceed(t, "learn")
    /\ UNCHANGED <<events, twins, opportunity, spec, assigned, outcomes, learned, overtaken>>

Learn(t) ==
    /\ request[t].op = "learn"
    /\ LET cohort == request[t].cohort
           best == BestOf[cohort]
       IN  learned' = Append(learned,
               [action |-> best, sign |-> EffectOf[cohort][best], stale |-> FALSE,
                sample |-> InArm(cohort, "no_action") + InArm(cohort, best)])
    /\ End(t)
    /\ UNCHANGED <<events, twins, opportunity, spec, assigned, outcomes, journal, overtaken>>

\* Four months pass.
RecordsAge ==
    /\ learned # <<>>
    /\ learned' = [i \in DOMAIN learned |-> [learned[i] EXCEPT !.stale = TRUE]]
    /\ UNCHANGED <<events, twins, opportunity, spec, assigned, outcomes, journal, request, overtaken>>

MerchantNext ==
    \/ \E t \in Threads : \/ \E e \in EventIds : CheckEvent(t, e)
                          \/ AppendEvent(t)
                          \/ ReadToCreate(t) \/ CreateExperiment(t)
                          \/ ReadToFreeze(t) \/ PublishFrozen(t) \/ RecordFrozen(t)
                          \/ ReadToAssign(t) \/ Assign(t)
                          \/ \E op \in {"reveal", "compare"} : ReadAssigned(t, op)
                          \/ RevealDemoOutcomes(t)
                          \/ CompareArms(t) \/ AppendResult(t) \/ Learn(t)
    \/ BuildTwins \/ DiscoverOpportunities
    \/ RecordsAge

MerchantSpec == MerchantInit /\ [][MerchantNext]_merchantVars

-------------------------------------------------------------------------------
(* HistoricalEvidenceMatcher.match and the decision card.                  *)

\* Mutant: the records of every action match.
ExactAnyAction(action) == {i \in DOMAIN learned : learned[i].sample >= 0}

Exact(action) == {i \in DOMAIN learned : learned[i].action = action}

SampleOf(records) ==
    LET total[i \in 0..Len(learned)] ==
            IF i = 0 THEN 0
            ELSE total[i - 1] + (IF i \in records THEN learned[i].sample ELSE 0)
    IN  total[Len(learned)]

\* The signs the inverse-variance combination of the records can have.
CombinedSigns(records) ==
    LET signs == {learned[i].sign : i \in records} IN
    IF Cardinality(records) = 1 \/ \E s \in {-1, 1} : signs = {s} THEN signs ELSE Signs

Matches(action) ==
    LET exact == Exact(action) IN
    IF exact = {} THEN {"TEST"}
    ELSE IF \A i \in exact : learned[i].stale THEN {"VERIFY"}
    ELSE IF SampleOf(exact) < HighSupport THEN {"TEST"}
    ELSE {CASE s = 1 -> "ACT" [] s = -1 -> "AVOID" [] OTHER -> "TEST" : s \in CombinedSigns(exact)}

\* What the decision card can say of an action.
Recommendations(action) ==
    {CASE m = "ACT" -> "DO_THIS" [] m = "AVOID" -> "AVOID" [] OTHER -> "TEST_THIS" :
        m \in Matches(action)}

-------------------------------------------------------------------------------
(* Properties.                                                             *)

\* The cohort that was assigned had been published as frozen, although another request may
\* overwrite the experiment between the check and the assignment; and it is in the ledger, unless
\* it was read for assignment between the two writes of the request that froze it, which then has
\* yet to write it.
\* And the card tells a merchant to do something only when the ledger holds a result in which that
\* action came out best, on a cohort the ledger had recorded before the result; after an overlap
\* of this kind the record may follow the result, but one was made or is on its way.
AdvicePreregistered ==
    /\ assigned # NoCohort => InLedger(assigned) \/ (Pending(assigned) /\ assigned \in overtaken)
    /\ \A action \in Arms : "DO_THIS" \in Recommendations(action) =>
           \E j \in DOMAIN journal :
               /\ journal[j].type = "EXPERIMENT_RESULT"
               /\ journal[j].best = action
               /\ \/ \E i \in 1..(j - 1) : Preregistered(journal[j].cohort, i)
                  \/ /\ journal[j].cohort \in overtaken
                     /\ InLedger(journal[j].cohort) \/ Pending(journal[j].cohort)

===============================================================================
