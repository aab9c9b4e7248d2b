---------------------------- MODULE CommercialTwin -----------------------------
(***************************************************************************)
(* Commercial twins: the factory that builds one from a retailer's         *)
(* history, its simulations of discounts, and what becomes of the observed *)
(* outcomes.  A twin keeps its simulations and its calibration in memory;  *)
(* simulations and their evaluations are also rows of the prediction       *)
(* ledger, and each evaluation a row of the performance registry, when it  *)
(* was given them.  One process calls the twins one call at a time; it may *)
(* be killed at any step, and every insert may fail.                       *)
(*                                                                         *)
(* What the estimator and the support gate (DoseDecision models the gate)  *)
(* return for a history and an action is data, the constant Forecasts.     *)
(***************************************************************************)
EXTENDS Integers, Sequences, FiniteSets

CONSTANTS
    TwinHistories,      \* canonical histories, records
    FeatureLists,       \* values of behavior_features a caller gives
    Unspecified,
    Worlds,             \* world states, each the set of its signals' names
    TwinActions,        \* actions asked for, with the type and the class of each
    Forecasts,          \* for a history and an action, what the statistics return
    Reported,           \* outcomes the caller may report, each a function of outcome names
    MaxTwins,           \* twins built
    MaxSimulations,     \* simulations
    MaxUpdates          \* updates of one twin

Numbers == 1..MaxTwins
OutcomeNames == {"units", "revenue", "contribution_profit"}
SupportLevels == {"SUPPORTED", "LIMITED", "UNSUPPORTED"}

Valued(v) == \E N \in SUBSET OutcomeNames : v \in [N -> Int]

ASSUME TwinAssumption ==
    /\ MaxTwins \in Nat /\ MaxSimulations \in Nat /\ MaxUpdates \in Nat
    /\ Forecasts \in [TwinHistories -> [TwinActions ->
          [rows : Nat, level : SupportLevels, costed : BOOLEAN, means : [OutcomeNames -> Int]]]]
    /\ \A actual \in Reported : Valued(actual)

VARIABLES
    commercialTwins,    \* the twins in memory, by the order they were built in
    built,              \* how many were built
    made,               \* how many simulations were made
    results,            \* _results of all twins in memory, but for those whose insert raised:
                        \* nobody has their ids
    calibration,        \* _calibration of each twin
    simulated,          \* ledger: simulation_predictions
    evaluated,          \* ledger: simulation_evaluations
    performance,        \* registry: decision_performance_v2, with the twin and the simulation
    call                \* the call in progress

twinVars ==
    <<commercialTwins, built, made, results, calibration, simulated, evaluated, performance, call>>

-------------------------------------------------------------------------------
(* The factory.                                                            *)

RequiredColumns ==
    {"date", "store_id", "category_id", "sku_id", "regular_price", "price", "discount",
     "observed_sales", "lagged_demand"}
OracleColumns == {"baseline_demand", "beta", "gamma", "hidden_u", "oracle_truth"}
DefaultFeatures ==
    {"store_id", "category_id", "sku_id", "regular_price", "inventory", "near_stockout", "weekday",
     "holiday", "marketing", "competitor_signal", "product_age", "lagged_demand", "unit_cost"}
MinimalFeatures ==
    {"store_id", "category_id", "sku_id", "regular_price", "weekday", "product_age",
     "lagged_demand"}

ValidData(h) ==
    /\ RequiredColumns \subseteq h.columns
    /\ OracleColumns \cap h.columns = {}
    /\ h.rows > 0
    /\ h.low >= 0 /\ h.high <= 30

\* Every cohort, a category, has an observed sale to average.
CohortsDefined(h) == h.sold

\* fit of the behaviour model: the features it is trained on.
FitFeatures(h, features) ==
    IF features = Unspecified THEN (DefaultFeatures \cup MinimalFeatures) \cap h.columns
    ELSE (IF features = {} THEN DefaultFeatures ELSE features) \cap h.columns

StatusOf(ready, limited) ==
    IF ready THEN "READY" ELSE IF limited THEN "LIMITED" ELSE "NOT_READY"

ReadinessComponents(h, calibrations, signals) ==
    [data_volume |-> StatusOf(h.rows >= 500, h.rows >= 100),
     history_length |-> StatusOf(h.dates >= 90, h.dates >= 30),
     outcome_completeness |-> StatusOf(h.complete >= 98, h.complete >= 90),
     cost_quality |->
        IF "unit_cost" \in h.columns THEN StatusOf(h.costed >= 95, h.costed > 0) ELSE "NOT_READY",
     calibration_history |-> StatusOf(calibrations >= 10, calibrations > 0),
     world_context_coverage |-> StatusOf(signals >= 2, signals > 0),
     action_variation |-> StatusOf(h.doses >= 20, h.doses >= 5),
     treatment_support |-> StatusOf(h.doses >= 20 /\ h.high >= 20, h.doses >= 5),
     causal_identifiability |->
        StatusOf("randomized_assignment" \in h.columns /\ h.randomized,
                 "lagged_demand" \in h.columns)]

Hard == {"data_volume", "history_length", "action_variation", "treatment_support"}

\* assess_readiness, of the capability discount; the other two are never ready.
Readiness(h, calibrations, signals) ==
    LET components == ReadinessComponents(h, calibrations, signals) IN
    IF \E c \in Hard : components[c] = "NOT_READY" THEN "NOT_READY"
    ELSE IF \E c \in DOMAIN components : components[c] # "READY" THEN "LIMITED" ELSE "READY"

\* A product's last price must be positive; the calibration count is left at its default.
Buildable(h, features) ==
    ValidData(h) /\ h.priced /\ CohortsDefined(h) /\ FitFeatures(h, features) # {}

NewTwin(h, features, world, ledgered, registered) ==
    [number |-> built + 1, history |-> h, features |-> FitFeatures(h, features), world |-> world,
     ledgered |-> ledgered, registered |-> registered,
     readiness |-> Readiness(h, 0, Cardinality(world))]

-------------------------------------------------------------------------------
(* Predictions.                                                            *)

Handles(a) == a.type = "discount" /\ a.discount

\* _distribution: no outcome is predicted below zero.
Distribution(mean) == IF mean > 0 THEN mean ELSE 0

Disposition(level) ==
    CASE level = "UNSUPPORTED" -> "ABSTAIN" [] level = "LIMITED" -> "EXPERIMENT" [] OTHER -> "ACT"

\* The profit is predicted where a cost is known.
PredictOutcomes(t, a, id) ==
    LET forecast == Forecasts[t.history][a]
        names == IF forecast.costed THEN OutcomeNames ELSE OutcomeNames \ {"contribution_profit"}
    IN [means |-> [n \in names |-> Distribution(forecast.means[n])], level |-> forecast.level,
        disposition |-> Disposition(forecast.level), id |-> id, twin |-> t.number]

NoCall == [at |-> "rest"]
NoCallRuns == call.at = "rest"

TwinInit ==
    /\ commercialTwins = {}
    /\ built = 0 /\ made = 0
    /\ results = {}
    /\ calibration = [n \in Numbers |-> << >>]
    /\ simulated = {} /\ evaluated = {} /\ performance = {}
    /\ call = NoCall

-------------------------------------------------------------------------------
(* The calls.                                                              *)

AddTwin(t) ==
    /\ built < MaxTwins
    /\ built' = built + 1
    /\ commercialTwins' = commercialTwins \cup {t}
    /\ UNCHANGED <<made, results, calibration, simulated, evaluated, performance, call>>

BuildTwin(h, features, world, ledgered, registered) ==
    /\ NoCallRuns
    /\ Buildable(h, features)
    /\ AddTwin(NewTwin(h, features, world, ledgered, registered))

\* update_twin builds another twin: ledger and registry are handed on, the features are not, and
\* neither are the simulations and the calibration.  The old twin may still be used.
UpdateTwin(t, h, world) ==
    /\ NoCallRuns
    /\ Buildable(h, Unspecified)
    /\ AddTwin(NewTwin(h, Unspecified, world, t.ledgered, t.registered))

\* A caller gives a living twin a ledger and a registry.
Attach(t) ==
    /\ NoCallRuns
    /\ ~(t.ledgered /\ t.registered)
    /\ commercialTwins' =
          (commercialTwins \ {t}) \cup {[t EXCEPT !.ledgered = TRUE, !.registered = TRUE]}
    /\ UNCHANGED <<built, made, results, calibration, simulated, evaluated, performance, call>>

\* simulate, up to the insert into the ledger.
Simulate(t, a) ==
    /\ NoCallRuns
    /\ Handles(a)
    /\ Forecasts[t.history][a].rows > 0
    /\ made < MaxSimulations
    /\ made' = made + 1
    /\ LET result == PredictOutcomes(t, a, made + 1) IN
       IF t.ledgered
       THEN call' = [at |-> "record", result |-> result] /\ UNCHANGED results
       ELSE results' = results \cup {result} /\ UNCHANGED call
    /\ UNCHANGED <<commercialTwins, built, calibration, simulated, evaluated, performance>>

AppendSimulation ==
    /\ call.at = "record"
    /\ simulated' = simulated \cup {call.result}
    /\ results' = results \cup {call.result}
    /\ call' = NoCall
    /\ UNCHANGED <<commercialTwins, built, made, calibration, evaluated, performance>>

SharedErrors(predicted, actual) ==
    [n \in DOMAIN predicted \cap DOMAIN actual |-> actual[n] - predicted[n]]

\* update, up to the first insert: the record is in the twin's list before the ledger has
\* accepted it.
Update(t, result, actual) ==
    /\ NoCallRuns
    /\ result \in results /\ result.twin = t.number
    /\ Len(calibration[t.number]) < MaxUpdates
    /\ LET record == [id |-> result.id, predicted |-> result.means, actual |-> actual,
                      errors |-> SharedErrors(result.means, actual)]
           next == IF t.ledgered THEN "evaluate" ELSE IF t.registered THEN "register" ELSE "rest"
       IN /\ calibration' = [calibration EXCEPT ![t.number] = Append(@, record)]
          /\ call' = IF next = "rest" THEN NoCall
                     ELSE [at |-> next, twin |-> t, record |-> record, level |-> result.level]
    /\ UNCHANGED <<commercialTwins, built, made, results, simulated, evaluated, performance>>

\* Mutant: the ledger replaces the earlier evaluation of a simulation.
EvaluationReplaces(record) == \E s \in simulated : s.id = record.id

\* The ledger's keys: one evaluation of a simulation, and of a recorded one.
EvaluationAccepted(record) ==
    /\ \A e \in evaluated : e.id # record.id
    /\ \E s \in simulated : s.id = record.id

AppendSimulationEvaluation ==
    /\ call.at = "evaluate"
    /\ EvaluationAccepted(call.record)
    /\ evaluated' = evaluated \cup {call.record}
    /\ call' = IF call.twin.registered THEN [call EXCEPT !.at = "register"] ELSE NoCall
    /\ UNCHANGED <<commercialTwins, built, made, results, calibration, simulated, performance>>

\* A row of its own for every call; the ghost fields say of which simulation and twin it speaks.
AppendDecisionPerformance ==
    /\ call.at = "register"
    /\ performance' = performance \cup
          {[errors |-> call.record.errors, level |-> call.level,
            records |-> Len(calibration[call.twin.number]),
            id |-> call.record.id, twin |-> call.twin.number, ledgered |-> call.twin.ledgered]}
    /\ call' = NoCall
    /\ UNCHANGED <<commercialTwins, built, made, results, calibration, simulated, evaluated>>

\* The insert raises, for a key of the ledger or its file.  What is in memory stays.
InsertRaises ==
    /\ ~NoCallRuns
    /\ call' = NoCall
    /\ UNCHANGED <<commercialTwins, built, made, results, calibration, simulated, evaluated,
                   performance>>

KillProcess ==
    /\ commercialTwins # {}
    /\ commercialTwins' = {}
    /\ results' = {}
    /\ calibration' = [n \in Numbers |-> << >>]
    /\ call' = NoCall
    /\ UNCHANGED <<built, made, simulated, evaluated, performance>>

TwinNext ==
    \/ \E h \in TwinHistories, world \in Worlds :
        \/ \E features \in FeatureLists, ledgered, registered \in BOOLEAN :
              BuildTwin(h, features, world, ledgered, registered)
        \/ \E t \in commercialTwins : UpdateTwin(t, h, world)
    \/ \E t \in commercialTwins :
        \/ Attach(t)
        \/ \E a \in TwinActions : Simulate(t, a)
        \/ \E result \in results, actual \in Reported : Update(t, result, actual)
    \/ AppendSimulation
    \/ AppendSimulationEvaluation
    \/ AppendDecisionPerformance
    \/ InsertRaises
    \/ KillProcess

TwinSpec == TwinInit /\ [][TwinNext]_twinVars

-------------------------------------------------------------------------------
(* Properties.                                                             *)

Simulation(s) ==
    /\ DOMAIN s = {"means", "level", "disposition", "id", "twin"}
    /\ Valued(s.means) /\ s.level \in SupportLevels /\ s.disposition = Disposition(s.level)
    /\ s.id \in 1..made /\ s.twin \in 1..built
Evaluation(e) ==
    /\ DOMAIN e = {"id", "predicted", "actual", "errors"}
    /\ e.id \in 1..made /\ Valued(e.predicted) /\ e.actual \in Reported /\ Valued(e.errors)

\* The variables have their types.
TwinTypeOK ==
    /\ \A t \in commercialTwins : t.number \in 1..built /\ t.history \in TwinHistories
    /\ built \in 0..MaxTwins /\ made \in 0..MaxSimulations
    /\ \A s \in results \cup simulated : Simulation(s)
    /\ DOMAIN calibration = Numbers
    /\ \A n \in Numbers : \A i \in DOMAIN calibration[n] : Evaluation(calibration[n][i])
    /\ \A e \in evaluated : Evaluation(e)
    /\ \A p \in performance :
        Valued(p.errors) /\ p.records \in Nat /\ p.id \in 1..made /\ p.twin \in 1..built

\* Every evaluation in the ledger is the only one of its simulation and speaks of the prediction
\* that the ledger recorded, whatever the twin has become.
EvaluationsRest ==
    \A e \in evaluated :
        /\ \E s \in simulated : s.id = e.id /\ s.means = e.predicted
        /\ \A f \in evaluated : f.id = e.id => f = e

\* Every row of a twin with a ledger is backed by an evaluation with its errors, at most one row
\* by each, and by the support the simulation was recorded with.
RegistryRests ==
    \A p \in performance : p.ledgered =>
        /\ \E e \in evaluated : e.id = p.id /\ e.errors = p.errors
        /\ \E s \in simulated : s.id = p.id /\ s.twin = p.twin /\ s.level = p.level
        /\ \A q \in performance : q.ledgered /\ q.id = p.id => q = p

\* The calibration of a twin in memory misses no evaluation of its simulations, and no two rows
\* of one twin report the same number of records.
MemoryCoversLedger ==
    /\ \A t \in commercialTwins : \A s \in simulated : \A e \in evaluated :
        s.twin = t.number /\ s.id = e.id =>
            \E i \in DOMAIN calibration[t.number] : calibration[t.number][i] = e
    /\ \A p, q \in performance : p.twin = q.twin /\ p.records = q.records => p = q

\* update appends to the twin's list, the ledger and the registry, and any of the steps may be the
\* last; still what the ledger and the registry say of a simulation rests on what was recorded.
CalibrationIsLedgered == EvaluationsRest /\ RegistryRests /\ MemoryCoversLedger

===============================================================================
