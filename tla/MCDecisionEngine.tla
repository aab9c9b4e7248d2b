--------------------------- MODULE MCDecisionEngine ----------------------------
(***************************************************************************)
(* The parts of the decision engine, one run for all of them.  They share  *)
(* no state and every property reads one part, so their interleavings add  *)
(* nothing: part says which of them a behaviour runs, the others stay in   *)
(* an initial state.                                                       *)
(***************************************************************************)
EXTENDS MerchantExperiment, WinbackPilot, CommittedRisk, SequentialControl, SealedValidation,
        FrozenBenchmark, DecisionCards, MerchantDashboard, MerchantAccess, DoseDecision,
        EvidenceGates, WorldState, ModelTournament, DayOneBenchmark, CommercialTwin

VARIABLE part

MCArm(c) == CASE c = 1 -> "no_action" [] c = 2 -> "free_shipping" [] OTHER -> "discount"
MCArmOf == [c \in 1..3 |-> MCArm(c)]
MCActorOf == [e \in 1..3 |-> e]
MCEffectOf == [k \in SUBSET (1..3) |->
    [arm \in {"free_shipping", "discount"} |-> IF arm = "discount" THEN 0 ELSE 1]]
MCBestOf == [k \in SUBSET (1..3) |-> "free_shipping"]
MCFamilyOf == [p \in Periods |-> IF p % 2 = 0 THEN "a" ELSE "b"]
MCIncrements == {2, -3}
MCV9Studies == <<"study1", "study3">>
\* The third version of the sources changes the worlds and leaves no model eligible.
MCSpecsOf == [t \in Sources |-> IF t = 3 THEN "new worlds" ELSE "worlds"]
MCWinnersOf == [t \in Sources |-> CASE t = 1 -> {"ridge"} [] t = 2 -> {"ridge", "forest"} [] OTHER -> {}]

\* An extract without a defect, and others with one each; 6 has not consented.
MCEligibility(s) ==
    [id |-> s, snapshot |-> 1, consent |-> s # 6, suppressed |-> FALSE, purchases |-> 1,
     purchased |-> TRUE, last_purchase |-> 0, campaigned |-> FALSE, last_campaign |-> 0]
MCExtract ==
    [customers |-> [id : Shoppers, currency : {"SEK"}],
     orders |-> {[id |-> "o", customer |-> 1, ordered_at |-> 1, costed |-> TRUE, currency |-> "SEK"]},
     order_lines |-> {[id |-> "l", order |-> "o", product |-> "p", costed |-> TRUE]},
     products |-> {[id |-> "p", currency |-> "SEK"]},
     discounts |-> {[id |-> "d", order |-> "o", costed |-> TRUE, currency |-> "SEK"]},
     returns |-> {[id |-> "r", order |-> "o", line |-> "none", returned_at |-> 1, currency |-> "SEK"]},
     eligibility |-> {MCEligibility(s) : s \in Shoppers},
     channel_costs |-> [id : Shoppers, costed : {TRUE}, currency : {"SEK"}]]
MCExtracts ==
    {MCExtract,
     [MCExtract EXCEPT !.eligibility = {MCEligibility(s) : s \in Shoppers \ {1}}],
     [MCExtract EXCEPT !.orders = @ \cup {[id |-> "o", customer |-> 2, ordered_at |-> 1, costed |-> TRUE,
                                           currency |-> "SEK"]}],
     [MCExtract EXCEPT !.customers = {}],
     [MCExtract EXCEPT !.channel_costs = [id : {1}, costed : {TRUE}, currency : {"SEK"}]],
     [MCExtract EXCEPT !.returns = {[id |-> "r", order |-> "o", line |-> "l", returned_at |-> 0,
                                     currency |-> "EUR"]}]}
MCCustomerOf == [o \in {"o1", "o2"} |-> "kim"]
MCPlacedOn == [o \in {"o1", "o2"} |-> IF o = "o1" THEN 0 ELSE 2]
MCConfig ==
    [name |-> "winback", created_at |-> 1, snapshot |-> 1, inactivity |-> 1, minimum_purchases |-> 1,
     exclusion |-> 1, planned |-> 2, frozen_at |-> 0, assigned_at |-> 0]
MCConfigs ==
    {MCConfig, [MCConfig EXCEPT !.assigned_at = 1],
     [MCConfig EXCEPT !.name = "later", !.frozen_at = 1],
     [MCConfig EXCEPT !.name = "large", !.planned = 5]}

MCDefinition ==
    [id |-> "gas", family |-> "gas_price", geography |-> "US", level |-> "NATIONAL", lag |-> 1,
     vintage_safe |-> FALSE, period_lag |-> 2, from |-> 0]
MCDefinitions ==
    {MCDefinition,
     [MCDefinition EXCEPT !.id = "gas_ca", !.geography = "CA", !.level = "STATE", !.from = 1],
     [MCDefinition EXCEPT !.id = "cpi", !.family = "category_cpi", !.vintage_safe = TRUE]}
MCRegionOf == [g \in {"US", "CA", "NY"} |-> CASE g = "CA" -> "WEST" [] g = "NY" -> "NORTHEAST" [] OTHER -> "none"]
MCExposures == {{<<"CA", 2>>, <<"NY", 1>>}}
MCObservations ==
    {[s \in {"gas", "gas_ca", "cpi"} |-> 0],
     [s \in {"gas", "gas_ca", "cpi"} |-> IF s = "gas_ca" THEN 0 ELSE 1]}

MCCoreMonths == [i \in 7..12 |-> 2 * (i - 6)]

MCTwinHistory ==
    [columns |-> RequiredColumns, rows |-> 600, dates |-> 100, doses |-> 25, low |-> 0, high |-> 25,
     complete |-> 100, costed |-> 0, randomized |-> FALSE, priced |-> TRUE, sold |-> TRUE]
MCTwinHistories ==
    {MCTwinHistory,
     [MCTwinHistory EXCEPT !.columns = @ \cup {"unit_cost", "randomized_assignment"}, !.costed = 100,
                           !.randomized = TRUE],
     [MCTwinHistory EXCEPT !.columns = @ \cup {"hidden_u"}],
     [MCTwinHistory EXCEPT !.high = 31],
     [MCTwinHistory EXCEPT !.rows = 0]}
MCTwinActions ==
    {[type |-> "discount", discount |-> TRUE], [type |-> "price_change", discount |-> FALSE]}
MCForecasts ==
    [h \in MCTwinHistories |-> [a \in MCTwinActions |->
        [rows |-> 1, level |-> IF h.randomized THEN "SUPPORTED" ELSE "LIMITED",
         costed |-> h.costed > 0,
         means |-> [units |-> 5, revenue |-> 35, contribution_profit |-> -2]]]]
MCReported == {[n \in {"units"} |-> 6], [n \in {} |-> 0]}

AllVars ==
    <<merchantVars, pilotVars, riskVars, sequentialVars, sealedVars, frozenVars, cardVars,
      dashboardVars, accessVars, doseVars, gateVars, worldVars, tournamentVars, dayOneVars,
      twinVars>>

EngineInit ==
    /\ part \in {"merchant", "pilot", "risk", "sequential", "sealed", "frozen", "cards",
                 "dashboard", "access", "dose", "gates", "world", "tournament", "dayone", "twins"}
    /\ MerchantInit
    /\ PilotInit
    /\ RiskInit
    /\ part # "risk" => scenario = "ORDINARY"
    /\ SequentialInit
    /\ part # "sequential" => path = "OTHER"
    /\ SealedInit
    /\ part # "sealed" => proof = "V8"
    /\ FrozenInit
    /\ part # "frozen" => bench = "criteo"
    /\ CardInit
    /\ DashboardInit
    /\ AccessInit
    /\ part # "access" => provisioningKey = "key1" /\ bundle = [version |-> "1.0", hashes |-> "first"]
    /\ DoseInit
    /\ GateInit
    /\ WorldInit
    /\ part # "world" => published = [x \in SeriesIds \X {0} |-> 0]
    /\ TournamentInit
    /\ part # "tournament" => study = "v7" /\ tree = 1
    /\ DayOneInit
    /\ part # "dayone" => protocol = "core" /\ imported = 5
    /\ TwinInit

Run(p) == part = p /\ UNCHANGED part

EngineNext ==
    \/ Run("merchant") /\ MerchantNext
       /\ UNCHANGED <<pilotVars, riskVars, sequentialVars, sealedVars, frozenVars, cardVars,
                      dashboardVars, accessVars, doseVars, gateVars, worldVars, tournamentVars,
                      dayOneVars, twinVars>>
    \/ Run("pilot") /\ PilotNext
       /\ UNCHANGED <<merchantVars, riskVars, sequentialVars, sealedVars, frozenVars, cardVars,
                      dashboardVars, accessVars, doseVars, gateVars, worldVars, tournamentVars,
                      dayOneVars, twinVars>>
    \/ Run("risk") /\ RiskNext
       /\ UNCHANGED <<merchantVars, pilotVars, sequentialVars, sealedVars, frozenVars, cardVars,
                      dashboardVars, accessVars, doseVars, gateVars, worldVars, tournamentVars,
                      dayOneVars, twinVars>>
    \/ Run("sequential") /\ SequentialNext
       /\ UNCHANGED <<merchantVars, pilotVars, riskVars, sealedVars, frozenVars, cardVars,
                      dashboardVars, accessVars, doseVars, gateVars, worldVars, tournamentVars,
                      dayOneVars, twinVars>>
    \/ Run("sealed") /\ SealedNext
       /\ UNCHANGED <<merchantVars, pilotVars, riskVars, sequentialVars, frozenVars, cardVars,
                      dashboardVars, accessVars, doseVars, gateVars, worldVars, tournamentVars,
                      dayOneVars, twinVars>>
    \/ Run("frozen") /\ FrozenNext
       /\ UNCHANGED <<merchantVars, pilotVars, riskVars, sequentialVars, sealedVars, cardVars,
                      dashboardVars, accessVars, doseVars, gateVars, worldVars, tournamentVars,
                      dayOneVars, twinVars>>
    \/ Run("cards") /\ Week
       /\ UNCHANGED <<merchantVars, pilotVars, riskVars, sequentialVars, sealedVars, frozenVars,
                      dashboardVars, accessVars, doseVars, gateVars, worldVars, tournamentVars,
                      dayOneVars, twinVars>>
    \/ Run("dashboard") /\ DashboardNext
       /\ UNCHANGED <<merchantVars, pilotVars, riskVars, sequentialVars, sealedVars, frozenVars,
                      cardVars, accessVars, doseVars, gateVars, worldVars, tournamentVars,
                      dayOneVars, twinVars>>
    \/ Run("access") /\ AccessNext
       /\ UNCHANGED <<merchantVars, pilotVars, riskVars, sequentialVars, sealedVars, frozenVars,
                      cardVars, dashboardVars, doseVars, gateVars, worldVars, tournamentVars,
                      dayOneVars, twinVars>>
    \/ Run("dose") /\ DoseNext
       /\ UNCHANGED <<merchantVars, pilotVars, riskVars, sequentialVars, sealedVars, frozenVars,
                      cardVars, dashboardVars, accessVars, gateVars, worldVars, tournamentVars,
                      dayOneVars, twinVars>>
    \/ Run("gates") /\ GateNext
       /\ UNCHANGED <<merchantVars, pilotVars, riskVars, sequentialVars, sealedVars, frozenVars,
                      cardVars, dashboardVars, accessVars, doseVars, worldVars, tournamentVars,
                      dayOneVars, twinVars>>
    \/ Run("world") /\ WorldNext
       /\ UNCHANGED <<merchantVars, pilotVars, riskVars, sequentialVars, sealedVars, frozenVars,
                      cardVars, dashboardVars, accessVars, doseVars, gateVars, tournamentVars,
                      dayOneVars, twinVars>>
    \/ Run("tournament") /\ TournamentNext
       /\ UNCHANGED <<merchantVars, pilotVars, riskVars, sequentialVars, sealedVars, frozenVars,
                      cardVars, dashboardVars, accessVars, doseVars, gateVars, worldVars, dayOneVars,
                      twinVars>>
    \/ Run("dayone") /\ DayOneNext
       /\ UNCHANGED <<merchantVars, pilotVars, riskVars, sequentialVars, sealedVars, frozenVars,
                      cardVars, dashboardVars, accessVars, doseVars, gateVars, worldVars,
                      tournamentVars, twinVars>>
    \/ Run("twins") /\ TwinNext
       /\ UNCHANGED <<merchantVars, pilotVars, riskVars, sequentialVars, sealedVars, frozenVars,
                      cardVars, dashboardVars, accessVars, doseVars, gateVars, worldVars,
                      tournamentVars, dayOneVars>>

EngineSpec == EngineInit /\ [][EngineNext]_<<AllVars, part>>

\* The variables of every part have their types.
EngineTypeOK ==
    CASE part = "merchant" -> MerchantTypeOK
      [] part = "pilot" -> PilotTypeOK
      [] part = "risk" -> RiskTypeOK
      [] part = "sequential" -> SequentialTypeOK
      [] part = "sealed" -> SealedTypeOK
      [] part = "frozen" -> FrozenTypeOK
      [] part = "cards" -> CardTypeOK
      [] part = "dashboard" -> DashboardTypeOK
      [] part = "access" -> AccessTypeOK
      [] part = "dose" -> DoseTypeOK
      [] part = "gates" -> GateTypeOK
      [] part = "world" -> WorldTypeOK
      [] part = "tournament" -> TournamentTypeOK
      [] part = "dayone" -> DayOneTypeOK
      [] part = "twins" -> TwinTypeOK
===============================================================================
