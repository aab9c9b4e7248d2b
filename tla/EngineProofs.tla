------------------------------ MODULE EngineProofs ------------------------------
(***************************************************************************)
(* The parts of the decision engine together, for every value of their     *)
(* constants: EngineSpec implements the specification of each part, so     *)
(* that whatever is proved of a part alone (MerchantProofs, DecisionProofs *)
(* and ValidationProofs) holds of it within the engine.                    *)
(***************************************************************************)
EXTENDS MCDecisionEngine, MerchantProofs, ValidationProofs, DecisionProofs

-------------------------------------------------------------------------------
(* A step of the engine is a step of the part that runs, and leaves the    *)
(* other parts alone.                                                      *)

EngineParts == {"merchant", "pilot", "risk", "sequential", "sealed", "frozen", "cards", "dashboard",
          "access", "dose", "gates", "world", "tournament", "dayone", "twins"}

LEMMA EngineRunsMerchant == EngineSpec => MerchantSpec
<1>1. EngineInit => MerchantInit
  BY DEF EngineInit
<1>2. [EngineNext]_<<AllVars, part>> => [MerchantNext]_merchantVars
  BY DEF EngineNext, AllVars
<1>. QED  BY <1>1, <1>2, PTL DEF EngineSpec, MerchantSpec

LEMMA EngineRunsPilot == EngineSpec => PilotSpec
<1>1. EngineInit => PilotInit
  BY DEF EngineInit
<1>2. [EngineNext]_<<AllVars, part>> => [PilotNext]_pilotVars
  BY DEF EngineNext, AllVars
<1>. QED  BY <1>1, <1>2, PTL DEF EngineSpec, PilotSpec

LEMMA EngineRunsRisk == EngineSpec => RiskSpec
<1>1. EngineInit => RiskInit
  BY DEF EngineInit
<1>2. [EngineNext]_<<AllVars, part>> => [RiskNext]_riskVars
  BY DEF EngineNext, AllVars
<1>. QED  BY <1>1, <1>2, PTL DEF EngineSpec, RiskSpec

LEMMA EngineRunsSequential == EngineSpec => SequentialSpec
<1>1. EngineInit => SequentialInit
  BY DEF EngineInit
<1>2. [EngineNext]_<<AllVars, part>> => [SequentialNext]_sequentialVars
  BY DEF EngineNext, AllVars
<1>. QED  BY <1>1, <1>2, PTL DEF EngineSpec, SequentialSpec

LEMMA EngineRunsSealed == EngineSpec => SealedSpec
<1>1. EngineInit => SealedInit
  BY DEF EngineInit
<1>2. [EngineNext]_<<AllVars, part>> => [SealedNext]_sealedVars
  BY DEF EngineNext, AllVars
<1>. QED  BY <1>1, <1>2, PTL DEF EngineSpec, SealedSpec

LEMMA EngineRunsFrozen == EngineSpec => FrozenSpec
<1>1. EngineInit => FrozenInit
  BY DEF EngineInit
<1>2. [EngineNext]_<<AllVars, part>> => [FrozenNext]_frozenVars
  BY DEF EngineNext, AllVars
<1>. QED  BY <1>1, <1>2, PTL DEF EngineSpec, FrozenSpec

LEMMA EngineRunsCard == EngineSpec => CardSpec
<1>1. EngineInit => CardInit
  BY DEF EngineInit
<1>2. [EngineNext]_<<AllVars, part>> => [Week]_cardVars
  BY DEF EngineNext, AllVars
<1>. QED  BY <1>1, <1>2, PTL DEF EngineSpec, CardSpec

LEMMA EngineRunsDashboard == EngineSpec => DashboardSpec
<1>1. EngineInit => DashboardInit
  BY DEF EngineInit
<1>2. [EngineNext]_<<AllVars, part>> => [DashboardNext]_dashboardVars
  BY DEF EngineNext, AllVars
<1>. QED  BY <1>1, <1>2, PTL DEF EngineSpec, DashboardSpec

LEMMA EngineRunsAccess == EngineSpec => AccessSpec
<1>1. EngineInit => AccessInit
  BY DEF EngineInit
<1>2. [EngineNext]_<<AllVars, part>> => [AccessNext]_accessVars
  BY DEF EngineNext, AllVars
<1>. QED  BY <1>1, <1>2, PTL DEF EngineSpec, AccessSpec

LEMMA EngineRunsDose == EngineSpec => DoseSpec
<1>1. EngineInit => DoseInit
  BY DEF EngineInit
<1>2. [EngineNext]_<<AllVars, part>> => [DoseNext]_doseVars
  BY DEF EngineNext, AllVars
<1>. QED  BY <1>1, <1>2, PTL DEF EngineSpec, DoseSpec

LEMMA EngineRunsGate == EngineSpec => GateSpec
<1>1. EngineInit => GateInit
  BY DEF EngineInit
<1>2. [EngineNext]_<<AllVars, part>> => [GateNext]_gateVars
  BY DEF EngineNext, AllVars
<1>. QED  BY <1>1, <1>2, PTL DEF EngineSpec, GateSpec

LEMMA EngineRunsWorld == EngineSpec => WorldSpec
<1>1. EngineInit => WorldInit
  BY DEF EngineInit
<1>2. [EngineNext]_<<AllVars, part>> => [WorldNext]_worldVars
  BY DEF EngineNext, AllVars
<1>. QED  BY <1>1, <1>2, PTL DEF EngineSpec, WorldSpec

LEMMA EngineRunsTournament == EngineSpec => TournamentSpec
<1>1. EngineInit => TournamentInit
  BY DEF EngineInit
<1>2. [EngineNext]_<<AllVars, part>> => [TournamentNext]_tournamentVars
  BY DEF EngineNext, AllVars
<1>. QED  BY <1>1, <1>2, PTL DEF EngineSpec, TournamentSpec

LEMMA EngineRunsDayOne == EngineSpec => DayOneSpec
<1>1. EngineInit => DayOneInit
  BY DEF EngineInit
<1>2. [EngineNext]_<<AllVars, part>> => [DayOneNext]_dayOneVars
  BY DEF EngineNext, AllVars
<1>. QED  BY <1>1, <1>2, PTL DEF EngineSpec, DayOneSpec

LEMMA EngineRunsTwin == EngineSpec => TwinSpec
<1>1. EngineInit => TwinInit
  BY DEF EngineInit
<1>2. [EngineNext]_<<AllVars, part>> => [TwinNext]_twinVars
  BY DEF EngineNext, AllVars
<1>. QED  BY <1>1, <1>2, PTL DEF EngineSpec, TwinSpec

\* Which part runs is chosen once.
LEMMA EngineRunsAPart == EngineSpec => [](part \in EngineParts)
<1>1. EngineInit => part \in EngineParts
  BY DEF EngineInit, EngineParts
<1>2. part \in EngineParts /\ [EngineNext]_<<AllVars, part>> => (part \in EngineParts)'
  BY DEF EngineNext, Run
<1>. QED  BY <1>1, <1>2, PTL DEF EngineSpec

\* The engine implements every one of its parts: none is disturbed by another.
THEOREM EngineComposes ==
    EngineSpec =>
        /\ MerchantSpec /\ PilotSpec /\ RiskSpec /\ SequentialSpec /\ SealedSpec
        /\ FrozenSpec /\ CardSpec /\ DashboardSpec /\ AccessSpec /\ DoseSpec
        /\ GateSpec /\ WorldSpec /\ TournamentSpec /\ DayOneSpec /\ TwinSpec
BY EngineRunsMerchant, EngineRunsPilot, EngineRunsRisk, EngineRunsSequential, EngineRunsSealed,
   EngineRunsFrozen, EngineRunsCard, EngineRunsDashboard, EngineRunsAccess, EngineRunsDose,
   EngineRunsGate, EngineRunsWorld, EngineRunsTournament, EngineRunsDayOne, EngineRunsTwin

-------------------------------------------------------------------------------
(* What that makes of the engine.                                          *)

LEMMA EngineMerchantTyped == EngineSpec => []MerchantTypeOK
<1>1. MerchantInv => MerchantTypeOK
  BY DEF MerchantInv
<1>. QED  BY <1>1, EngineRunsMerchant, MerchantInvariant, PTL

LEMMA EnginePilotTyped == EngineSpec => []PilotTypeOK
<1>1. PilotInv => PilotTypeOK
  BY DEF PilotInv
<1>. QED  BY <1>1, EngineRunsPilot, PilotInvariant, PTL

LEMMA EngineRiskTyped == EngineSpec => []RiskTypeOK
BY EngineRunsRisk, RiskTyped, PTL

LEMMA EngineSequentialTyped == EngineSpec => []SequentialTypeOK
<1>1. ControlInv => SequentialTypeOK
  BY DEF ControlInv
<1>. QED  BY <1>1, EngineRunsSequential, ControlInvariant, PTL

LEMMA EngineSealedTyped == EngineSpec => []SealedTypeOK
<1>1. SealedInv => SealedTypeOK
  BY DEF SealedInv
<1>. QED  BY <1>1, EngineRunsSealed, SealedInvariant, PTL

LEMMA EngineFrozenTyped == EngineSpec => []FrozenTypeOK
<1>1. FrozenInv => FrozenTypeOK
  BY DEF FrozenInv, RunTypes
<1>. QED  BY <1>1, EngineRunsFrozen, FrozenInvariant, PTL

LEMMA EngineCardTyped == EngineSpec => []CardTypeOK
<1>1. CardInv => CardTypeOK
  BY DEF CardInv
<1>. QED  BY <1>1, EngineRunsCard, CardInvariant, PTL

LEMMA EngineDashboardTyped == EngineSpec => []DashboardTypeOK
BY EngineRunsDashboard, DashboardTyped, PTL

LEMMA EngineAccessTyped == EngineSpec => []AccessTypeOK
<1>1. AccessInv => AccessTypeOK
  BY DEF AccessInv
<1>. QED  BY <1>1, EngineRunsAccess, AccessInvariant, PTL

LEMMA EngineDoseTyped == EngineSpec => []DoseTypeOK
BY EngineRunsDose, DoseTyped, PTL

LEMMA EngineGateTyped == EngineSpec => []GateTypeOK
BY EngineRunsGate, GateTyped, PTL

LEMMA EngineWorldTyped == EngineSpec => []WorldTypeOK
<1>1. WorldInv => WorldTypeOK
  BY DEF WorldInv, WorldTypes
<1>. QED  BY <1>1, EngineRunsWorld, WorldInvariant, PTL

LEMMA EngineTournamentTyped == EngineSpec => []TournamentTypeOK
BY EngineRunsTournament, TournamentTyped, PTL

LEMMA EngineDayOneTyped == EngineSpec => []DayOneTypeOK
<1>1. DayOneInv => DayOneTypeOK
  BY DEF DayOneInv
<1>. QED  BY <1>1, EngineRunsDayOne, DayOneInvariant, DayOneAssumption, PTL

LEMMA EngineTwinTyped == EngineSpec => []TwinTypeOK
BY EngineRunsTwin, TwinTyped, TwinAssumption, PTL

\* The variables of the part that runs have their types, whichever it is.
THEOREM EngineTyped == EngineSpec => []EngineTypeOK
<1> DEFINE Types ==
        /\ MerchantTypeOK /\ PilotTypeOK /\ RiskTypeOK /\ SequentialTypeOK
        /\ SealedTypeOK /\ FrozenTypeOK /\ CardTypeOK /\ DashboardTypeOK
        /\ AccessTypeOK /\ DoseTypeOK /\ GateTypeOK /\ WorldTypeOK
        /\ TournamentTypeOK /\ DayOneTypeOK /\ TwinTypeOK
<1>1. part \in EngineParts /\ Types => EngineTypeOK
  BY DEF EngineParts, EngineTypeOK
<1>2. EngineSpec => []Types
  BY EngineMerchantTyped, EnginePilotTyped, EngineRiskTyped, EngineSequentialTyped,
     EngineSealedTyped, EngineFrozenTyped, EngineCardTyped, EngineDashboardTyped,
     EngineAccessTyped, EngineDoseTyped, EngineGateTyped, EngineWorldTyped, EngineTournamentTyped,
     EngineDayOneTyped, EngineTwinTyped, PTL
<1>. HIDE DEF Types
<1>. QED  BY <1>1, <1>2, EngineRunsAPart, PTL

\* Everything that is claimed of a part holds in the engine, whatever runs.
THEOREM EngineSafe ==
    EngineSpec => [](/\ AdvicePreregistered /\ PilotLedgerHolds /\ ExposureBounded /\ ExposureFollowsHarm
                     /\ OutcomesReadOnce /\ FinalRestsOnReveal /\ RevealsAreFrozen /\ CardsAreCovered
                     /\ DashboardIsTheShops /\ AccessRestsOnConsent /\ DoseIsEarned /\ ExposureIsEarned
                     /\ WorldAsItWasKnown /\ ValidationRestsOnFreeze /\ HindsightFree /\ CalibrationIsLedgered)
<1>1. EngineSpec => []AdvicePreregistered
  BY EngineRunsMerchant, AdviceSafe, PTL
<1>2. EngineSpec => []PilotLedgerHolds
  BY EngineRunsPilot, PilotSafe, PTL
<1>3. EngineSpec => []ExposureBounded
  BY EngineRunsRisk, RiskSafe, PTL
<1>4. EngineSpec => []ExposureFollowsHarm
  BY EngineRunsSequential, ControlSafe, PTL
<1>5. EngineSpec => []OutcomesReadOnce
  BY EngineRunsSealed, OutcomesSafe, PTL
<1>6. EngineSpec => []FinalRestsOnReveal
  BY EngineRunsSealed, FinalSafe, PTL
<1>7. EngineSpec => []RevealsAreFrozen
  BY EngineRunsFrozen, RevealsSafe, PTL
<1>8. EngineSpec => []CardsAreCovered
  BY EngineRunsCard, CardsSafe, PTL
<1>9. EngineSpec => []DashboardIsTheShops
  BY EngineRunsDashboard, DashboardSafe, PTL
<1>10. EngineSpec => []AccessRestsOnConsent
  BY EngineRunsAccess, AccessSafe, PTL
<1>11. EngineSpec => []DoseIsEarned
  BY EngineRunsDose, DoseSafe, PTL
<1>12. EngineSpec => []ExposureIsEarned
  BY EngineRunsGate, GateSafe, PTL
<1>13. EngineSpec => []WorldAsItWasKnown
  BY EngineRunsWorld, WorldSafe, PTL
<1>14. EngineSpec => []ValidationRestsOnFreeze
  BY EngineRunsTournament, TournamentSafe, PTL
<1>15. EngineSpec => []HindsightFree
  BY EngineRunsDayOne, DayOneSafe, DayOneAssumption, PTL
<1>16. EngineSpec => []CalibrationIsLedgered
  BY EngineRunsTwin, CalibrationSafe, TwinAssumption, PTL
<1>. QED  BY <1>1, <1>2, <1>3, <1>4, <1>5, <1>6, <1>7, <1>8, <1>9, <1>10, <1>11, <1>12, <1>13,
   <1>14, <1>15, <1>16, PTL

===============================================================================
