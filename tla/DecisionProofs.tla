---------------------------- MODULE DecisionProofs -----------------------------
(***************************************************************************)
(* Proofs about decisions: the recommended dose, the gates that let a      *)
(* policy, a model or an architecture through, the weekly cards, the state *)
(* of the world as it was known at a time, and what runs on, period after  *)
(* period or call after call: the sequential controller V7.2, the ledger   *)
(* of committed risk and the commercial twins.                             *)
(***************************************************************************)
EXTENDS DoseDecision, EvidenceGates, DecisionCards, WorldState, SequentialControl, CommittedRisk,
        CommercialTwin, FiniteFacts, TLAPS

-------------------------------------------------------------------------------
(* The recommended dose.                                                   *)

QuestionOK(q) ==
    /\ q.profit \in [Doses -> 0..MaxProfit]
    /\ \A d \in Doses : q.report[d].feasible \in BOOLEAN /\ q.report[d].soft \in Nat
    /\ q.draws \in Draws(q.report)

DoseInv ==
    /\ question = Unasked => answer = Unasked
    /\ question # Unasked => QuestionOK(question)
    /\ DoseIsEarned

LEMMA DosesFinite ==
    ASSUME NEW S \in SUBSET Doses
    PROVE  IsFiniteSet(S) /\ S \subseteq Int
<1>1. IsFiniteSet(Doses) /\ Doses \subseteq Int
  BY DoseAssumption, FS_Interval DEF Doses
<1>. QED  BY <1>1, FS_Subset

\* A dose has at most four weaknesses, whatever its support.
LEMMA WeaknessesCount ==
    ASSUME NEW m
    PROVE  Cardinality(SoftWarnings(m)) \in Nat
<1>1. IsFiniteSet(SoftRules)
  <2>1. IsFiniteSet({"density_percentile_soft"} \cup {"local_ess_soft"})
    BY FS_Singleton, FS_AddElement
  <2>2. IsFiniteSet(({"density_percentile_soft"} \cup {"local_ess_soft"}) \cup {"nearest_distance_soft"})
    BY <2>1, FS_AddElement
  <2>3. SoftRules = (({"density_percentile_soft"} \cup {"local_ess_soft"}) \cup {"nearest_distance_soft"})
                        \cup {"moderate_ess"}
    BY DEF SoftRules
  <2>. QED  BY <2>2, <2>3, FS_AddElement
<1>. QED  BY <1>1, FS_Subset, FS_CardinalityType DEF SoftWarnings

LEMMA ReportsOK ==
    ASSUME NEW report \in SupportReports
    PROVE  \A d \in Doses : report[d].feasible \in BOOLEAN /\ report[d].soft \in Nat
<1>1. \A m : GateReport(m).feasible \in BOOLEAN /\ GateReport(m).soft \in Nat
  BY WeaknessesCount DEF GateReport
<1>2. \A outside : HistoryReport(outside).feasible \in BOOLEAN /\ HistoryReport(outside).soft \in Nat
  BY DEF HistoryReport
<1>. QED  BY <1>1, <1>2 DEF SupportReports

\* The first of the best doses exists wherever there are doses.
LEMMA BestOfDosesIs ==
    ASSUME NEW q, q.profit \in [Doses -> 0..MaxProfit], NEW S \in SUBSET Doses, S # {}
    PROVE  /\ BestOfDoses(q, S) \in S
           /\ \A e \in S : q.profit[e] <= q.profit[BestOfDoses(q, S)]
<1> DEFINE Profits == {q.profit[d] : d \in S}
<1>1. IsFiniteSet(Profits)
  BY DosesFinite, FiniteImage
<1>2. Profits \subseteq Int /\ Profits # {}
  <2>1. \A d \in S : q.profit[d] \in Int
    BY DoseAssumption
  <2>. QED  BY <2>1
<1>3. PICK most \in Profits : \A y \in Profits : most >= y
  <2>. HIDE DEF Profits
  <2>. QED  BY <1>1, <1>2, GreatestOfFinite
<1> DEFINE Tops == {d \in S : q.profit[d] = most}
<1>4. Tops \in SUBSET Doses /\ Tops # {}
  OBVIOUS
<1>5. PICK first \in Tops : \A d \in Tops : first <= d
  BY <1>4, DosesFinite, LeastOfFinite
<1>6. \A e \in S : q.profit[e] < q.profit[first] \/ (q.profit[e] = q.profit[first] /\ first <= e)
  <2> SUFFICES ASSUME NEW e \in S
               PROVE  q.profit[e] < q.profit[first] \/ (q.profit[e] = q.profit[first] /\ first <= e)
    OBVIOUS
  <2>1. q.profit[e] \in Int /\ most \in Int /\ most >= q.profit[e]
    BY <1>2, <1>3
  <2>. QED  BY <1>5, <2>1
<1>7. /\ BestOfDoses(q, S) \in S
      /\ \A e \in S : \/ q.profit[e] < q.profit[BestOfDoses(q, S)]
                      \/ q.profit[e] = q.profit[BestOfDoses(q, S)] /\ BestOfDoses(q, S) <= e
  BY <1>5, <1>6 DEF BestOfDoses
<1>8. \A e \in S : q.profit[e] \in Int
  BY DoseAssumption
<1>. QED  BY <1>7, <1>8

\* The dose that is picked is supported and the best of those, and no dose is worth more unless it
\* is unsupported and worth only a little more.
LEMMA PickIsBest ==
    ASSUME NEW q, QuestionOK(q), Projectable(q)
    PROVE  /\ Pick(q) \in Feasible(q)
           /\ \A d \in Doses : \/ q.profit[d] <= q.profit[Pick(q)]
                               \/ ~q.report[d].feasible /\ q.profit[d] <= q.profit[Pick(q)] + Near
           /\ \A d \in Doses : q.profit[d] \in Int
           /\ 1 \in Doses
<1>1. Pick(q) \in Feasible(q) /\ \A d \in Feasible(q) : q.profit[d] <= q.profit[Pick(q)]
  BY BestOfDosesIs DEF Projectable, Pick, Feasible, QuestionOK
<1>2. 1 \in Doses
  BY DoseAssumption DEF Doses
<1> DEFINE top == BestOfDoses(q, Doses)
<1>3. top \in Doses /\ \A d \in Doses : q.profit[d] <= q.profit[top]
  BY <1>2, BestOfDosesIs DEF QuestionOK
<1>4. \A d \in Doses : q.profit[d] \in Int
  BY DoseAssumption DEF QuestionOK
<1>5. top \notin Feasible(q) => q.profit[top] - q.profit[Pick(q)] <= Near
  BY DEF Projectable
<1>6. Pick(q) \in Doses /\ Near \in Int
  BY <1>1, DoseAssumption DEF Feasible
<1>7. ASSUME NEW d \in Doses
      PROVE  \/ q.profit[d] <= q.profit[Pick(q)]
             \/ ~q.report[d].feasible /\ q.profit[d] <= q.profit[Pick(q)] + Near
  <2>1. CASE top \in Feasible(q)
    BY <1>1, <1>3, <1>4, <1>6, <2>1
  <2>2. CASE top \notin Feasible(q)
    <3>1. q.profit[d] <= q.profit[Pick(q)] + Near
      BY <1>3, <1>4, <1>5, <1>6, <2>2
    <3>. QED  BY <1>1, <3>1 DEF Feasible, QuestionOK
  <2>. QED  BY <2>1, <2>2
<1>. QED  BY <1>1, <1>2, <1>4, <1>7

\* An experiment has two arms; an unsupported one stands beside the only supported dose.
LEMMA ArmsAre ==
    ASSUME NEW q, QuestionOK(q), Projectable(q), NEW arms \in ArmsOf(q)
    PROVE  /\ Cardinality(arms) = 2
           /\ arms \subseteq Feasible(q) \/ Cardinality(Feasible(q)) = 1
<1>1. CASE Cardinality(Robust(q)) < 2
  <2>1. /\ arms \in SUBSET Doses /\ Cardinality(arms) = 2
        /\ \A a \in arms, d \in Doses \ arms : Penalized(q, d) <= Penalized(q, a)
    BY <1>1 DEF ArmsOf, TopTwo
  <2>2. ASSUME NEW a \in arms, a \notin Feasible(q)
        PROVE  Cardinality(Feasible(q)) = 1
    <3>1. Feasible(q) \subseteq arms \ {a}
      <4> SUFFICES ASSUME NEW d \in Feasible(q), d \notin arms
                   PROVE  FALSE
        BY <2>2
      <4>1. Penalized(q, a) = -1
        BY <2>1, <2>2 DEF Penalized, Feasible
      <4>2. Penalized(q, d) \in Nat
        BY DoseAssumption DEF Penalized, Feasible, QuestionOK
      <4>3. Penalized(q, d) <= Penalized(q, a)
        BY <2>1 DEF Feasible
      <4>. QED  BY <4>1, <4>2, <4>3
    <3>2. IsFiniteSet(arms) /\ IsFiniteSet(arms \ {a}) /\ Cardinality(arms \ {a}) = 1
      BY <2>1, DosesFinite, FS_RemoveElement
    <3>3. Cardinality(Feasible(q)) <= 1 /\ IsFiniteSet(Feasible(q))
      BY <3>1, <3>2, FS_Subset
    <3>4. Feasible(q) # {}
      BY DEF Projectable
    <3>. QED  BY <3>3, <3>4, TwoElements
  <2>. QED  BY <2>1, <2>2
<1>2. CASE ~(Cardinality(Robust(q)) < 2)
  <2>1. Robust(q) \in SUBSET Doses /\ Robust(q) \subseteq Feasible(q)
    BY DEF Robust, Feasible
  <2>2. IsFiniteSet(Robust(q)) /\ Robust(q) \subseteq Int
    BY <2>1, DosesFinite
  <2>3. PICK x, y \in Robust(q) : x # y
    BY <1>2, <2>2, TwoElements
  <2>4. PICK low \in Robust(q) : \A e \in Robust(q) : low <= e
    BY <2>2, <2>3, LeastOfFinite
  <2>5. PICK high \in Robust(q) : \A e \in Robust(q) : e <= high
    BY <2>2, <2>3, GreatestOfFinite
  <2>6. low # high
    BY <2>2, <2>3, <2>4, <2>5
  <2>7. arms = {d \in Robust(q) : (\A e \in Robust(q) : d <= e) \/ (\A e \in Robust(q) : e <= d)}
    BY <1>2 DEF ArmsOf
  <2>8. arms = {low} \cup {high}
    BY <2>2, <2>4, <2>5, <2>7
  <2>9. IsFiniteSet({low}) /\ Cardinality({low}) = 1 /\ high \notin {low}
    BY <2>6, FS_Singleton
  <2>10. Cardinality({low} \cup {high}) = 1 + 1
    BY <2>9, FS_AddElement
  <2>. QED  BY <2>1, <2>4, <2>5, <2>8, <2>10
<1>. QED  BY <1>1, <1>2

\* Among the robust doses, which one there is when there is at most one.
LEMMA RobustIs ==
    ASSUME NEW q, QuestionOK(q), Projectable(q)
    PROVE  /\ IsFiniteSet(Robust(q))
           /\ Robust(q) = {} => q.draws.given /\ Cardinality(Feasible(q)) > 2
<1>1. Robust(q) \in SUBSET Doses
  BY DEF Robust, Feasible
<1>2. ~q.draws.given => Pick(q) \in Robust(q)
  <2>1. Pick(q) \in Feasible(q) /\ Pick(q) \in Doses /\ q.profit[Pick(q)] \in Int
    BY PickIsBest DEF Feasible
  <2>2. q.profit[Pick(q)] >= q.profit[Pick(q)] - Near
    BY <2>1, DoseAssumption
  <2>. QED  BY <2>1, <2>2 DEF Robust, NearOptimal
<1>3. q.draws.given => \/ q.draws.near \cap Feasible(q) # {}
                       \/ Cardinality(Feasible(q)) > 2
  BY DEF QuestionOK, Draws, Feasible
<1>. QED  BY <1>1, <1>2, <1>3, DosesFinite DEF Robust, NearOptimal

\* What is known when the question may be weighed.
LEMMA WeighableIs ==
    ASSUME DoseInv, Weighable
    PROVE  /\ question # Unasked /\ QuestionOK(question) /\ Projectable(question) /\ ~question.falsified
BY DEF DoseInv, Weighable

LEMMA ExperimentEarned ==
    ASSUME DoseInv, Experiment
    PROVE  DoseIsEarned'
<1> DEFINE q == question
<1>1. QuestionOK(q) /\ Projectable(q) /\ ~q.falsified
  BY WeighableIs DEF Experiment
<1>2. PICK arms \in ArmsOf(q) : answer' = Reply("EXPERIMENT", Pick(q), arms)
  BY DEF Experiment
<1>3. /\ answer'.status = "EXPERIMENT" /\ answer'.dose = Pick(q) /\ answer'.arms = arms /\ question' = question
  BY <1>2 DEF Reply, Experiment
<1>4. q.profit[Pick(q)] - q.profit[1] > 0 /\ q.report[Pick(q)].feasible
  <2>1. q.profit[Pick(q)] > q.profit[1]
    BY DEF Experiment, Interesting
  <2>2. q.profit[Pick(q)] \in Int /\ q.profit[1] \in Int /\ Pick(q) \in Feasible(q)
    BY <1>1, PickIsBest DEF Feasible
  <2>. QED  BY <2>1, <2>2 DEF Feasible
<1>. QED  BY <1>1, <1>3, <1>4, ArmsAre, PickIsBest DEF DoseIsEarned

LEMMA ActEarned ==
    ASSUME DoseInv, Act
    PROVE  DoseIsEarned'
<1> DEFINE q == question
<1>1. QuestionOK(q) /\ Projectable(q) /\ ~q.falsified
  BY WeighableIs DEF Act
<1>2. /\ answer'.status = "ACT" /\ answer'.dose = Pick(q) /\ question' = question
  BY DEF Reply, Act
<1>3. /\ q.profit[Pick(q)] \in Int /\ q.profit[1] \in Int /\ Pick(q) \in Feasible(q) /\ Pick(q) \in Doses
      /\ Near \in Nat
  BY <1>1, PickIsBest, DoseAssumption DEF Feasible
<1>4. q.profit[Pick(q)] - q.profit[1] > Near /\ q.profit[Pick(q)] - q.profit[1] > 0
  BY <1>3 DEF Act, Promising
<1>5. ~q.sensitive /\ q.report[Pick(q)].soft <= 1
  BY <1>1, <1>3 DEF Act, Doubtful, QuestionOK
<1>6. q.draws.given => \E d \in Feasible(q) : q.draws.near \cap Feasible(q) = {d}
  <2> SUFFICES ASSUME q.draws.given
               PROVE  \E d \in Feasible(q) : q.draws.near \cap Feasible(q) = {d}
    OBVIOUS
  <2>1. Robust(q) = q.draws.near \cap Feasible(q) /\ Robust(q) # {} /\ ~(Cardinality(Robust(q)) > 1)
    BY DEF Robust, NearOptimal, Act, Doubtful, Uncertain
  <2>2. PICK d : Robust(q) = {d}
    <3>1. IsFiniteSet(Robust(q))
      BY <1>1, RobustIs
    <3>. QED  BY <2>1, <3>1, TwoElements
  <2>. QED  BY <2>1, <2>2
<1>7. q.report[Pick(q)].feasible
  BY <1>3 DEF Feasible
<1>. QED  BY <1>1, <1>2, <1>4, <1>5, <1>6, <1>7, PickIsBest DEF DoseIsEarned, Feasible

\* The invariant: a question is well formed when it is asked, and its answer earned.
THEOREM DoseInvariant == DoseSpec => []DoseInv
<1>1. DoseInit => DoseInv
  BY DEF DoseInit, DoseInv, DoseIsEarned, Unasked
<1>2. DoseInv /\ [DoseNext]_doseVars => DoseInv'
  <2> SUFFICES ASSUME DoseInv, [DoseNext]_doseVars
               PROVE  DoseInv'
    OBVIOUS
  <2>1. CASE AskDose
    <3>1. PICK profit \in [Doses -> 0..MaxProfit], report \in SupportReports,
               falsified \in BOOLEAN, sensitive \in BOOLEAN :
              \E draws \in Draws(report) :
              question' = [status |-> "asked", profit |-> profit, report |-> report, draws |-> draws,
                           falsified |-> falsified, sensitive |-> sensitive]
      BY <2>1 DEF AskDose
    <3>2. QuestionOK(question')
      BY <3>1, ReportsOK DEF QuestionOK
    <3>3. answer' = Unasked
      BY <2>1 DEF AskDose, DoseInv
    <3>4. question' # Unasked => QuestionOK(question)'
      BY <3>2 DEF QuestionOK, Draws
    <3>. QED  BY <3>3, <3>4 DEF DoseInv, DoseIsEarned, Unasked
  <2>2. CASE AbstainUnsupported \/ AbstainFalsified \/ AbstainNoGain
    <3>1. answer'.status = "ABSTAIN" /\ question' = question /\ question # Unasked
      BY <2>2 DEF AbstainUnsupported, AbstainFalsified, AbstainNoGain, Weighable, Abstain, Reply
    <3>. QED  BY <3>1 DEF DoseInv, DoseIsEarned
  <2>3. CASE Experiment
    BY <2>3, WeighableIs, ExperimentEarned DEF Experiment, DoseInv
  <2>4. CASE Act
    BY <2>4, WeighableIs, ActEarned DEF Act, DoseInv
  <2>5. CASE RaiseEmptyRange
    <3>1. answer'.status = "RAISES" /\ question' = question /\ Robust(question) = {}
      BY <2>5 DEF RaiseEmptyRange, Reply
    <3>2. QuestionOK(question) /\ Projectable(question) /\ question # Unasked
      BY <2>5, WeighableIs DEF RaiseEmptyRange
    <3>. QED  BY <3>1, <3>2, RobustIs DEF DoseInv, DoseIsEarned
  <2>6. CASE UNCHANGED doseVars
    BY <2>6 DEF doseVars, DoseInv, DoseIsEarned, QuestionOK, Feasible
  <2>. QED  BY <2>1, <2>2, <2>3, <2>4, <2>5, <2>6 DEF DoseNext
<1>. QED  BY <1>1, <1>2, PTL DEF DoseSpec

\* A recommended dose is supported, best and worth it: for every number of doses, profits, supports
\* and draws.
THEOREM DoseSafe == DoseSpec => []DoseIsEarned
<1>1. DoseInv => DoseIsEarned
  BY DEF DoseInv
<1>. QED  BY <1>1, DoseInvariant, PTL

\* Question and answer have their types: an answer names candidate doses.
THEOREM DoseTyped == DoseSpec => []DoseTypeOK
<1>1. DoseInit => DoseTypeOK
  BY DEF DoseInit, DoseTypeOK
<1>2. DoseInv /\ DoseTypeOK /\ [DoseNext]_doseVars => DoseTypeOK'
  <2> SUFFICES ASSUME DoseInv, DoseTypeOK, [DoseNext]_doseVars
               PROVE  DoseTypeOK'
    OBVIOUS
  <2>0. 0 \in 0..DoseCount /\ \A d \in Doses : d \in 0..DoseCount
    BY DoseAssumption DEF Doses
  <2>1. CASE AskDose
    <3>1. PICK profit \in [Doses -> 0..MaxProfit], report \in SupportReports,
               falsified \in BOOLEAN, sensitive \in BOOLEAN :
              \E draws \in Draws(report) :
              question' = [status |-> "asked", profit |-> profit, report |-> report, draws |-> draws,
                           falsified |-> falsified, sensitive |-> sensitive]
      BY <2>1 DEF AskDose
    <3>. QED  BY <2>1, <3>1 DEF AskDose, DoseTypeOK
  <2>2. CASE AbstainUnsupported \/ AbstainFalsified \/ AbstainNoGain
    <3>1. answer' = Reply("ABSTAIN", 0, {}) /\ question' = question
      BY <2>2 DEF AbstainUnsupported, AbstainFalsified, AbstainNoGain, Abstain
    <3>. QED  BY <2>0, <3>1 DEF DoseTypeOK, Reply
  <2>3. CASE Experiment
    <3>1. QuestionOK(question) /\ Projectable(question)
      BY <2>3, WeighableIs DEF Experiment
    <3>2. PICK arms \in ArmsOf(question) : answer' = Reply("EXPERIMENT", Pick(question), arms)
      BY <2>3 DEF Experiment
    <3>3. arms \subseteq Doses
      BY <3>2 DEF ArmsOf, TopTwo, Robust, Feasible
    <3>4. Pick(question) \in Doses
      BY <3>1, PickIsBest DEF Feasible
    <3>. QED  BY <2>0, <2>3, <3>2, <3>3, <3>4 DEF Experiment, DoseTypeOK, Reply
  <2>4. CASE Act
    <3>1. QuestionOK(question) /\ Projectable(question)
      BY <2>4, WeighableIs DEF Act
    <3>2. Pick(question) \in Doses
      BY <3>1, PickIsBest DEF Feasible
    <3>. QED  BY <2>0, <2>4, <3>2 DEF Act, DoseTypeOK, Reply
  <2>5. CASE RaiseEmptyRange
    BY <2>0, <2>5 DEF RaiseEmptyRange, DoseTypeOK, Reply
  <2>6. CASE UNCHANGED doseVars
    BY <2>6 DEF doseVars, DoseTypeOK
  <2>. QED  BY <2>1, <2>2, <2>3, <2>4, <2>5, <2>6 DEF DoseNext
<1>. QED  BY <1>1, <1>2, DoseInvariant, PTL DEF DoseSpec

-------------------------------------------------------------------------------
(* What the gates allow.                                                   *)

DossierOK(d) ==
    /\ d.kind = "v7" => d \in WorldDossiers("v7", 3..5)
    /\ d.kind = "v7_1" => d \in WorldDossiers("v7_1", 2..4)
    /\ d.kind = "row" => d \in RowDossiers
    /\ d.kind = "stability" => d \in StabilityDossiers
    /\ d.kind = "selection" => d \in SelectionDossiers
    /\ d.kind = "scorecard" => d \in ScorecardDossiers

GateInv ==
    /\ dossier = Undecided => ruling = Undecided
    /\ DossierOK(dossier)
    /\ ExposureIsEarned

\* The first of those that do best on two scores exists in a finite set.
LEMMA FirstOfBest ==
    ASSUME NEW S, S \subseteq Nat, IsFiniteSet(S), S # {}, NEW score \in [S -> Int]
    PROVE  \E c \in S : \A e \in S : score[e] < score[c] \/ (score[e] = score[c] /\ c <= e)
<1> DEFINE Scores == {score[c] : c \in S}
<1>1. IsFiniteSet(Scores) /\ Scores \subseteq Int /\ Scores # {}
  <2>1. IsFiniteSet(Scores)
    BY FiniteImage
  <2>2. Scores \subseteq Int /\ Scores # {}
    OBVIOUS
  <2>. QED  BY <2>1, <2>2
<1>2. PICK most \in Scores : \A y \in Scores : most >= y
  <2>. HIDE DEF Scores
  <2>. QED  BY <1>1, GreatestOfFinite
<1> DEFINE Tops == {c \in S : score[c] = most}
<1>3. Tops \in SUBSET S /\ Tops # {}
  OBVIOUS
<1>4. IsFiniteSet(Tops) /\ Tops \subseteq Int
  <2>1. IsFiniteSet(Tops)
    <3>. HIDE DEF Tops
    <3>. QED  BY <1>3, FS_Subset
  <2>2. S \subseteq Int
    OBVIOUS
  <2>. HIDE DEF Tops
  <2>. QED  BY <1>3, <2>1, <2>2
<1>5. PICK c \in Tops : \A e \in Tops : c <= e
  <2>. HIDE DEF Tops
  <2>. QED  BY <1>3, <1>4, LeastOfFinite
<1>6. ASSUME NEW e \in S
      PROVE  score[e] < score[c] \/ (score[e] = score[c] /\ c <= e)
  <2>1. score[e] \in Int /\ most \in Int /\ most >= score[e]
    BY <1>2
  <2>. QED  BY <1>5, <2>1
<1>. QED  BY <1>6

LEMMA WorldEarned ==
    ASSUME DossierOK(dossier), EvaluateWorld \/ EvaluateCandidate \/ EvaluationFails
    PROVE  WorldsAreEarned'
<1> DEFINE d == dossier
<1>1. /\ d.support \subseteq Supports /\ d.checks \subseteq PersonalChecks /\ d.folds \in Int
      /\ d.enough \in BOOLEAN /\ d.anyone \in BOOLEAN
      /\ d.interval.lower \in -1..1 /\ d.interval.upper \in -1..1 /\ d.interval.lower <= d.interval.upper
  <2>1. d \in WorldDossiers("v7", 3..5) \/ d \in WorldDossiers("v7_1", 2..4)
    BY DEF DossierOK, EvaluateWorld, EvaluateCandidate, EvaluationFails, Asked
  <2>2. d.interval \in Intervals
    BY <2>1 DEF WorldDossiers
  <2>. QED  BY <2>1, <2>2 DEF WorldDossiers, Intervals
<1>2. dossier' = dossier
  BY DEF EvaluateWorld, EvaluateCandidate, EvaluationFails
<1>3. CASE EvaluateWorld
  <2> DEFINE supported == Supports \ d.support \subseteq {"costs"}
             ready == supported /\ "costs" \in d.support /\ d.enough
             viability == Viability(ready, d.interval)
             policy == IF viability = "INSUFFICIENT" THEN "BAU"
                       ELSE IF viability = "HARMFUL" THEN "AVOID"
                       ELSE IF Personal(d) THEN "INDIVIDUALIZED"
                       ELSE IF viability = "VIABLE" THEN "TREAT_ALL" ELSE "BAU"
             treated == policy = "TREAT_ALL" \/ (policy = "INDIVIDUALIZED" /\ d.anyone)
  <2>1. /\ ruling'.policy = policy
        /\ ruling'.decision = (IF treated THEN "ACT" ELSE IF policy = "AVOID" THEN "AVOID" ELSE "BAU_OR_TEST")
        /\ ruling'.treated <=> treated
    BY <1>3 DEF EvaluateWorld, Answer
  <2>2. ready => d.support = Supports
    BY <1>1
  <2>3. policy \in {"TREAT_ALL", "INDIVIDUALIZED"} => ready /\ d.interval.upper >= 0
    BY <1>1 DEF Viability
  <2>4. policy = "TREAT_ALL" => d.interval.lower = 1
    BY <1>1 DEF Viability
  <2>. QED  BY <1>1, <1>2, <2>1, <2>2, <2>3, <2>4 DEF WorldsAreEarned
<1>4. CASE EvaluateCandidate
  BY <1>1, <1>2, <1>4 DEF EvaluateCandidate, WorldsAreEarned, Answer, Viability, Promoted, Asked
<1>5. CASE EvaluationFails
  BY <1>2, <1>5 DEF EvaluationFails, WorldsAreEarned, Answer
<1>. QED  BY <1>3, <1>4, <1>5

LEMMA RowEarned ==
    ASSUME DossierOK(dossier), DecideRow
    PROVE  RowsAreEarned'
<1> DEFINE d == dossier
<1>1. /\ d.allowed \subseteq PolicyActions /\ 0 \in d.allowed /\ d.net \in [PolicyActions -> 0..MaxNet]
      /\ d.noise \in Nat /\ d.materiality \in Nat /\ d.rows \subseteq PolicyActions
  <2>1. d \in [kind : {"row"}, net : [PolicyActions -> 0..MaxNet],
               allowed : SUBSET PolicyActions, rows : SUBSET PolicyActions,
               noise : 0..MaxNet, materiality : 0..1] /\ 0 \in d.allowed
    BY DEF DossierOK, RowDossiers, DecideRow, Asked
  <2>2. /\ d.allowed \in SUBSET PolicyActions /\ d.rows \in SUBSET PolicyActions
        /\ d.net \in [PolicyActions -> 0..MaxNet] /\ d.noise \in 0..MaxNet /\ d.materiality \in 0..1
    BY <2>1
  <2>3. d.noise \in Nat /\ d.materiality \in Nat
    BY <2>2, GateAssumption
  <2>. QED  BY <2>1, <2>2, <2>3
<1>2. \A a \in d.allowed : d.net[a] \in Int
  <2>1. \A a \in PolicyActions : d.net[a] \in 0..MaxNet
    BY <1>1
  <2>2. \A a \in PolicyActions : d.net[a] \in Int
    BY <2>1
  <2>. QED  BY <1>1, <2>2
<1>3. /\ Chosen(d) \in d.allowed
      /\ \A b \in d.allowed : d.net[b] <= d.net[Chosen(d)]
  <2>1. d.allowed \subseteq Nat /\ IsFiniteSet(d.allowed) /\ d.allowed # {}
    BY <1>1, GateAssumption, FS_Subset
  <2>2. [a \in d.allowed |-> d.net[a]] \in [d.allowed -> Int]
    BY <1>2
  <2>p. PICK x \in d.allowed :
           \A b \in d.allowed : \/ [c \in d.allowed |-> d.net[c]][b] < [c \in d.allowed |-> d.net[c]][x]
                               \/ /\ [c \in d.allowed |-> d.net[c]][b] = [c \in d.allowed |-> d.net[c]][x]
                                  /\ x <= b
    BY <2>1, <2>2, FirstOfBest
  <2>3. \E a \in d.allowed : \A b \in d.allowed : d.net[b] < d.net[a] \/ (d.net[b] = d.net[a] /\ a <= b)
    BY <2>p
  <2>4. /\ Chosen(d) \in d.allowed
        /\ \A b \in d.allowed : d.net[b] < d.net[Chosen(d)] \/ d.net[b] = d.net[Chosen(d)]
    BY <2>3 DEF Chosen
  <2>. QED  BY <1>2, <2>4
<1>4. dossier' = dossier
  BY DEF DecideRow
<1> DEFINE a == Chosen(d)
           point == d.net[a] - d.net[0]
           act == a \in d.rows /\ point - d.noise > d.materiality
           test == a \in d.rows /\ point > d.materiality /\ ~act
<1>5. ruling' = IF a = 0 THEN Answer("BAU", 0, FALSE)
                ELSE IF a \notin d.rows THEN Answer("AVOID", 0, FALSE)
                ELSE IF act THEN Answer("ACT", a, TRUE)
                ELSE IF test THEN Answer("TEST", a, TRUE) ELSE Answer("BAU", 0, FALSE)
  BY DEF DecideRow
<1>6. point \in Int /\ d.net[a] \in Int /\ d.net[0] \in Int
  BY <1>1, <1>2, <1>3
<1>7. ASSUME NEW b \in (d.allowed \cap d.rows) \ {0}
      PROVE  d.net[b] - d.net[0] <= point /\ d.net[b] - d.net[0] \in Int
  BY <1>1, <1>2, <1>3, <1>6
<1>8. CASE a = 0
  BY <1>1, <1>3, <1>4, <1>5, <1>6, <1>7, <1>8 DEF RowsAreEarned, Answer
<1>9. CASE a # 0 /\ a \notin d.rows
  BY <1>1, <1>4, <1>5, <1>9 DEF RowsAreEarned, Answer
<1>10. CASE a # 0 /\ a \in d.rows /\ point > d.materiality
  <2>1. ruling'.policy = a
    BY <1>1, <1>5, <1>6, <1>10 DEF Answer
  <2>. QED  BY <1>1, <1>3, <1>4, <1>6, <1>7, <1>10, <2>1 DEF RowsAreEarned
<1>11. CASE a # 0 /\ a \in d.rows /\ ~(point > d.materiality)
  <2>1. ruling'.policy = 0
    BY <1>1, <1>5, <1>6, <1>11 DEF Answer
  <2>2. \A b \in (d.allowed \cap d.rows) \ {0} : ~(d.net[b] - d.net[0] > d.materiality)
    BY <1>1, <1>6, <1>7, <1>11
  <2>. QED  BY <1>1, <1>4, <2>1, <2>2 DEF RowsAreEarned
<1>. QED  BY <1>8, <1>9, <1>10, <1>11

LEMMA StabilityEarned ==
    ASSUME DossierOK(dossier), AssessCandidates
    PROVE  BoundsArePositive'
<1>1. dossier.flaws \subseteq Flaws /\ Consistent(dossier.flaws) /\ dossier' = dossier
  BY DEF DossierOK, StabilityDossiers, AssessCandidates, Asked
<1> SUFFICES ASSUME NEW g \in ruling'.acting \ ruling'.positive
             PROVE  /\ g \in {"existing_v72_fold_veto", "combined_economic"}
                    /\ g = "existing_v72_fold_veto" =>
                           "fold" \in dossier.flaws /\ "lower" \notin dossier.flaws
                    /\ g = "combined_economic" =>
                           "bootstrap_lower" \in dossier.flaws /\ "aipw" \notin dossier.flaws
  BY <1>1 DEF BoundsArePositive
<1>2. /\ g \in DOMAIN Conditions /\ Conditions[g] \cap dossier.flaws = {}
      /\ g \in DOMAIN Bounds => Bounds[g] \cap dossier.flaws # {}
  BY DEF AssessCandidates
<1>3. DOMAIN Conditions = DOMAIN Bounds
  BY DEF Conditions, Bounds
<1>. QED  BY <1>1, <1>2, <1>3 DEF Conditions, Bounds, Consistent

LEMMA SelectionEarned ==
    ASSUME DossierOK(dossier), SelectDevelopmentModel
    PROVE  SelectionIsCalibrated'
<1> DEFINE d == dossier
           below(e, c) == \/ d.value[e] < d.value[c]
                          \/ d.value[e] = d.value[c] /\ d.error[e] > d.error[c]
                          \/ d.value[e] = d.value[c] /\ d.error[e] = d.error[c] /\ c <= e
           S == Calibrated(d)
<1>1. /\ d.value \in [Candidates -> 0..2] /\ d.error \in [Candidates -> 0..2]
      /\ \A c \in Candidates : d.value[c] \in Nat /\ d.error[c] \in Nat
  BY DEF DossierOK, SelectionDossiers, SelectDevelopmentModel, Asked
<1>2. \E c \in Candidates : \A e \in Candidates : d.error[c] <= d.error[e]
  <2> DEFINE score == [c \in Candidates |-> -d.error[c]]
  <2>1. score \in [Candidates -> Int]
    BY <1>1
  <2>2. \E c \in Candidates : \A e \in Candidates : score[e] < score[c] \/ (score[e] = score[c] /\ c <= e)
    <3>. HIDE DEF score
    <3>. QED  BY <2>1, GateAssumption, FirstOfBest
  <2>. QED  BY <1>1, <2>2
<1>3. S \in SUBSET Candidates /\ S # {}
  BY <1>1, <1>2, GateAssumption DEF Calibrated
<1>4. S \subseteq Nat /\ IsFiniteSet(S)
  BY <1>3, GateAssumption, FS_Subset
\* A value counts for more than any difference of the errors, which are at most two.
<1>5. \E c \in S : \A e \in S : below(e, c)
  <2> DEFINE score == [c \in S |-> 3 * d.value[c] - d.error[c]]
  <2>1. \A c \in S : d.value[c] \in 0..2 /\ d.error[c] \in 0..2
    BY <1>1, <1>3
  <2>2. score \in [S -> Int]
    BY <2>1
  <2>3. PICK c \in S : \A e \in S : score[e] < score[c] \/ (score[e] = score[c] /\ c <= e)
    <3>. HIDE DEF score, S
    <3>. QED  BY <1>3, <1>4, <2>2, FirstOfBest
  <2>4. ASSUME NEW e \in S
        PROVE  below(e, c)
    <3>1. \/ 3 * d.value[e] - d.error[e] < 3 * d.value[c] - d.error[c]
          \/ 3 * d.value[e] - d.error[e] = 3 * d.value[c] - d.error[c] /\ c <= e
      BY <2>3
    <3>. QED  BY <2>1, <3>1
  <2>. QED  BY <2>4
<1>6. ruling' = [kind |-> "selected", model |-> CHOOSE c \in S : \A e \in S : below(e, c)] /\ dossier' = dossier
  BY DEF SelectDevelopmentModel
<1>7. ruling'.model \in S /\ \A e \in S : below(e, ruling'.model)
  BY <1>5, <1>6
<1>8. ASSUME NEW c \in Candidates, d.error[c] <= d.error[ruling'.model]
      PROVE  d.value[c] <= d.value[ruling'.model]
  <2>1. c \in S
    <3>1. /\ ruling'.model \in Candidates
          /\ \A e \in Candidates : d.error[ruling'.model] <= d.error[e] + Tolerance
      BY <1>7 DEF Calibrated
    <3>2. \A e \in Candidates : d.error[c] <= d.error[e] + Tolerance
      BY <1>1, <1>8, <3>1, GateAssumption
    <3>. QED  BY <3>2 DEF Calibrated
  <2>. QED  BY <1>1, <1>3, <1>7, <2>1
<1>. QED  BY <1>6, <1>7, <1>8 DEF SelectionIsCalibrated, Calibrated

LEMMA ComponentsCount == Cardinality(Components) = 7 /\ IsFiniteSet(Components)
<1> DEFINE C1 == {"treatment_overlap"}
           C2 == C1 \cup {"effective_sample_size"}
           C3 == C2 \cup {"estimator_agreement"}
           C4 == C3 \cup {"covariate_balance"}
           C5 == C4 \cup {"placebo_tests"}
           C6 == C5 \cup {"specification_robustness"}
           C7 == C6 \cup {"missingness"}
<1>1. Components = C7
  BY DEF Components
<1>2. IsFiniteSet(C2) /\ Cardinality(C2) = 2
  <2>1. IsFiniteSet(C1) /\ Cardinality(C1) = 1 /\ "effective_sample_size" \notin C1
    BY FS_Singleton
  <2>. QED  BY <2>1, FS_AddElement
<1>3. IsFiniteSet(C4) /\ Cardinality(C4) = 4
  <2>1. IsFiniteSet(C3) /\ Cardinality(C3) = 3
    BY <1>2, FS_AddElement
  <2>. QED  BY <2>1, FS_AddElement
<1>4. IsFiniteSet(C6) /\ Cardinality(C6) = 6
  <2>1. IsFiniteSet(C5) /\ Cardinality(C5) = 5
    BY <1>3, FS_AddElement
  <2>. QED  BY <2>1, FS_AddElement
<1>5. IsFiniteSet(C7) /\ Cardinality(C7) = 7
  BY <1>4, FS_AddElement
<1>. QED  BY <1>1, <1>5

LEMMA ScorecardEarned ==
    ASSUME DossierOK(dossier), Scorecard
    PROVE  dossier'.kind = "scorecard" /\ (ruling'.treated <=> \A c \in Components : dossier'[c] # "BAD")
<1> DEFINE d == dossier
           count(status) == Cardinality({c \in Components : d[c] = status})
           status == RecommendationStatus(d)
<1>1. d \in ScorecardDossiers /\ d.kind = "scorecard"
  BY DEF DossierOK, Scorecard, Asked
<1>2. \A c \in Components \ HardComponents : d[c] # "BAD"
  BY <1>1 DEF ScorecardDossiers, Components, HardComponents
<1>3. HardComponents \subseteq Components
  BY DEF HardComponents, Components
<1>4. ruling'.treated <=> status \notin {"INSUFFICIENT", "WEAK"}
  BY DEF Scorecard, Answer
<1>5. CASE \E c \in HardComponents : d[c] = "BAD"
  BY <1>3, <1>4, <1>5 DEF RecommendationStatus, Scorecard, Asked
<1>6. CASE ~\E c \in HardComponents : d[c] = "BAD"
  <2>1. {c \in Components : d[c] = "BAD"} = {}
    BY <1>2, <1>6
  <2>2. Cardinality({c \in Components : d[c] = "BAD"}) = 0
    BY <2>1, FS_EmptySet
  <2>3. status \in {"STRONG", "MODERATE"}
    BY <1>6, <2>2, ComponentsCount DEF RecommendationStatus
  <2>. QED  BY <1>4, <2>1, <2>3 DEF Scorecard, Asked
<1>. QED  BY <1>5, <1>6

\* Whatever a gate allows to be exposed, or selects, is earned by the evidence it was handed.
THEOREM GateSafe == GateSpec => []ExposureIsEarned
<1>1. GateInit => GateInv
  BY DEF GateInit, GateInv, DossierOK, ExposureIsEarned, WorldsAreEarned, RowsAreEarned, BoundsArePositive,
         SelectionIsCalibrated, Undecided
<1>2. GateInv /\ [GateNext]_gateVars => GateInv'
  <2> SUFFICES ASSUME GateInv, [GateNext]_gateVars
               PROVE  GateInv'
    OBVIOUS
  <2>1. CASE HandIn
    <3>1. ruling' = Undecided /\ ruling'.kind = "undecided"
      BY <2>1 DEF HandIn, GateInv, Undecided
    <3>2. DossierOK(dossier')
      BY <2>1 DEF HandIn, DossierOK, WorldDossiers, RowDossiers, StabilityDossiers, SelectionDossiers,
                  PromotionDossiers, ScorecardDossiers
    <3>. QED  BY <3>1, <3>2 DEF GateInv, ExposureIsEarned, WorldsAreEarned, RowsAreEarned, BoundsArePositive,
                  SelectionIsCalibrated, DossierOK
  <2>2. CASE EvaluateWorld \/ EvaluateCandidate \/ EvaluationFails
    <3>1. /\ dossier' = dossier /\ dossier.kind \in {"v7", "v7_1"} /\ dossier # Undecided
          /\ ruling'.kind = "answer"
      BY <2>2 DEF EvaluateWorld, EvaluateCandidate, EvaluationFails, Asked, Answer, Undecided
    <3>2. WorldsAreEarned'
      BY <2>2, WorldEarned DEF GateInv
    <3>. QED  BY <3>1, <3>2 DEF GateInv, ExposureIsEarned, RowsAreEarned, BoundsArePositive, SelectionIsCalibrated
  <2>3. CASE DecideRow
    <3>1. dossier' = dossier /\ dossier.kind = "row" /\ dossier # Undecided /\ ruling'.kind = "answer"
      BY <2>3 DEF DecideRow, Asked, Answer, Undecided
    <3>2. RowsAreEarned'
      BY <2>3, RowEarned DEF GateInv
    <3>. QED  BY <3>1, <3>2 DEF GateInv, ExposureIsEarned, WorldsAreEarned, BoundsArePositive, SelectionIsCalibrated
  <2>4. CASE AssessCandidates
    <3>1. dossier' = dossier /\ dossier.kind = "stability" /\ dossier # Undecided /\ ruling'.kind = "assessment"
      BY <2>4 DEF AssessCandidates, Asked, Undecided
    <3>2. BoundsArePositive'
      BY <2>4, StabilityEarned DEF GateInv
    <3>. QED  BY <3>1, <3>2 DEF GateInv, ExposureIsEarned, WorldsAreEarned, RowsAreEarned, SelectionIsCalibrated
  <2>5. CASE SelectDevelopmentModel
    <3>1. dossier' = dossier /\ dossier.kind = "selection" /\ dossier # Undecided /\ ruling'.kind = "selected"
      BY <2>5 DEF SelectDevelopmentModel, Asked, Undecided
    <3>2. SelectionIsCalibrated'
      BY <2>5, SelectionEarned DEF GateInv
    <3>. QED  BY <3>1, <3>2 DEF GateInv, ExposureIsEarned, WorldsAreEarned, RowsAreEarned, BoundsArePositive
  <2>6. CASE PromoteCustomerFacingGate
    <3>1. dossier' = dossier /\ dossier.kind = "promotion" /\ dossier # Undecided /\ ruling'.kind = "promotion"
      BY <2>6 DEF PromoteCustomerFacingGate, Asked, Undecided
    <3>. QED  BY <3>1 DEF GateInv, ExposureIsEarned, WorldsAreEarned, RowsAreEarned, BoundsArePositive,
                          SelectionIsCalibrated
  <2>7. CASE Scorecard
    <3>1. dossier' = dossier /\ dossier.kind = "scorecard" /\ dossier # Undecided /\ ruling'.kind = "answer"
      BY <2>7 DEF Scorecard, Asked, Answer, Undecided
    <3>2. ruling'.treated <=> \A c \in Components : dossier'[c] # "BAD"
      BY <2>7, ScorecardEarned DEF GateInv
    <3>. QED  BY <3>1, <3>2 DEF GateInv, ExposureIsEarned, WorldsAreEarned, RowsAreEarned, BoundsArePositive,
                          SelectionIsCalibrated
  <2>8. CASE UNCHANGED gateVars
    BY <2>8 DEF gateVars, GateInv, ExposureIsEarned, WorldsAreEarned, RowsAreEarned, BoundsArePositive,
                SelectionIsCalibrated
  <2>. QED  BY <2>1, <2>2, <2>3, <2>4, <2>5, <2>6, <2>7, <2>8 DEF GateNext
<1>3. GateInv => ExposureIsEarned
  BY DEF GateInv
<1>. QED  BY <1>1, <1>2, <1>3, PTL DEF GateSpec

\* A dossier has its kind, and no ruling comes before it.
THEOREM GateTyped == GateSpec => []GateTypeOK
<1>1. GateInit => GateTypeOK
  BY DEF GateInit, GateTypeOK, Undecided
<1>2. GateTypeOK /\ [GateNext]_gateVars => GateTypeOK'
  <2> SUFFICES ASSUME GateTypeOK, [GateNext]_gateVars
               PROVE  GateTypeOK'
    OBVIOUS
  <2>1. CASE HandIn
    <3>1. dossier'.kind \in {"v7", "v7_1", "row", "stability", "selection", "promotion", "scorecard"}
      BY <2>1 DEF HandIn, WorldDossiers, RowDossiers, StabilityDossiers, SelectionDossiers,
                  PromotionDossiers, ScorecardDossiers
    <3>2. dossier' # Undecided
      BY <3>1 DEF Undecided
    <3>. QED  BY <3>1, <3>2 DEF GateTypeOK
  <2>2. CASE \/ EvaluateWorld \/ EvaluateCandidate \/ EvaluationFails \/ DecideRow \/ AssessCandidates
             \/ SelectDevelopmentModel \/ PromoteCustomerFacingGate \/ Scorecard
    <3>1. dossier' = dossier /\ dossier.kind # "undecided"
      BY <2>2 DEF EvaluateWorld, EvaluateCandidate, EvaluationFails, DecideRow, AssessCandidates,
                  SelectDevelopmentModel, PromoteCustomerFacingGate, Scorecard, Asked
    <3>2. dossier # Undecided
      BY <3>1 DEF Undecided
    <3>. QED  BY <3>1, <3>2 DEF GateTypeOK
  <2>3. CASE UNCHANGED gateVars
    BY <2>3 DEF gateVars, GateTypeOK
  <2>. QED  BY <2>1, <2>2, <2>3 DEF GateNext
<1>. QED  BY <1>1, <1>2, PTL DEF GateSpec

-------------------------------------------------------------------------------
(* The weekly cards.                                                       *)

\* The reservation behind a card.
Behind(c) == [week |-> c.week, action |-> c.action, amount |-> c.exposure * c.downside]

\* Every card that exposes somebody and is not mature has a reservation, a week has one card, and the
\* ledger is within the budgets.
CardInv ==
    /\ CardTypeOK
    /\ IsFiniteSet(reserved) /\ IsFiniteSet(cards)
    /\ \A r \in reserved : r.week <= week
    /\ \A c \in cards : c.week <= week
    /\ \A c, d \in cards : c.week = d.week => c = d
    /\ \A c \in AtRisk : Behind(c) \in reserved
    /\ OpenAmount(reserved) <= CardMerchantBudget
    /\ \A action \in CardActions : OpenAmount({r \in reserved : r.action = action}) <= CardActionBudget

\* The sum of the reservations, whichever function holds their amounts.
LEMMA OpenAmounts ==
    ASSUME NEW S, IsFiniteSet(S), \A r \in S : r.amount \in Nat
    PROVE  /\ OpenAmount(S) \in Nat
           /\ \A w : (\A r \in S : w[r] = r.amount) => OpenAmount(S) = SumFunctionOnSet(w, S)
           /\ \A T \in SUBSET S : OpenAmount(T) <= OpenAmount(S)
           /\ OpenAmount({}) = 0
<1> DEFINE v(T) == [r \in T |-> r.amount]
<1>1. \A T \in SUBSET S : IsFiniteSet(T)
  BY FS_Subset
<1>2. \A T \in SUBSET S : \A w : (\A r \in T : w[r] = r.amount) => OpenAmount(T) = SumFunctionOnSet(w, T)
  <2> SUFFICES ASSUME NEW T \in SUBSET S, NEW w, \A r \in T : w[r] = r.amount
               PROVE  OpenAmount(T) = SumFunctionOnSet(w, T)
    OBVIOUS
  <2>1. \A r \in T : v(T)[r] = w[r]
    OBVIOUS
  <2>. HIDE DEF v
  <2>2. SumFunctionOnSet(v(T), T) = SumFunctionOnSet(w, T)
    BY <1>1, <2>1, SumSame
  <2>. QED  BY <2>2 DEF OpenAmount, v
<1>3. \A r \in S : v(S)[r] = r.amount /\ v(S)[r] \in Nat
  OBVIOUS
<1> HIDE DEF v
<1>4. OpenAmount(S) = SumFunctionOnSet(v(S), S) /\ SumFunctionOnSet(v(S), S) \in Nat
  BY <1>2, <1>3, SumType
<1>5. \A T \in SUBSET S : OpenAmount(T) = SumFunctionOnSet(v(S), T) /\ SumFunctionOnSet(v(S), T) <= SumFunctionOnSet(v(S), S)
  BY <1>2, <1>3, SumOfPart
<1>6. SumFunctionOnSet(v(S), {}) = 0 /\ OpenAmount({}) = SumFunctionOnSet(v(S), {})
  BY <1>5, SumUnfolds
<1>. QED  BY <1>2, <1>4, <1>5, <1>6

LEMMA OpenAmountAdds ==
    ASSUME NEW S, IsFiniteSet(S), \A r \in S : r.amount \in Nat, NEW x, x.amount \in Nat, x \notin S
    PROVE  OpenAmount(S \cup {x}) = OpenAmount(S) + x.amount
<1> DEFINE T == S \cup {x}
           v == [r \in T |-> r.amount]
<1>1. IsFiniteSet(T) /\ \A r \in T : v[r] = r.amount /\ v[r] \in Int
  BY FS_AddElement
<1>2. T \ {x} = S /\ x \in T
  OBVIOUS
<1>3. OpenAmount(T) = SumFunctionOnSet(v, T)
  BY DEF OpenAmount
<1> HIDE DEF T, v
<1>4. SumFunctionOnSet(v, T) = v[x] + SumFunctionOnSet(v, S)
  BY <1>1, <1>2, SumRemoves
<1>5. OpenAmount(S) = SumFunctionOnSet(v, S)
  <2>1. \A r \in S : v[r] = r.amount
    BY <1>1, <1>2
  <2>. QED  BY <2>1, OpenAmounts
<1>6. v[x] = x.amount /\ OpenAmount(S) \in Nat
  BY <1>1, <1>2, OpenAmounts
<1>. QED  BY <1>3, <1>4, <1>5, <1>6 DEF T

\* What cards expose is reserved: the sum over them is that of the reservations behind them.
LEMMA RiskIsReserved ==
    ASSUME CardAssumption, CardInv, NEW shown \in SUBSET AtRisk
    PROVE  CardRisk(shown) = OpenAmount({Behind(c) : c \in shown})
<1> DEFINE f == [c \in shown |-> Behind(c)]
           v == [c \in shown |-> c.exposure * c.downside]
           Image == {f[c] : c \in shown}
           w == [r \in Image |-> r.amount]
<1>1. IsFiniteSet(shown)
  BY FS_Subset DEF CardInv, AtRisk
<1>2. \A c \in shown : c.exposure \in Nat /\ c.downside \in Nat /\ c.exposure * c.downside \in Int
  <2> SUFFICES ASSUME NEW c \in shown
               PROVE  c.exposure \in Nat /\ c.downside \in Nat /\ c.exposure * c.downside \in Int
    OBVIOUS
  <2>1. c \in [week : 1..LastWeek, action : CardActions \cup {"BAU"},
               disposition : Dispositions, exposure : Nat, downside : Downsides \cup {1}]
    BY DEF CardInv, CardTypeOK, AtRisk
  <2>2. c.exposure \in Nat /\ c.downside \in Downsides \cup {1}
    BY <2>1
  <2>3. Downsides \cup {1} \subseteq Nat
    BY CardAssumption DEF CardAssumption
  <2>4. c.downside \in Nat
    BY <2>2, <2>3
  <2>. QED  BY <2>2, <2>4
<1>3. \A c \in shown : v[c] \in Int /\ w[f[c]] = v[c]
  BY <1>2 DEF Behind
<1>4. \A c, d \in shown : f[c] = f[d] => c = d
  BY DEF CardInv, AtRisk, Behind
<1>5. CardRisk(shown) = SumFunctionOnSet(v, shown) /\ OpenAmount(Image) = SumFunctionOnSet(w, Image)
  BY DEF CardRisk, OpenAmount
<1>6. Image = {Behind(c) : c \in shown}
  OBVIOUS
<1> HIDE DEF v, w, f
<1>7. SumFunctionOnSet(v, shown) = SumFunctionOnSet(w, Image)
  BY <1>1, <1>3, <1>4, SumOfImage
<1>. QED  BY <1>5, <1>6, <1>7

\* A budget over an amount per customer rounds down to customers.
LEMMA SafeExposureType ==
    ASSUME NEW eligible \in Int, NEW downside \in Nat \ {0}, NEW remaining \in Int, NEW w, CardAssumption
    PROVE  SafeExposure(eligible, downside, remaining, w) \in Int
<1> DEFINE cap == IF w = 1 THEN FirstCap ELSE LaterCap
           a == (eligible * cap) \div 100
           b == remaining \div downside
<1>1. cap \in Int
  BY DEF CardAssumption
<1>2. a \in Int /\ b \in Int
  BY <1>1
<1> HIDE DEF a, b
<1>3. IsFiniteSet({a, b})
  BY FinitePair
<1>4. Min({a, b}) \in {a, b}
  BY <1>2, <1>3, LeastOfFinite
<1>. QED  BY <1>2, <1>4 DEF SafeExposure, a, b

CardRecords == [week : {week'}, action : CardActions \cup {"BAU"}, disposition : Dispositions,
                exposure : Nat, downside : Downsides \cup {1}]

\* How a week ends: without a card, with one that exposes nobody, or with one that is reserved.
LEMMA WeekIs ==
    ASSUME CardAssumption, CardInv, Week
    PROVE  /\ week < LastWeek /\ week' = week + 1
           /\ \/ reserved' = StillOpen(week') /\ cards' = cards
              \/ \E card \in CardRecords :
                    card.exposure = 0 /\ reserved' = StillOpen(week') /\ cards' = cards \cup {card}
              \/ \E card \in CardRecords :
                    /\ card.exposure > 0 /\ card.action \in CardActions
                    /\ Reservable(StillOpen(week'), card.action, card.exposure * card.downside)
                    /\ reserved' = StillOpen(week') \cup {Behind(card)} /\ cards' = cards \cup {card}
<1> DEFINE open == StillOpen(week')
<1>1. week < LastWeek /\ week' = week + 1
  BY DEF Week
<1>2. CASE reserved' = open /\ UNCHANGED cards
  BY <1>1, <1>2
<1>3. CASE ~(reserved' = open /\ UNCHANGED cards)
  <2>1. PICK action \in CardActions \cup {"BAU"}, eligible \in Eligible, valid \in BOOLEAN,
             estimate \in {"below", "around", "point_above", "above"}, d \in Downsides :
          LET downside == IF estimate = "above" THEN 1 ELSE d
              wanted == DispositionFor(IF action = "BAU" THEN "around" ELSE estimate, valid)
              exposure == SafeExposure(eligible, downside,
                              Max({0, CardMerchantBudget - OpenAmount(open)}), week')
              amount == downside * exposure
              card(disposition, n) ==
                  [week |-> week', action |-> action, disposition |-> disposition,
                   exposure |-> n, downside |-> downside]
          IN  \/ /\ wanted \in Exposing /\ exposure > 0 /\ Reservable(open, action, amount)
                 /\ reserved' = open \cup {[week |-> week', action |-> action, amount |-> amount]}
                 /\ cards' = cards \cup {card(wanted, exposure)}
              \/ /\ wanted \in Exposing /\ exposure > 0 /\ ~Reservable(open, action, amount)
                 /\ reserved' = open
                 /\ cards' = cards \cup {card("NOT_ENOUGH_EVIDENCE", 0)}
              \/ /\ ~(wanted \in Exposing /\ exposure > 0)
                 /\ reserved' = open
                 /\ cards' = cards \cup {card(wanted, 0)}
    BY <1>3 DEF Week
  <2> DEFINE downside == IF estimate = "above" THEN 1 ELSE d
             wanted == DispositionFor(IF action = "BAU" THEN "around" ELSE estimate, valid)
             exposure == SafeExposure(eligible, downside,
                             Max({0, CardMerchantBudget - OpenAmount(open)}), week')
             card(disposition, n) ==
                  [week |-> week', action |-> action, disposition |-> disposition,
                   exposure |-> n, downside |-> downside]
  <2>2. downside \in Downsides \cup {1} /\ downside \in Int /\ wanted \in Dispositions
    BY DEF CardAssumption, DispositionFor, Dispositions
  <2>3. wanted \in Exposing => action \in CardActions
    BY DEF DispositionFor, Exposing
  <2>4. exposure \in Int
    <3>1. eligible \in Int /\ downside \in Nat \ {0}
      BY DEF CardAssumption
    <3>2. OpenAmount(open) \in Nat
      <4>1. IsFiniteSet(open) /\ \A r \in open : r.amount \in Nat
        BY FS_Subset DEF CardInv, CardTypeOK, StillOpen
      <4>. QED  BY <4>1, OpenAmounts
    <3>3. Max({0, CardMerchantBudget - OpenAmount(open)}) \in Int
      <4> DEFINE rest == CardMerchantBudget - OpenAmount(open)
      <4>1. rest \in Int
        BY <3>2 DEF CardAssumption
      <4>. HIDE DEF rest
      <4>2. IsFiniteSet({0, rest})
        BY FinitePair
      <4>3. Max({0, rest}) \in {0, rest}
        BY <4>1, <4>2, GreatestOfFinite
      <4>. QED  BY <4>1, <4>3 DEF rest
    <3>. HIDE DEF downside, open
    <3>. QED  BY <3>1, <3>3, SafeExposureType
  <2>5. "NOT_ENOUGH_EVIDENCE" \in Dispositions
    BY DEF Dispositions
  <2>. HIDE DEF open, downside, wanted, exposure
  <2>6. CASE reserved' = open /\ \E disposition \in Dispositions : cards' = cards \cup {card(disposition, 0)}
    <3>1. \A disposition \in Dispositions : card(disposition, 0) \in CardRecords /\ card(disposition, 0).exposure = 0
      BY <2>2 DEF CardRecords
    <3>. QED  BY <1>1, <2>6, <3>1 DEF open
  <2>7. CASE /\ wanted \in Exposing /\ exposure > 0 /\ Reservable(open, action, downside * exposure)
             /\ reserved' = open \cup {[week |-> week', action |-> action, amount |-> downside * exposure]}
             /\ cards' = cards \cup {card(wanted, exposure)}
    <3> DEFINE new == card(wanted, exposure)
    <3>1. new \in CardRecords /\ new.exposure > 0 /\ new.action \in CardActions
      BY <2>2, <2>3, <2>4, <2>7 DEF CardRecords
    <3>2. new.exposure * new.downside = downside * exposure /\ new.action = action
      BY <2>2, <2>4
    <3>3. Behind(new) = [week |-> week', action |-> action, amount |-> downside * exposure]
      BY <3>2 DEF Behind
    <3>4. Reservable(open, new.action, new.exposure * new.downside)
      BY <2>7, <3>2
    <3>. HIDE DEF new
    <3>5. reserved' = open \cup {Behind(new)} /\ cards' = cards \cup {new}
      BY <2>7, <3>3 DEF new
    <3>. QED  BY <1>1, <3>1, <3>4, <3>5 DEF open
  <2>. QED  BY <2>1, <2>2, <2>5, <2>6, <2>7 DEF downside, wanted, exposure
<1>. QED  BY <1>2, <1>3

\* What matures in a week leaves the ledger; what stays is within the budgets as before, and stands
\* for the cards that are at risk then.
LEMMA LedgerShrinks ==
    ASSUME CardAssumption, CardInv, week' = week + 1, NEW open, open = StillOpen(week')
    PROVE  /\ open \subseteq reserved /\ IsFiniteSet(open) /\ \A r \in open : r.amount \in Nat
           /\ OpenAmount(open) <= CardMerchantBudget
           /\ \A action \in CardActions : OpenAmount({r \in open : r.action = action}) <= CardActionBudget
           /\ \A c \in AtRisk : c.week + OutcomeWeeks > week' => Behind(c) \in open
<1>1. open \subseteq reserved
  BY DEF StillOpen
<1>2. IsFiniteSet(open) /\ IsFiniteSet(reserved) /\ \A r \in reserved : r.amount \in Nat
  BY <1>1, FS_Subset DEF CardInv, CardTypeOK
<1>3. OpenAmount(open) <= CardMerchantBudget
  <2>1. OpenAmount(open) \in Nat /\ OpenAmount(reserved) \in Nat /\ OpenAmount(open) <= OpenAmount(reserved)
    BY <1>1, <1>2, OpenAmounts
  <2>2. OpenAmount(reserved) <= CardMerchantBudget /\ CardMerchantBudget \in Nat
    BY DEF CardInv, CardAssumption
  <2>. QED  BY <2>1, <2>2
<1>4. ASSUME NEW action \in CardActions
      PROVE  OpenAmount({r \in open : r.action = action}) <= CardActionBudget
  <2> DEFINE of(S) == {r \in S : r.action = action}
  <2>1. of(open) \subseteq of(reserved) /\ of(reserved) \subseteq reserved
    BY <1>1
  <2>2. IsFiniteSet(of(reserved)) /\ IsFiniteSet(of(open)) /\ \A r \in of(reserved) : r.amount \in Nat
    BY <1>2, <2>1, FS_Subset
  <2>3. OpenAmount(of(reserved)) <= CardActionBudget /\ CardActionBudget \in Nat
    BY DEF CardInv, CardAssumption
  <2>. HIDE DEF of
  <2>4. OpenAmount(of(open)) \in Nat /\ OpenAmount(of(reserved)) \in Nat
    BY <2>1, <2>2, OpenAmounts
  <2>5. OpenAmount(of(open)) <= OpenAmount(of(reserved))
    BY <2>1, <2>2, OpenAmounts
  <2>6. OpenAmount(of(open)) <= CardActionBudget
    BY <2>3, <2>4, <2>5
  <2>. QED  BY <2>6 DEF of
<1>5. \A c \in AtRisk : c.week + OutcomeWeeks > week' => Behind(c) \in open
  BY DEF CardInv, StillOpen, Behind
<1>. QED  BY <1>1, <1>2, <1>3, <1>4, <1>5

LEMMA CardStep == ASSUME CardAssumption, CardInv, [Week]_cardVars PROVE CardInv'
<1>1. CASE UNCHANGED cardVars
  BY <1>1 DEF cardVars, CardInv, CardTypeOK, AtRisk, OpenAmount
<1>2. CASE Week
  <2> DEFINE open == StillOpen(week')
  <2>1. week < LastWeek /\ week' = week + 1 /\ week \in Int /\ week' \in Int /\ week' \in 0..LastWeek
    BY <1>2, WeekIs DEF CardInv, CardTypeOK, CardAssumption
  <2>2. /\ open \subseteq reserved /\ IsFiniteSet(open) /\ \A r \in open : r.amount \in Nat
        /\ OpenAmount(open) <= CardMerchantBudget
        /\ \A action \in CardActions : OpenAmount({r \in open : r.action = action}) <= CardActionBudget
        /\ \A c \in AtRisk : c.week + OutcomeWeeks > week' => Behind(c) \in open
    BY <2>1, LedgerShrinks
  <2> HIDE DEF open
  <2>3. \A r \in open : r.week <= week /\ r.week \in Int
    BY <2>2 DEF CardInv, CardTypeOK
  <2>4. open \subseteq [week : 1..LastWeek, action : CardActions, amount : Nat]
    BY <2>2 DEF CardInv, CardTypeOK
  <2>5. ASSUME reserved' = open, NEW card \in CardRecords, card.exposure = 0, cards' \in {cards, cards \cup {card}}
        PROVE  CardInv'
    <3>1. cards' \subseteq cards \cup {card} /\ IsFiniteSet(cards')
      BY <2>5, FS_AddElement DEF CardInv
    <3>2. CardTypeOK'
      BY <2>1, <2>4, <2>5, <3>1 DEF CardInv, CardTypeOK, CardRecords
    <3>3. \A c \in cards' : c.week <= week'
      BY <2>1, <3>1 DEF CardInv, CardTypeOK, CardRecords
    <3>4. \A c, d \in cards' : c.week = d.week => c = d
      BY <2>1, <3>1 DEF CardInv, CardTypeOK, CardRecords
    <3>5. \A c \in AtRisk' : Behind(c) \in reserved'
      <4> SUFFICES ASSUME NEW c \in AtRisk'
                   PROVE  Behind(c) \in open
        BY <2>5
      <4>1. c \in cards /\ c.disposition \in Exposing /\ c.exposure > 0 /\ c.week + OutcomeWeeks > week'
        BY <2>5, <3>1 DEF AtRisk
      <4>2. c.week \in Int /\ OutcomeWeeks \in Int
        BY <4>1 DEF CardInv, CardTypeOK, CardAssumption
      <4>3. c \in AtRisk
        BY <2>1, <4>1, <4>2 DEF AtRisk
      <4>. QED  BY <2>2, <4>1, <4>3
    <3>6. \A r \in reserved' : r.week <= week'
      BY <2>1, <2>3, <2>5
    <3>7. IsFiniteSet(reserved') /\ OpenAmount(reserved') <= CardMerchantBudget
      BY <2>2, <2>5
    <3>8. \A action \in CardActions : OpenAmount({r \in reserved' : r.action = action}) <= CardActionBudget
      BY <2>2, <2>5
    <3>9. OpenAmount(reserved)' = OpenAmount(reserved')
          /\ \A action : OpenAmount({r \in reserved : r.action = action})' = OpenAmount({r \in reserved' : r.action = action})
      BY DEF OpenAmount
    <3>. QED  BY <3>1, <3>2, <3>3, <3>4, <3>5, <3>6, <3>7, <3>8, <3>9 DEF CardInv, Behind
  <2>6. ASSUME NEW card \in CardRecords,
               card.exposure > 0, card.action \in CardActions,
               Reservable(open, card.action, card.exposure * card.downside),
               reserved' = open \cup {Behind(card)}, cards' = cards \cup {card}
        PROVE  CardInv'
    <3> DEFINE new == Behind(card)
    <3>1. /\ card.week = week' /\ card.exposure \in Nat /\ card.downside \in Nat
          /\ card.exposure * card.downside \in Nat
      <4>1. Downsides \cup {1} \subseteq Nat
        BY CardAssumption DEF CardAssumption
      <4>2. card.week = week' /\ card.exposure \in Nat /\ card.downside \in Nat
        BY <4>1 DEF CardRecords
      <4>. QED  BY <4>2
    <3>2. new.week = week' /\ new.action = card.action /\ new.amount = card.exposure * card.downside
      BY <3>1 DEF Behind
    <3>3. new \in [week : 1..LastWeek, action : CardActions, amount : Nat]
      <4>1. week' \in 1..LastWeek
        BY <2>1 DEF CardInv, CardTypeOK
      <4>. QED  BY <2>6, <3>1, <4>1 DEF Behind
    <3> HIDE DEF new
    <3>4. new \notin open /\ new.amount \in Nat
      BY <2>1, <2>3, <3>1, <3>2
    <3>5. reserved' = open \cup {new} /\ IsFiniteSet(reserved') /\ IsFiniteSet(cards')
      BY <2>2, <2>6, FS_AddElement DEF CardInv, new
    <3>6. CardTypeOK'
      BY <2>1, <2>4, <2>6, <3>3, <3>5 DEF CardInv, CardTypeOK, CardRecords
    <3>7. \A c \in cards' : c.week <= week'
      BY <2>1, <2>6, <3>1 DEF CardInv, CardTypeOK
    <3>8. \A c, d \in cards' : c.week = d.week => c = d
      BY <2>1, <2>6, <3>1 DEF CardInv, CardTypeOK
    <3>9. \A c \in AtRisk' : Behind(c) \in reserved'
      <4> SUFFICES ASSUME NEW c \in AtRisk', c # card
                   PROVE  Behind(c) \in open
        BY <2>6, <3>5 DEF new
      <4>1. c \in cards /\ c.disposition \in Exposing /\ c.exposure > 0 /\ c.week + OutcomeWeeks > week'
        BY <2>6 DEF AtRisk
      <4>2. c.week \in Int /\ OutcomeWeeks \in Int
        BY <4>1 DEF CardInv, CardTypeOK, CardAssumption
      <4>3. c \in AtRisk
        BY <2>1, <4>1, <4>2 DEF AtRisk
      <4>. QED  BY <2>2, <4>1, <4>3
    <3>10. \A r \in reserved' : r.week <= week'
      BY <2>1, <2>3, <3>2, <3>5
    <3>11. OpenAmount(reserved') <= CardMerchantBudget
      <4>1. OpenAmount(open \cup {new}) = OpenAmount(open) + new.amount
        BY <2>2, <3>4, OpenAmountAdds
      <4>. QED  BY <2>6, <3>2, <3>5, <4>1 DEF Reservable
    <3>12. ASSUME NEW action \in CardActions
           PROVE  OpenAmount({r \in reserved' : r.action = action}) <= CardActionBudget
      <4> DEFINE of(S) == {r \in S : r.action = action}
      <4>1. CASE action # card.action
        <5>1. of(reserved') = of(open)
          BY <3>2, <3>5, <4>1
        <5>. HIDE DEF of
        <5>2. OpenAmount(of(reserved')) <= CardActionBudget
          BY <2>2, <5>1 DEF of
        <5>. QED  BY <5>2 DEF of
      <4>2. CASE action = card.action
        <5>1. of(reserved') = of(open) \cup {new} /\ new \notin of(open)
          BY <3>2, <3>4, <3>5, <4>2
        <5>2. IsFiniteSet(of(open)) /\ \A r \in of(open) : r.amount \in Nat
          BY <2>2, FS_Subset
        <5>3. OpenAmount(of(open)) + new.amount <= CardActionBudget
          BY <2>6, <3>2, <4>2 DEF Reservable
        <5>. HIDE DEF of
        <5>4. OpenAmount(of(open) \cup {new}) = OpenAmount(of(open)) + new.amount
          BY <3>4, <5>1, <5>2, OpenAmountAdds
        <5>5. OpenAmount(of(reserved')) <= CardActionBudget
          BY <5>1, <5>3, <5>4
        <5>. QED  BY <5>5 DEF of
      <4>. QED  BY <4>1, <4>2
    <3>13. OpenAmount(reserved)' = OpenAmount(reserved')
           /\ \A action : OpenAmount({r \in reserved : r.action = action})' = OpenAmount({r \in reserved' : r.action = action})
      BY DEF OpenAmount
    <3>. QED  BY <3>5, <3>6, <3>7, <3>8, <3>9, <3>10, <3>11, <3>12, <3>13 DEF CardInv, Behind
  <2>7. \E card : card \in CardRecords /\ card.exposure = 0
    <3> DEFINE card == [week |-> week', action |-> "BAU", disposition |-> "AVOID", exposure |-> 0, downside |-> 1]
    <3>1. card \in CardRecords /\ card.exposure = 0
      BY DEF CardRecords, Dispositions
    <3>. QED  BY <3>1
  <2>8. CASE reserved' = open /\ cards' = cards
    BY <2>5, <2>7, <2>8
  <2>. QED  BY <1>2, <2>5, <2>6, <2>8, WeekIs DEF open
<1>. QED  BY <1>1, <1>2

LEMMA CardInitial == ASSUME CardAssumption, CardInit PROVE CardInv
<1>1. reserved = {} /\ cards = {} /\ week = 0
  BY DEF CardInit
<1>2. IsFiniteSet({}) /\ {r \in {} : FALSE} = {}
  BY FS_EmptySet
<1>3. OpenAmount({}) = 0
  BY <1>2, OpenAmounts
<1>4. \A action : {r \in reserved : r.action = action} = {}
  BY <1>1
<1>. QED  BY <1>1, <1>2, <1>3, <1>4 DEF CardInv, CardTypeOK, CardAssumption, AtRisk

\* What the weekly cards rest on, in every reachable state.
THEOREM CardInvariant == CardSpec => []CardInv
<1>1. CardInit => CardInv
  BY CardAssumption, CardInitial
<1>2. CardInv /\ [Week]_cardVars => CardInv'
  BY CardAssumption, CardStep
<1>. QED  BY <1>1, <1>2, PTL DEF CardSpec

\* What the cards shown to the merchant expose before their outcomes are mature stays within the
\* budget of the merchant and of every action, for all budgets, downsides, weeks to maturity and
\* numbers of customers.
THEOREM CardsSafe == CardSpec => []CardsAreCovered
<1>1. CardInv => CardsAreCovered
  <2> SUFFICES ASSUME CardInv
               PROVE  CardsAreCovered
    OBVIOUS
  <2>1. \A S \in SUBSET reserved : IsFiniteSet(S) /\ \A r \in S : r.amount \in Nat
    BY FS_Subset DEF CardInv, CardTypeOK
  <2>2. CardRisk(AtRisk) <= CardMerchantBudget
    <3> DEFINE backing == {Behind(c) : c \in AtRisk}
    <3>1. CardRisk(AtRisk) = OpenAmount(backing)
      BY CardAssumption, RiskIsReserved
    <3>2. backing \subseteq reserved
      BY DEF CardInv
    <3>. HIDE DEF backing
    <3>3. OpenAmount(backing) <= OpenAmount(reserved) /\ OpenAmount(backing) \in Nat /\ OpenAmount(reserved) \in Nat
      BY <2>1, <3>2, OpenAmounts
    <3>4. OpenAmount(reserved) <= CardMerchantBudget /\ CardMerchantBudget \in Nat
      BY CardAssumption DEF CardInv, CardAssumption
    <3>. QED  BY <3>1, <3>3, <3>4
  <2>3. ASSUME NEW action \in CardActions
        PROVE  CardRisk({c \in AtRisk : c.action = action}) <= CardActionBudget
    <3> DEFINE shown == {c \in AtRisk : c.action = action}
               backing == {Behind(c) : c \in shown}
               ledger == {r \in reserved : r.action = action}
    <3>1. CardRisk(shown) = OpenAmount(backing)
      BY CardAssumption, RiskIsReserved
    <3>2. backing \subseteq ledger /\ ledger \subseteq reserved
      BY DEF CardInv, Behind
    <3>3. OpenAmount(ledger) <= CardActionBudget /\ CardActionBudget \in Nat
      BY CardAssumption DEF CardInv, CardAssumption
    <3>. HIDE DEF backing, ledger
    <3>4. OpenAmount(backing) <= OpenAmount(ledger) /\ OpenAmount(backing) \in Nat /\ OpenAmount(ledger) \in Nat
      BY <2>1, <3>2, OpenAmounts
    <3>. QED  BY <3>1, <3>3, <3>4
  <2>. QED  BY <2>2, <2>3 DEF CardsAreCovered
<1>. QED  BY <1>1, CardInvariant, PTL

-------------------------------------------------------------------------------
(***************************************************************************)
(* Proofs about WorldState, for all series, offices, exposures and days.   *)
(* What is shown of a day long past is of a series that is not revised, so *)
(* the first value that was published is what the offices say at any time. *)
(***************************************************************************)

DefinitionOf(series) == CHOOSE d \in Definitions : d.id = series

WorldTypes ==
    /\ WorldTypeOK
    /\ published \in [SeriesIds \X (0..day) -> Int]
    /\ revision # NoRevision =>
           /\ revision.on \in Nat /\ revision.value \in Int
           /\ \E d \in Definitions : revision.series = d.id /\ ~d.vintage_safe

\* What a signal says of a day, told by the first values that were published.
SignalIsKnown(s, as_of, retrieved, upto) ==
    LET d == DefinitionOf(s.series) IN
    /\ d \in Definitions /\ s.series = d.id
    /\ s.period \in 0..day
    /\ s.period + d.lag <= as_of
    /\ s.period = upto \/ s.period + d.lag = as_of
    /\ s.short_delta # 0 => s.period - 1 \in 0..day
    /\ as_of < retrieved - Year =>
           /\ d.vintage_safe
           /\ s.level = published[s.series, s.period]
           /\ s.short_delta # 0 => s.level - s.short_delta = published[s.series, s.period - 1]

ShownIsKnown == \A s \in Shown : SignalIsKnown(s, world.as_of, world.retrieved, world.cached.upto)

\* The levels of an exposure lie between those of its geographies.
WeightedWithin(exposure, states, levels) ==
    \A f \in DOMAIN levels :
        (\A g \in DOMAIN states : f \in DOMAIN states[g]) =>
            LET own == {states[g][f].level : g \in DOMAIN states} IN
            /\ Min(own) * Parts(exposure) <= levels[f]
            /\ levels[f] <= Max(own) * Parts(exposure)

LevelsAreWithin == world.kind = "exposure" => WeightedWithin(world.exposure, world.states, world.levels)

WorldInv == WorldTypes /\ ShownIsKnown /\ LevelsAreWithin

LEMMA DefinitionIs ==
    ASSUME NEW d \in Definitions
    PROVE  DefinitionOf(d.id) = d
<1>1. \A e \in Definitions : e.id = d.id => e = d
  BY WorldAssumption DEF WorldAssumption
<1>. QED  BY <1>1 DEF DefinitionOf

LEMMA DefinitionTypes ==
    ASSUME NEW d \in Definitions
    PROVE  d.lag \in Nat /\ d.from \in Nat /\ d.id \in SeriesIds
BY WorldAssumption DEF WorldAssumption, SeriesIds

LEMMA DayIs == ASSUME WorldTypes PROVE day \in Nat /\ day <= FinalDay
BY WorldAssumption DEF WorldTypes, WorldTypeOK, WorldDays, WorldAssumption

\* A value that is read is a number, and of a series that is not revised the first one published.
LEMMA ValueIs ==
    ASSUME WorldTypes, NEW d \in Definitions, NEW p \in 0..day
    PROVE  /\ Value(d, p) \in Int
           /\ d.vintage_safe => Value(d, p) = published[d.id, p]
<1>1. <<d.id, p>> \in SeriesIds \X (0..day) /\ published[d.id, p] \in Int
  <2>1. <<d.id, p>> \in SeriesIds \X (0..day)
    BY DefinitionTypes
  <2>. QED  BY <2>1 DEF WorldTypes
<1>2. CASE cached.revision # NoRevision /\ cached.revision.series = d.id /\ cached.revision.period = p
  <2>1. cached.revision = revision /\ revision # NoRevision
    BY <1>2 DEF WorldTypes, WorldTypeOK
  <2>2. PICK e \in Definitions : revision.series = e.id /\ ~e.vintage_safe
    BY <2>1 DEF WorldTypes
  <2>3. e = d
    BY <1>2, <2>1, <2>2, WorldAssumption DEF WorldAssumption
  <2>4. revision.value \in Int
    BY <2>1 DEF WorldTypes
  <2>. QED  BY <1>2, <2>1, <2>2, <2>3, <2>4 DEF Value
<1>3. CASE ~(cached.revision # NoRevision /\ cached.revision.series = d.id /\ cached.revision.period = p)
  BY <1>1, <1>3 DEF Value
<1>. QED  BY <1>2, <1>3

\* What the offices had said of a series that is not revised.
LEMMA SaidIs ==
    ASSUME WorldTypes, NEW d \in Definitions, d.vintage_safe, NEW p, NEW by
    PROVE  SaidOf(d.id, p, by) = published[d.id, p]
<1>1. ~(revision # NoRevision /\ revision.series = d.id)
  BY WorldAssumption DEF WorldTypes, WorldAssumption
<1>. QED  BY <1>1 DEF SaidOf

LEMMA LatestIs ==
    ASSUME WorldTypes, NEW d \in Definitions, NEW as_of \in Nat, History(d, as_of) # {}
    PROVE  LET latest == Max(History(d, as_of)) IN
           /\ latest \in History(d, as_of) /\ latest \in 0..day
           /\ latest = cached.upto \/ latest + d.lag = as_of
<1> DEFINE latest == Max(History(d, as_of))
<1>1. d.from \in Nat /\ d.lag \in Nat /\ cached.upto \in 0..day /\ day \in Nat
  <2>1. cached.upto \in 0..day
    BY DEF WorldTypes, WorldTypeOK
  <2>. QED  BY <2>1, DefinitionTypes, DayIs
<1>2. History(d, as_of) = {p \in d.from..cached.upto : p + d.lag <= as_of}
  BY DEF History, AvailableAt
<1>3. History(d, as_of) \subseteq Int /\ IsFiniteSet(History(d, as_of))
  <2>1. d.from \in Int /\ cached.upto \in Int
    BY <1>1
  <2>2. IsFiniteSet(d.from..cached.upto)
    BY <2>1, FS_Interval
  <2>. QED  BY <1>1, <1>2, <2>2, FS_Subset
<1>4. latest \in History(d, as_of) /\ \A p \in History(d, as_of) : latest >= p
  BY <1>3, GreatestOfFinite
<1>. HIDE DEF latest
<1>5. latest \in d.from..cached.upto /\ latest + d.lag <= as_of
  BY <1>2, <1>4
<1>6. latest = cached.upto \/ latest + d.lag = as_of
  <2> SUFFICES ASSUME latest # cached.upto, latest + d.lag # as_of
               PROVE  FALSE
    OBVIOUS
  <2>1. latest + 1 \in History(d, as_of)
    BY <1>1, <1>2, <1>5
  <2>. QED  BY <1>1, <1>4, <1>5, <2>1
<1>7. latest \in 0..day
  BY <1>1, <1>5
<1>. QED  BY <1>4, <1>6, <1>7 DEF latest

LEMMA SignalIs ==
    ASSUME WorldTypes, NEW d \in Definitions, NEW as_of \in Nat, Testable(d, as_of), History(d, as_of) # {}
    PROVE  /\ Signal(d, as_of).level \in Int
           /\ SignalIsKnown(Signal(d, as_of), as_of, retrieved_at, cached.upto)
<1> DEFINE latest == Max(History(d, as_of))
           s == Signal(d, as_of)
<1>1. /\ latest \in History(d, as_of) /\ latest \in 0..day
      /\ latest = cached.upto \/ latest + d.lag = as_of
  BY LatestIs
<1>2. latest + d.lag <= as_of
  BY <1>1 DEF History, AvailableAt
<1>3. Value(d, latest) \in Int /\ (d.vintage_safe => Value(d, latest) = published[d.id, latest])
  <2>. HIDE DEF latest
  <2>. QED  BY <1>1, ValueIs
<1>4. /\ s.series = d.id /\ s.period = latest /\ s.level = Value(d, latest)
      /\ s.short_delta = IF latest - 1 \in History(d, as_of)
                         THEN Value(d, latest) - Value(d, latest - 1) ELSE 0
  BY DEF Signal
<1>5. ASSUME s.short_delta # 0
      PROVE  /\ latest - 1 \in 0..day
             /\ d.vintage_safe => s.level - s.short_delta = published[d.id, latest - 1]
  <2>. HIDE DEF latest, s
  <2>1. latest - 1 \in History(d, as_of) /\ s.short_delta = Value(d, latest) - Value(d, latest - 1)
    BY <1>4, <1>5
  <2>2. latest - 1 \in 0..day
    <3>1. latest - 1 \in d.from..cached.upto /\ d.from \in Nat
      BY <2>1, DefinitionTypes DEF History
    <3>2. day \in Int
      BY DayIs
    <3>. QED  BY <1>1, <3>1, <3>2
  <2>3. Value(d, latest - 1) \in Int /\ (d.vintage_safe => Value(d, latest - 1) = published[d.id, latest - 1])
    BY <2>2, ValueIs
  <2>4. s.level - s.short_delta = Value(d, latest - 1)
    <3>1. \A a, b \in Int : a - (a - b) = b
      OBVIOUS
    <3>. QED  BY <1>3, <1>4, <2>1, <2>3, <3>1
  <2>. QED  BY <2>2, <2>3, <2>4
<1>6. as_of < retrieved_at - Year => d.vintage_safe
  BY DEF Testable
<1>7. DefinitionOf(s.series) = d
  <2>. HIDE DEF s
  <2>. QED  BY <1>4, DefinitionIs
<1>. HIDE DEF latest, s
<1>8. SignalIsKnown(s, as_of, retrieved_at, cached.upto)
  BY <1>1, <1>2, <1>3, <1>4, <1>5, <1>6, <1>7 DEF SignalIsKnown
<1>. QED  BY <1>3, <1>4, <1>8 DEF s

LEMMA StateIs ==
    ASSUME WorldTypes, NEW as_of \in Nat, NEW g, NEW f \in DOMAIN StateOf(as_of, g)
    PROVE  /\ StateOf(as_of, g)[f].level \in Int
           /\ SignalIsKnown(StateOf(as_of, g)[f], as_of, retrieved_at, cached.upto)
<1> DEFINE d == CHOOSE d \in Usable(f, g, as_of) : TRUE
<1>1. Usable(f, g, as_of) # {} /\ StateOf(as_of, g)[f] = Signal(d, as_of)
  BY DEF StateOf
<1>2. d \in Usable(f, g, as_of)
  BY <1>1
<1>. HIDE DEF d
<1>3. d \in Definitions
  BY <1>2 DEF Usable, ResolveSeries
<1>4. Testable(d, as_of) /\ History(d, as_of) # {}
  BY <1>2 DEF Usable
<1>. QED  BY <1>1, <1>3, <1>4, SignalIs

\* Over several geographies the level of the exposure lies between theirs.
LEMMA ExposureIs ==
    ASSUME WorldTypes, NEW as_of \in Nat, NEW exposure \in Exposures, exposure # {}, NEW f,
           \A w \in exposure : f \in DOMAIN StateOf(as_of, w[1])
    PROVE  LET own == {StateOf(as_of, g)[f].level : g \in {w[1] : w \in exposure}} IN
           /\ Min(own) * Parts(exposure) <= ExposureLevel(as_of, exposure, f)
           /\ ExposureLevel(as_of, exposure, f) <= Max(own) * Parts(exposure)
<1> DEFINE signal(w) == StateOf(as_of, w[1])[f]
           own == {StateOf(as_of, g)[f].level : g \in {w[1] : w \in exposure}}
           weight == [w \in exposure |-> w[2]]
           value == [w \in exposure |-> signal(w).level]
           part == [w \in exposure |-> w[2] * signal(w).level]
           some == CHOOSE w \in exposure : TRUE
           level == ExposureLevel(as_of, exposure, f)
<1>1. IsFiniteSet(exposure) /\ \A w \in exposure : w[2] \in Nat
  BY WorldAssumption DEF WorldAssumption
<1>2. \A w \in exposure : signal(w).level \in Int
  BY StateIs
<1>3. own = {value[w] : w \in exposure}
  OBVIOUS
<1>4. own \subseteq Int /\ IsFiniteSet(own) /\ \A w \in exposure : value[w] \in own
  <2>1. IsFiniteSet({value[w] : w \in exposure})
    BY <1>1, FiniteImage
  <2>2. \A w \in exposure : value[w] \in Int
    BY <1>2
  <2>. HIDE DEF own, value
  <2>. QED  BY <1>3, <2>1, <2>2
<1>5. some \in exposure
  OBVIOUS
<1>6. /\ Min(own) \in Int /\ Max(own) \in Int
      /\ \A w \in exposure : Min(own) <= value[w] /\ value[w] <= Max(own)
  <2>. HIDE DEF own, value, some
  <2>1. own # {}
    BY <1>4, <1>5
  <2>2. Min(own) \in own /\ Max(own) \in own /\ \A y \in own : Min(own) <= y /\ Max(own) >= y
    BY <1>4, <2>1, GreatestOfFinite, LeastOfFinite
  <2>. QED  BY <1>4, <2>2
<1>7. {w \in exposure : f \in DOMAIN StateOf(as_of, w[1])} = exposure
  OBVIOUS
<1>8. \/ level = Parts(exposure) * value[some]
      \/ level = SumFunctionOnSet(part, exposure)
  <2> DEFINE entries == {w \in exposure : f \in DOMAIN StateOf(as_of, w[1])}
             of(those) == IF {signal(w).geography : w \in those} = {"US"}
                          THEN Parts(exposure) * signal(CHOOSE w \in those : TRUE).level
                          ELSE SumFunctionOnSet([w \in those |-> w[2] * signal(w).level], those)
  <2>1. level = IF {signal(w).geography : w \in exposure} = {"US"}
                THEN Parts(exposure) * signal(some).level
                ELSE SumFunctionOnSet(part, exposure)
    <3>1. level = of(entries)
      BY Zenon DEF ExposureLevel
    <3>2. of(entries) = of(exposure)
      <4>. HIDE DEF of, entries
      <4>. QED  BY <1>7 DEF entries
    <3>. QED  BY <3>1, <3>2
  <2>. HIDE DEF some, part
  <2>2. value[some] = signal(some).level
    BY <1>5
  <2>. QED  BY <2>1, <2>2
<1>9. /\ \A w \in exposure : weight[w] \in Nat /\ value[w] \in Int /\ part[w] = weight[w] * value[w]
      /\ Parts(exposure) = SumFunctionOnSet(weight, exposure)
  BY <1>1, <1>2 DEF Parts
<1>. HIDE DEF own, weight, value, part, some, level
<1>10. /\ Parts(exposure) \in Nat /\ SumFunctionOnSet(part, exposure) \in Int
       /\ Min(own) * Parts(exposure) <= SumFunctionOnSet(part, exposure)
       /\ SumFunctionOnSet(part, exposure) <= Max(own) * Parts(exposure)
  BY <1>1, <1>6, <1>9, SumBetween
<1>11. /\ Min(own) * Parts(exposure) <= value[some] * Parts(exposure)
       /\ value[some] * Parts(exposure) <= Max(own) * Parts(exposure)
       /\ value[some] * Parts(exposure) = Parts(exposure) * value[some]
  BY <1>5, <1>6, <1>9, <1>10, Products
<1>12. Min(own) * Parts(exposure) <= level /\ level <= Max(own) * Parts(exposure)
  BY <1>8, <1>10, <1>11
<1>. QED  BY <1>12 DEF own, level

\* The invariant says what the property says.
LEMMA KnownMeans == ASSUME WorldInv PROVE WorldAsItWasKnown
<1>1. ASSUME NEW s \in Shown
      PROVE  LET d == CHOOSE d \in Definitions : d.id = s.series IN
             /\ s.period + d.lag <= world.as_of
             /\ s.period = world.cached.upto \/ s.period + d.lag = world.as_of
             /\ world.as_of < world.retrieved - Year =>
                    /\ s.level = SaidOf(s.series, s.period, world.as_of)
                    /\ s.short_delta # 0 => s.level - s.short_delta = SaidOf(s.series, s.period - 1, world.as_of)
  <2> DEFINE d == DefinitionOf(s.series)
  <2>1. SignalIsKnown(s, world.as_of, world.retrieved, world.cached.upto)
    BY DEF WorldInv, ShownIsKnown
  <2>2. /\ d \in Definitions /\ s.series = d.id
        /\ s.period + d.lag <= world.as_of
        /\ s.period = world.cached.upto \/ s.period + d.lag = world.as_of
        /\ world.as_of < world.retrieved - Year =>
               /\ d.vintage_safe
               /\ s.level = published[s.series, s.period]
               /\ s.short_delta # 0 => s.level - s.short_delta = published[s.series, s.period - 1]
    BY <2>1 DEF SignalIsKnown
  <2>. HIDE DEF d
  <2>3. ASSUME d.vintage_safe, NEW p
        PROVE  SaidOf(s.series, p, world.as_of) = published[s.series, p]
    BY <2>2, <2>3, SaidIs DEF WorldInv
  <2>4. /\ s.period + d.lag <= world.as_of
        /\ s.period = world.cached.upto \/ s.period + d.lag = world.as_of
        /\ world.as_of < world.retrieved - Year =>
               /\ s.level = SaidOf(s.series, s.period, world.as_of)
               /\ s.short_delta # 0 => s.level - s.short_delta = SaidOf(s.series, s.period - 1, world.as_of)
    BY <2>2, <2>3
  <2>. QED  BY <2>4 DEF d, DefinitionOf
<1>2. world.kind = "exposure" => WeightedWithin(world.exposure, world.states, world.levels)
  BY DEF WorldInv, LevelsAreWithin
<1>. QED  BY <1>1, <1>2 DEF WorldAsItWasKnown, WeightedWithin

LEMMA WorldInitial == WorldInit => WorldInv
<1> SUFFICES ASSUME WorldInit
             PROVE  WorldInv
  OBVIOUS
<1>1. PICK values \in Observations : published = [x \in SeriesIds \X {0} |-> values[x[1]]]
  BY DEF WorldInit
<1>2. values \in [SeriesIds -> Int]
  BY WorldAssumption DEF WorldAssumption
<1>3. day = 0 /\ 0..0 = {0}
  BY DEF WorldInit
<1>4. published \in [SeriesIds \X (0..day) -> Int]
  BY <1>1, <1>2, <1>3
<1>5. WorldTypeOK
  <2>1. DOMAIN published = SeriesIds \X (0..day) /\ 0 \in 0..day /\ day \in WorldDays
    BY <1>3, <1>4, WorldAssumption DEF WorldAssumption, WorldDays
  <2>. QED  BY <2>1 DEF WorldTypeOK, WorldInit, NoState
<1>6. WorldTypes
  BY <1>4, <1>5 DEF WorldTypes, WorldInit
<1>7. Shown = {} /\ world.kind # "exposure"
  BY DEF WorldInit, NoState, Shown
<1>. QED  BY <1>6, <1>7 DEF WorldInv, ShownIsKnown, LevelsAreWithin

\* What was published stays, and what is known of it too.
Remembers ==
    /\ day \in Nat /\ day' \in Nat /\ day <= day'
    /\ \A d \in Definitions : \A p \in 0..day : published'[d.id, p] = published[d.id, p]

LEMMA KnownStays ==
    ASSUME Remembers, world' = world, ShownIsKnown
    PROVE  ShownIsKnown'
<1> SUFFICES ASSUME NEW s \in Shown'
             PROVE  SignalIsKnown(s, world.as_of, world.retrieved, world.cached.upto)'
  BY DEF ShownIsKnown
<1>1. Shown' = Shown
  BY DEF Shown
<1>2. SignalIsKnown(s, world.as_of, world.retrieved, world.cached.upto)
  BY <1>1 DEF ShownIsKnown
<1> DEFINE d == DefinitionOf(s.series)
<1>3. d \in Definitions /\ s.series = d.id /\ s.period \in 0..day /\ (s.short_delta # 0 => s.period - 1 \in 0..day)
  BY <1>2 DEF SignalIsKnown
<1>4. /\ published'[s.series, s.period] = published[s.series, s.period]
      /\ s.short_delta # 0 => published'[s.series, s.period - 1] = published[s.series, s.period - 1]
      /\ s.period \in 0..day' /\ (s.short_delta # 0 => s.period - 1 \in 0..day')
  <2>. HIDE DEF d
  <2>1. ASSUME NEW p \in 0..day
        PROVE  published'[s.series, p] = published[s.series, p] /\ p \in 0..day'
    <3>1. published'[d.id, p] = published[d.id, p]
      BY <1>3 DEF Remembers
    <3>2. day \in Nat /\ day' \in Nat /\ day <= day'
      BY DEF Remembers
    <3>3. p \in 0..day'
      BY <3>2
    <3>. QED  BY <1>3, <3>1, <3>3
  <2>. QED  BY <1>3, <2>1
<1>. QED  BY <1>2, <1>4 DEF SignalIsKnown, DefinitionOf

LEMMA LevelsStay == ASSUME world' = world, LevelsAreWithin PROVE LevelsAreWithin'
BY DEF LevelsAreWithin, WeightedWithin, Parts

LEMMA RememberedWhen ==
    ASSUME WorldTypes, day' = day, published' = published
    PROVE  Remembers
BY DayIs DEF Remembers

\* What a request answers is known, of whatever geography it is.
LEMMA AnswerIsKnown ==
    ASSUME WorldInv, NEW as_of \in 0..day, NEW g, NEW f \in DOMAIN StateOf(as_of, g)
    PROVE  SignalIsKnown(StateOf(as_of, g)[f], as_of, retrieved_at, cached.upto)
<1>1. as_of \in Nat
  BY DayIs DEF WorldInv
<1>. QED  BY <1>1, StateIs DEF WorldInv

LEMMA WorldStep == WorldInv /\ [WorldNext]_worldVars => WorldInv'
<1> SUFFICES ASSUME WorldInv, [WorldNext]_worldVars
             PROVE  WorldInv'
  OBVIOUS
<1>1. WorldTypes /\ WorldTypeOK /\ ShownIsKnown /\ LevelsAreWithin
  BY DEF WorldInv, WorldTypes
<1>2. day \in Nat /\ day <= FinalDay
  BY <1>1, DayIs
<1>3. ASSUME Remembers, world' = world, WorldTypes'
      PROVE  WorldInv'
  BY <1>1, <1>3, KnownStays, LevelsStay DEF WorldInv
<1>4. CASE NextDay
  <2>1. PICK values \in Observations :
            published' = [x \in SeriesIds \X (0..(day + 1)) |-> IF x[2] <= day THEN published[x] ELSE values[x[1]]]
    BY <1>4 DEF NextDay
  <2>2. day < FinalDay /\ day' = day + 1 /\ UNCHANGED <<revision, cached, retrieved_at, world>>
    BY <1>4 DEF NextDay
  <2>3. values \in [SeriesIds -> Int]
    BY WorldAssumption DEF WorldAssumption
  <2>4. published' \in [SeriesIds \X (0..day') -> Int]
    <3>1. \A x \in SeriesIds \X (0..(day + 1)) :
              /\ x[1] \in SeriesIds
              /\ x[2] <= day => x \in SeriesIds \X (0..day)
      BY <1>2
    <3>2. \A x \in SeriesIds \X (0..(day + 1)) : (IF x[2] <= day THEN published[x] ELSE values[x[1]]) \in Int
      BY <1>1, <2>3, <3>1 DEF WorldTypes
    <3>. QED  BY <2>1, <2>2, <3>2
  <2>5. Remembers
    <3>1. ASSUME NEW d \in Definitions, NEW p \in 0..day
          PROVE  published'[d.id, p] = published[d.id, p]
      <4>1. <<d.id, p>> \in SeriesIds \X (0..(day + 1)) /\ p <= day
        BY <1>2, DefinitionTypes
      <4>. QED  BY <2>1, <4>1
    <3>2. day' \in Nat /\ day <= day'
      BY <1>2, <2>2
    <3>. QED  BY <1>2, <3>1, <3>2, Zenon DEF Remembers
  <2>6. WorldTypes'
    <3>1. day' \in WorldDays
      BY <1>2, <2>2, WorldAssumption DEF WorldDays, WorldAssumption
    <3>2. DOMAIN published' = SeriesIds \X (0..day')
      BY <2>4
    <3>3. 0..day \subseteq 0..day'
      BY <1>2, <2>2
    <3>4. revision # NoRevision => revision.on <= day'
      BY <1>1, <1>2, <2>2 DEF WorldTypes, WorldTypeOK
    <3>5. WorldTypeOK'
      BY <1>1, <2>2, <3>1, <3>2, <3>3, <3>4 DEF WorldTypeOK
    <3>. QED  BY <1>1, <2>2, <2>4, <3>5 DEF WorldTypes
  <2>. QED  BY <1>3, <2>2, <2>5, <2>6
<1>5. ASSUME NEW d \in Definitions, NEW q \in d.from..day, Revise(d, q)
      PROVE  WorldInv'
  <2>1. /\ revision = NoRevision /\ ~d.vintage_safe
        /\ revision' = [series |-> d.id, period |-> q, on |-> day, value |-> 1 - published[d.id, q]]
        /\ UNCHANGED <<day, published, cached, retrieved_at, world>>
    BY <1>5 DEF Revise
  <2>2. q \in 0..day /\ d.id \in SeriesIds
    BY <1>2, DefinitionTypes
  <2>3. published[d.id, q] \in Int
    <3>1. <<d.id, q>> \in SeriesIds \X (0..day)
      BY <2>2
    <3>. QED  BY <1>1, <3>1 DEF WorldTypes
  <2>4. WorldTypeOK'
    <3>1. revision'.series = d.id /\ revision'.period = q /\ revision'.on = day
      BY <2>1
    <3>2. q <= day /\ day <= day
      BY <1>2, <2>2
    <3>3. cached.revision = NoRevision
      BY <1>1, <2>1 DEF WorldTypeOK
    <3>. QED  BY <1>1, <2>1, <2>2, <3>1, <3>2, <3>3 DEF WorldTypeOK
  <2>5. WorldTypes'
    <3>1. revision'.on = day /\ revision'.value = 1 - published[d.id, q] /\ revision'.series = d.id
      BY <2>1
    <3>2. 1 - published[d.id, q] \in Int
      <4>1. \A v \in Int : 1 - v \in Int
        OBVIOUS
      <4>. QED  BY <2>3, <4>1
    <3>. QED  BY <1>1, <1>2, <2>1, <2>4, <3>1, <3>2 DEF WorldTypes
  <2>. QED  BY <1>1, <1>3, <2>1, <2>5, RememberedWhen
<1>6. CASE RefreshCache
  <2>1. /\ cached' = [upto |-> day, revision |-> revision]
        /\ UNCHANGED <<day, published, revision, retrieved_at, world>>
    BY <1>6 DEF RefreshCache
  <2>2. WorldTypes'
    <3>1. cached'.upto \in 0..day' /\ cached'.revision \in {NoRevision, revision}
      BY <1>2, <2>1
    <3>. QED  BY <1>1, <2>1, <3>1 DEF WorldTypes, WorldTypeOK
  <2>. QED  BY <1>1, <1>3, <2>1, <2>2, RememberedWhen
<1>7. CASE MakeProvider
  <2>1. retrieved_at' = day /\ UNCHANGED <<day, published, revision, cached, world>>
    BY <1>7 DEF MakeProvider
  <2>2. WorldTypes'
    <3>1. retrieved_at' \in 0..day'
      BY <1>2, <2>1
    <3>. QED  BY <1>1, <2>1, <3>1 DEF WorldTypes, WorldTypeOK
  <2>. QED  BY <1>1, <1>3, <2>1, <2>2, RememberedWhen
<1>8. ASSUME NEW as_of \in 0..day, NEW g \in Requested, GetState(as_of, g)
      PROVE  WorldInv'
  <2>1. /\ world' = [kind |-> "state", as_of |-> as_of, geography |-> g, signals |-> StateOf(as_of, g),
                     retrieved |-> retrieved_at, cached |-> cached]
        /\ UNCHANGED <<day, published, revision, cached, retrieved_at>>
    BY <1>8 DEF GetState
  <2>2. /\ world'.kind = "state" /\ world'.as_of = as_of /\ world'.signals = StateOf(as_of, g)
        /\ world'.retrieved = retrieved_at /\ world'.cached = cached
    BY <2>1
  <2>3. WorldTypes'
    BY <1>1, <2>1, <2>2 DEF WorldTypes, WorldTypeOK
  <2>4. ShownIsKnown'
    <3>1. Shown' = {StateOf(as_of, g)[f] : f \in DOMAIN StateOf(as_of, g)}
      BY <2>2 DEF Shown
    <3>2. \A s \in Shown' : SignalIsKnown(s, as_of, retrieved_at, cached.upto)
      BY <3>1, AnswerIsKnown
    <3>. QED  BY <2>1, <2>2, <3>2 DEF ShownIsKnown, SignalIsKnown, DefinitionOf
  <2>5. LevelsAreWithin'
    BY <2>2 DEF LevelsAreWithin
  <2>. QED  BY <2>3, <2>4, <2>5 DEF WorldInv
<1>9. ASSUME NEW as_of \in 0..day, NEW exposure \in Exposures, GetExposureState(as_of, exposure)
      PROVE  WorldInv'
  <2> DEFINE places == {w[1] : w \in exposure}
             families == UNION {DOMAIN StateOf(as_of, w[1]) : w \in exposure}
             states == [g \in places |-> StateOf(as_of, g)]
             levels == [f \in families |-> ExposureLevel(as_of, exposure, f)]
  <2>1. /\ world' = [kind |-> "exposure", as_of |-> as_of, exposure |-> exposure, levels |-> levels,
                     states |-> states, retrieved |-> retrieved_at, cached |-> cached]
        /\ UNCHANGED <<day, published, revision, cached, retrieved_at>>
    BY <1>9 DEF GetExposureState
  <2>2. /\ world'.kind = "exposure" /\ world'.as_of = as_of /\ world'.exposure = exposure
        /\ world'.levels = levels /\ world'.states = states
        /\ world'.retrieved = retrieved_at /\ world'.cached = cached
    <3>. HIDE DEF states, levels
    <3>. QED  BY <2>1
  <2>3. WorldTypes'
    <3>. HIDE DEF states, levels
    <3>. QED  BY <1>1, <2>1, <2>2 DEF WorldTypes, WorldTypeOK
  <2>4. ShownIsKnown'
    <3>1. ASSUME NEW s \in Shown'
          PROVE  SignalIsKnown(s, as_of, retrieved_at, cached.upto)
      <4>1. PICK g \in DOMAIN states : s \in {states[g][f] : f \in DOMAIN states[g]}
        <5>. HIDE DEF states, levels
        <5>. QED  BY <2>2 DEF Shown
      <4>2. states[g] = StateOf(as_of, g)
        OBVIOUS
      <4>3. PICK f \in DOMAIN StateOf(as_of, g) : s = StateOf(as_of, g)[f]
        <5>. HIDE DEF states
        <5>. QED  BY <4>1, <4>2
      <4>. QED  BY <4>3, AnswerIsKnown
    <3>. HIDE DEF states, levels
    <3>. QED  BY <2>1, <2>2, <3>1 DEF ShownIsKnown, SignalIsKnown, DefinitionOf
  <2>5. LevelsAreWithin'
    <3>1. ASSUME NEW f \in families, \A g \in places : f \in DOMAIN states[g]
          PROVE  LET own == {states[g][f].level : g \in places} IN
                 /\ Min(own) * Parts(exposure) <= levels[f]
                 /\ levels[f] <= Max(own) * Parts(exposure)
      <4>1. as_of \in Nat /\ exposure # {} /\ \A w \in exposure : f \in DOMAIN StateOf(as_of, w[1])
        <5>1. as_of \in Nat /\ exposure # {}
          BY <1>2
        <5>2. \A w \in exposure : w[1] \in places
          OBVIOUS
        <5>3. \A g \in places : states[g] = StateOf(as_of, g)
          OBVIOUS
        <5>4. \A w \in exposure : f \in DOMAIN StateOf(as_of, w[1])
          <6>. HIDE DEF places, states
          <6>. QED  BY <3>1, <5>2, <5>3
        <5>. QED  BY <5>1, <5>4
      <4> DEFINE there == {StateOf(as_of, g)[f].level : g \in places}
                 own == {states[g][f].level : g \in places}
      <4>2. /\ Min(there) * Parts(exposure) <= ExposureLevel(as_of, exposure, f)
            /\ ExposureLevel(as_of, exposure, f) <= Max(there) * Parts(exposure)
        BY <1>1, <4>1, ExposureIs
      <4>3. own = there /\ levels[f] = ExposureLevel(as_of, exposure, f)
        OBVIOUS
      <4>4. /\ Min(own) * Parts(exposure) <= levels[f]
            /\ levels[f] <= Max(own) * Parts(exposure)
        <5>. HIDE DEF own, there, levels
        <5>. QED  BY <4>2, <4>3
      <4>. QED  BY <4>4
    <3>2. DOMAIN states = places /\ DOMAIN levels = families
      OBVIOUS
    <3>3. WeightedWithin(exposure, states, levels)
      <4>. HIDE DEF states, levels, places, families
      <4>. QED  BY <3>1, <3>2 DEF WeightedWithin
    <3>. HIDE DEF states, levels
    <3>4. WeightedWithin(world'.exposure, world'.states, world'.levels)
      BY <2>2, <3>3
    <3>. QED  BY <3>4 DEF LevelsAreWithin, WeightedWithin, Parts
  <2>. QED  BY <2>3, <2>4, <2>5 DEF WorldInv
<1>10. CASE EndState
  <2>1. world' = NoState /\ UNCHANGED <<day, published, revision, cached, retrieved_at>>
    BY <1>10 DEF EndState
  <2>2. world'.kind = "none"
    BY <2>1 DEF NoState
  <2>3. WorldTypes'
    BY <1>1, <2>1, <2>2 DEF WorldTypes, WorldTypeOK
  <2>4. Shown' = {} /\ LevelsAreWithin'
    BY <2>2 DEF Shown, LevelsAreWithin
  <2>. QED  BY <2>3, <2>4 DEF WorldInv, ShownIsKnown
<1>11. CASE UNCHANGED worldVars
  <2>1. UNCHANGED <<day, published, revision, cached, retrieved_at, world>>
    BY <1>11 DEF worldVars
  <2>2. WorldTypes'
    BY <1>1, <2>1 DEF WorldTypes, WorldTypeOK, WorldDays
  <2>. QED  BY <1>1, <1>3, <2>1, <2>2, RememberedWhen
<1>. QED  BY <1>4, <1>5, <1>6, <1>7, <1>8, <1>9, <1>10, <1>11 DEF WorldNext

\* Whatever the offices publish and revise, and whenever the cache is refreshed and a provider made.
THEOREM WorldInvariant == WorldSpec => []WorldInv
<1>. QED  BY WorldInitial, WorldStep, PTL DEF WorldSpec

\* A state of the world holds what was known on its day (CachedWorldStateProvider.get_state and
\* get_exposure_state): no observation that was not yet available, no revision that came later, and
\* over several geographies a level between theirs.
THEOREM WorldSafe == WorldSpec => []WorldAsItWasKnown
<1>. QED  BY WorldInvariant, KnownMeans, PTL


-------------------------------------------------------------------------------
(***************************************************************************)
(* Proofs about SequentialControl, for every freshness, cooldown, number   *)
(* of positives and length of the path.  The inductive invariant says that *)
(* the last pause is no older than any harm, and that the harms have a     *)
(* latest one: it is in the invariant because the largest element of a     *)
(* finite set needs an induction over the set otherwise.                   *)
(***************************************************************************)

-------------------------------------------------------------------------------
(* The inductive invariant.                                                *)

Latest(m) == m \in Harms /\ \A q \in Harms : m >= q

PauseCoversHarms == path # "INSUFFICIENT_SUPPORT" => \A p \in Harms : p <= lastPause

Unsupported == path = "INSUFFICIENT_SUPPORT" => allowed = None /\ Harms = {}

FutureUnknown == \A p \in 0..(PathLength - 1) : p >= now => evidence[p] = None

ControlInv ==
    /\ SequentialTypeOK
    /\ lastPause < now
    /\ FutureUnknown
    /\ Harms # {} => \E m \in 0..(PathLength - 1) : Latest(m)
    /\ PauseCoversHarms
    /\ Unsupported
    /\ ExposureFollowsHarm

-------------------------------------------------------------------------------
(* A period.                                                               *)

PathPeriods == 0..(PathLength - 1)

\* What is known in a period, and what is decided from it.
EvidenceWith(outcome) == IF allowed = None THEN evidence ELSE [evidence EXCEPT ![now] = outcome]

LEMMA DecisionTypes ==
  ASSUME NEW known, seqState \in LifecycleStates
  PROVE  /\ Decision(known).state \in LifecycleStates
         /\ Decision(known).allows \in {None, "full", "reduced"}
<1>1. CASE path = "INSUFFICIENT_SUPPORT" \/ CredibleHarm(known)
  BY <1>1 DEF Decision, LifecycleStates
<1>2. CASE ~(path = "INSUFFICIENT_SUPPORT" \/ CredibleHarm(known))
  BY <1>2 DEF Decision, LifecycleStates
<1> QED
  BY <1>1, <1>2

LEMMA HarmsPause ==
  ASSUME NEW known, path = "INSUFFICIENT_SUPPORT" \/ CredibleHarm(known)
  PROVE  Decision(known).state = "PAUSED" /\ Decision(known).allows = None
BY DEF Decision

\* A full batch is allowed in TEST, or with enough recent positives.
LEMMA FullAllowed ==
  ASSUME NEW known, seqState \in LifecycleStates, Decision(known).allows = "full"
  PROVE  /\ path # "INSUFFICIENT_SUPPORT" /\ ~CredibleHarm(known)
         /\ seqState = "TEST" \/ Cardinality(RecentPositive(known)) >= Positives
<1>1. path # "INSUFFICIENT_SUPPORT" /\ ~CredibleHarm(known)
  BY HarmsPause DEF None
<1> QED
  BY <1>1 DEF Decision, LifecycleStates, None

LEMMA PeriodStep == ControlInv /\ [SequentialNext]_sequentialVars => ControlInv'
<1> SUFFICES ASSUME ControlInv, [SequentialNext]_sequentialVars PROVE ControlInv'
  OBVIOUS
<1> USE SequentialAssumption
<1>1. CASE UNCHANGED sequentialVars
  BY <1>1 DEF ControlInv, sequentialVars, SequentialTypeOK, FutureUnknown, Latest, PauseCoversHarms,
              Unsupported, ExposureFollowsHarm, Harms
<1>2. CASE Period
  <2>1. PICK outcome \in Outcomes :
           /\ evidence' = EvidenceWith(outcome)
           /\ seqState' = Decision(EvidenceWith(outcome)).state
           /\ lastPause' = IF path # "INSUFFICIENT_SUPPORT" /\ CredibleHarm(EvidenceWith(outcome))
                           THEN now ELSE lastPause
           /\ allowed' = Assignable(Decision(EvidenceWith(outcome)).allows)
    BY <1>2 DEF Period, EvidenceWith
  <2> DEFINE k == EvidenceWith(outcome)
  <2>2. /\ now \in PathPeriods /\ now' = now + 1 /\ path' = path
        /\ path \in Paths /\ seqState \in LifecycleStates /\ lastPause \in -1..(PathLength - 1)
        /\ evidence \in [PathPeriods -> Outcomes \cup {None}]
        /\ lastPause < now
    BY <1>2 DEF Period, ControlInv, SequentialTypeOK, PathPeriods
  <2>3. k \in [PathPeriods -> Outcomes \cup {None}] /\ \A p \in PathPeriods : p # now => k[p] = evidence[p]
    BY <2>2 DEF EvidenceWith
  <2>4. \A p \in PathPeriods : p > now => k[p] = None
    BY <2>2, <2>3 DEF ControlInv, FutureUnknown, PathPeriods
  <2>5. Harms' = {p \in PathPeriods : k[p] = "harm"}
    BY <2>1, <2>3 DEF Harms
  <2>6. Harms = {p \in PathPeriods : evidence[p] = "harm"}
    BY <2>2 DEF Harms
  <2>7. \A p \in PathPeriods : k[p] # None => p \in Valid(k)
    BY <2>2, <2>3, <2>4 DEF Valid, PathPeriods
  <2>8. k[now] = "harm" => CredibleHarm(k)
    BY <2>2, <2>7 DEF CredibleHarm, PathPeriods, None
  <2>9. SequentialTypeOK' /\ (lastPause < now)'
    <3>1. seqState' \in LifecycleStates /\ Decision(k).allows \in {None, "full", "reduced"}
      BY <2>1, <2>2, DecisionTypes
    <3>2. allowed' \in {None, "full", "reduced"}
      BY <2>1, <3>1 DEF Assignable
    <3>3. lastPause' \in -1..(PathLength - 1) /\ lastPause' < now'
      BY <2>1, <2>2 DEF PathPeriods
    <3> QED
      BY <2>1, <2>2, <2>3, <3>1, <3>2, <3>3 DEF SequentialTypeOK, PathPeriods
  <2>10. FutureUnknown'
    BY <2>1, <2>2, <2>4 DEF FutureUnknown, PathPeriods
  <2>11. Harms' = Harms \/ k[now] = "harm"
    <3>1. evidence[now] # "harm"
      BY <2>2 DEF ControlInv, FutureUnknown, PathPeriods, None
    <3> QED
      BY <3>1, <2>2, <2>3, <2>5, <2>6
  <2>12. k[now] # "harm" => Harms' \subseteq Harms
    BY <2>2, <2>3, <2>5, <2>6
  <2>13. k[now] = "harm" => now \in Harms' /\ \A q \in Harms' : now >= q
    BY <2>2, <2>4, <2>5 DEF PathPeriods, None
  <2>14. (Harms # {} => \E m \in 0..(PathLength - 1) : Latest(m))'
    <3> SUFFICES ASSUME Harms' # {} PROVE \E m \in PathPeriods : m \in Harms' /\ \A q \in Harms' : m >= q
      BY DEF Latest, PathPeriods
    <3>1. CASE k[now] = "harm"
      BY <3>1, <2>2, <2>13
    <3>2. CASE k[now] # "harm"
      <4>1. Harms' = Harms
        BY <3>2, <2>11
      <4>2. Harms # {}
        BY <4>1
      <4>3. PICK m \in PathPeriods : m \in Harms /\ \A q \in Harms : m >= q
        BY <4>2 DEF ControlInv, Latest, PathPeriods
      <4> QED
        BY <4>1, <4>3
    <3> QED
      BY <3>1, <3>2
  <2>15. PauseCoversHarms'
    <3> SUFFICES ASSUME path # "INSUFFICIENT_SUPPORT", NEW p \in Harms' PROVE p <= lastPause'
      BY <2>2 DEF PauseCoversHarms
    <3>1. p \in PathPeriods /\ p <= now
      BY <2>2, <2>4, <2>5 DEF PathPeriods, None
    <3>2. CASE CredibleHarm(k)
      BY <3>1, <3>2, <2>1
    <3>3. CASE ~CredibleHarm(k)
      <4>1. p \in Harms
        BY <3>3, <2>8, <2>12
      <4> QED
        BY <4>1, <3>3, <2>1 DEF ControlInv, PauseCoversHarms
    <3> QED
      BY <3>2, <3>3
  <2>16. Unsupported'
    <3> SUFFICES ASSUME path = "INSUFFICIENT_SUPPORT" PROVE allowed' = None /\ Harms' = {}
      BY <2>2 DEF Unsupported
    <3>1. allowed' = None
      BY <2>1, HarmsPause DEF Assignable, None
    <3>2. k = evidence /\ Harms = {}
      BY DEF ControlInv, Unsupported, EvidenceWith
    <3> QED
      BY <3>1, <3>2, <2>5, <2>6
  <2>17. ExposureFollowsHarm'
    <3>1. now \in Harms' => seqState' = "PAUSED" /\ allowed' = None
      BY <2>1, <2>5, <2>8, HarmsPause DEF Assignable, None
    <3>2. ASSUME allowed' = "full", Harms' # {}
          PROVE  Cardinality({p \in PathPeriods : k[p] = "positive" /\ p > Max(Harms')}) >= Positives
      <4>1. Decision(k).allows = "full"
        BY <3>2, <2>1 DEF Assignable, None
      <4>2. /\ path # "INSUFFICIENT_SUPPORT" /\ ~CredibleHarm(k)
            /\ seqState = "TEST" \/ Cardinality(RecentPositive(k)) >= Positives
        BY <4>1, <2>2, FullAllowed
      <4>3. Harms' = Harms
        BY <4>2, <3>2, <2>8, <2>11
      <4>4. Max(Harms) \in Harms
        <5>1. PICK m \in Harms : \A q \in Harms : m >= q
          BY <4>3, <3>2 DEF ControlInv, Latest
        <5> QED
          BY <5>1 DEF Max
      <4>5. Max(Harms) <= lastPause /\ Max(Harms) \in PathPeriods /\ k[Max(Harms)] = "harm"
        BY <4>2, <4>3, <4>4, <2>5, <2>6 DEF ControlInv, PauseCoversHarms
      <4>6. seqState # "TEST"
        BY <4>2, <4>5, <2>7 DEF CredibleHarm, None
      <4> DEFINE after == {p \in PathPeriods : k[p] = "positive" /\ p > Max(Harms')}
      <4>7. RecentPositive(k) \subseteq after
        BY <4>3, <4>5, <2>2, <2>3 DEF RecentPositive, Valid, PathPeriods
      <4>8. IsFiniteSet(after)
        <5>1. IsFiniteSet(PathPeriods)
          BY FS_Interval DEF PathPeriods
        <5> QED
          BY <5>1, FS_Subset
      <4>9. Cardinality(RecentPositive(k)) <= Cardinality(after)
        BY <4>7, <4>8, FS_Subset
      <4>10. Cardinality(after) \in Nat /\ Cardinality(RecentPositive(k)) \in Nat
        BY <4>7, <4>8, FS_Subset, FS_CardinalityType
      <4> QED
        BY <4>2, <4>6, <4>9, <4>10
    <3>3. (now - 1)' = now /\ DOMAIN evidence' = PathPeriods
      BY <2>1, <2>2, <2>3 DEF PathPeriods
    <3> QED
      BY <3>1, <3>2, <3>3, <2>1 DEF ExposureFollowsHarm
  <2> QED
    BY <2>9, <2>10, <2>14, <2>15, <2>16, <2>17 DEF ControlInv
<1> QED
  BY <1>1, <1>2 DEF SequentialNext

-------------------------------------------------------------------------------
(* Theorems.                                                               *)

\* The last pause is no older than any harm the evidence shows, in every behaviour.
THEOREM ControlInvariant == SequentialSpec => []ControlInv
<1>1. SequentialInit => ControlInv
  <2> SUFFICES ASSUME SequentialInit PROVE ControlInv
    OBVIOUS
  <2>1. Harms = {}
    BY DEF SequentialInit, Harms, None
  <2>2. SequentialTypeOK
    BY SequentialAssumption DEF SequentialInit, SequentialTypeOK, LifecycleStates
  <2>3. ExposureFollowsHarm
    BY <2>1 DEF ExposureFollowsHarm
  <2> QED
    BY <2>1, <2>2, <2>3, SequentialAssumption
       DEF SequentialInit, ControlInv, FutureUnknown, PauseCoversHarms, Unsupported
<1> QED
  BY <1>1, PeriodStep, PTL DEF SequentialSpec

\* The period that shows a harm pauses the action, and a full batch after it rests on enough positive
\* batches observed since.
THEOREM ControlSafe == SequentialSpec => []ExposureFollowsHarm
<1>1. ControlInv => ExposureFollowsHarm
  BY DEF ControlInv
<1> QED
  BY <1>1, ControlInvariant, PTL

-------------------------------------------------------------------------------
(* The committed risk ledger.                                              *)

\* Reservations that are open, of the merchant and of a family.
OpenPeriods == {p \in Periods : reservations[p].status = "OPEN"}

RiskTypes ==
    /\ period \in Nat
    /\ stage \in {"settle", "decide", "assign"}
    /\ stage # "settle" => period < Horizon
    /\ reservations \in [Periods -> [status : Statuses, maturity : Nat]]
    /\ pending \subseteq [made : Periods, observable : BOOLEAN, sign : {-1, 1}]
    /\ earned \in Int
    /\ familyLoss \in [Families -> Nat]

RiskInv == RiskTypes /\ ExposureBounded

LEMMA WorstLossBounds ==
    WorstLoss \in Nat /\ \A gain \in Increments : -gain <= WorstLoss
<1> DEFINE Losses == {-gain : gain \in Increments} \cup {0}
<1>1. IsFiniteSet({-gain : gain \in Increments})
  <2>1. IsFiniteSet({[x \in Increments |-> -x][gain] : gain \in Increments})
    BY RiskAssumption, FiniteImage
  <2>. QED  BY <2>1
<1>2. IsFiniteSet(Losses) /\ Losses \subseteq Int
  BY <1>1, FS_AddElement, RiskAssumption
<1>3. Max(Losses) \in Losses /\ \A y \in Losses : Max(Losses) >= y
  BY <1>2, GreatestOfFinite
<1>4. Max(Losses) \in Int /\ Max(Losses) >= 0
  BY <1>2, <1>3
<1>. QED  BY <1>2, <1>3, <1>4, RiskAssumption DEF WorstLoss

\* The periods of a path are finite in number, and so are those with open reservations.
LEMMA PeriodsFinite ==
    ASSUME NEW S \in SUBSET Periods
    PROVE  IsFiniteSet(S) /\ Cardinality(S) \in Nat
<1>1. IsFiniteSet(Periods)
  BY RiskAssumption, FS_Interval DEF Periods
<1>. QED  BY <1>1, FS_Subset, FS_CardinalityType

LEMMA OpenOfLedger ==
    /\ UNION {Open(f) : f \in Families} = OpenPeriods
    /\ \A f \in Families : Open(f) = {p \in OpenPeriods : FamilyOf[p] = f}
<1>1. \A f \in Families : Open(f) = {p \in OpenPeriods : FamilyOf[p] = f}
  BY DEF Open, OpenPeriods
<1>2. \A p \in OpenPeriods : FamilyOf[p] \in Families
  BY RiskAssumption DEF OpenPeriods
<1>3. \A p \in OpenPeriods : p \in Open(FamilyOf[p])
  BY <1>2 DEF Open, OpenPeriods
<1>4. UNION {Open(f) : f \in Families} \subseteq OpenPeriods
  BY <1>1
<1>5. OpenPeriods \subseteq UNION {Open(f) : f \in Families}
  BY <1>2, <1>3
<1>. QED  BY <1>1, <1>4, <1>5

\* Fewer reservations, less at risk.
LEMMA RiskShrinks ==
    ASSUME NEW S \in SUBSET Periods, NEW T \in SUBSET S
    PROVE  BatchRisk * Cardinality(T) <= BatchRisk * Cardinality(S)
<1>1. Cardinality(T) <= Cardinality(S) /\ Cardinality(T) \in Nat /\ Cardinality(S) \in Nat
  BY PeriodsFinite, FS_Subset
<1>. QED  BY <1>1, RiskAssumption

\* One reservation more puts the risk of one batch more at stake, at most.
LEMMA RiskGrows ==
    ASSUME NEW S \in SUBSET Periods, NEW p \in Periods
    PROVE  BatchRisk * Cardinality(S \cup {p}) <= BatchRisk * Cardinality(S) + BatchRisk
<1>1. Cardinality(S \cup {p}) <= Cardinality(S) + 1 /\ Cardinality(S) \in Nat /\ Cardinality(S \cup {p}) \in Nat
  BY PeriodsFinite, FS_AddElement
<1>. QED  BY <1>1, RiskAssumption

LEMMA RiskTypesStep ==
    ASSUME RiskTypes, [RiskNext]_riskVars
    PROVE  RiskTypes'
<1> USE DEF RiskTypes
<1>1. CASE Settle
  <2>1. PICK batch \in pending : /\ reservations' = [reservations EXCEPT ![batch.made] = Released(batch)]
                                 /\ pending' = pending \ {batch}
    BY <1>1 DEF Settle
  <2>2. Released(batch) \in [status : Statuses, maturity : Nat]
    BY DEF Released, Statuses
  <2>. QED  BY <1>1, <2>1, <2>2 DEF Settle
<1>2. CASE Settled
  BY <1>2, RiskAssumption DEF Settled
<1>3. CASE Decide
  BY <1>3 DEF Decide
<1>4. CASE AssignBatch
  <2>1. PICK delay \in Nat, gain \in Increments :
            /\ reservations' = [reservations EXCEPT ![period] = [status |-> "OPEN", maturity |-> period + delay]]
            /\ pending' = pending \cup {
                   [made |-> period, sign |-> Sign(gain),
                    observable |-> ~(scenario = "MISSING_RETURNS" /\ period >= MissingFrom)]}
            /\ earned' = earned + gain
            /\ familyLoss' = [familyLoss EXCEPT ![FamilyOf[period]] = @ + (IF gain < 0 THEN -gain ELSE 0)]
    BY <1>4, RiskAssumption DEF AssignBatch
  <2>2. period \in Periods /\ gain \in Int /\ FamilyOf[period] \in Families
    BY <1>4, RiskAssumption DEF AssignBatch, Periods
  <2>3. [made |-> period, sign |-> Sign(gain),
         observable |-> ~(scenario = "MISSING_RETURNS" /\ period >= MissingFrom)]
            \in [made : Periods, observable : BOOLEAN, sign : {-1, 1}]
    BY <2>2 DEF Sign
  <2>4. pending' \subseteq [made : Periods, observable : BOOLEAN, sign : {-1, 1}]
    BY <2>1, <2>3
  <2>5. reservations' \in [Periods -> [status : Statuses, maturity : Nat]]
    BY <2>1, <2>2 DEF Statuses
  <2>6. familyLoss' \in [Families -> Nat] /\ earned' \in Int
    BY <2>1, <2>2
  <2>. QED  BY <1>4, <2>4, <2>5, <2>6 DEF AssignBatch, NextPeriod
<1>5. CASE WithholdBatch
  BY <1>5 DEF WithholdBatch, NextPeriod
<1>6. CASE UNCHANGED riskVars
  BY <1>6 DEF riskVars
<1>. QED  BY <1>1, <1>2, <1>3, <1>4, <1>5, <1>6 DEF RiskNext

\* What is at risk, with the open reservations named.
ExposureOf(open, gained, losses) ==
    /\ BatchRisk * Cardinality(open) <= MerchantBudget
    /\ BatchRisk * Cardinality(open) - gained <= MerchantBudget + WorstLoss
    /\ \A f \in Families :
           /\ BatchRisk * Cardinality({p \in open : FamilyOf[p] = f}) <= FamilyBudget
           /\ losses[f] + BatchRisk * Cardinality({p \in open : FamilyOf[p] = f}) <= FamilyBudget + WorstLoss

LEMMA ExposureParts == ExposureBounded <=> ExposureOf(OpenPeriods, earned, familyLoss)
BY DEF ExposureBounded, ExposureOf, OpenPeriods

LEMMA ExposureShrinks ==
    ASSUME RiskTypes, NEW S \in SUBSET Periods, NEW T \in SUBSET S, ExposureOf(S, earned, familyLoss)
    PROVE  ExposureOf(T, earned, familyLoss)
<1>1. BatchRisk * Cardinality(T) <= BatchRisk * Cardinality(S)
  BY RiskShrinks
<1>2. ASSUME NEW f \in Families
      PROVE  BatchRisk * Cardinality({p \in T : FamilyOf[p] = f})
                 <= BatchRisk * Cardinality({p \in S : FamilyOf[p] = f})
  <2>1. {p \in T : FamilyOf[p] = f} \in SUBSET {p \in S : FamilyOf[p] = f}
    OBVIOUS
  <2>. QED  BY <2>1, RiskShrinks
<1>3. \A U \in SUBSET Periods : BatchRisk * Cardinality(U) \in Nat
  BY PeriodsFinite, RiskAssumption
<1> DEFINE Of(U, f) == {p \in U : FamilyOf[p] = f}
<1>4. ASSUME NEW f \in Families
      PROVE  /\ BatchRisk * Cardinality(Of(S, f)) \in Nat /\ BatchRisk * Cardinality(Of(T, f)) \in Nat
             /\ familyLoss[f] \in Nat
  BY <1>3 DEF RiskTypes
<1>5. \A f \in Families :
           /\ BatchRisk * Cardinality(Of(S, f)) <= FamilyBudget
           /\ familyLoss[f] + BatchRisk * Cardinality(Of(S, f)) <= FamilyBudget + WorstLoss
  BY DEF ExposureOf
<1>6. \A f \in Families :
           /\ BatchRisk * Cardinality(Of(T, f)) <= FamilyBudget
           /\ familyLoss[f] + BatchRisk * Cardinality(Of(T, f)) <= FamilyBudget + WorstLoss
  <2> SUFFICES ASSUME NEW f \in Families
               PROVE  /\ BatchRisk * Cardinality(Of(T, f)) <= FamilyBudget
                      /\ familyLoss[f] + BatchRisk * Cardinality(Of(T, f)) <= FamilyBudget + WorstLoss
    OBVIOUS
  <2>1. BatchRisk * Cardinality(Of(T, f)) <= BatchRisk * Cardinality(Of(S, f))
    BY <1>2
  <2>. HIDE DEF Of
  <2>. QED  BY <1>4, <1>5, <2>1, WorstLossBounds, RiskAssumption
<1>7. /\ BatchRisk * Cardinality(S) \in Nat /\ BatchRisk * Cardinality(T) \in Nat
      /\ earned \in Int /\ MerchantBudget \in Nat /\ WorstLoss \in Nat
  BY <1>3, WorstLossBounds, RiskAssumption DEF RiskTypes
<1>8. /\ BatchRisk * Cardinality(T) <= MerchantBudget
      /\ BatchRisk * Cardinality(T) - earned <= MerchantBudget + WorstLoss
  BY <1>1, <1>7 DEF ExposureOf
<1>. QED  BY <1>6, <1>8 DEF ExposureOf

\* A batch is assigned where what was lost and what is at risk leave room for it.
LEMMA ExposureAssigned ==
    ASSUME RiskTypes, ExposureBounded, AssignBatch
    PROVE  ExposureBounded'
<1> DEFINE F == FamilyOf[period]
           Of(U, f) == {p \in U : FamilyOf[p] = f}
<1>1. period \in Periods /\ F \in Families
  BY RiskAssumption DEF AssignBatch, Periods, RiskTypes
<1>2. PICK gain \in Increments :
          /\ earned' = earned + gain
          /\ familyLoss' = [familyLoss EXCEPT ![F] = @ + (IF gain < 0 THEN -gain ELSE 0)]
  BY DEF AssignBatch
<1>3. /\ gain \in Int /\ -gain <= WorstLoss /\ WorstLoss \in Nat /\ (IF gain < 0 THEN -gain ELSE 0) <= WorstLoss
      /\ earned \in Int
  BY <1>2, WorstLossBounds, RiskAssumption DEF RiskTypes
<1>4. OpenPeriods' = OpenPeriods \cup {period}
  BY <1>1 DEF AssignBatch, OpenPeriods, RiskTypes
<1>5. OpenPeriods \in SUBSET Periods /\ \A f \in Families : Of(OpenPeriods, f) \in SUBSET Periods
  BY DEF OpenPeriods
<1>6. OpenRisk = BatchRisk * Cardinality(OpenPeriods)
      /\ \A f \in Families : FamilyOpenRisk(f) = BatchRisk * Cardinality(Of(OpenPeriods, f))
  BY OpenOfLedger DEF OpenRisk, FamilyOpenRisk
<1>7. \A U \in SUBSET Periods : BatchRisk * Cardinality(U) \in Nat
  BY PeriodsFinite, RiskAssumption
<1>8. BatchRisk * Cardinality(OpenPeriods') <= OpenRisk + BatchRisk
  BY <1>1, <1>4, <1>5, <1>6, RiskGrows
<1>9. /\ LossSoFar + OpenRisk + BatchRisk <= MerchantBudget
      /\ BatchRisk <= MerchantBudget - OpenRisk
      /\ familyLoss[F] + FamilyOpenRisk(F) + BatchRisk <= FamilyBudget
      /\ BatchRisk <= FamilyBudget - FamilyOpenRisk(F)
  BY DEF AssignBatch, Capacity, Affordable
<1>10. /\ OpenRisk \in Nat /\ BatchRisk \in Nat /\ MerchantBudget \in Nat /\ FamilyBudget \in Nat
       /\ -earned <= LossSoFar /\ LossSoFar \in Nat
  BY <1>3, <1>5, <1>6, <1>7, RiskAssumption DEF LossSoFar
<1>11. OpenPeriods' \in SUBSET Periods /\ BatchRisk * Cardinality(OpenPeriods') \in Nat
  BY <1>1, <1>4, <1>5, <1>7
<1>12. /\ BatchRisk * Cardinality(OpenPeriods') <= MerchantBudget
       /\ BatchRisk * Cardinality(OpenPeriods') - earned' <= MerchantBudget + WorstLoss
  BY <1>2, <1>3, <1>8, <1>9, <1>10, <1>11
<1>13. ASSUME NEW f \in Families
       PROVE  /\ BatchRisk * Cardinality(Of(OpenPeriods', f)) <= FamilyBudget
              /\ familyLoss'[f] + BatchRisk * Cardinality(Of(OpenPeriods', f)) <= FamilyBudget + WorstLoss
  <2>1. familyLoss[f] \in Nat /\ BatchRisk * Cardinality(Of(OpenPeriods, f)) \in Nat
    BY <1>5, <1>7 DEF RiskTypes
  <2>2. CASE f = F
    <3>1. Of(OpenPeriods', f) = Of(OpenPeriods, f) \cup {period}
      BY <1>1, <1>4, <2>2
    <3>2. BatchRisk * Cardinality(Of(OpenPeriods', f)) <= FamilyOpenRisk(f) + BatchRisk
      BY <1>1, <1>5, <1>6, <3>1, RiskGrows
    <3>3. BatchRisk * Cardinality(Of(OpenPeriods', f)) \in Nat
      BY <1>7, <1>11
    <3>4. familyLoss'[f] <= familyLoss[f] + WorstLoss /\ familyLoss'[f] \in Nat
      BY <1>1, <1>2, <1>3, <2>1, <2>2 DEF RiskTypes
    <3>5. FamilyOpenRisk(f) \in Nat
      BY <1>6, <2>1
    <3>. HIDE DEF Of
    <3>. QED  BY <1>3, <1>9, <1>10, <2>1, <2>2, <3>2, <3>3, <3>4, <3>5
  <2>3. CASE f # F
    <3>1. Of(OpenPeriods', f) = Of(OpenPeriods, f) /\ familyLoss'[f] = familyLoss[f]
      BY <1>1, <1>2, <1>4, <2>3 DEF RiskTypes
    <3>. QED  BY <3>1, ExposureParts DEF ExposureOf
  <2>. QED  BY <2>2, <2>3
<1>14. ExposureOf(OpenPeriods', earned', familyLoss')
  BY <1>12, <1>13 DEF ExposureOf
<1>. QED  BY <1>14 DEF ExposureBounded, ExposureOf, OpenPeriods

\* A reservation that is released, matured or expired, is not at risk any more.
LEMMA ExposureSettled ==
    ASSUME RiskTypes, ExposureBounded, Settle
    PROVE  ExposureBounded'
<1>1. PICK batch \in pending : reservations' = [reservations EXCEPT ![batch.made] = Released(batch)]
  BY DEF Settle
<1>2. Released(batch).status # "OPEN"
  BY <1>1 DEF Released, RiskTypes
<1>3. OpenPeriods' \in SUBSET OpenPeriods /\ OpenPeriods \in SUBSET Periods
  BY <1>1, <1>2 DEF OpenPeriods, RiskTypes
<1>4. ExposureOf(OpenPeriods', earned, familyLoss)
  BY <1>3, ExposureShrinks, ExposureParts
<1>5. earned' = earned /\ familyLoss' = familyLoss
  BY DEF Settle
<1>. QED  BY <1>4, <1>5 DEF ExposureBounded, ExposureOf, OpenPeriods

\* Whatever matures late, expires or is decided in between, what is at risk stays within the budgets
\* of the merchant and of every family, and with what was lost it exceeds them by one batch at most:
\* for all budgets, delays and scenarios.
THEOREM RiskSafe == RiskSpec => []ExposureBounded
<1>1. RiskInit => RiskInv
  <2> SUFFICES ASSUME RiskInit
               PROVE  RiskInv
    OBVIOUS
  <2>1. RiskTypes
    BY RiskAssumption DEF RiskInit, RiskTypes, NoReservation, Statuses
  <2>2. OpenPeriods = {} /\ earned = 0 /\ \A f \in Families : familyLoss[f] = 0
    BY DEF RiskInit, OpenPeriods, NoReservation
  <2>3. \A f \in Families : {p \in OpenPeriods : FamilyOf[p] = f} = {}
    BY <2>2
  <2>4. BatchRisk * Cardinality({}) = 0
    BY FS_EmptySet, RiskAssumption
  <2>5. ExposureOf(OpenPeriods, earned, familyLoss)
    BY <2>2, <2>3, <2>4, WorstLossBounds, RiskAssumption DEF ExposureOf
  <2>. QED  BY <2>1, <2>5, ExposureParts DEF RiskInv
<1>2. RiskInv /\ [RiskNext]_riskVars => RiskInv'
  <2> SUFFICES ASSUME RiskTypes, ExposureBounded, [RiskNext]_riskVars
               PROVE  ExposureBounded'
    BY RiskTypesStep DEF RiskInv
  <2>1. CASE Settle
    BY <2>1, ExposureSettled
  <2>2. CASE AssignBatch
    BY <2>2, ExposureAssigned
  <2>3. CASE Settled \/ Decide \/ WithholdBatch \/ UNCHANGED riskVars
    <3>1. UNCHANGED <<reservations, earned, familyLoss>>
      BY <2>3 DEF Settled, Decide, WithholdBatch, riskVars
    <3>. QED  BY <3>1 DEF ExposureBounded
  <2>. QED  BY <2>1, <2>2, <2>3 DEF RiskNext
<1>. QED  BY <1>1, <1>2, PTL DEF RiskSpec, RiskInv

\* The remaining variables; a reservation is due within the path and the longest delay.
RiskRest ==
    /\ scenario \in Scenarios
    /\ period <= Horizon
    /\ lifecycle \in RiskStates
    /\ \A p \in Periods : reservations[p].maturity \in 0..LastPeriod
    /\ matured \in Seq({-1, 1}) /\ Len(matured) <= 4
    /\ revalidation \in Seq({-1, 1}) /\ Len(revalidation) <= 2
    /\ firstHarm \in 0..Horizon

LEMMA LastOfKeeps ==
    ASSUME NEW s \in Seq({-1, 1}), NEW x \in {-1, 1}, NEW n \in {2, 4}, Len(s) <= n
    PROVE  LastOf(Append(s, x), n) \in Seq({-1, 1}) /\ Len(LastOf(Append(s, x), n)) <= n
<1>1. Append(s, x) \in Seq({-1, 1}) /\ Len(Append(s, x)) = Len(s) + 1 /\ Len(s) \in Nat
  OBVIOUS
<1>2. CASE Len(s) < n
  BY <1>1, <1>2 DEF LastOf
<1>3. CASE Len(s) = n
  <2>1. LastOf(Append(s, x), n) = SubSeq(Append(s, x), 2, n + 1)
    BY <1>1, <1>3 DEF LastOf
  <2>. QED  BY <1>1, <1>3, <2>1
<1>. QED  BY <1>1, <1>2, <1>3

\* The longest delay is one of them.
LEMMA DelaysEnd ==
    LastPeriod \in Nat /\ Horizon <= LastPeriod /\ \A delay \in Delays \cup {LateDelay} : Horizon + delay <= LastPeriod
<1> DEFINE All == Delays \cup {LateDelay}
<1>0. IsFiniteSet(Delays) /\ Delays \subseteq Nat /\ LateDelay \in Nat /\ Horizon \in Nat
  BY RiskAssumption
<1>1. IsFiniteSet(All) /\ All \subseteq Int /\ All \subseteq Nat /\ All # {}
  <2>1. IsFiniteSet(All)
    BY <1>0, FS_AddElement, Zenon
  <2>2. LateDelay \in All /\ All \subseteq Nat
    BY <1>0
  <2>. QED  BY <2>1, <2>2
<1>2. Max(All) \in All /\ \A y \in All : Max(All) >= y
  BY <1>1, GreatestOfFinite
<1>3. Max(All) \in Nat /\ LastPeriod = Horizon + Max(All)
  BY <1>1, <1>2 DEF LastPeriod
<1>. QED  BY <1>0, <1>2, <1>3

LEMMA RiskRestStep ==
    ASSUME RiskTypes, RiskRest, [RiskNext]_riskVars
    PROVE  RiskRest'
<1> USE DEF RiskTypes, RiskRest
<1>1. CASE Settle
  <2>1. PICK batch \in pending :
            /\ reservations' = [reservations EXCEPT ![batch.made] = Released(batch)]
            /\ matured' = IF batch.observable THEN LastOf(Append(matured, batch.sign), 4) ELSE matured
            /\ revalidation' = IF batch.observable /\ lifecycle = "REVALIDATING"
                               THEN LastOf(Append(revalidation, batch.sign), 2) ELSE revalidation
    BY <1>1 DEF Settle
  <2>2. batch.made \in Periods /\ batch.sign \in {-1, 1}
    BY <2>1
  <2>3. Released(batch).maturity = reservations[batch.made].maturity
    BY <2>2 DEF Released
  <2>4. \A p \in Periods : reservations'[p].maturity \in 0..LastPeriod
    BY <2>1, <2>2, <2>3
  <2>5. matured' \in Seq({-1, 1}) /\ Len(matured') <= 4
    <3>1. LastOf(Append(matured, batch.sign), 4) \in Seq({-1, 1})
              /\ Len(LastOf(Append(matured, batch.sign), 4)) <= 4
      <4>1. matured \in Seq({-1, 1}) /\ Len(matured) <= 4
        OBVIOUS
      <4>. HIDE DEF RiskTypes, RiskRest
      <4>. QED  BY <2>2, <4>1, LastOfKeeps
    <3>. QED  BY <2>1, <3>1
  <2>6. revalidation' \in Seq({-1, 1}) /\ Len(revalidation') <= 2
    <3>1. LastOf(Append(revalidation, batch.sign), 2) \in Seq({-1, 1})
              /\ Len(LastOf(Append(revalidation, batch.sign), 2)) <= 2
      <4>1. revalidation \in Seq({-1, 1}) /\ Len(revalidation) <= 2
        OBVIOUS
      <4>. HIDE DEF RiskTypes, RiskRest
      <4>. QED  BY <2>2, <4>1, LastOfKeeps
    <3>. QED  BY <2>1, <3>1
  <2>. QED  BY <1>1, <2>4, <2>5, <2>6 DEF Settle
<1>2. CASE Settled
  BY <1>2 DEF Settled
<1>3. CASE Decide
  <2>1. period \in 0..Horizon
    BY RiskAssumption
  <2>2. PICK decision \in Observed :
            LET signal == decision[2] = "MATURE_HARM_SIGNAL" /\ firstHarm = Horizon
                harm == IF signal THEN period ELSE firstHarm
                cooled == decision[1] = "PAUSED" /\ harm < Horizon /\ period >= harm + Cooldown
                          /\ scenario \notin {"INSUFFICIENT_SUPPORT", "PROPENSITY_CORRUPTION"}
            IN  /\ firstHarm' = harm
                /\ \E s \in Revalidated(IF cooled THEN "REVALIDATING" ELSE decision[1]) :
                       lifecycle' = Attrited(s)
    BY <1>3 DEF Decide
  <2>3. decision[1] \in RiskStates
    BY DEF Observed, RiskStates
  <2>4. \A state \in RiskStates : \A s \in Revalidated(state) : Attrited(s) \in RiskStates
    BY DEF Revalidated, Attrited, RiskStates
  <2>5. "REVALIDATING" \in RiskStates
    BY DEF RiskStates
  <2>6. lifecycle' \in RiskStates
    BY <2>2, <2>3, <2>4, <2>5
  <2>7. firstHarm' \in 0..Horizon
    BY <2>1, <2>2
  <2>. QED  BY <1>3, <2>6, <2>7 DEF Decide
<1>4. CASE AssignBatch
  <2>1. PICK delay \in Delays \cup {LateDelay} :
            reservations' = [reservations EXCEPT ![period] = [status |-> "OPEN", maturity |-> period + delay]]
    BY <1>4 DEF AssignBatch
  <2>2. period \in Periods /\ period < Horizon /\ delay \in Nat /\ Horizon + delay <= LastPeriod
    <3>1. stage = "assign" /\ period \in Nat /\ period < Horizon
      BY <1>4 DEF AssignBatch
    <3>2. Horizon + delay <= LastPeriod
      BY DelaysEnd
    <3>3. delay \in Nat
      BY RiskAssumption
    <3>. QED  BY <3>1, <3>2, <3>3, RiskAssumption DEF Periods
  <2>3. period + delay \in 0..LastPeriod
    BY <2>2, DelaysEnd, RiskAssumption
  <2>4. \A p \in Periods : reservations'[p].maturity \in 0..LastPeriod
    BY <2>1, <2>2, <2>3
  <2>5. period' <= Horizon
    BY <1>4, <2>2, RiskAssumption DEF AssignBatch, NextPeriod
  <2>. QED  BY <1>4, <2>4, <2>5 DEF AssignBatch
<1>5. CASE WithholdBatch
  <2>1. period' <= Horizon
    BY <1>5, RiskAssumption DEF WithholdBatch, NextPeriod
  <2>. QED  BY <1>5, <2>1 DEF WithholdBatch
<1>6. CASE UNCHANGED riskVars
  BY <1>6 DEF riskVars
<1>. QED  BY <1>1, <1>2, <1>3, <1>4, <1>5, <1>6 DEF RiskNext

\* The variables of the ledger and of its controller have their types, and the windows of recent
\* outcomes their lengths.
THEOREM RiskTyped == RiskSpec => []RiskTypeOK
<1>1. RiskInit => RiskTypes /\ RiskRest
  <2> SUFFICES ASSUME RiskInit
               PROVE  RiskTypes /\ RiskRest
    OBVIOUS
  <2>1. RiskTypes
    BY RiskAssumption DEF RiskInit, RiskTypes, NoReservation, Statuses
  <2>2. \A p \in Periods : reservations[p].maturity \in 0..LastPeriod
    BY DelaysEnd DEF RiskInit, NoReservation
  <2>3. matured = <<>> /\ revalidation = <<>> /\ <<>> \in Seq({-1, 1}) /\ Len(<<>>) = 0
    BY DEF RiskInit
  <2>. QED  BY <2>1, <2>2, <2>3, RiskAssumption DEF RiskInit, RiskRest, RiskStates
<1>2. RiskTypes /\ RiskRest /\ [RiskNext]_riskVars => RiskTypes' /\ RiskRest'
  BY RiskTypesStep, RiskRestStep
<1>3. RiskTypes /\ RiskRest => RiskTypeOK
  <2> SUFFICES ASSUME RiskTypes, RiskRest
               PROVE  RiskTypeOK
    OBVIOUS
  <2>1. \A p \in Periods : reservations[p] \in [status : Statuses, maturity : 0..LastPeriod]
    <3> SUFFICES ASSUME NEW p \in Periods
                 PROVE  reservations[p] \in [status : Statuses, maturity : 0..LastPeriod]
      OBVIOUS
    <3>1. reservations[p] \in [status : Statuses, maturity : Nat]
      BY DEF RiskTypes
    <3>2. reservations[p].maturity \in 0..LastPeriod
      BY DEF RiskRest
    <3>. QED  BY <3>1, <3>2
  <2>2. reservations \in [Periods -> [status : Statuses, maturity : 0..LastPeriod]]
    BY <2>1 DEF RiskTypes
  <2>3. period \in 0..Horizon
    BY RiskAssumption DEF RiskTypes, RiskRest
  <2>. QED  BY <2>2, <2>3 DEF RiskTypes, RiskRest, RiskTypeOK
<1>. QED  BY <1>1, <1>2, <1>3, PTL DEF RiskSpec

-------------------------------------------------------------------------------
(***************************************************************************)
(* Proofs about CommercialTwin, for any histories, forecasts and outcomes. *)
(* update leaves traces in three places, one after the other: the          *)
(* invariant says what a call between two of its steps knows, that the     *)
(* ids of simulations are never given twice, and that a row of the         *)
(* registry is counted in the list of its twin.                            *)
(***************************************************************************)

TwinValues == UNION {[N -> Int] : N \in SUBSET OutcomeNames}
TwinResults ==
    [means : TwinValues, level : SupportLevels, disposition : {"ACT", "EXPERIMENT", "ABSTAIN"},
     id : Nat, twin : Nat]
TwinEvaluations == [id : Nat, predicted : TwinValues, actual : Reported, errors : TwinValues]

\* What a call between its steps knows: the simulation, and the record at the end of the list.
Recording == call.at = "record" =>
    /\ call.result \in TwinResults
    /\ call.result.id = made /\ made # 0 /\ call.result.twin \in 1..built
    /\ \A s \in results \cup simulated : s.id # made

Updating == call.at \in {"evaluate", "register"} =>
    /\ DOMAIN call = {"at", "twin", "record", "level"}
    /\ call.twin \in commercialTwins
    /\ call.record \in TwinEvaluations
    /\ \E s \in results :
        /\ s.id = call.record.id /\ s.means = call.record.predicted
        /\ s.level = call.level /\ s.twin = call.twin.number
    /\ \E i \in DOMAIN calibration[call.twin.number] :
        calibration[call.twin.number][i] = call.record
    /\ \A p \in performance :
        p.twin = call.twin.number => p.records < Len(calibration[call.twin.number])

Registering == call.at = "register" /\ call.twin.ledgered =>
    /\ call.record \in evaluated
    /\ call.record.id \in {s.id : s \in simulated}
    /\ \A p \in performance : p.ledgered => p.id # call.record.id

TwinShape ==
    /\ built \in 0..MaxTwins /\ made \in Nat
    /\ call.at \in {"rest", "record", "evaluate", "register"}
    /\ \A t \in commercialTwins :
        /\ t.number \in 1..built /\ t.history \in TwinHistories
        /\ {"number", "history"} \subseteq DOMAIN t
    /\ results \subseteq TwinResults /\ simulated \subseteq TwinResults
    /\ \A s \in results \cup simulated : s.id \in 1..made /\ s.twin \in 1..built
    /\ \A s, u \in results \cup simulated : s.id = u.id => s = u
    /\ calibration \in [Numbers -> Seq(TwinEvaluations)]

RowsCounted ==
    \A p \in performance :
        /\ p.twin \in 1..built /\ p.records \in Nat
        /\ \A t \in commercialTwins : t.number = p.twin => p.records <= Len(calibration[p.twin])

TwinInvariant ==
    TwinShape /\ Recording /\ Updating /\ Registering /\ RowsCounted
    /\ EvaluationsRest /\ RegistryRests /\ MemoryCoversLedger

LEMMA TwinInitial == ASSUME TwinAssumption, TwinInit PROVE TwinInvariant
  BY DEF TwinAssumption, TwinInit, TwinInvariant, TwinShape, Recording, Updating, Registering,
     RowsCounted, EvaluationsRest, RegistryRests, MemoryCoversLedger, NoCall, Numbers

\* Building and attaching change twins alone: nothing recorded speaks of the new number.
LEMMA TwinAdds ==
  ASSUME TwinAssumption, TwinInvariant, NEW t, NoCallRuns, AddTwin(t), t.number = built + 1,
          t.history \in TwinHistories, {"number", "history"} \subseteq DOMAIN t
  PROVE  TwinInvariant'
<1>1. TwinShape'
  BY DEF TwinInvariant, TwinShape, AddTwin, TwinAssumption
<1>2. Recording' /\ Updating' /\ Registering'
  BY DEF AddTwin, NoCallRuns, Recording, Updating, Registering
<1>3. RowsCounted'
  BY DEF TwinInvariant, TwinShape, RowsCounted, AddTwin, TwinAssumption
<1>4. EvaluationsRest' /\ RegistryRests'
  BY DEF TwinInvariant, EvaluationsRest, RegistryRests, AddTwin
<1>5. MemoryCoversLedger'
  <2>1. \A s \in simulated : s.twin # t.number
    BY DEF TwinInvariant, TwinShape
  <2>2. QED
    BY <2>1 DEF TwinInvariant, MemoryCoversLedger, AddTwin
<1>6. QED
  BY <1>1, <1>2, <1>3, <1>4, <1>5 DEF TwinInvariant

LEMMA TwinAttaches ==
  ASSUME TwinAssumption, TwinInvariant, NEW t \in commercialTwins, Attach(t)
  PROVE  TwinInvariant'
<1> DEFINE u == [t EXCEPT !.ledgered = TRUE, !.registered = TRUE]
<1>0. /\ u.number = t.number /\ u.history = t.history
      /\ {"number", "history"} \subseteq DOMAIN u
  <2>1. {"number", "history"} \subseteq DOMAIN t
    BY DEF TwinInvariant, TwinShape
  <2>2. DOMAIN u = DOMAIN t
    OBVIOUS
  <2>3. u.number = t.number /\ u.history = t.history
    BY <2>1
  <2>4. QED
    BY <2>1, <2>2, <2>3
<1>1. TwinShape'
  BY <1>0 DEF TwinInvariant, TwinShape, Attach
<1>2. Recording' /\ Updating' /\ Registering'
  BY DEF Attach, NoCallRuns, Recording, Updating, Registering
<1>3. RowsCounted'
  BY <1>0 DEF TwinInvariant, RowsCounted, Attach
<1>4. EvaluationsRest' /\ RegistryRests'
  BY DEF TwinInvariant, EvaluationsRest, RegistryRests, Attach
<1>5. MemoryCoversLedger'
  <2>1. \A v \in commercialTwins' : \E w \in commercialTwins : w.number = v.number
    BY <1>0 DEF Attach
  <2>2. QED
    BY <2>1 DEF TwinInvariant, MemoryCoversLedger, Attach
<1>6. QED
  BY <1>1, <1>2, <1>3, <1>4, <1>5 DEF TwinInvariant

LEMMA PredictionTyped ==
  ASSUME TwinAssumption, TwinShape, NEW t \in commercialTwins,
         NEW a \in TwinActions, NEW id \in Nat
  PROVE  PredictOutcomes(t, a, id) \in TwinResults
<1> DEFINE forecast == Forecasts[t.history][a]
           names == IF forecast.costed THEN OutcomeNames ELSE OutcomeNames \ {"contribution_profit"}
           predicted == [n \in names |-> Distribution(forecast.means[n])]
<1>1. forecast \in [rows : Nat, level : SupportLevels, costed : BOOLEAN, means : [OutcomeNames -> Int]]
  BY DEF TwinAssumption, TwinShape
<1>2. names \in SUBSET OutcomeNames
  BY DEF OutcomeNames
<1>3. predicted \in [names -> Int]
  BY <1>1, <1>2 DEF Distribution
<1>4. predicted \in TwinValues
  BY <1>2, <1>3 DEF TwinValues
<1>5. Disposition(forecast.level) \in {"ACT", "EXPERIMENT", "ABSTAIN"}
  BY DEF Disposition
<1>6. t.number \in Nat
  BY DEF TwinShape
<1>7. PredictOutcomes(t, a, id) =
        [means |-> predicted, level |-> forecast.level, disposition |-> Disposition(forecast.level),
         id |-> id, twin |-> t.number]
  BY DEF PredictOutcomes
<1>8. QED
  BY <1>1, <1>4, <1>5, <1>6, <1>7 DEF TwinResults

LEMMA TwinSimulates ==
  ASSUME TwinAssumption, TwinInvariant, NEW t \in commercialTwins,
         NEW a \in TwinActions, Simulate(t, a)
  PROVE  TwinInvariant'
<1> DEFINE result == PredictOutcomes(t, a, made + 1)
<1>1. /\ result \in TwinResults /\ result.id = made + 1 /\ result.twin = t.number
      /\ t.number \in 1..built
  <2>1. result \in TwinResults
    BY PredictionTyped DEF TwinInvariant, TwinShape
  <2>2. QED
    BY <2>1 DEF PredictOutcomes, TwinInvariant, TwinShape
<1>2. /\ made' = made + 1 /\ NoCallRuns
      /\ \/ call' = [at |-> "record", result |-> result] /\ results' = results
         \/ results' = results \cup {result} /\ call' = call
      /\ commercialTwins' = commercialTwins /\ built' = built /\ calibration' = calibration
      /\ simulated' = simulated /\ evaluated' = evaluated /\ performance' = performance
  BY DEF Simulate
<1>3. made \in Nat /\ \A s \in results \cup simulated : s.id \in 1..made /\ s.twin \in 1..built
  BY DEF TwinInvariant, TwinShape
<1> HIDE DEF result
<1>4. TwinShape'
  <2>1. \A s \in results' \cup simulated' : s = result \/ s \in results \cup simulated
    BY <1>2
  <2>2. \A s \in results' \cup simulated' : s.id \in 1..made' /\ s.twin \in 1..built'
    BY <2>1, <1>1, <1>2, <1>3
  <2>3. \A s, u \in results' \cup simulated' : s.id = u.id => s = u
    BY <2>1, <1>1, <1>3 DEF TwinInvariant, TwinShape
  <2>4. QED
    BY <2>2, <2>3, <1>1, <1>2 DEF TwinInvariant, TwinShape, NoCallRuns
<1>5. Recording'
  BY <1>1, <1>2, <1>3 DEF Recording, NoCallRuns
<1>6. Updating' /\ Registering'
  BY <1>2 DEF Updating, Registering, NoCallRuns
<1>7. RowsCounted' /\ EvaluationsRest' /\ RegistryRests' /\ MemoryCoversLedger'
  BY <1>2 DEF TwinInvariant, RowsCounted, EvaluationsRest, RegistryRests, MemoryCoversLedger
<1>8. QED
  BY <1>4, <1>5, <1>6, <1>7 DEF TwinInvariant

LEMMA TwinRecords ==
  ASSUME TwinAssumption, TwinInvariant, AppendSimulation
  PROVE  TwinInvariant'
<1> DEFINE result == call.result
<1>1. /\ result \in TwinResults /\ result.id = made /\ result.twin \in 1..built
      /\ \A s \in results \cup simulated : s.id # made
  BY DEF TwinInvariant, Recording, AppendSimulation
<1>2. /\ results' = results \cup {result} /\ simulated' = simulated \cup {result} /\ call' = NoCall
      /\ commercialTwins' = commercialTwins /\ built' = built /\ calibration' = calibration /\ made' = made
      /\ evaluated' = evaluated /\ performance' = performance
  BY DEF AppendSimulation
<1>3. made \in Nat /\ \A s \in results \cup simulated : s.id \in 1..made /\ s.twin \in 1..built
  BY DEF TwinInvariant, TwinShape
<1> HIDE DEF result
<1>4. TwinShape'
  <2>1. \A s \in results' \cup simulated' : s = result \/ s \in results \cup simulated
    BY <1>2
  <2>2. \A s \in results' \cup simulated' : s.id \in 1..made' /\ s.twin \in 1..built'
    <3>1. made # 0
      BY DEF TwinInvariant, Recording, AppendSimulation
    <3>2. QED
      BY <3>1, <2>1, <1>1, <1>2, <1>3
  <2>3. \A s, u \in results' \cup simulated' : s.id = u.id => s = u
    BY <2>1, <1>1, <1>3 DEF TwinInvariant, TwinShape
  <2>4. QED
    BY <2>2, <2>3, <1>1, <1>2 DEF TwinInvariant, TwinShape, NoCall
<1>5. Recording' /\ Updating' /\ Registering'
  BY <1>2 DEF Recording, Updating, Registering, NoCall
<1>6. \A e \in evaluated : e.id # made
  BY <1>1 DEF TwinInvariant, EvaluationsRest
<1>7. EvaluationsRest' /\ RegistryRests' /\ RowsCounted'
  BY <1>2 DEF TwinInvariant, EvaluationsRest, RegistryRests, RowsCounted
<1>8. MemoryCoversLedger'
  BY <1>1, <1>2, <1>6 DEF TwinInvariant, MemoryCoversLedger
<1>9. QED
  BY <1>4, <1>5, <1>7, <1>8 DEF TwinInvariant

LEMMA ErrorsTyped ==
  ASSUME NEW predicted \in TwinValues, NEW actual, Valued(actual)
  PROVE  SharedErrors(predicted, actual) \in TwinValues
<1>1. PICK P \in SUBSET OutcomeNames : predicted \in [P -> Int]
  BY DEF TwinValues
<1>2. PICK A \in SUBSET OutcomeNames : actual \in [A -> Int]
  BY DEF Valued
<1>3. \A n \in P \cap A : predicted[n] \in Int /\ actual[n] \in Int
  BY <1>1, <1>2
<1>4. SharedErrors(predicted, actual) = [n \in P \cap A |-> actual[n] - predicted[n]]
  BY <1>1, <1>2 DEF SharedErrors
<1>5. SharedErrors(predicted, actual) \in [P \cap A -> Int]
  BY <1>3, <1>4
<1>6. QED
  BY <1>5 DEF TwinValues

LEMMA TwinUpdates ==
  ASSUME TwinAssumption, TwinInvariant, NEW t \in commercialTwins, NEW result \in results,
         NEW actual \in Reported, Update(t, result, actual)
  PROVE  TwinInvariant'
<1> DEFINE record == [id |-> result.id, predicted |-> result.means, actual |-> actual,
                      errors |-> SharedErrors(result.means, actual)]
           n == t.number
<1>1. /\ n \in Numbers /\ n \in 1..built /\ result \in TwinResults /\ result.twin = n
      /\ calibration \in [Numbers -> Seq(TwinEvaluations)]
  BY DEF TwinInvariant, TwinShape, Numbers, Update
<1>2. record \in TwinEvaluations
  <2>1. result.means \in TwinValues /\ result.id \in Nat
    BY <1>1 DEF TwinResults
  <2>2. SharedErrors(result.means, actual) \in TwinValues
    BY <2>1, ErrorsTyped DEF TwinAssumption
  <2>3. QED
    BY <2>1, <2>2 DEF TwinEvaluations
<1>3. /\ calibration' = [calibration EXCEPT ![n] = Append(@, record)]
      /\ \/ call' = NoCall
         \/ /\ call'.at \in {"evaluate", "register"} /\ call'.twin = t /\ call'.record = record
            /\ call'.level = result.level /\ DOMAIN call' = {"at", "twin", "record", "level"}
            /\ call'.at = "register" => ~t.ledgered
      /\ commercialTwins' = commercialTwins /\ built' = built /\ made' = made /\ results' = results
      /\ simulated' = simulated /\ evaluated' = evaluated /\ performance' = performance
  BY DEF Update
<1> HIDE DEF record
<1>4. /\ calibration'[n] = Append(calibration[n], record)
      /\ \A m \in Numbers : m # n => calibration'[m] = calibration[m]
      /\ calibration' \in [Numbers -> Seq(TwinEvaluations)]
  BY <1>1, <1>2, <1>3
<1>5. /\ Len(calibration'[n]) = Len(calibration[n]) + 1
      /\ calibration'[n][Len(calibration'[n])] = record
      /\ Len(calibration'[n]) \in DOMAIN calibration'[n]
      /\ \A i \in DOMAIN calibration[n] :
            i \in DOMAIN calibration'[n] /\ calibration'[n][i] = calibration[n][i]
  BY <1>1, <1>2, <1>4
<1>6. TwinShape'
  BY <1>3, <1>4 DEF TwinInvariant, TwinShape, NoCall
<1>7. Recording'
  BY <1>3 DEF Recording, NoCall
<1>8. \A p \in performance : p.twin = n => p.records < Len(calibration'[n])
  <2>1. \A p \in performance : p.twin = n => p.records \in Nat /\ p.records <= Len(calibration[n])
    BY DEF TwinInvariant, RowsCounted
  <2>2. Len(calibration[n]) \in Nat
    BY <1>1
  <2>3. QED
    BY <2>1, <2>2, <1>5
<1>9. Updating'
  <2>1. result.id = record.id /\ result.means = record.predicted
    BY DEF record
  <2>2. CASE call' = NoCall
    BY <2>2 DEF Updating, NoCall
  <2>3. CASE /\ call'.twin = t /\ call'.record = record /\ call'.level = result.level
             /\ DOMAIN call' = {"at", "twin", "record", "level"}
    <3>1. /\ result \in results' /\ result.id = call'.record.id
          /\ result.means = call'.record.predicted /\ result.level = call'.level
          /\ result.twin = call'.twin.number
      BY <2>1, <2>3, <1>1, <1>3
    <3>2. \E i \in DOMAIN calibration'[call'.twin.number] :
            calibration'[call'.twin.number][i] = call'.record
      BY <2>3, <1>5
    <3>3. \A p \in performance' :
            p.twin = call'.twin.number => p.records < Len(calibration'[call'.twin.number])
      BY <2>3, <1>3, <1>8
    <3>4. call'.twin \in commercialTwins' /\ call'.record \in TwinEvaluations
      BY <2>3, <1>2, <1>3
    <3>5. QED
      BY <2>3, <3>1, <3>2, <3>3, <3>4 DEF Updating
  <2>4. QED
    BY <2>2, <2>3, <1>3
<1>10. Registering'
  BY <1>3 DEF Registering, NoCall
<1>11. RowsCounted'
  <2> SUFFICES ASSUME NEW p \in performance'
               PROVE  /\ p.twin \in 1..built /\ p.records \in Nat
                      /\ \A v \in commercialTwins : v.number = p.twin => p.records <= Len(calibration'[p.twin])
    BY <1>3 DEF RowsCounted
  <2>1. /\ p.twin \in 1..built /\ p.records \in Nat
        /\ \A v \in commercialTwins : v.number = p.twin => p.records <= Len(calibration[p.twin])
    BY <1>3 DEF TwinInvariant, RowsCounted
  <2>2. p.twin \in Numbers
    BY <2>1 DEF TwinInvariant, TwinShape, Numbers, TwinAssumption
  <2>3. CASE p.twin = n
    BY <2>1, <2>3, <1>1, <1>4, <1>5
  <2>4. CASE p.twin # n
    BY <2>1, <2>2, <2>4, <1>4
  <2>5. QED
    BY <2>3, <2>4
<1>12. EvaluationsRest' /\ RegistryRests'
  BY <1>3 DEF TwinInvariant, EvaluationsRest, RegistryRests
<1>13. MemoryCoversLedger'
  <2> SUFFICES ASSUME NEW v \in commercialTwins, NEW s \in simulated, NEW e \in evaluated,
                      s.twin = v.number, s.id = e.id
               PROVE  \E i \in DOMAIN calibration'[v.number] : calibration'[v.number][i] = e
    BY <1>3 DEF TwinInvariant, MemoryCoversLedger
  <2>1. PICK i \in DOMAIN calibration[v.number] : calibration[v.number][i] = e
    BY DEF TwinInvariant, MemoryCoversLedger
  <2>2. v.number \in Numbers
    BY DEF TwinInvariant, TwinShape, Numbers
  <2>3. CASE v.number = n
    BY <2>1, <2>3, <1>5
  <2>4. CASE v.number # n
    BY <2>1, <2>2, <2>4, <1>4
  <2>5. QED
    BY <2>3, <2>4
<1>14. QED
  BY <1>6, <1>7, <1>9, <1>10, <1>11, <1>12, <1>13 DEF TwinInvariant

LEMMA TwinEvaluates ==
  ASSUME TwinAssumption, TwinInvariant, AppendSimulationEvaluation
  PROVE  TwinInvariant'
<1> DEFINE record == call.record
           n == call.twin.number
<1>1. /\ call.twin \in commercialTwins /\ record \in TwinEvaluations
      /\ \E i \in DOMAIN calibration[n] : calibration[n][i] = record
      /\ \A p \in performance : p.twin = n => p.records < Len(calibration[n])
  BY DEF TwinInvariant, Updating, AppendSimulationEvaluation
<1>2. PICK r \in results :
        r.id = record.id /\ r.means = record.predicted /\ r.level = call.level /\ r.twin = n
  BY DEF TwinInvariant, Updating, AppendSimulationEvaluation
<1>3. /\ evaluated' = evaluated \cup {record}
      /\ \/ call' = NoCall
         \/ /\ call'.at = "register" /\ call'.twin = call.twin /\ call'.record = record
            /\ call'.level = call.level /\ DOMAIN call' = {"at", "twin", "record", "level"}
      /\ commercialTwins' = commercialTwins /\ built' = built /\ made' = made /\ results' = results
      /\ simulated' = simulated /\ calibration' = calibration /\ performance' = performance
  <2>1. DOMAIN call = {"at", "twin", "record", "level"}
    BY DEF TwinInvariant, Updating, AppendSimulationEvaluation
  <2>2. QED
    BY <2>1 DEF AppendSimulationEvaluation
<1>4. PICK s \in simulated : s.id = record.id
  BY DEF AppendSimulationEvaluation, EvaluationAccepted
<1>5. s = r
  BY <1>2, <1>4 DEF TwinInvariant, TwinShape
<1>6. \A e \in evaluated : e.id # record.id
  BY DEF AppendSimulationEvaluation, EvaluationAccepted
<1> HIDE DEF record, n
<1>7. TwinShape'
  BY <1>3 DEF TwinInvariant, TwinShape, NoCall
<1>8. Recording'
  BY <1>3 DEF Recording, NoCall
<1>9. Updating'
  <2>1. CASE call' = NoCall
    BY <2>1 DEF Updating, NoCall
  <2>2. CASE /\ call'.twin = call.twin /\ call'.record = record /\ call'.level = call.level
             /\ DOMAIN call' = {"at", "twin", "record", "level"}
    BY <2>2, <1>1, <1>2, <1>3 DEF Updating, n
  <2>3. QED
    BY <2>1, <2>2, <1>3
<1>10. Registering'
  <2>1. \A p \in performance : p.ledgered => p.id # record.id
    BY <1>6 DEF TwinInvariant, RegistryRests
  <2>2. QED
    BY <2>1, <1>3, <1>4 DEF Registering, NoCall
<1>11. RowsCounted'
  BY <1>3 DEF TwinInvariant, RowsCounted
<1>12. EvaluationsRest'
  <2>1. s.means = record.predicted
    BY <1>2, <1>5
  <2>2. QED
    BY <2>1, <1>3, <1>4, <1>6 DEF TwinInvariant, EvaluationsRest
<1>13. RegistryRests'
  BY <1>3 DEF TwinInvariant, RegistryRests
<1>14. MemoryCoversLedger'
  <2>1. \A v \in commercialTwins : \A u \in simulated :
          u.twin = v.number /\ u.id = record.id =>
            \E i \in DOMAIN calibration[v.number] : calibration[v.number][i] = record
    <3>1. \A u \in simulated : u.id = record.id => u = s
      BY <1>4 DEF TwinInvariant, TwinShape
    <3>2. QED
      BY <3>1, <1>1, <1>2, <1>5
  <2>2. QED
    BY <2>1, <1>3 DEF TwinInvariant, MemoryCoversLedger
<1>15. QED
  BY <1>7, <1>8, <1>9, <1>10, <1>11, <1>12, <1>13, <1>14 DEF TwinInvariant

LEMMA TwinRegisters ==
  ASSUME TwinAssumption, TwinInvariant, AppendDecisionPerformance
  PROVE  TwinInvariant'
<1> DEFINE n == call.twin.number
           row == [errors |-> call.record.errors, level |-> call.level,
                   records |-> Len(calibration[n]), id |-> call.record.id, twin |-> n,
                   ledgered |-> call.twin.ledgered]
<1>1. /\ call.at = "register" /\ performance' = performance \cup {row} /\ call' = NoCall
      /\ commercialTwins' = commercialTwins /\ built' = built /\ made' = made /\ results' = results
      /\ simulated' = simulated /\ calibration' = calibration /\ evaluated' = evaluated
  BY DEF AppendDecisionPerformance
<1>2. /\ call.twin \in commercialTwins /\ call.record \in TwinEvaluations
      /\ \A p \in performance : p.twin = n => p.records < Len(calibration[n])
  BY <1>1 DEF TwinInvariant, Updating
<1>3. PICK r \in results : r.id = call.record.id /\ r.level = call.level /\ r.twin = n
  BY <1>1 DEF TwinInvariant, Updating
<1>4. n \in 1..built /\ n \in Numbers /\ Len(calibration[n]) \in Nat
  BY <1>2 DEF TwinInvariant, TwinShape, Numbers
<1>5. TwinShape' /\ Recording' /\ Updating' /\ Registering'
  BY <1>1 DEF TwinInvariant, TwinShape, Recording, Updating, Registering, NoCall
<1>6. RowsCounted'
  BY <1>1, <1>4 DEF TwinInvariant, RowsCounted
<1>7. EvaluationsRest'
  BY <1>1 DEF TwinInvariant, EvaluationsRest
<1>8. RegistryRests'
  <2>1. CASE call.twin.ledgered
    <3>1. /\ call.record \in evaluated
          /\ \A p \in performance : p.ledgered => p.id # row.id
      BY <1>1, <2>1 DEF TwinInvariant, Registering
    <3>2. PICK s \in simulated : s.id = call.record.id
      BY <1>1, <2>1 DEF TwinInvariant, Registering
    <3>3. s = r
      BY <1>3, <3>2 DEF TwinInvariant, TwinShape
    <3>4. s.id = row.id /\ s.twin = row.twin /\ s.level = row.level
      BY <1>3, <3>2, <3>3
    <3>5. call.record.id = row.id /\ call.record.errors = row.errors
      OBVIOUS
    <3> HIDE DEF row
    <3>6. QED
      BY <1>1, <3>1, <3>2, <3>4, <3>5 DEF TwinInvariant, RegistryRests
  <2>2. CASE ~call.twin.ledgered
    <3>1. ~row.ledgered
      BY <2>2
    <3> HIDE DEF row
    <3>2. QED
      BY <1>1, <3>1 DEF TwinInvariant, RegistryRests
  <2>3. QED
    BY <2>1, <2>2
<1>9. MemoryCoversLedger'
  <2>1. \A p \in performance : p.twin = row.twin => p.records # row.records
    <3>1. \A p \in performance : p.records \in Nat
      BY DEF TwinInvariant, RowsCounted
    <3>2. QED
      BY <1>2, <1>4, <3>1
  <2> HIDE DEF row
  <2>2. \A p, q \in performance' : p.twin = q.twin /\ p.records = q.records => p = q
    BY <1>1, <2>1 DEF TwinInvariant, MemoryCoversLedger
  <2>3. QED
    BY <1>1, <2>2 DEF TwinInvariant, MemoryCoversLedger
<1>10. QED
  BY <1>5, <1>6, <1>7, <1>8, <1>9 DEF TwinInvariant

LEMMA TwinStops ==
  ASSUME TwinAssumption, TwinInvariant, InsertRaises \/ KillProcess \/ UNCHANGED twinVars
  PROVE  TwinInvariant'
<1>1. CASE InsertRaises
  BY <1>1 DEF InsertRaises, TwinInvariant, TwinShape, Recording, Updating, Registering,
     RowsCounted, EvaluationsRest, RegistryRests, MemoryCoversLedger, NoCall
<1>2. CASE KillProcess
  <2>1. /\ commercialTwins' = {} /\ results' = {} /\ call' = NoCall
        /\ calibration' = [n \in Numbers |-> << >>]
        /\ built' = built /\ made' = made /\ simulated' = simulated
        /\ evaluated' = evaluated /\ performance' = performance
    BY <1>2 DEF KillProcess
  <2>2. TwinShape' /\ Recording' /\ Updating' /\ Registering' /\ RowsCounted'
    BY <2>1 DEF TwinInvariant, TwinShape, Recording, Updating, Registering, RowsCounted, NoCall
  <2>3. EvaluationsRest' /\ RegistryRests' /\ MemoryCoversLedger'
    BY <2>1 DEF TwinInvariant, EvaluationsRest, RegistryRests, MemoryCoversLedger
  <2>4. QED
    BY <2>2, <2>3 DEF TwinInvariant
<1>3. CASE UNCHANGED twinVars
  BY <1>3 DEF twinVars, TwinInvariant, TwinShape, Recording, Updating, Registering,
     RowsCounted, EvaluationsRest, RegistryRests, MemoryCoversLedger
<1>4. QED
  BY <1>1, <1>2, <1>3

LEMMA TwinSteps == ASSUME TwinAssumption, TwinInvariant, [TwinNext]_twinVars PROVE TwinInvariant'
<1>0. built \in Nat
  BY DEF TwinInvariant, TwinShape, TwinAssumption
<1>1. ASSUME NEW h \in TwinHistories, NEW features, NEW signals, NEW ledgered, NEW registered
      PROVE  LET t == NewTwin(h, features, signals, ledgered, registered) IN
             t.number = built + 1 /\ t.history \in TwinHistories
             /\ {"number", "history"} \subseteq DOMAIN t
  BY DEF NewTwin
<1>2. ASSUME NEW h \in TwinHistories, NEW signals \in Worlds, NEW features \in FeatureLists,
             NEW ledgered \in BOOLEAN, NEW registered \in BOOLEAN,
             BuildTwin(h, features, signals, ledgered, registered)
      PROVE  TwinInvariant'
  BY <1>1, <1>2, TwinAdds DEF BuildTwin
<1>3. ASSUME NEW h \in TwinHistories, NEW signals \in Worlds, NEW t \in commercialTwins, UpdateTwin(t, h, signals)
      PROVE  TwinInvariant'
  BY <1>1, <1>3, TwinAdds DEF UpdateTwin
<1>4. ASSUME NEW t \in commercialTwins, Attach(t) PROVE TwinInvariant'
  BY <1>4, TwinAttaches
<1>5. ASSUME NEW t \in commercialTwins, NEW a \in TwinActions, Simulate(t, a) PROVE TwinInvariant'
  BY <1>5, TwinSimulates
<1>6. ASSUME NEW t \in commercialTwins, NEW result \in results, NEW actual \in Reported,
             Update(t, result, actual)
      PROVE  TwinInvariant'
  BY <1>6, TwinUpdates
<1>7. CASE AppendSimulation
  BY <1>7, TwinRecords
<1>8. CASE AppendSimulationEvaluation
  BY <1>8, TwinEvaluates
<1>9. CASE AppendDecisionPerformance
  BY <1>9, TwinRegisters
<1>10. CASE InsertRaises \/ KillProcess \/ UNCHANGED twinVars
  BY <1>10, TwinStops
<1>11. QED
  BY <1>2, <1>3, <1>4, <1>5, <1>6, <1>7, <1>8, <1>9, <1>10 DEF TwinNext

\* The strengthened invariant of the twins.
THEOREM TwinInvariantHolds == ASSUME TwinAssumption PROVE TwinSpec => []TwinInvariant
<1>1. TwinInit => TwinInvariant
  BY TwinInitial
<1>2. TwinInvariant /\ [TwinNext]_twinVars => TwinInvariant'
  BY TwinSteps
<1>3. QED
  BY <1>1, <1>2, PTL DEF TwinSpec

\* What the ledger and the registry say of a simulation rests on what was recorded of it
\* (CommercialTwin.update appends to memory, ledger and registry one after the other).
THEOREM CalibrationSafe == ASSUME TwinAssumption PROVE TwinSpec => []CalibrationIsLedgered
<1>1. TwinInvariant => CalibrationIsLedgered
  BY DEF TwinInvariant, CalibrationIsLedgered
<1>2. QED
  BY <1>1, TwinInvariantHolds, PTL

\* The remaining variables: a record, in memory or in a table, speaks of a simulation that was made.
TwinRest ==
    /\ made <= MaxSimulations
    /\ \A s \in results \cup simulated : s.disposition = Disposition(s.level)
    /\ call.at = "record" => call.result.disposition = Disposition(call.result.level)
    /\ \A n \in Numbers : \A i \in DOMAIN calibration[n] : calibration[n][i].id \in 1..made
    /\ evaluated \subseteq TwinEvaluations /\ \A e \in evaluated : e.id \in 1..made
    /\ \A p \in performance : p.errors \in TwinValues /\ p.id \in 1..made

LEMMA TwinRestStep ==
    ASSUME TwinAssumption, TwinInvariant, TwinRest, [TwinNext]_twinVars
    PROVE  TwinRest'
<1> USE DEF TwinRest
<1>1. TwinShape /\ Recording /\ Updating /\ made \in Nat
  BY DEF TwinInvariant, TwinShape
<1>2. ASSUME NEW t, AddTwin(t)
      PROVE  TwinRest'
  BY <1>2 DEF AddTwin
<1>3. ASSUME NEW h \in TwinHistories, NEW signals \in Worlds, NEW features, NEW ledgered, NEW registered,
             BuildTwin(h, features, signals, ledgered, registered)
      PROVE  TwinRest'
  BY <1>2, <1>3 DEF BuildTwin
<1>4. ASSUME NEW h \in TwinHistories, NEW signals \in Worlds, NEW t \in commercialTwins, UpdateTwin(t, h, signals)
      PROVE  TwinRest'
  BY <1>2, <1>4 DEF UpdateTwin
<1>5. ASSUME NEW t \in commercialTwins, Attach(t)
      PROVE  TwinRest'
  BY <1>5 DEF Attach
<1>6. ASSUME NEW t \in commercialTwins, NEW a \in TwinActions, Simulate(t, a)
      PROVE  TwinRest'
  <2> DEFINE result == PredictOutcomes(t, a, made + 1)
  <2>1. /\ made' = made + 1 /\ made < MaxSimulations
        /\ UNCHANGED <<calibration, simulated, evaluated, performance>>
        /\ \/ call' = [at |-> "record", result |-> result] /\ results' = results
           \/ results' = results \cup {result} /\ call' = call
    BY <1>6 DEF Simulate
  <2>2. result.disposition = Disposition(result.level)
    BY DEF PredictOutcomes
  <2>3. \A n \in 1..made : n \in 1..made'
    BY <1>1, <2>1
  <2>4. made' <= MaxSimulations
    BY <1>1, <2>1 DEF TwinAssumption
  <2>. HIDE DEF result
  <2>. QED  BY <2>1, <2>2, <2>3, <2>4
<1>7. ASSUME NEW t \in commercialTwins, NEW result \in results, NEW actual \in Reported,
             Update(t, result, actual)
      PROVE  TwinRest'
  <2> DEFINE record == [id |-> result.id, predicted |-> result.means, actual |-> actual,
                        errors |-> SharedErrors(result.means, actual)]
  <2>1. /\ calibration' = [calibration EXCEPT ![t.number] = Append(@, record)]
        /\ call'.at # "record"
        /\ UNCHANGED <<made, results, simulated, evaluated, performance>>
    BY <1>7 DEF Update, NoCall
  <2>2. record.id \in 1..made
    BY <1>1 DEF TwinShape
  <2>3. ASSUME NEW n \in Numbers, NEW i \in DOMAIN calibration'[n]
        PROVE  calibration'[n][i].id \in 1..made
    <3>1. calibration[n] \in Seq(TwinEvaluations)
      BY <1>1 DEF TwinShape
    <3>. HIDE DEF record
    <3>2. CASE n = t.number
      <4>1. calibration'[n] = Append(calibration[n], record)
        BY <1>1, <2>1, <3>2 DEF TwinShape
      <4>2. CASE i = Len(calibration[n]) + 1
        BY <2>2, <3>1, <4>1, <4>2
      <4>3. CASE i # Len(calibration[n]) + 1
        <5>1. i \in DOMAIN calibration[n] /\ calibration'[n][i] = calibration[n][i]
          BY <2>3, <3>1, <4>1, <4>3
        <5>. QED  BY <5>1
      <4>. QED  BY <4>2, <4>3
    <3>3. CASE n # t.number
      <4>1. calibration'[n] = calibration[n]
        BY <1>1, <2>1, <3>3 DEF TwinShape
      <4>. QED  BY <2>3, <4>1
    <3>. QED  BY <3>2, <3>3
  <2>. HIDE DEF record
  <2>. QED  BY <2>1, <2>3
<1>8. CASE AppendSimulation
  BY <1>8 DEF AppendSimulation, NoCall
<1>9. CASE AppendSimulationEvaluation
  <2>1. call.record \in TwinEvaluations /\ call.record.id \in 1..made
    BY <1>1, <1>9 DEF AppendSimulationEvaluation, Updating, TwinShape
  <2>2. call'.at # "record"
    BY <1>1, <1>9 DEF AppendSimulationEvaluation, NoCall, Updating
  <2>. QED  BY <1>9, <2>1, <2>2 DEF AppendSimulationEvaluation
<1>10. CASE AppendDecisionPerformance
  <2>1. call.record.errors \in TwinValues /\ call.record.id \in 1..made
    BY <1>1, <1>10 DEF AppendDecisionPerformance, Updating, TwinShape, TwinEvaluations
  <2>. QED  BY <1>10, <2>1 DEF AppendDecisionPerformance, NoCall
<1>11. CASE InsertRaises \/ KillProcess \/ UNCHANGED twinVars
  BY <1>11 DEF InsertRaises, KillProcess, twinVars, NoCall
<1>. QED  BY <1>3, <1>4, <1>5, <1>6, <1>7, <1>8, <1>9, <1>10, <1>11 DEF TwinNext

LEMMA TwinShapeTyped == ASSUME TwinAssumption, TwinInvariant, TwinRest PROVE TwinTypeOK
<1>1. TwinShape /\ RowsCounted
  BY DEF TwinInvariant
<1>2. \A v \in TwinValues : Valued(v)
  BY DEF TwinValues, Valued
<1>3. \A s \in results \cup simulated : Simulation(s)
  <2> SUFFICES ASSUME NEW s \in results \cup simulated
               PROVE  Simulation(s)
    OBVIOUS
  <2>1. s \in TwinResults /\ s.id \in 1..made /\ s.twin \in 1..built /\ s.disposition = Disposition(s.level)
    BY <1>1 DEF TwinShape, TwinRest
  <2>2. DOMAIN s = {"means", "level", "disposition", "id", "twin"} /\ s.means \in TwinValues /\ s.level \in SupportLevels
    BY <2>1 DEF TwinResults
  <2>. QED  BY <1>2, <2>1, <2>2 DEF Simulation
<1>4. ASSUME NEW e \in TwinEvaluations, e.id \in 1..made
      PROVE  Evaluation(e)
  <2>1. DOMAIN e = {"id", "predicted", "actual", "errors"} /\ e.predicted \in TwinValues
            /\ e.actual \in Reported /\ e.errors \in TwinValues
    BY DEF TwinEvaluations
  <2>. QED  BY <1>2, <1>4, <2>1 DEF Evaluation
<1>5. \A n \in Numbers : \A i \in DOMAIN calibration[n] : calibration[n][i] \in TwinEvaluations
  BY <1>1 DEF TwinShape
<1>6. \A n \in Numbers : \A i \in DOMAIN calibration[n] : Evaluation(calibration[n][i])
  BY <1>4, <1>5 DEF TwinRest
<1>7. \A e \in evaluated : Evaluation(e)
  BY <1>4 DEF TwinRest
<1>8. \A p \in performance : Valued(p.errors) /\ p.records \in Nat /\ p.id \in 1..made /\ p.twin \in 1..built
  BY <1>1, <1>2 DEF RowsCounted, TwinRest
<1>9. built \in 0..MaxTwins /\ made \in 0..MaxSimulations /\ DOMAIN calibration = Numbers
      /\ \A t \in commercialTwins : t.number \in 1..built /\ t.history \in TwinHistories
  BY <1>1 DEF TwinShape, TwinRest, TwinAssumption
<1>. QED  BY <1>3, <1>6, <1>7, <1>8, <1>9 DEF TwinTypeOK

\* The twins, the ledger and the registry have their types, whatever is built, reported or killed.
THEOREM TwinTyped == ASSUME TwinAssumption PROVE TwinSpec => []TwinTypeOK
<1>1. TwinInit => TwinRest
  BY DEF TwinAssumption, TwinInit, TwinRest, NoCall
<1>2. TwinInvariant /\ TwinRest /\ [TwinNext]_twinVars => TwinRest'
  BY TwinRestStep
<1>3. TwinInvariant /\ TwinRest => TwinTypeOK
  BY TwinShapeTyped
<1>. QED  BY <1>1, <1>2, <1>3, TwinInvariantHolds, PTL DEF TwinSpec

\* The factory never hands a calibration count to assess_readiness: no twin is ever READY,
\* whatever its history, and no outcome reported to it changes that.
THEOREM NeverReady ==
  ASSUME NEW h, NEW features, NEW signals, NEW ledgered, NEW registered
  PROVE  NewTwin(h, features, signals, ledgered, registered).readiness # "READY"
<1> DEFINE components == ReadinessComponents(h, 0, Cardinality(signals))
<1>1. /\ "calibration_history" \in DOMAIN components
      /\ components["calibration_history"] = "NOT_READY"
  BY DEF ReadinessComponents, StatusOf
<1> HIDE DEF components
<1>2. Readiness(h, 0, Cardinality(signals)) # "READY"
  BY <1>1 DEF Readiness, components
<1>3. QED
  BY <1>2 DEF NewTwin

===============================================================================
