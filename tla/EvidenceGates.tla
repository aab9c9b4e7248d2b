----------------------------- MODULE EvidenceGates -----------------------------
(***************************************************************************)
(* The gates that decide from randomized evidence what a population is     *)
(* exposed to: the world evaluations of V7 and V7.1, the multi-arm policy  *)
(* of V7.2, the stability gates of V7.3, the selection of a development    *)
(* model, the promotion of its gate to customers and the scorecard of the  *)
(* Hillstrom benchmark.  A statistic is the side of the threshold it falls *)
(* on.  One dossier is handed to one of them in a behaviour.               *)
(***************************************************************************)
EXTENDS Integers, FiniteSets

CONSTANTS
    PolicyActions,  \* actions of the multi-arm policy, 0 is business as usual
    MaxNet,
    Candidates,     \* development models, in the order they were evaluated
    Tolerance       \* calibration_tolerance

ASSUME GateAssumption ==
    /\ PolicyActions \subseteq Nat /\ IsFiniteSet(PolicyActions) /\ 0 \in PolicyActions /\ MaxNet \in Nat
    /\ Candidates \subseteq Nat /\ IsFiniteSet(Candidates) /\ Candidates # {} /\ Tolerance \in Nat

VARIABLES
    dossier,        \* the evidence handed in, Undecided before
    ruling          \* the gate's answer, Undecided before

gateVars == <<dossier, ruling>>

Undecided == [kind |-> "undecided"]

Asked(kind) == dossier.kind = kind /\ ruling = Undecided

-------------------------------------------------------------------------------
(* The average effect of an action against business as usual, from an      *)
(* interval whose ends are negative (-1), positive (0) or material (1).    *)

Intervals == {i \in [lower : -1..1, upper : -1..1] : i.lower <= i.upper}

\* Mutant: the lower end may be merely positive.
ViabilityOfPositive(enough, i) ==
    IF ~enough THEN "INSUFFICIENT"
    ELSE IF i.lower >= 0 THEN "VIABLE"
    ELSE IF i.upper = -1 THEN "HARMFUL" ELSE "UNCERTAIN"

Viability(enough, i) ==
    IF ~enough THEN "INSUFFICIENT"
    ELSE IF i.lower = 1 THEN "VIABLE"
    ELSE IF i.upper = -1 THEN "HARMFUL" ELSE "UNCERTAIN"

\* What holds of the randomization, and of a policy that treats some against the best static one.
Supports == {"propensity", "attrition", "overlap", "costs"}
PersonalChecks == {"gain", "rate", "shuffle", "ess"}

Answer(decision, policy, treated) ==
    [kind |-> "answer", decision |-> decision, policy |-> policy, treated |-> treated]

WorldDossiers(kind, folds) ==
    [kind : {kind}, support : SUBSET Supports, enough : BOOLEAN, interval : Intervals,
     checks : SUBSET PersonalChecks, folds : folds, anyone : BOOLEAN]

\* HeterogeneityGate: at least 0.8 of the five folds gain.
Personal(d) ==
    /\ d.checks = PersonalChecks /\ d.folds >= 4
    /\ Supports \ d.support \subseteq {"costs"}

EvaluateWorld ==
    /\ Asked("v7")
    /\ LET d == dossier
           supported == Supports \ d.support \subseteq {"costs"}
           viability == Viability(supported /\ "costs" \in d.support /\ d.enough, d.interval)
           policy == IF viability = "INSUFFICIENT" THEN "BAU"
                     ELSE IF viability = "HARMFUL" THEN "AVOID"
                     ELSE IF Personal(d) THEN "INDIVIDUALIZED"
                     ELSE IF viability = "VIABLE" THEN "TREAT_ALL" ELSE "BAU"
           treated == policy = "TREAT_ALL" \/ (policy = "INDIVIDUALIZED" /\ d.anyone)
       IN ruling' = Answer(IF treated THEN "ACT" ELSE IF policy = "AVOID" THEN "AVOID" ELSE "BAU_OR_TEST",
                           policy, treated)
    /\ UNCHANGED dossier

\* Four folds of which three must gain; the costs are part of the support.
Promoted(d) == d.checks = PersonalChecks /\ d.folds >= 3 /\ d.support = Supports

EvaluateCandidate ==
    /\ Asked("v7_1")
    /\ LET d == dossier
           viability == Viability(d.support = Supports /\ d.enough, d.interval)
       IN ruling' = IF d.support # Supports THEN Answer("BAU_OR_TEST", "BAU", FALSE)
                    ELSE IF viability = "HARMFUL" THEN Answer("AVOID", "AVOID", FALSE)
                    ELSE IF Promoted(d) THEN Answer("ACT", "PERSONALIZED", d.anyone)
                    ELSE IF viability = "VIABLE" THEN Answer("ACT", "TREAT_ALL", TRUE)
                    ELSE Answer("BAU_OR_TEST", "BAU", FALSE)
    /\ UNCHANGED dossier

\* A model that cannot be fitted or evaluated leaves the world at business as usual.
EvaluationFails ==
    /\ Asked("v7_1")
    /\ ruling' = Answer("BAU_OR_TEST", "BAU", FALSE)
    /\ UNCHANGED dossier

-------------------------------------------------------------------------------
(* EconomicPolicyEngine.decide, for one row.                               *)

RowDossiers ==
    {d \in [kind : {"row"}, net : [PolicyActions -> 0..MaxNet],
            allowed : SUBSET PolicyActions, rows : SUBSET PolicyActions,
            noise : 0..MaxNet, materiality : 0..1] : 0 \in d.allowed}

Chosen(d) ==
    CHOOSE a \in d.allowed : \A b \in d.allowed : d.net[b] < d.net[a] \/ (d.net[b] = d.net[a] /\ a <= b)

DecideRow ==
    /\ Asked("row")
    /\ LET d == dossier
           a == Chosen(d)
           point == d.net[a] - d.net[0]
           act == a \in d.rows /\ point - d.noise > d.materiality
           test == a \in d.rows /\ point > d.materiality /\ ~act
       IN ruling' = IF a = 0 THEN Answer("BAU", 0, FALSE)
                    ELSE IF a \notin d.rows THEN Answer("AVOID", 0, FALSE)
                    ELSE IF act THEN Answer("ACT", a, TRUE)
                    ELSE IF test THEN Answer("TEST", a, TRUE) ELSE Answer("BAU", 0, FALSE)
    /\ UNCHANGED dossier

-------------------------------------------------------------------------------
(* The stability gates.  A measure is a flaw when it falls short.          *)

SupportReasons ==
    {"unsupported_action", "assignment_integrity", "post_treatment_feature", "immature_outcomes",
     "differential_attrition", "insufficient_overlap", "insufficient_ess", "budget"}

Flaws ==
    {"lower", "folds", "fold", "bad_fold", "leave_one_out", "stratified", "balanced_80", "balanced_75",
     "median", "capped", "influence", "bootstrap_lower", "bootstrap_probability", "simultaneous",
     "aipw", "bayes", "robust"}

\* What the measures of one data set have to do with each other: with at most one fold that loses
\* the worst may still be a slight loss; of 200 bootstrap values the quantile lies between the fifth
\* and the sixth, the probability passes with five that lose; the simultaneous and the robust bound
\* are below the plain one.
Consistent(f) ==
    /\ f \cap {"folds", "bad_fold"} # {} => "fold" \in f
    /\ "balanced_75" \in f => "balanced_80" \in f
    /\ "bootstrap_probability" \in f => "bootstrap_lower" \in f
    /\ "lower" \in f => {"simultaneous", "bayes", "robust"} \subseteq f
    /\ "capped" \in f => "robust" \in f

StabilityDossiers ==
    {d \in [kind : {"stability"}, reasons : SUBSET SupportReasons, flaws : SUBSET Flaws] :
        /\ Cardinality(d.reasons) <= 1 /\ (d.reasons # {} => d.flaws = {})
        /\ Consistent(d.flaws)}

\* The measures each gate asks for, and those whose least is the bound it reports.
Conditions ==
    [existing_v72_fold_veto |-> {"lower", "folds", "bad_fold", "leave_one_out"},
     repeated_stratified |-> {"lower", "stratified"},
     repeated_arm_balanced |-> {"lower", "balanced_80"},
     median_of_means |-> {"median"},
     influence_bounded |-> {"capped", "influence"},
     bootstrap_positive_probability |-> {"bootstrap_probability", "bootstrap_lower"},
     simultaneous_lcb |-> {"simultaneous"},
     cross_fitted_aipw_lcb |-> {"aipw"},
     bayesian_positive_probability |-> {"bayes"},
     distributionally_robust |-> {"robust"},
     combined_economic |-> {"aipw", "bootstrap_probability", "balanced_75", "influence"}]

Bounds ==
    [existing_v72_fold_veto |-> {"lower", "fold"}, repeated_stratified |-> {"lower"},
     repeated_arm_balanced |-> {"lower"}, median_of_means |-> {"median"},
     influence_bounded |-> {"capped"}, bootstrap_positive_probability |-> {"bootstrap_lower"},
     simultaneous_lcb |-> {"simultaneous"}, cross_fitted_aipw_lcb |-> {"aipw"},
     bayesian_positive_probability |-> {"lower"}, distributionally_robust |-> {"robust"},
     combined_economic |-> {"aipw", "bootstrap_lower"}]

AssessCandidates ==
    /\ Asked("stability")
    /\ ruling' = [kind |-> "assessment",
                  acting |-> {g \in DOMAIN Conditions :
                                  dossier.reasons = {} /\ Conditions[g] \cap dossier.flaws = {}},
                  positive |-> {g \in DOMAIN Bounds : Bounds[g] \cap dossier.flaws = {}}]
    /\ UNCHANGED dossier

-------------------------------------------------------------------------------
(* The development model, its gate before customers, and the scorecard.    *)

SelectionDossiers == [kind : {"selection"}, value : [Candidates -> 0..2], error : [Candidates -> 0..2]]

Calibrated(d) == {c \in Candidates : \A e \in Candidates : d.error[c] <= d.error[e] + Tolerance}

\* max returns the first of the best.
SelectDevelopmentModel ==
    /\ Asked("selection")
    /\ LET d == dossier
           below(e, c) == \/ d.value[e] < d.value[c]
                          \/ d.value[e] = d.value[c] /\ d.error[e] > d.error[c]
                          \/ d.value[e] = d.value[c] /\ d.error[e] = d.error[c] /\ c <= e
       IN ruling' = [kind |-> "selected",
                     model |-> CHOOSE c \in Calibrated(d) : \A e \in Calibrated(d) : below(e, c)]
    /\ UNCHANGED dossier

Comparators == {"ungated", "simple", "treat_all", "treat_none"}
GateBenchmarks == [{"gated"} \cup Comparators -> 0..1]
PromotionDossiers == [kind : {"promotion"}, development : GateBenchmarks, final : GateBenchmarks]

GateWins(b) == \A c \in Comparators : b["gated"] > b[c]

PromoteCustomerFacingGate ==
    /\ Asked("promotion")
    /\ ruling' = [kind |-> "promotion",
                  enabled |-> GateWins(dossier.development) /\ GateWins(dossier.final)]
    /\ UNCHANGED dossier

\* The components the Hillstrom benchmark fills in; the other seven are not available.
ScorecardDossiers ==
    [kind : {"scorecard"}, treatment_overlap : {"GOOD"}, effective_sample_size : {"GOOD"},
     estimator_agreement : {"GOOD", "BAD"}, covariate_balance : {"GOOD", "WARNING"},
     placebo_tests : {"GOOD", "BAD"}, specification_robustness : {"GOOD"},
     missingness : {"GOOD", "WARNING"}]

Components == {"treatment_overlap", "effective_sample_size", "estimator_agreement", "covariate_balance",
               "placebo_tests", "specification_robustness", "missingness"}
HardComponents == {"treatment_overlap", "estimator_agreement", "placebo_tests"}

RecommendationStatus(d) ==
    LET count(status) == Cardinality({c \in Components : d[c] = status}) IN
    IF \E c \in HardComponents : d[c] = "BAD" THEN "INSUFFICIENT"
    ELSE IF count("BAD") > 0 \/ Cardinality(Components) < 4 THEN "WEAK"
    ELSE IF count("WARNING") = 0 /\ Cardinality(Components) >= 8 THEN "STRONG" ELSE "MODERATE"

Scorecard ==
    /\ Asked("scorecard")
    /\ LET status == RecommendationStatus(dossier) IN
       ruling' = Answer(IF status \notin {"INSUFFICIENT", "WEAK"} THEN "ACT"
                        ELSE IF status = "INSUFFICIENT" THEN "ABSTAIN" ELSE "EXPERIMENT",
                        status, status \notin {"INSUFFICIENT", "WEAK"})
    /\ UNCHANGED dossier

-------------------------------------------------------------------------------
HandIn ==
    /\ dossier = Undecided
    /\ \/ dossier' \in WorldDossiers("v7", 3..5)
       \/ dossier' \in WorldDossiers("v7_1", 2..4)
       \/ dossier' \in RowDossiers
       \/ dossier' \in StabilityDossiers
       \/ dossier' \in SelectionDossiers
       \/ dossier' \in PromotionDossiers
       \/ dossier' \in ScorecardDossiers
    /\ UNCHANGED ruling

GateInit == dossier = Undecided /\ ruling = Undecided

GateNext ==
    \/ HandIn
    \/ EvaluateWorld \/ EvaluateCandidate \/ EvaluationFails
    \/ DecideRow \/ AssessCandidates
    \/ SelectDevelopmentModel \/ PromoteCustomerFacingGate \/ Scorecard

GateSpec == GateInit /\ [][GateNext]_gateVars

GateTypeOK ==
    /\ dossier.kind \in {"undecided", "v7", "v7_1", "row", "stability", "selection", "promotion", "scorecard"}
    /\ ruling = Undecided \/ dossier # Undecided

-------------------------------------------------------------------------------
(* Properties.                                                             *)

\* Nobody is treated in a world whose randomization, overlap, attrition or costs are in doubt, nor
\* by an action shown to harm; everyone only if the effect is material even at its lower end.  V7
\* personalizes only where the average effect could be estimated; V7.1 also where it could not, and
\* it reports ACT for a personal policy that selects nobody.
WorldsAreEarned ==
    dossier.kind \in {"v7", "v7_1"} /\ ruling # Undecided =>
        /\ ruling.treated => dossier.support = Supports /\ ruling.decision = "ACT"
        /\ ruling.treated /\ dossier.enough => dossier.interval.upper >= 0
        /\ ruling.policy = "TREAT_ALL" => dossier.enough /\ dossier.interval.lower = 1
        /\ ruling.treated /\ ~dossier.enough => dossier.kind = "v7_1" /\ Promoted(dossier)
        /\ ruling.decision = "ACT" /\ ~ruling.treated =>
               dossier.kind = "v7_1" /\ Promoted(dossier) /\ ~dossier.anyone

\* The action a row gets is allowed, and if it is not business as usual it has the rows and is
\* materially better.  A supported action that is materially better is passed over only for a
\* better one, or, and then the row stays at business as usual, for one without the rows.
RowsAreEarned ==
    dossier.kind = "row" /\ ruling # Undecided =>
        LET gain(a) == dossier.net[a] - dossier.net[0]
            got == ruling.policy
        IN  /\ got \in dossier.allowed
            /\ got # 0 => got \in dossier.rows /\ gain(got) > dossier.materiality
            /\ \A a \in (dossier.allowed \cap dossier.rows) \ {0} :
                   gain(a) > dossier.materiality =>
                       gain(got) >= gain(a) \/ (got = 0 /\ ruling.decision = "AVOID")

\* A stability gate that acts reports a positive lower bound, except two: the fold veto lets a
\* slight loss of one fold pass and reports it, and the combined gate asks for the bootstrap
\* probability and reports the quantile.
BoundsArePositive ==
    ruling.kind = "assessment" =>
        \A g \in ruling.acting \ ruling.positive :
            /\ g \in {"existing_v72_fold_veto", "combined_economic"}
            /\ g = "existing_v72_fold_veto" => "fold" \in dossier.flaws /\ "lower" \notin dossier.flaws
            /\ g = "combined_economic" =>
                   "bootstrap_lower" \in dossier.flaws /\ "aipw" \notin dossier.flaws

\* No model that is at least as well calibrated promises more than the selected one, which is
\* within the tolerance of the best calibrated.
SelectionIsCalibrated ==
    ruling.kind = "selected" =>
        /\ ruling.model \in Calibrated(dossier)
        /\ \A c \in Candidates :
               dossier.error[c] <= dossier.error[ruling.model] => dossier.value[c] <= dossier.value[ruling.model]

\* The exposure every gate allows is earned by the evidence it was handed.
ExposureIsEarned ==
    /\ WorldsAreEarned
    /\ RowsAreEarned
    /\ BoundsArePositive
    /\ SelectionIsCalibrated
    /\ dossier.kind = "scorecard" /\ ruling # Undecided =>
           (ruling.treated <=> \A c \in Components : dossier[c] # "BAD")
===============================================================================
