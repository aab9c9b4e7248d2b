----------------------------- MODULE DoseDecision ------------------------------
(***************************************************************************)
(* ContinuousDecisionEngine: which discount to recommend, from the profit  *)
(* the estimator predicts for every dose, the support each dose has in the *)
(* history, the bootstrap draws of the profit, and the falsification and   *)
(* sensitivity flags.  Numbers are small integers: a profit is a level,    *)
(* two profits within Near of each other are economically equal, the doses *)
(* are the steps of a grid, and a measure of support is the band it falls  *)
(* in.  One question is asked and answered in a behaviour.                 *)
(***************************************************************************)
EXTENDS Integers, FiniteSets

CONSTANTS
    DoseCount,      \* the candidate doses are 1..DoseCount, 1 is the baseline
    MaxProfit,
    Near,           \* near_optimal_fraction of the profit, or 0.01
    Reach           \* maximum_projection_distance, in steps of the grid

Doses == 1..DoseCount

ASSUME DoseAssumption ==
    /\ DoseCount \in Nat \ {0} /\ MaxProfit \in Nat /\ Near \in Nat \ {0} /\ Reach \in Nat

VARIABLES
    question,       \* what recommend is given, Unasked before
    answer          \* what it returns, Unasked before

doseVars == <<question, answer>>

Unasked == [status |-> "unasked"]

-------------------------------------------------------------------------------
(* The two gates on the support of a dose.                                 *)

\* A dose in its context, by the bands of ConditionalSupportConfig.
Measures ==
    [percentile : {"typical", "warning", "rare"}, thin : BOOLEAN,
     ess : {"strong", "moderate", "low", "none"}, nearest : {"near", "warning", "far"},
     outside : BOOLEAN, invalid : BOOLEAN]

Fires(m) ==
    [density_percentile_hard |-> m.percentile = "rare",
     density_percentile_soft |-> m.percentile \in {"warning", "rare"},
     density_ratio_hard |-> m.thin,
     local_ess_hard |-> m.ess = "none",
     local_ess_soft |-> m.ess \in {"low", "none"},
     nearest_distance_hard |-> m.nearest = "far",
     nearest_distance_soft |-> m.nearest \in {"warning", "far"},
     extrapolation_hard |-> m.outside,
     density_invalid |-> m.invalid,
     moderate_ess |-> m.ess # "strong"]

HardRules == {"density_percentile_hard", "density_ratio_hard", "local_ess_hard",
              "nearest_distance_hard", "extrapolation_hard", "density_invalid"}
SoftRules == {"density_percentile_soft", "local_ess_soft", "nearest_distance_soft", "moderate_ess"}

Level(m) ==
    IF \E r \in HardRules : Fires(m)[r] THEN "UNSUPPORTED"
    ELSE IF \E r \in SoftRules : Fires(m)[r] THEN "LIMITED" ELSE "SUPPORTED"

SoftWarnings(m) == {r \in SoftRules : Fires(m)[r]}

GateReport(m) ==
    [feasible |-> Level(m) # "UNSUPPORTED", soft |-> Cardinality(SoftWarnings(m))]

\* Without a density model: a dose is refused outside the historical ones, and never warned of.
HistoryReport(outside) == [feasible |-> ~outside, soft |-> 0]

\* A representative of every way the gate can judge a dose.
Sound == [percentile |-> "typical", thin |-> FALSE, ess |-> "strong", nearest |-> "near",
          outside |-> FALSE, invalid |-> FALSE]
Contexts == {Sound, [Sound EXCEPT !.ess = "moderate"], [Sound EXCEPT !.ess = "low"],
             [Sound EXCEPT !.percentile = "rare"]}

SupportReports ==
    [Doses -> {GateReport(m) : m \in Contexts}] \cup
    [Doses -> {HistoryReport(outside) : outside \in BOOLEAN}]

-------------------------------------------------------------------------------
(* The question.  In every draw some supported dose is the best one, so    *)
(* only with three supported doses, or more, can they share the draws such *)
(* that none is near the best in half of them.                             *)

Feasible(q) == {d \in Doses : q.report[d].feasible}

Draws(report) ==
    {[given |-> FALSE, near |-> {}]} \cup
    {[given |-> TRUE, near |-> near] : near \in
        {n \in SUBSET Doses :
            \/ n \cap {d \in Doses : report[d].feasible} # {}
            \/ Cardinality({d \in Doses : report[d].feasible}) > 2}}

AskDose ==
    /\ question = Unasked
    /\ \E profit \in [Doses -> 0..MaxProfit], report \in SupportReports,
          falsified \in BOOLEAN, sensitive \in BOOLEAN :
       \E draws \in Draws(report) :
           question' = [status |-> "asked", profit |-> profit, report |-> report, draws |-> draws,
                        falsified |-> falsified, sensitive |-> sensitive]
    /\ UNCHANGED answer

-------------------------------------------------------------------------------
(* recommend.                                                              *)

\* argmax: the first of the best.
BestOfDoses(q, S) ==
    CHOOSE d \in S : \A e \in S : q.profit[e] < q.profit[d] \/ (q.profit[e] = q.profit[d] /\ d <= e)

\* Mutant: the supported doses are not asked for.
PickAny(q) == BestOfDoses(q, Doses)

Pick(q) == BestOfDoses(q, Feasible(q))

Distance(d, e) == IF d < e THEN e - d ELSE d - e

\* The best dose of all is supported, or a supported one close to it is nearly as good.
Projectable(q) ==
    LET top == BestOfDoses(q, Doses) IN
    /\ Feasible(q) # {}
    /\ top \notin Feasible(q) =>
           /\ q.profit[top] - q.profit[Pick(q)] <= Near
           /\ Distance(top, Pick(q)) <= Reach

NearOptimal(q) ==
    IF q.draws.given THEN q.draws.near ELSE {d \in Doses : q.profit[d] >= q.profit[Pick(q)] - Near}
Robust(q) == NearOptimal(q) \cap Feasible(q)

Promising(q) == q.profit[Pick(q)] > q.profit[1] + Near
Interesting(q) == q.profit[Pick(q)] > q.profit[1]
Uncertain(q) == q.draws.given /\ Cardinality(Robust(q)) > 1
Doubtful(q) == q.report[Pick(q)].soft > 1 \/ Uncertain(q) \/ q.sensitive

Reply(status, dose, arms) == [status |-> status, dose |-> dose, arms |-> arms]
Abstain == Reply("ABSTAIN", 0, {})

\* No dose is supported, or the best is not and no other may stand in for it.
AbstainUnsupported ==
    /\ question # Unasked /\ answer = Unasked
    /\ ~Projectable(question)
    /\ answer' = Abstain
    /\ UNCHANGED question

AbstainFalsified ==
    /\ question # Unasked /\ answer = Unasked
    /\ Projectable(question) /\ question.falsified
    /\ answer' = Abstain
    /\ UNCHANGED question

Weighable == question # Unasked /\ answer = Unasked /\ Projectable(question) /\ ~question.falsified

AbstainNoGain ==
    /\ Weighable
    /\ ~Interesting(question)
    /\ answer' = Abstain
    /\ UNCHANGED question

\* The arms are the ends of the robust range, or the two doses with most penalized profit:
\* an unsupported dose comes last, but it comes.
Penalized(q, d) == IF q.report[d].feasible THEN q.profit[d] ELSE -1
TopTwo(q) ==
    {arms \in SUBSET Doses : /\ Cardinality(arms) = 2
                             /\ \A a \in arms, d \in Doses \ arms : Penalized(q, d) <= Penalized(q, a)}
ArmsOf(q) ==
    IF Cardinality(Robust(q)) < 2 THEN TopTwo(q)
    ELSE {{d \in Robust(q) : (\A e \in Robust(q) : d <= e) \/ (\A e \in Robust(q) : e <= d)}}

Experiment ==
    /\ Weighable
    /\ Interesting(question)
    /\ Doubtful(question) \/ ~Promising(question)
    /\ Robust(question) # {}
    /\ \E arms \in ArmsOf(question) : answer' = Reply("EXPERIMENT", Pick(question), arms)
    /\ UNCHANGED question

Act ==
    /\ Weighable
    /\ Promising(question) /\ ~Doubtful(question)
    /\ Robust(question) # {}
    /\ answer' = Reply("ACT", Pick(question), {})
    /\ UNCHANGED question

\* The range of no dose: the minimum of an empty array raises.
RaiseEmptyRange ==
    /\ Weighable
    /\ Interesting(question)
    /\ Robust(question) = {}
    /\ answer' = Reply("RAISES", 0, {})
    /\ UNCHANGED question

DoseInit == question = Unasked /\ answer = Unasked

DoseNext ==
    \/ AskDose \/ AbstainUnsupported \/ AbstainFalsified \/ AbstainNoGain
    \/ Experiment \/ Act \/ RaiseEmptyRange

DoseSpec == DoseInit /\ [][DoseNext]_doseVars

DoseTypeOK ==
    /\ question = Unasked \/ question.report \in SupportReports
    /\ answer = Unasked \/
       /\ answer.status \in {"ACT", "EXPERIMENT", "ABSTAIN", "RAISES"}
       /\ answer.dose \in 0..DoseCount /\ answer.arms \subseteq Doses

-------------------------------------------------------------------------------
(* Properties.                                                             *)

\* A dose that is recommended, to act on or to test, is supported, is the best of the supported
\* ones and beats the baseline; one that stands in for an unsupported optimum is close to it in
\* dose and in profit.  It is acted on only when the gain is more than noise, nothing was
\* falsified, the support has one weakness at most and no two doses share the draws.  An
\* experiment compares two doses, both supported unless only one is.
\* The call raises only where the draws leave no dose near the best.
DoseIsEarned ==
    LET q == question
        gain(d) == q.profit[d] - q.profit[1]
    IN  /\ answer.status \in {"ACT", "EXPERIMENT"} =>
               /\ q.report[answer.dose].feasible /\ ~q.falsified
               /\ gain(answer.dose) > 0
               /\ \A d \in Doses : \/ q.profit[d] <= q.profit[answer.dose]
                                   \/ /\ ~q.report[d].feasible
                                      /\ q.profit[d] <= q.profit[answer.dose] + Near
        /\ answer.status = "ACT" =>
               /\ gain(answer.dose) > Near
               /\ ~q.sensitive /\ q.report[answer.dose].soft <= 1
               /\ q.draws.given => \E d \in Feasible(q) : q.draws.near \cap Feasible(q) = {d}
        /\ answer.status = "EXPERIMENT" =>
               /\ Cardinality(answer.arms) = 2
               /\ answer.arms \subseteq Feasible(q) \/ Cardinality(Feasible(q)) = 1
        /\ answer.status = "RAISES" => q.draws.given /\ Cardinality(Feasible(q)) > 2
================================================================================
