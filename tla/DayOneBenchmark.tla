---------------------------- MODULE DayOneBenchmark ----------------------------
(***************************************************************************)
(* Which days the predictions of the customer twin benchmarks rest on.     *)
(* FrozenBenchmark says in which order a run freezes, appends and reveals; *)
(* this module says where the windows lie that it fits, calibrates,        *)
(* selects and is scored on: a prediction for the days from a cutoff on    *)
(* must rest on days before it.                                            *)
(*                                                                         *)
(* The H&M benchmarks V1 and V2 (merchant day 1) have three commands:      *)
(* audit places the cutoffs by the dates of the data alone, dev evaluates  *)
(* the models at the development cutoffs and freezes a selection, final    *)
(* predicts from the last cutoff, then reads its outcomes.  A person       *)
(* starts one job at a time; between them newer data may be            *)
(* downloaded and the derived Parquet of V2 be deleted; a job may be   *)
(* killed at any step.  The customer twin core on Online Retail II is one  *)
(* job with fixed cutoffs.                                             *)
(*                                                                         *)
(* Days are numbers, the first of the data is day 0.  Customers, features  *)
(* and scores are left out: a frame is the set of days it is read from.    *)
(***************************************************************************)
EXTENDS Integers, FiniteSets, FiniteSetsExt

CONSTANTS
    Length,             \* days of an outcome window, HORIZON_DAYS
    Gaps,               \* V1: how long before the final cutoff the development cutoffs lie
    Months,             \* V1: lengths of the imported history, in days
    Lookback,           \* V2: its length
    DevelopmentCount,   \* V2: development cutoffs there must be
    Exposed,            \* V2: first days of the windows revealed before
    LastDays,           \* last days of the data that may be downloaded
    CoreMonths          \* core: first days of July to November, and of the December after

ASSUME DayOneAssumption ==
    /\ Length \in Nat \ {0}
    /\ Gaps \subseteq Nat /\ IsFiniteSet(Gaps) /\ \A g \in Gaps : g >= Length
    /\ Months \subseteq Nat /\ IsFiniteSet(Months) /\ \A m \in Months : m > 4 * Length
    /\ Lookback \in Nat /\ Lookback > 2 * Length
    /\ DevelopmentCount \in Nat \ {0}
    /\ Exposed \subseteq Nat
    /\ LastDays \subseteq Nat /\ \A last \in LastDays : last >= Length
    /\ CoreMonths \in [7..12 -> Nat]
    /\ \A i \in 7..11 : CoreMonths[i] < CoreMonths[i + 1]
    /\ \A i \in {9, 10} : CoreMonths[i] + Length <= CoreMonths[i + 1]

NoDay == -1

VARIABLES
    protocol,       \* whose directory it is: "v1", "v2" or "core"
    imported,       \* last day of the downloaded data
    parquet,        \* V2: last day in the Parquet derived from it, NoDay if there is none
    dataAudit,      \* data_audit.json: the last day it reports
    cutoffFile,     \* the cutoffs placed by the audit
    frozenChoice,   \* benchmark_freeze.json: final cutoff and, for each length of the history,
                    \* the outcome days its selection rests on, {} if it was not evaluable
    evaluatedOnce,  \* the marker of the official final
    predicted,      \* H&M: the frozen prediction of each history, the days it rests on
    answers,        \* core: the same of its two forecasts
    outcomesRead,   \* history: the days whose outcomes a command has read
    audited,        \* history: the last days the audits reported
    refused,        \* history: the last days of the data an audit of V2 refused
    stranded,       \* history: final refused a history that the freeze says is evaluable
    job             \* what runs

dayOneVars ==
    <<protocol, imported, parquet, dataAudit, cutoffFile, frozenChoice, evaluatedOnce, predicted,
      answers, outcomesRead, audited, refused, stranded, job>>

Histories == IF protocol = "v1" THEN Months ELSE {Lookback}
Data == IF protocol = "v2" THEN parquet ELSE imported

-------------------------------------------------------------------------------
(* Windows and cutoffs.                                                    *)

\* The days whose outcomes a frame with labels reads; its features end the day before.
OutcomeDays(c) == c..(c + Length - 1)
OutcomesOf(S) == UNION {OutcomeDays(c) : c \in S}

\* HMWindow.validate
Evaluable(c, m, last) == c - m >= 0 /\ c + Length <= last + 1

ChooseCutoffs(last) ==
    LET latest == last + 1 - Length IN
    [development |-> {latest - g : g \in Gaps}, final |-> latest]

Overlaps(c, e) == c < e + Length /\ e < c + Length

SafeCutoffs(last) ==
    {c \in Lookback..(last + 1 - Length) : \A e \in Exposed : ~Overlaps(c, e)}

\* The cutoffs of the training snapshots; the last of them calibrates, the others are fitted.
FitSnapshots(c) ==
    IF protocol = "v1" THEN {c - 4 * Length, c - 3 * Length, c - 2 * Length} ELSE {c - 2 * Length}
CalibrationSnapshot(c) == c - Length
TrainingDays(c) == OutcomesOf(FitSnapshots(c)) \cup OutcomeDays(CalibrationSnapshot(c))

-------------------------------------------------------------------------------
(* The state.                                                              *)

NoJob ==
    [at |-> "rest", official |-> TRUE, last |-> NoDay, development |-> {}, final |-> NoDay,
     allowed |-> NoDay, todo |-> {}, rests |-> [m \in Histories |-> {}]]
NoChoice == [final |-> NoDay, rests |-> [m \in Histories |-> {}]]
NotPredicted ==
    [cutoff |-> NoDay, last |-> NoDay, fitted |-> {}, calibrated |-> {}, selected |-> {}, known |-> {}]

\* What the core predicts, each with a selection of its own.
CoreAnswers == {"purchase", "buyers"}

Predictions ==
    [cutoff : Int, last : Int, fitted : SUBSET Int, calibrated : SUBSET Int, selected : SUBSET Int,
     known : SUBSET Int]

Jobs ==
    [at : {"rest", "walk", "cutoffs", "develop", "freeze", "score", "reveal", "mark"},
     official : BOOLEAN, last : LastDays \cup {NoDay}, development : SUBSET Int, final : Int,
     allowed : Int, todo : SUBSET Histories, rests : [Histories -> SUBSET Int]]

DayOneTypeOK ==
    /\ protocol \in {"v1", "v2", "core"}
    /\ imported \in LastDays
    /\ parquet \in LastDays \cup {NoDay}
    /\ dataAudit \in LastDays \cup {NoDay}
    /\ cutoffFile \in [development : SUBSET Int, final : Int]
    /\ frozenChoice \in [final : Int, rests : [Histories -> SUBSET Int]]
    /\ evaluatedOnce \in BOOLEAN
    /\ predicted \in [Histories -> Predictions]
    /\ answers \in [CoreAnswers -> Predictions]
    /\ outcomesRead \subseteq Int
    /\ audited \subseteq LastDays
    /\ refused \subseteq LastDays
    /\ stranded \in BOOLEAN
    /\ job \in Jobs

DayOneInit ==
    /\ protocol \in {"v1", "v2", "core"}
    /\ imported \in LastDays
    /\ parquet = NoDay /\ dataAudit = NoDay
    /\ cutoffFile = [development |-> {}, final |-> NoDay]
    /\ frozenChoice = NoChoice
    /\ evaluatedOnce = FALSE
    /\ predicted = [m \in Histories |-> NotPredicted]
    /\ answers = [a \in CoreAnswers |-> NotPredicted]
    /\ outcomesRead = {} /\ audited = {} /\ refused = {}
    /\ stranded = FALSE
    /\ job = NoJob

AtRest == job.at = "rest"

-------------------------------------------------------------------------------
(* Between the commands.                                                   *)

Download ==
    /\ AtRest
    /\ \E last \in LastDays : last > imported /\ imported' = last
    /\ UNCHANGED <<protocol, parquet, dataAudit, cutoffFile, frozenChoice, evaluatedOnce,
                   predicted, answers,
                   outcomesRead, audited, refused, stranded, job>>

DeleteParquet ==
    /\ protocol = "v2" /\ AtRest
    /\ parquet' = NoDay
    /\ UNCHANGED <<protocol, imported, dataAudit, cutoffFile, frozenChoice, evaluatedOnce,
                   predicted, answers,
                   outcomesRead, audited, refused, stranded, job>>

KillJob ==
    /\ ~AtRest
    /\ job' = NoJob
    /\ UNCHANGED <<protocol, imported, parquet, dataAudit, cutoffFile, frozenChoice, evaluatedOnce,
                   predicted, answers, outcomesRead, audited, refused, stranded>>

-------------------------------------------------------------------------------
(* audit                                                                   *)

\* V1 writes data_audit.json first and cutoffs.json after it, whatever they are.
AuditV1 ==
    /\ protocol = "v1" /\ AtRest
    /\ dataAudit' = imported
    /\ audited' = audited \cup {imported}
    /\ job' = [NoJob EXCEPT !.at = "cutoffs", !.last = imported,
                                  !.development = ChooseCutoffs(imported).development,
                                  !.final = ChooseCutoffs(imported).final]
    /\ UNCHANGED <<protocol, imported, parquet, cutoffFile, frozenChoice, evaluatedOnce, predicted,
                   answers, outcomesRead, refused, stranded>>

WriteCutoffs ==
    /\ job.at = "cutoffs"
    /\ cutoffFile' = [development |-> job.development, final |-> job.final]
    /\ job' = NoJob
    /\ UNCHANGED <<protocol, imported, parquet, dataAudit, frozenChoice, evaluatedOnce, predicted,
                   answers, outcomesRead, audited, refused, stranded>>

\* A Parquet that is there is kept, however old it is.
PreparedParquet == IF parquet = NoDay THEN imported ELSE parquet

\* V2 takes the latest safe cutoff as the official one and walks back from it.
AuditV2 ==
    /\ protocol = "v2" /\ AtRest
    /\ parquet' = PreparedParquet
    /\ LET safe == SafeCutoffs(PreparedParquet) IN
       \/ /\ safe = {}
          /\ refused' = refused \cup {PreparedParquet}
          /\ UNCHANGED job
       \/ /\ safe # {}
          /\ job' = [NoJob EXCEPT !.at = "walk", !.last = PreparedParquet, !.final = Max(safe),
                                        !.allowed = Max(safe) - Length]
          /\ UNCHANGED refused
    /\ UNCHANGED <<protocol, imported, dataAudit, cutoffFile, frozenChoice, evaluatedOnce,
                   predicted, answers,
                   outcomesRead, audited, stranded>>

Remaining == {c \in SafeCutoffs(job.last) : c <= job.allowed}
EnoughCutoffs == Cardinality(job.development) = DevelopmentCount

\* Mutant: one day before it, so that the windows share almost every outcome.
WalkDaily ==
    /\ job.at = "walk" /\ ~EnoughCutoffs /\ Remaining # {}
    /\ job' = [job EXCEPT !.development = @ \cup {Max(Remaining)},
                                  !.allowed = Max(Remaining) - 1]
    /\ UNCHANGED <<protocol, imported, parquet, dataAudit, cutoffFile, frozenChoice, evaluatedOnce,
                   predicted, answers, outcomesRead, audited, refused, stranded>>

\* One development cutoff more, a whole window before the one it follows.
WalkBack ==
    /\ job.at = "walk" /\ ~EnoughCutoffs /\ Remaining # {}
    /\ job' = [job EXCEPT !.development = @ \cup {Max(Remaining)},
                                  !.allowed = Max(Remaining) - Length]
    /\ UNCHANGED <<protocol, imported, parquet, dataAudit, cutoffFile, frozenChoice, evaluatedOnce,
                   predicted, answers, outcomesRead, audited, refused, stranded>>

RefuseData ==
    /\ job.at = "walk" /\ ~EnoughCutoffs /\ Remaining = {}
    /\ refused' = refused \cup {job.last}
    /\ job' = NoJob
    /\ UNCHANGED <<protocol, imported, parquet, dataAudit, cutoffFile, frozenChoice, evaluatedOnce,
                   predicted, answers, outcomesRead, audited, stranded>>

\* data_audit.json has the cutoffs in it, so that V2 writes both at once.
WriteAudit ==
    /\ job.at = "walk" /\ EnoughCutoffs
    /\ dataAudit' = job.last
    /\ audited' = audited \cup {job.last}
    /\ cutoffFile' = [development |-> job.development, final |-> job.final]
    /\ job' = NoJob
    /\ UNCHANGED <<protocol, imported, parquet, frozenChoice, evaluatedOnce, predicted, answers,
                   outcomesRead,
                   refused, stranded>>

-------------------------------------------------------------------------------
(* dev                                                                     *)

StartDevelopment ==
    /\ AtRest
    /\ dataAudit # NoDay /\ cutoffFile.final # NoDay
    /\ protocol = "v2" => ~evaluatedOnce
    /\ job' = [NoJob EXCEPT !.at = "develop", !.last = dataAudit,
                                  !.development = cutoffFile.development, !.final = cutoffFile.final]
    /\ UNCHANGED <<protocol, imported, parquet, dataAudit, cutoffFile, frozenChoice, evaluatedOnce,
                   predicted, answers, outcomesRead, audited, refused, stranded>>

\* The cutoffs a history is evaluated at: V2 has placed them where its history begins in the data.
EvaluatedAt(m) ==
    IF protocol = "v1" THEN {c \in job.development : Evaluable(c, m, job.last)}
    ELSE job.development
SelectionDays(m) == UNION {TrainingDays(c) \cup OutcomeDays(c) : c \in EvaluatedAt(m)}

\* Trains and evaluates every model at every cutoff; raises where there is nothing to evaluate.
Develop ==
    /\ job.at = "develop"
    /\ Data # NoDay
    /\ outcomesRead' = outcomesRead \cup UNION {SelectionDays(m) : m \in Histories}
    /\ job' = IF \A m \in Histories : EvaluatedAt(m) = {} THEN NoJob
                  ELSE [job EXCEPT !.at = "freeze", !.rests = [m \in Histories |-> SelectionDays(m)]]
    /\ UNCHANGED <<protocol, imported, parquet, dataAudit, cutoffFile, frozenChoice, evaluatedOnce,
                   predicted, answers, audited, refused, stranded>>

FreezeChoice ==
    /\ job.at = "freeze"
    /\ frozenChoice' = [final |-> job.final, rests |-> job.rests]
    /\ job' = NoJob
    /\ UNCHANGED <<protocol, imported, parquet, dataAudit, cutoffFile, evaluatedOnce, predicted,
                   answers, outcomesRead, audited, refused, stranded>>

-------------------------------------------------------------------------------
(* final                                                                   *)

\* V1 runs again where it is told that the run is a diagnosis.
StartFinal(official) ==
    /\ AtRest
    /\ frozenChoice.final # NoDay
    /\ evaluatedOnce => protocol = "v1" /\ ~official
    /\ protocol = "v2" => official
    /\ job' = [NoJob EXCEPT !.at = "score", !.official = official, !.last = dataAudit,
                                  !.final = frozenChoice.final, !.rests = frozenChoice.rests,
                                  !.todo = {m \in Histories : frozenChoice.rests[m] # {}}]
    /\ UNCHANGED <<protocol, imported, parquet, dataAudit, cutoffFile, frozenChoice, evaluatedOnce,
                   predicted, answers, outcomesRead, audited, refused, stranded>>

Prediction(m) ==
    [cutoff |-> job.final, last |-> Data,
     fitted |-> OutcomesOf(FitSnapshots(job.final)),
     calibrated |-> OutcomeDays(CalibrationSnapshot(job.final)),
     selected |-> job.rests[m],
     known |-> outcomesRead \cap OutcomeDays(job.final)]

\* V1 validates the window again and raises.
RefusedNow(m) == protocol = "v1" /\ ~Evaluable(job.final, m, job.last)

\* The histories in their order, the shortest first; the ledger takes every batch once, and the
\* command ends where it refuses.
ScoreHistory ==
    /\ job.at = "score" /\ job.todo # {} /\ Data # NoDay
    /\ LET m == Min(job.todo)
           appended == predicted[m] = NotPredicted /\ ~RefusedNow(m) IN
       /\ stranded' = (stranded \/ RefusedNow(m))
       /\ outcomesRead' = outcomesRead \cup (IF RefusedNow(m) THEN {} ELSE TrainingDays(job.final))
       /\ predicted' = IF appended THEN [predicted EXCEPT ![m] = Prediction(m)] ELSE predicted
       /\ job' = IF appended THEN [job EXCEPT !.at = "reveal"] ELSE NoJob
    /\ UNCHANGED <<protocol, imported, parquet, dataAudit, cutoffFile, frozenChoice, evaluatedOnce,
                   answers, audited, refused>>

RevealWindow ==
    /\ job.at = "reveal"
    /\ outcomesRead' = outcomesRead \cup OutcomeDays(job.final)
    /\ LET rest == job.todo \ {Min(job.todo)} IN
       job' = [job EXCEPT !.todo = rest, !.at = IF rest = {} THEN "mark" ELSE "score"]
    /\ UNCHANGED <<protocol, imported, parquet, dataAudit, cutoffFile, frozenChoice, evaluatedOnce,
                   predicted, answers, audited, refused, stranded>>

MarkEvaluated ==
    /\ job.at = "mark"
    /\ evaluatedOnce' = (evaluatedOnce \/ job.official)
    /\ job' = NoJob
    /\ UNCHANGED <<protocol, imported, parquet, dataAudit, cutoffFile, frozenChoice, predicted,
                   answers, outcomesRead, audited, refused, stranded>>

-------------------------------------------------------------------------------
(* The core has its frames, their labels too, before it fits anything.     *)

September == CoreMonths[9]
October == CoreMonths[10]
November == CoreMonths[11]

\* Each purchase model, fitted on the frame of October, is compared as fitted on September's.
PurchaseAnswer ==
    [cutoff |-> November, last |-> imported, fitted |-> OutcomeDays(October), calibrated |-> {},
     selected |-> OutcomeDays(September) \cup OutcomeDays(October), known |-> OutcomeDays(November)]

\* The forecast of the months, each from those before it, compared from July to October.
BuyersAnswer ==
    [cutoff |-> November, last |-> imported, fitted |-> 0..(November - 1), calibrated |-> {},
     selected |-> 0..(November - 1), known |-> November..(CoreMonths[12] - 1)]

CoreFrames == OutcomeDays(September) \cup OutcomeDays(October) \cup OutcomeDays(November)

PredictCore ==
    /\ protocol = "core"
    /\ imported + 1 >= CoreMonths[12] /\ imported + 1 >= November + Length
    /\ answers' = [answers EXCEPT !["purchase"] = PurchaseAnswer, !["buyers"] = BuyersAnswer]
    /\ outcomesRead' = outcomesRead \cup CoreFrames \cup 0..(CoreMonths[12] - 1)
    /\ UNCHANGED <<protocol, imported, parquet, dataAudit, cutoffFile, frozenChoice, evaluatedOnce,
                   predicted, audited, refused, stranded, job>>

-------------------------------------------------------------------------------
DayOneNext ==
    \/ Download \/ DeleteParquet \/ KillJob
    \/ AuditV1 \/ WriteCutoffs
    \/ AuditV2 \/ WalkBack \/ RefuseData \/ WriteAudit
    \/ StartDevelopment \/ Develop \/ FreezeChoice
    \/ \E official \in BOOLEAN : StartFinal(official)
    \/ ScoreHistory \/ RevealWindow \/ MarkEvaluated
    \/ PredictCore

DayOneSpec == DayOneInit /\ [][DayOneNext]_dayOneVars

-------------------------------------------------------------------------------
(* Properties.                                                             *)

Made == {m \in Histories : predicted[m] # NotPredicted}
Answered == {a \in CoreAnswers : answers[a] # NotPredicted}

\* A prediction rests on outcome days in the data and before its cutoff, is calibrated on days
\* it was not fitted on, and the window it is scored on is complete.
RestsOnThePast(p) ==
    /\ p.fitted \cup p.calibrated \cup p.selected \subseteq 0..(p.cutoff - 1)
    /\ p.fitted \cap p.calibrated = {}
    /\ p.cutoff + Length <= p.last + 1

Separated(S) == \A a, b \in S : a # b => ~Overlaps(a, b)

\* The development windows of V2 share no day with each other, with the official one or with
\* those revealed before, and the official one is the latest the data has.
CutoffsAreApart ==
    protocol = "v2" /\ dataAudit # NoDay =>
        /\ Cardinality(cutoffFile.development) = DevelopmentCount
        /\ cutoffFile.development \cup {cutoffFile.final} \subseteq SafeCutoffs(dataAudit)
        /\ Separated(cutoffFile.development \cup {cutoffFile.final})
        /\ \A c \in SafeCutoffs(dataAudit) : c <= cutoffFile.final

\* Data that V2 refuses has no such cutoffs, wherever they were placed.
RefusalIsRight ==
    \A last \in refused : \A S \in SUBSET SafeCutoffs(last) :
        Separated(S) => Cardinality(S) <= DevelopmentCount

\* Before the official prediction of V2 is in the ledger no command has read an outcome of its
\* window, as long as every audit reported the same data.
OfficialIsUntouched ==
    protocol = "v2" /\ (\A a, b \in audited : a = b) => \A m \in Made : predicted[m].known = {}

\* The days the H&M and core benchmarks fit, calibrate and select on lie before the cutoff they
\* predict from, V2 finds separate untouched windows or none exist, and V1 never refuses in the
\* final a history that its development could evaluate (run_hm_day1_benchmark.py, run_hm_day1_v2.py).
HindsightFree ==
    /\ \A m \in Made : RestsOnThePast(predicted[m])
    /\ \A a \in Answered : RestsOnThePast(answers[a])
    /\ CutoffsAreApart
    /\ RefusalIsRight
    /\ OfficialIsUntouched
    /\ ~stranded
===============================================================================
