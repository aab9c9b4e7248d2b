----------------------------- MODULE CommittedRisk -----------------------------
(***************************************************************************)
(* The committed risk ledger and the controller that spends it: one path   *)
(* of the V7.1 sequential assurance.  Every batch is reserved before it is *)
(* assigned, its outcome is known to the controller only when it is        *)
(* mature, and its reservation is released then, or expires when the       *)
(* outcome never becomes observable.                                       *)
(*                                                                         *)
(* A period is one step of the loop: settle, decide, assign.  An outcome   *)
(* is drawn when its batch is assigned and counted in the loss at once.    *)
(* The confidence interval of the recent outcomes is abstracted to what    *)
(* their signs and number leave open.  The scenarios that differ only in   *)
(* what a batch may earn are one, ORDINARY.                                *)
(***************************************************************************)
EXTENDS Integers, Sequences, FiniteSets, FiniteSetsExt

CONSTANTS
    Families,
    FamilyOf,       \* family of the batches of a period
    MerchantBudget, \* 120
    FamilyBudget,   \* 60
    BatchRisk,      \* downside reserved for a batch (20)
    Increments,     \* what a batch may earn
    Delays,         \* periods to maturity (1..3)
    LateDelay,      \* the same where returns are late (4)
    Wait,           \* periods an outcome is waited for after its maturity (2)
    Cooldown,       \* periods from the first harm signal to the revalidation (2)
    MissingFrom,    \* first period without observable outcomes (7)
    AttritionFrom,  \* first period in which attrition pauses (5)
    Horizon         \* periods of a path (18)

Periods == 0..(Horizon - 1)

ASSUME RiskAssumption ==
    /\ Horizon \in Nat \ {0}
    /\ FamilyOf \in [Periods -> Families]
    /\ MerchantBudget \in Nat /\ FamilyBudget \in Nat /\ BatchRisk \in Nat \ {0}
    /\ Increments \subseteq Int \ {0} /\ IsFiniteSet(Increments)
    /\ Delays \subseteq Nat \ {0} /\ IsFiniteSet(Delays) /\ LateDelay \in Nat \ {0}
    /\ Wait \in Nat /\ Cooldown \in Nat /\ MissingFrom \in Nat /\ AttritionFrom \in Nat

VARIABLES
    scenario,
    period,
    stage,          \* what the loop does next in this period
    lifecycle,
    reservations,   \* of the ledger, by the period they were made in
    pending,        \* batches whose outcome is not mature
    matured,        \* signs of the last four mature outcomes
    revalidation,   \* signs of the last two that matured while revalidating
    firstHarm,      \* period of the first harm signal, Horizon if none
    earned,         \* incremental profit so far
    familyLoss      \* sum of the negative increments of a family

riskVars == <<scenario, period, stage, lifecycle, reservations, pending, matured,
              revalidation, firstHarm, earned, familyLoss>>

Scenarios == {"ORDINARY", "MATURITY_DELAY", "MISSING_RETURNS", "ATTRITION",
              "PROPENSITY_CORRUPTION", "INSUFFICIENT_SUPPORT"}
RiskStates == {"TEST", "ACTIVE", "PAUSED", "REVALIDATING"}
Statuses == {"NONE", "OPEN", "RELEASED_MATURED", "RELEASED_EXPIRED", "REJECTED"}
Sign(x) == IF x > 0 THEN 1 ELSE -1
NoReservation == [status |-> "NONE", maturity |-> 0]
LastPeriod == Horizon + Max(Delays \cup {LateDelay})

RiskTypeOK ==
    /\ scenario \in Scenarios
    /\ period \in 0..Horizon
    /\ stage \in {"settle", "decide", "assign"}
    /\ lifecycle \in RiskStates
    /\ reservations \in [Periods -> [status : Statuses, maturity : 0..LastPeriod]]
    /\ pending \subseteq [made : Periods, observable : BOOLEAN, sign : {-1, 1}]
    /\ matured \in Seq({-1, 1}) /\ Len(matured) <= 4
    /\ revalidation \in Seq({-1, 1}) /\ Len(revalidation) <= 2
    /\ firstHarm \in 0..Horizon
    /\ earned \in Int
    /\ familyLoss \in [Families -> Nat]

RiskInit ==
    /\ scenario \in Scenarios
    /\ period = 0
    /\ stage = "settle"
    /\ lifecycle = "TEST"
    /\ reservations = [p \in Periods |-> NoReservation]
    /\ pending = {}
    /\ matured = <<>> /\ revalidation = <<>>
    /\ firstHarm = Horizon
    /\ earned = 0
    /\ familyLoss = [f \in Families |-> 0]

\* Mutant: one outcome more is kept.
LastOfOneMore(s, n) == IF Len(s) <= n THEN s ELSE SubSeq(s, Len(s) - n, Len(s))

LastOf(s, n) == IF Len(s) <= n THEN s ELSE SubSeq(s, Len(s) - n + 1, Len(s))

-------------------------------------------------------------------------------
(* CommittedRiskLedger                                                     *)

\* Mutant: a reservation stops counting when it is due, before its outcome has settled.
OpenUntilDue(f) ==
    {p \in Periods : reservations[p].status = "OPEN" /\ FamilyOf[p] = f /\ reservations[p].maturity > period}

Open(f) == {p \in Periods : reservations[p].status = "OPEN" /\ FamilyOf[p] = f}

FamilyOpenRisk(f) == BatchRisk * Cardinality(Open(f))
OpenRisk == BatchRisk * Cardinality(UNION {Open(f) : f \in Families})

\* reserve: the ledger's own two limits.
Affordable(f) ==
    /\ BatchRisk <= MerchantBudget - OpenRisk
    /\ BatchRisk <= FamilyBudget - FamilyOpenRisk(f)

Due(batch) ==
    reservations[batch.made].maturity + (IF batch.observable THEN 0 ELSE Wait) <= period

\* release_matured and expire refuse what is not OPEN or not due.
Releasable(batch) == reservations[batch.made].status = "OPEN" /\ Due(batch)

Released(batch) ==
    [reservations[batch.made] EXCEPT !.status =
        IF batch.observable THEN "RELEASED_MATURED" ELSE "RELEASED_EXPIRED"]

-------------------------------------------------------------------------------
(* run_path                                                                *)

\* A batch is settled; they are settled in the order they were assigned in.
Settle ==
    /\ stage = "settle"
    /\ \E batch \in pending :
        /\ Due(batch)
        /\ \A other \in pending : Due(other) => batch.made <= other.made
        /\ Releasable(batch)
        /\ reservations' = [reservations EXCEPT ![batch.made] = Released(batch)]
        /\ pending' = pending \ {batch}
        /\ matured' = IF batch.observable THEN LastOf(Append(matured, batch.sign), 4) ELSE matured
        /\ revalidation' = IF batch.observable /\ lifecycle = "REVALIDATING"
                           THEN LastOf(Append(revalidation, batch.sign), 2) ELSE revalidation
    /\ UNCHANGED <<scenario, period, stage, lifecycle, firstHarm, earned, familyLoss>>

Settled ==
    /\ stage = "settle"
    /\ period < Horizon
    /\ ~\E batch \in pending : Due(batch)
    /\ stage' = "decide"
    /\ UNCHANGED <<scenario, period, lifecycle, reservations, pending, matured, revalidation,
                   firstHarm, earned, familyLoss>>

\* The interval of two outcomes lies on one side of zero only if both do, that of three or four
\* only if all but one do at least.
MayBeAllOf(sign, values) ==
    /\ Len(values) >= 2
    /\ Cardinality({i \in DOMAIN values : values[i] # sign}) <= (IF Len(values) = 2 THEN 0 ELSE 1)

SupportValid == scenario # "INSUFFICIENT_SUPPORT"
IntegrityValid == scenario = "PROPENSITY_CORRUPTION" => period < 1

\* observable_lifecycle_decision, with what the interval leaves open.
Observed ==
    {o \in {<<lifecycle, "NO_MATURE_STATE_CHANGE">>, <<"PAUSED", "MATURE_HARM_SIGNAL">>,
           <<"ACTIVE", "MATURE_POSITIVE_SIGNAL">>, <<"PAUSED", "NOT_VALID">>} :
        IF ~SupportValid \/ ~IntegrityValid THEN o[2] = "NOT_VALID"
        ELSE CASE o[2] = "NOT_VALID" -> FALSE
               [] o[2] = "MATURE_HARM_SIGNAL" -> MayBeAllOf(-1, matured)
               [] o[2] = "MATURE_POSITIVE_SIGNAL" ->
                      lifecycle = "TEST" /\ Len(matured) >= 3 /\ MayBeAllOf(1, matured)
               [] OTHER -> TRUE}

\* What the revalidation makes of the decision: its outcomes may be those of an earlier one.
Revalidated(state) ==
    {state} \cup
    {s \in {"ACTIVE", "PAUSED"} : state = "REVALIDATING"
                              /\ MayBeAllOf(IF s = "ACTIVE" THEN 1 ELSE -1, revalidation)}

Attrited(state) ==
    IF scenario = "ATTRITION" /\ period >= AttritionFrom /\ Len(matured) < 2 THEN "PAUSED" ELSE state

Decide ==
    /\ stage = "decide"
    /\ \E decision \in Observed :
        LET signal == decision[2] = "MATURE_HARM_SIGNAL" /\ firstHarm = Horizon
            harm == IF signal THEN period ELSE firstHarm
            cooled == decision[1] = "PAUSED" /\ harm < Horizon /\ period >= harm + Cooldown
                      /\ scenario \notin {"INSUFFICIENT_SUPPORT", "PROPENSITY_CORRUPTION"}
        IN  /\ firstHarm' = harm
            /\ \E s \in Revalidated(IF cooled THEN "REVALIDATING" ELSE decision[1]) :
                   lifecycle' = Attrited(s)
    /\ stage' = "assign"
    /\ UNCHANGED <<scenario, period, reservations, pending, matured, revalidation, earned, familyLoss>>

ShouldAssign ==
    /\ lifecycle \in {"TEST", "ACTIVE", "REVALIDATING"}
    /\ lifecycle = "TEST" => Cardinality(pending) < 2
    /\ lifecycle = "REVALIDATING" =>
           \A batch \in pending : batch.made < (IF firstHarm = Horizon THEN 0 ELSE firstHarm) + Cooldown

LossSoFar == IF earned < 0 THEN -earned ELSE 0

\* What was lost and what is at risk leave room for another batch.
Capacity(f) ==
    /\ LossSoFar + OpenRisk + BatchRisk <= MerchantBudget
    /\ familyLoss[f] + FamilyOpenRisk(f) + BatchRisk <= FamilyBudget

NextPeriod == period' = period + 1 /\ stage' = "settle"

AssignBatch ==
    /\ stage = "assign"
    /\ ShouldAssign
    /\ Capacity(FamilyOf[period])
    /\ Affordable(FamilyOf[period])
    /\ \E delay \in (IF scenario \in {"MATURITY_DELAY", "MISSING_RETURNS"} THEN {LateDelay} ELSE Delays),
          gain \in Increments :
        /\ reservations' = [reservations EXCEPT ![period] =
               [status |-> "OPEN", maturity |-> period + delay]]
        /\ pending' = pending \cup {
               [made |-> period, sign |-> Sign(gain),
                observable |-> ~(scenario = "MISSING_RETURNS" /\ period >= MissingFrom)]}
        /\ earned' = earned + gain
        /\ familyLoss' = [familyLoss EXCEPT ![FamilyOf[period]] = @ + (IF gain < 0 THEN -gain ELSE 0)]
    /\ NextPeriod
    /\ UNCHANGED <<scenario, lifecycle, matured, revalidation, firstHarm>>

WithholdBatch ==
    /\ stage = "assign"
    /\ ~(ShouldAssign /\ Capacity(FamilyOf[period]))
    /\ NextPeriod
    /\ UNCHANGED <<scenario, lifecycle, reservations, pending, matured, revalidation, firstHarm,
                   earned, familyLoss>>

RiskNext == Settle \/ Settled \/ Decide \/ AssignBatch \/ WithholdBatch

RiskSpec == RiskInit /\ [][RiskNext]_riskVars

-------------------------------------------------------------------------------
(* Properties.                                                             *)

WorstLoss == Max({-gain : gain \in Increments} \cup {0})

\* What is at risk stays within the budgets of the merchant and of every family, whatever matures
\* late, expires or is decided in between (the gates merchant_budget_pathwise and
\* family_budget_pathwise); and together with what was lost it exceeds them by one batch at most,
\* although an outcome may be worse than what was reserved for it and is known only when mature.
ExposureBounded ==
    LET risk(open) == BatchRisk * Cardinality(open)
        open == {p \in Periods : reservations[p].status = "OPEN"}
        openOf(f) == {p \in open : FamilyOf[p] = f}
    IN  /\ risk(open) <= MerchantBudget
        /\ risk(open) - earned <= MerchantBudget + WorstLoss
        /\ \A f \in Families :
               /\ risk(openOf(f)) <= FamilyBudget
               /\ familyLoss[f] + risk(openOf(f)) <= FamilyBudget + WorstLoss

===============================================================================
