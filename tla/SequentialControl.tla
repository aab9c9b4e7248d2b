--------------------------- MODULE SequentialControl ---------------------------
(***************************************************************************)
(* The observable controller of V7.2 and the path its assurance drives it  *)
(* along.  A batch assigned in a period is mature in the next one, where   *)
(* it becomes evidence before the controller decides; a harm it shows      *)
(* pauses the action, a cooldown leads to a revalidation with small        *)
(* batches, and fresh positive evidence to full exposure again.            *)
(*                                                                         *)
(* An outcome is what its 95% interval says of it: below zero, above the   *)
(* materiality, or neither.  The standard error is the same for all.  Open *)
(* risk never binds, as one batch at most is not mature.                   *)
(***************************************************************************)
EXTENDS Integers, FiniteSets, FiniteSetsExt

CONSTANTS
    Freshness,      \* freshness_periods (4)
    CooldownPeriods,\* cooldown_periods (2)
    Positives,      \* positive_batches_to_activate (2)
    PathLength      \* HORIZON (18)

ASSUME SequentialAssumption ==
    /\ Freshness \in Nat /\ CooldownPeriods \in Nat
    /\ Positives \in Nat \ {0} /\ PathLength \in Nat \ {0}

VARIABLES
    path,           \* scenario: the one that revalidates, one without support, or another
    now,            \* periods that are over
    seqState,
    evidence,       \* what the batch observed in a period showed
    allowed,        \* the batch that is pending
    lastPause       \* period of the last harm latch, -1 if none

sequentialVars == <<path, now, seqState, evidence, allowed, lastPause>>

Paths == {"REACTIVATION", "INSUFFICIENT_SUPPORT", "OTHER"}
LifecycleStates == {"TEST", "ACTIVE", "PAUSED", "REVALIDATING"}
Outcomes == {"harm", "neutral", "positive"}
None == "none"

SequentialTypeOK ==
    /\ path \in Paths
    /\ now \in 0..PathLength
    /\ seqState \in LifecycleStates
    /\ evidence \in [0..(PathLength - 1) -> Outcomes \cup {None}]
    /\ allowed \in {None, "full", "reduced"}
    /\ lastPause \in -1..(PathLength - 1)

SequentialInit ==
    /\ path \in Paths
    /\ now = 0
    /\ seqState = "TEST"
    /\ evidence = [p \in 0..(PathLength - 1) |-> None]
    /\ allowed = None
    /\ lastPause = -1

-------------------------------------------------------------------------------
(* SequentialController.decide: known is the evidence so far.              *)

\* Mutant: what is observed in this period is left to the next one.
ValidBefore(known) == {p \in DOMAIN known : known[p] # None /\ p < now}

Valid(known) == {p \in DOMAIN known : known[p] # None /\ p <= now}

\* Every harm counts in TEST and ACTIVE, however old, and one after the last pause otherwise.
CredibleHarm(known) ==
    \E p \in Valid(known) :
        /\ known[p] = "harm"
        /\ lastPause = -1 \/ seqState \in {"TEST", "ACTIVE"} \/ p > lastPause

\* Mutant: positives from before the pause count.
RecentPositiveAnyPause(known) ==
    {p \in Valid(known) : known[p] = "positive" /\ Max(Valid(known)) - p <= Freshness}

RecentPositive(known) ==
    {p \in Valid(known) : /\ known[p] = "positive"
                          /\ Max(Valid(known)) - p <= Freshness
                          /\ lastPause = -1 \/ p > lastPause}

LeaseExpired(known) == Valid(known) = {} \/ now - Max(Valid(known)) > Freshness

\* The next state, and which batch it allows.
Decision(known) ==
    LET cooled == lastPause # -1 /\ now - lastPause >= CooldownPeriods IN
    IF path = "INSUFFICIENT_SUPPORT" \/ CredibleHarm(known)
    THEN [state |-> "PAUSED", allows |-> None]
    ELSE IF (seqState = "ACTIVE" /\ LeaseExpired(known)) \/ (seqState = "PAUSED" /\ cooled)
    THEN [state |-> "REVALIDATING", allows |-> "reduced"]
    ELSE IF seqState = "PAUSED"
    THEN [state |-> "PAUSED", allows |-> None]
    ELSE IF Cardinality(RecentPositive(known)) >= Positives
    THEN [state |-> "ACTIVE", allows |-> "full"]
    ELSE [state |-> seqState,
          allows |-> CASE seqState = "TEST" -> "full"
                       [] seqState = "REVALIDATING" -> "reduced"
                       [] seqState = "ACTIVE" -> None]

\* Only one path assigns the batches of a revalidation.
Assignable(batch) == IF batch = "reduced" /\ path # "REACTIVATION" THEN None ELSE batch

-------------------------------------------------------------------------------
(* run_path: a period.                                                     *)

Period ==
    /\ now < PathLength
    /\ \E outcome \in Outcomes :
        LET known == IF allowed = None THEN evidence ELSE [evidence EXCEPT ![now] = outcome]
            decision == Decision(known)
        IN  /\ evidence' = known
            /\ seqState' = decision.state
            /\ lastPause' = IF path # "INSUFFICIENT_SUPPORT" /\ CredibleHarm(known)
                            THEN now ELSE lastPause
            /\ allowed' = Assignable(decision.allows)
    /\ now' = now + 1
    /\ UNCHANGED path

SequentialNext == Period

SequentialSpec == SequentialInit /\ [][SequentialNext]_sequentialVars

-------------------------------------------------------------------------------
(* Properties.                                                             *)

Harms == {p \in DOMAIN evidence : evidence[p] = "harm"}

\* The period that shows a harm pauses the action and assigns nothing, whatever state the action
\* is in and whatever positive evidence there is (the gates stop_latency and
\* post_observable_continuation allow no period in between).  After a harm, a full batch is
\* assigned only if enough of the batches observed since the last harm were positive, counted
\* from the evidence and not from what the controller is told of its last pause.
ExposureFollowsHarm ==
    /\ now - 1 \in Harms => seqState = "PAUSED" /\ allowed = None
    /\ allowed = "full" /\ Harms # {} =>
           Cardinality({p \in DOMAIN evidence : evidence[p] = "positive" /\ p > Max(Harms)}) >= Positives

===============================================================================
