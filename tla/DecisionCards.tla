----------------------------- MODULE DecisionCards -----------------------------
(***************************************************************************)
(* The weekly decision cards of V14, for one merchant: what matured is     *)
(* released, the estimate of the action the policy chose most gets a       *)
(* disposition and a safe exposure, and the risk of a DO or TEST card is   *)
(* reserved before it is issued, or the card says that there is not enough *)
(* evidence.  Merchants have ledgers of their own.                         *)
(*                                                                         *)
(* Money is in units of the smallest downside (0.05 per customer).  An     *)
(* estimate is what its interval says against the materiality, and the     *)
(* downside of its lower end.                                              *)
(***************************************************************************)
EXTENDS Integers, FiniteSets, FiniteSetsExt, Functions

CONSTANTS
    CardActions,
    CardMerchantBudget,     \* 1000
    CardActionBudget,       \* 400
    Eligible,               \* customers a week may have
    Downsides,              \* downsides a customer may have
    OutcomeWeeks,           \* weeks to maturity (4)
    FirstCap, LaterCap,     \* percent of the customers (2 in the first week, then 5)
    LastWeek                \* bound on the weeks

ASSUME CardAssumption ==
    /\ CardMerchantBudget \in Nat \ {0} /\ CardActionBudget \in Nat \ {0}
    /\ Eligible \subseteq Nat \ {0} /\ Downsides \subseteq Nat \ {0}
    /\ OutcomeWeeks \in Nat \ {0} /\ LastWeek \in Nat
    /\ FirstCap \in 0..100 /\ LaterCap \in 0..100

VARIABLES
    week,
    reserved,       \* reservations that are not released
    cards

cardVars == <<week, reserved, cards>>

Dispositions == {"DO", "TEST", "AVOID", "NOT_ENOUGH_EVIDENCE"}
Exposing == {"DO", "TEST"}

CardTypeOK ==
    /\ week \in 0..LastWeek
    /\ reserved \subseteq [week : 1..LastWeek, action : CardActions, amount : Nat]
    /\ cards \subseteq [week : 1..LastWeek, action : CardActions \cup {"BAU"},
                        disposition : Dispositions, exposure : Nat, downside : Downsides \cup {1}]

CardInit == week = 0 /\ reserved = {} /\ cards = {}

\* open_amount
OpenAmount(reservations) == SumFunctionOnSet([r \in reservations |-> r.amount], reservations)

\* reserve: the merchant's budget, then the action's.
Reservable(open, action, amount) ==
    /\ OpenAmount(open) + amount <= CardMerchantBudget
    /\ OpenAmount({r \in open : r.action = action}) + amount <= CardActionBudget

\* Mutant: what matures next week is released already.
StillOpenEarly(w) == {r \in reserved : r.week + OutcomeWeeks > w + 1}

\* What has matured is released first, week by week.
StillOpen(w) == {r \in reserved : r.week + OutcomeWeeks > w}

\* disposition_for; valid stands for support, complete costs and valid data.
DispositionFor(estimate, valid) ==
    IF ~valid THEN "NOT_ENOUGH_EVIDENCE"
    ELSE CASE estimate = "below" -> "AVOID"
           [] estimate = "above" -> "DO"
           [] estimate = "point_above" -> "TEST"
           [] OTHER -> "NOT_ENOUGH_EVIDENCE"

\* maximum_safe_exposure
SafeExposure(eligible, downside, remaining, w) ==
    Min({(eligible * (IF w = 1 THEN FirstCap ELSE LaterCap)) \div 100, remaining \div downside})

\* One round of the loop.  A week without customers has no card; doing nothing is an action whose
\* effect is zero.
Week ==
    /\ week < LastWeek
    /\ week' = week + 1
    /\ LET open == StillOpen(week') IN
       \/ reserved' = open /\ UNCHANGED cards
       \/ \E action \in CardActions \cup {"BAU"}, eligible \in Eligible, valid \in BOOLEAN,
             estimate \in {"below", "around", "point_above", "above"}, d \in Downsides :
          LET downside == IF estimate = "above" THEN 1 ELSE d
              wanted == DispositionFor(IF action = "BAU" THEN "around" ELSE estimate, valid)
              exposure == SafeExposure(eligible, downside,
                              Max({0, CardMerchantBudget - OpenAmount(open)}), week')
              amount == downside * exposure
              card(disposition, n) ==
                  [week |-> week', action |-> action, disposition |-> disposition,
                   exposure |-> n, downside |-> downside]
          IN  \/ /\ wanted \in Exposing /\ exposure > 0 /\ Reservable(open, action, amount)
                 /\ reserved' = open \cup {[week |-> week', action |-> action, amount |-> amount]}
                 /\ cards' = cards \cup {card(wanted, exposure)}
              \/ /\ wanted \in Exposing /\ exposure > 0 /\ ~Reservable(open, action, amount)
                 /\ reserved' = open
                 /\ cards' = cards \cup {card("NOT_ENOUGH_EVIDENCE", 0)}
              \/ /\ ~(wanted \in Exposing /\ exposure > 0)
                 /\ reserved' = open
                 /\ cards' = cards \cup {card(wanted, 0)}

CardSpec == CardInit /\ [][Week]_cardVars

-------------------------------------------------------------------------------
(* Property.                                                               *)

\* What is shown to the merchant and whose outcome is not mature.
AtRisk == {c \in cards : c.disposition \in Exposing /\ c.exposure > 0 /\ c.week + OutcomeWeeks > week}
CardRisk(shown) == SumFunctionOnSet([c \in shown |-> c.exposure * c.downside], shown)

\* What the cards expose whose outcomes are not mature yet stays within the budget of the merchant
\* and of every action, counted from the cards the merchant was shown and not from the ledger.
CardsAreCovered ==
    /\ CardRisk(AtRisk) <= CardMerchantBudget
    /\ \A action \in CardActions : CardRisk({c \in AtRisk : c.action = action}) <= CardActionBudget

===============================================================================
