--------------------------- MODULE MerchantDashboard ---------------------------
(***************************************************************************)
(* From a shop's orders to the contribution profit on the dashboard: the   *)
(* bulk export is mapped and upserted order by order, and the dashboard    *)
(* reads the orders, their lines and the merchant's assumptions one after  *)
(* the other, reconstructs the economics of every order and sums them.     *)
(*                                                                         *)
(* ShopifySync models the synchronisation itself; here an export may stop  *)
(* anywhere and another follow.  Every line has the same price and, when   *)
(* the variant has one, the same unit cost; the costs a version of the     *)
(* merchant's assumptions names come to one fee for an order, or to none   *)
(* when one of them is missing.  A customer and the day of an order are    *)
(* fixed; days are counted in units of fifteen, so 30, 45 and 60 days are  *)
(* 2, 3 and 4.                                                             *)
(***************************************************************************)
EXTENDS Integers, FiniteSets, FiniteSetsExt, Functions

CONSTANTS
    ShopOrders,
    Variants,       \* an order has a line of a variant at most
    CustomerOf,     \* the customer of an order, or "guest"
    PlacedOn,       \* and its day
    LinePrice, UnitCost, Refund,
    Fees,           \* what the assumed costs of an order can come to
    Todays,         \* days on which the dashboard is asked for
    ValidFrom,      \* days assumptions may be valid from
    MinOrders, MinCustomers,    \* what a test needs (30 and 20)
    Unknown,        \* an amount that is None
    MaxVersions,    \* bound on the versions of the assumptions
    MaxEdits        \* bound on the changes in the shop

NotPlaced == [placed |-> FALSE]
OrderVersions ==
    {NotPlaced} \cup [placed : {TRUE}, items : SUBSET Variants, refunds : {0, Refund},
                      cancelled : BOOLEAN, currency : {"home", "foreign"}]
NoOrder == [active |-> FALSE]
OrderRows ==
    {NoOrder} \cup [active : {TRUE}, net_sales : Nat,
                    refunds : {0, Refund}, cancelled : BOOLEAN, currency : {"home", "foreign"}]
NoRequest == [step |-> "none"]
Authorities == {"DATA_NOT_READY", "NET_REVENUE_ONLY", "ESTIMATED_CONTRIBUTION_PROFIT"}

ASSUME DashboardAssumption ==
    /\ IsFiniteSet(ShopOrders) /\ IsFiniteSet(Variants)
    /\ Unknown \notin Int
    /\ LinePrice \in Nat /\ UnitCost \in Nat /\ Fees \subseteq Nat /\ Refund \in Nat \ {0}
    /\ DOMAIN CustomerOf = ShopOrders /\ PlacedOn \in [ShopOrders -> Nat]
    /\ Todays \subseteq Nat /\ \A o \in ShopOrders, today \in Todays : PlacedOn[o] <= today
    /\ ValidFrom \subseteq Nat /\ MinOrders \in Nat /\ MinCustomers \in Nat /\ MaxVersions \in Nat
    /\ MaxEdits \in Nat

VARIABLES
    shop,           \* the orders as Shopify has them
    unitCosts,      \* variants that have a unit cost in Shopify
    assumptions,    \* <<valid_from, fee>> of the saved versions
    export,         \* orders of the bulk result that are not upserted yet, and their lines' costs
    orderRows, lineRows,    \* the tables; a line row is <<variant, whether its cost is known>>
    page,           \* a dashboard request: what it has read, or shown
    edits,
    origin,         \* history: the version an order row was mapped from, and its costs
    shrunk          \* history: an order lost a line

shopVars == <<shop, unitCosts, edits, shrunk>>
tableVars == <<orderRows, lineRows, origin>>
dashboardVars == <<shopVars, tableVars, assumptions, export, page>>

DashboardTypeOK ==
    /\ \A o \in ShopOrders : shop[o] \in OrderVersions /\ orderRows[o] \in OrderRows
    /\ unitCosts \subseteq Variants
    /\ assumptions \subseteq ValidFrom \X (Fees \cup {Unknown})
    /\ export.orders \subseteq ShopOrders
    /\ \A o \in ShopOrders : lineRows[o] \subseteq Variants \X BOOLEAN
    /\ page.step \in {"none", "lines", "assumptions", "company", "error"}
    /\ page.step = "company" => page.company.authority \in Authorities
    /\ edits \in 0..MaxEdits /\ shrunk \in BOOLEAN

DashboardInit ==
    /\ shop = [o \in ShopOrders |-> NotPlaced]
    /\ unitCosts = {}
    /\ assumptions = {}
    /\ export = [orders |-> {}, versions |-> shop, costed |-> {}]
    /\ orderRows = [o \in ShopOrders |-> NoOrder]
    /\ lineRows = [o \in ShopOrders |-> {}]
    /\ page = NoRequest
    /\ edits = 0
    /\ origin = [o \in ShopOrders |-> [version |-> NotPlaced, costed |-> {}]]
    /\ shrunk = FALSE

-------------------------------------------------------------------------------
(* The shop and the merchant.                                              *)

Edit == edits < MaxEdits /\ edits' = edits + 1

PlaceOrder(o) ==
    /\ Edit
    /\ ~shop[o].placed
    /\ \E items \in (SUBSET Variants) \ {{}}, currency \in {"home", "foreign"} :
           shop' = [shop EXCEPT ![o] =
               [placed |-> TRUE, items |-> items, refunds |-> 0,
                cancelled |-> FALSE, currency |-> currency]]
    /\ UNCHANGED <<unitCosts, shrunk, tableVars, assumptions, export, page>>

ChangeOrder(o) ==
    /\ Edit
    /\ shop[o].placed
    /\ \/ shop' = [shop EXCEPT ![o].refunds = Refund]
       \/ shop' = [shop EXCEPT ![o].cancelled = TRUE]
       \/ \E v \in Variants : shop' = [shop EXCEPT ![o].items = @ \cup {v}]
       \/ \E v \in Variants : shop' = [shop EXCEPT ![o].items = @ \ {v}]
    /\ shrunk' = (shrunk \/ ~(shop[o].items \subseteq shop'[o].items))
    /\ UNCHANGED <<unitCosts, tableVars, assumptions, export, page>>

CostVariant(v) ==
    /\ Edit
    /\ unitCosts' = unitCosts \cup {v}
    /\ UNCHANGED <<shop, shrunk, tableVars, assumptions, export, page>>

\* save_assumptions: a version may be valid from any date, from one to come or from that of another
\* version, which it then corrects but does not replace.
SaveAssumptions ==
    /\ Cardinality(assumptions) < MaxVersions
    /\ \E from \in ValidFrom, fee \in Fees \cup {Unknown} :
        assumptions' = assumptions \cup {<<from, fee>>}
    /\ UNCHANGED <<shopVars, tableVars, export, page>>

-------------------------------------------------------------------------------
(* The synchronisation.                                                    *)

\* A run starts and downloads its export, whatever the run before left.
ExportOrders ==
    /\ export' = [orders |-> {o \in ShopOrders : shop[o].placed}, versions |-> shop,
                  costed |-> unitCosts]
    /\ UNCHANGED <<shopVars, tableVars, assumptions, page>>

\* Mutant: the refunds are taken off here and again by the economics.
NetSalesLessRefunds(version) ==
    LET net == Cardinality(version.items) * LinePrice - version.refunds IN IF net > 0 THEN net ELSE 0

\* map_order_jsonl: refunds stay a component of their own.
NetSales(version) == Cardinality(version.items) * LinePrice

MapOrder(version) ==
    [active |-> TRUE, net_sales |-> NetSales(version), refunds |-> version.refunds,
     cancelled |-> version.cancelled, currency |-> version.currency]

MapLines(version, costed) == {<<v, v \in costed>> : v \in version.items}

\* upsert_order, one transaction: the lines of the order are replaced one by one, a line it has
\* lost stays.
UpsertOrder(o) ==
    /\ o \in export.orders
    /\ LET version == export.versions[o]  replaced == version.items \X BOOLEAN IN
       /\ orderRows' = [orderRows EXCEPT ![o] = MapOrder(version)]
       /\ lineRows' = [lineRows EXCEPT ![o] = (@ \ replaced) \cup MapLines(version, export.costed)]
       /\ origin' = [origin EXCEPT ![o] = [version |-> version, costed |-> export.costed]]
    /\ export' = [export EXCEPT !.orders = @ \ {o}]
    /\ page' = IF page.step \in {"lines", "assumptions"} THEN [page EXCEPT !.disturbed = TRUE] ELSE page
    /\ UNCHANGED <<shopVars, assumptions>>

-------------------------------------------------------------------------------
(* The dashboard.                                                          *)

\* _orders: the order rows; the lines are read by a second statement.
ReadOrders ==
    /\ page.step = "none"
    /\ \E o \in ShopOrders : orderRows[o].active
    /\ page' = [step |-> "lines", orders |-> orderRows, disturbed |-> FALSE]
    /\ UNCHANGED <<shopVars, tableVars, assumptions, export>>

ReadLines ==
    /\ page.step = "lines"
    /\ page' = [step |-> "assumptions", orders |-> page.orders,
                   disturbed |-> page.disturbed, lines |-> lineRows]
    /\ UNCHANGED <<shopVars, tableVars, assumptions, export>>

\* _assumptions: the latest version that is valid.  Of several that are valid from the same date the
\* database returns any.
AssumedFees(today) ==
    LET valid == {a \in assumptions : a[1] <= today}
        latest == {a \in valid : \A b \in valid : b[1] <= a[1]}
    IN  IF valid = {} THEN {Unknown} ELSE {a[2] : a \in latest}

\* reconstruct_order_economics: one component that is missing, and there is no contribution.
OrderContribution(order, lines, fee) ==
    IF fee # Unknown /\ lines # {} /\ \A l \in lines : l[2]
    THEN order.net_sales - order.refunds - UnitCost * Cardinality(lines) - fee
    ELSE Unknown

\* _eligible_orders: as_of is the time of the request, so no order is later.
EligibleOrders(r) == {o \in ShopOrders : r.orders[o].active /\ ~r.orders[o].cancelled}

NetRevenue(r, orders) ==
    SumFunctionOnSet([o \in orders |-> r.orders[o].net_sales - r.orders[o].refunds], orders)

\* The value that comes i-th when those of a function are sorted, and twice their median.
Nth(f, i) ==
    CHOOSE v \in {f[x] : x \in DOMAIN f} :
        /\ Cardinality({x \in DOMAIN f : f[x] < v}) < i
        /\ Cardinality({x \in DOMAIN f : f[x] <= v}) >= i
TwiceMedian(f) ==
    LET n == Cardinality(DOMAIN f) IN Nth(f, (n + 1) \div 2) + Nth(f, (n \div 2) + 1)

\* _lifecycle: the days of a customer's orders against the customer's own cadence.
Lifecycle(placed, today) ==
    LET n == Cardinality(DOMAIN placed)
        gaps == [i \in 1..(n - 1) |-> Nth(placed, i + 1) - Nth(placed, i)]
        recency == today - Nth(placed, n)
        cadence == TwiceMedian(gaps)
    IN  CASE n = 1 /\ recency <= 2 -> "NEW"
          [] n = 1 /\ recency = 3 -> "ACTIVE"
          [] n = 1 /\ recency > 3 -> "DORMANT"
          [] n > 1 /\ 4 * gaps[n - 1] > Max({16, 5 * cadence}) /\ 2 * recency <= cadence -> "REACTIVATED"
          [] OTHER -> IF 8 * recency <= Max({16, 5 * cadence}) THEN "ACTIVE"
                      ELSE IF 4 * recency <= Max({16, 5 * cadence}) THEN "COOLING" ELSE "DORMANT"

Known(orders) == {CustomerOf[o] : o \in orders} \ {"guest"}

\* build_customer_states: the lifecycle of every identified customer.
CustomerStates(r, today) ==
    [k \in Known(EligibleOrders(r)) |->
        Lifecycle([o \in {o \in EligibleOrders(r) : CustomerOf[o] = k} |-> PlacedOn[o]], today)]

\* build_observational_diagnostics: the last 30 days, the 30 before, and who is beyond the cadence.
Diagnostics(r, today) ==
    [current |-> NetRevenue(r, {o \in EligibleOrders(r) : today - 2 < PlacedOn[o]}),
     previous |-> NetRevenue(r, {o \in EligibleOrders(r) : today - 4 < PlacedOn[o] /\ PlacedOn[o] <= today - 2}),
     affected |-> {k \in Known(EligibleOrders(r)) : CustomerStates(r, today)[k] \in {"COOLING", "DORMANT"}}]

\* build_first_decision_card
FirstDecisionCard(r, today) ==
    LET eligible == EligibleOrders(r) IN
    IF /\ Diagnostics(r, today).affected # {}
       /\ Cardinality(eligible) >= MinOrders
       /\ Cardinality(Known(eligible)) >= MinCustomers
    THEN "TEST" ELSE "NOT_ENOUGH_EVIDENCE"

\* build_company_state; no caller observes a fee, so a contribution is never OBSERVED.
CompanyState(r, fee) ==
    LET eligible == EligibleOrders(r)
        contribution == [o \in eligible |-> OrderContribution(r.orders[o], r.lines[o], fee)]
        known == eligible # {} /\ \A o \in eligible : contribution[o] # Unknown
    IN  [net_revenue |-> NetRevenue(r, eligible),
         contribution |-> IF known THEN SumFunctionOnSet(contribution, eligible) ELSE Unknown,
         authority |-> IF known THEN "ESTIMATED_CONTRIBUTION_PROFIT"
                       ELSE IF eligible # {} THEN "NET_REVENUE_ONLY" ELSE "DATA_NOT_READY"]

\* Orders in two currencies are an error.
ShowCompany ==
    /\ page.step = "assumptions"
    /\ \E today \in Todays : \E fee \in AssumedFees(today) :
        page' = IF Cardinality({page.orders[o].currency : o \in EligibleOrders(page)}) > 1
                THEN [step |-> "error"]
                ELSE [step |-> "company", disturbed |-> page.disturbed, today |-> today,
                      company |-> CompanyState(page, fee),
                      diagnostics |-> Diagnostics(page, today),
                      card |-> FirstDecisionCard(page, today),
                      fees |-> AssumedFees(today), versions |-> origin]
    /\ UNCHANGED <<shopVars, tableVars, assumptions, export>>

EndRequest ==
    /\ page.step \in {"company", "error"}
    /\ page' = NoRequest
    /\ UNCHANGED <<shopVars, tableVars, assumptions, export>>

DashboardNext ==
    \/ SaveAssumptions \/ ExportOrders
    \/ \E o \in ShopOrders : PlaceOrder(o) \/ ChangeOrder(o) \/ UpsertOrder(o)
    \/ \E v \in Variants : CostVariant(v)
    \/ ReadOrders \/ ReadLines \/ ShowCompany \/ EndRequest

DashboardSpec == DashboardInit /\ [][DashboardNext]_dashboardVars

-------------------------------------------------------------------------------
(* Property.                                                               *)

Counted(versions) ==
    {o \in ShopOrders : IF versions[o].version.placed THEN ~versions[o].version.cancelled ELSE FALSE}
Net(version) == Cardinality(version.items) * LinePrice - version.refunds
Profit(version, fee) == Net(version) - Cardinality(version.items) * UnitCost - fee

\* What a page says of the versions its order rows were mapped from.
TellsTheShop(shown) ==
    LET version(o) == shown.versions[o].version
        counted == Counted(shown.versions)
        costly == \E o \in counted : ~(version(o).items \subseteq shown.versions[o].costed)
        recent == {o \in counted : PlacedOn[o] > shown.today - 4}
    IN  /\ \E fee \in shown.fees :
               shown.company.contribution =
                   IF costly \/ fee = Unknown \/ counted = {} THEN Unknown
                   ELSE SumFunctionOnSet([o \in counted |-> Profit(version(o), fee)], counted)
        /\ shown.diagnostics.current + shown.diagnostics.previous =
               SumFunctionOnSet([o \in recent |-> Net(version(o))], recent)
        /\ shown.card = "TEST" =>
               /\ Cardinality(counted) >= MinOrders
               /\ \E k \in Known(counted) :
                      \A o \in counted : CustomerOf[o] = k => shown.today - PlacedOn[o] > 2

\* What the dashboard shows is what the orders in Shopify come to, in the versions that were
\* upserted last.  The contribution profit counts every refund and every cost once, leaves the
\* cancelled orders out, and is no claim at all where a cost is missing; the assumed costs are those
\* of the latest version valid on that day, of one and the same when a version was corrected by
\* another of its own date and either may be read; the two windows count every
\* order of the last sixty days once; and a test is advised only when a customer the merchant still
\* sells to has bought nothing for more than thirty days.  Except that a line an order has lost stays,
\* and that an upsert between the reads of a request mixes two versions.
DashboardIsTheShops ==
    page.step = "company" /\ ~page.disturbed /\ ~shrunk => TellsTheShop(page)

===============================================================================
