---------------------------- MODULE MCShopifySync -----------------------------
(* Instances of ShopifySync for TLC: a customer and an order, each with its   *)
(* own query, or one query with one or two orders.                           *)
EXTENDS ShopifySync, TLC

CONSTANTS c1, o1, o2

OneOrder == {c1, o1}
QueryOfOneOrder == (c1 :> 1) @@ (o1 :> 2)

TwoOrders == {o1, o2}
QueryOfTwoOrders == (o1 :> 1) @@ (o2 :> 1)


WorkerSymmetry == Permutations(Workers)

===============================================================================
