------------------------- MODULE MCShopifyConnection --------------------------
(* Instances of ShopifyConnection for TLC.  The grace period is two days and  *)
(* the delay of shop/redact one: what matters is that one is the longer.      *)
EXTENDS ShopifyConnection, TLC

ConnectionSymmetry == Permutations(Tenants) \cup Permutations(Flows) \cup Permutations(Callbacks)

===============================================================================
