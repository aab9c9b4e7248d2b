--------------------------- MODULE MCShopifyPrivacy ---------------------------
(* Small instance of ShopifyPrivacy for TLC.                               *)
EXTENDS ShopifyPrivacy
===============================================================================
