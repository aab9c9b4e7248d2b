---------------------------- MODULE CommerceMirror ----------------------------
(***************************************************************************)
(* What the Shopify synchronisation promises, and nothing of how it keeps  *)
(* the promise: a canonical copy of the merchant's orders that is never    *)
(* ahead of the store, never goes back to an older version of an order,    *)
(* and, while the synchronisation keeps running, catches up with every     *)
(* change.  ShopifySync is shown to implement it.                          *)
(***************************************************************************)
EXTENDS Integers

CONSTANTS Orders,      \* the orders of one shop
          MaxVersion   \* bound on the changes made to one order

VARIABLES source,      \* source[o]: how often the order was changed in the store
          mirror       \* mirror[o]: the version of it in the canonical tables

mirrorVars == <<source, mirror>>

MirrorTypeOK ==
    /\ source \in [Orders -> 0..MaxVersion]
    /\ mirror \in [Orders -> 0..MaxVersion]

MirrorInit ==
    /\ source = [o \in Orders |-> 0]
    /\ mirror = [o \in Orders |-> 0]

\* The merchant's store changes an order.
MirrorChange(o) ==
    /\ source[o] < MaxVersion
    /\ source' = [source EXCEPT ![o] = @ + 1]
    /\ UNCHANGED mirror

\* The canonical copy of an order moves to a later version the store has had.
MirrorAdvance(o) ==
    /\ \E v \in 0..MaxVersion :
          /\ mirror[o] < v
          /\ v <= source[o]
          /\ mirror' = [mirror EXCEPT ![o] = v]
    /\ UNCHANGED source

MirrorNext == \E o \in Orders : MirrorChange(o) \/ MirrorAdvance(o)

MirrorSafe == MirrorInit /\ [][MirrorNext]_mirrorVars

\* The promise: the safe part, and no order is left behind for ever.
MirrorSpec == MirrorSafe /\ \A o \in Orders : WF_mirrorVars(MirrorAdvance(o))

==============================================================================
