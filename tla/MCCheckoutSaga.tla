--------------------------- MODULE MCCheckoutSaga ---------------------------
(***************************************************************************)
(* Instances of the checkout saga for TLC.  The payment of "o2" is         *)
(* declined, the other totals are charged.  "o2" lists p1 twice, on lines  *)
(* of two units and of one, every other order takes one unit of both       *)
(* products: with two units of each in stock "o2" comes too late after     *)
(* another order, and takes too much when it comes first.                  *)
(***************************************************************************)
EXTENDS CheckoutSaga

MCTotalAmountCents == [o \in Orders |-> IF o = "o2" THEN 2013 ELSE 4000]

MCQuantity ==
    [o \in Orders |-> [p \in Products |->
        IF o = "o2" THEN (IF p = "p1" THEN 3 ELSE 0) ELSE 1]]

MCLargestLine ==
    [o \in Orders |-> [p \in Products |->
        IF o = "o2" THEN (IF p = "p1" THEN 2 ELSE 0) ELSE 1]]
=============================================================================
