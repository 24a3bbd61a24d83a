---------------------------- MODULE MCStockRace ----------------------------
(***************************************************************************)
(* Instances of StockRace for TLC.  o1 and o2 take both products, in       *)
(* opposite orders.  So does o3, which lists p2 twice: with two units in   *)
(* stock it comes too late after o1, and takes too much when it is first,  *)
(* or races with o1.  o1 is announced as cancelled twice, by two instances *)
(* of the order service (OrderSettlement).                                 *)
(***************************************************************************)
EXTENDS StockRace

MCLines ==
    [o \in Orders |->
        CASE o = "o1" -> <<[product |-> "p1", quantity |-> 1],
                           [product |-> "p2", quantity |-> 1]>>
          [] o = "o2" -> <<[product |-> "p2", quantity |-> 1],
                           [product |-> "p1", quantity |-> 1]>>
          [] o = "o3" -> <<[product |-> "p2", quantity |-> 2],
                           [product |-> "p1", quantity |-> 1],
                           [product |-> "p2", quantity |-> 1]>>]

MCCancellations == [o \in Orders |-> IF o = "o1" THEN 2 ELSE 0]
=============================================================================
