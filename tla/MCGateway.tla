----------------------------- MODULE MCGateway -----------------------------
(***************************************************************************)
(* An instance of Gateway for TLC: customer c1 buys with two connections;  *)
(* another purchase uses the same key and items, with the token of c2 and  *)
(* the customerId of c1.                                                   *)
(***************************************************************************)
EXTENDS Gateway

MCPurchaseOf == [a \in Attempts |-> IF a = "a3" THEN "p2" ELSE "p1"]
MCCustomerOf == [p \in Purchases |-> IF p = "p2" THEN "c2" ELSE "c1"]
MCClaimOf == [p \in Purchases |-> "c1"]
MCItemsOf == [p \in Purchases |-> "items"]
MCHeaderKey == [p \in Purchases |-> "k1"]
=============================================================================
