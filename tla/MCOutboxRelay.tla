--------------------------- MODULE MCOutboxRelay ---------------------------
(***************************************************************************)
(* An instance of OutboxRelay for TLC: the first and the third row are of  *)
(* one order, the others of two more.                                      *)
(***************************************************************************)
EXTENDS OutboxRelay

MCOrderOf == [r \in Rows |-> CASE r \in {1, 3} -> "o1" [] r = 2 -> "o2" [] OTHER -> "o3"]
=============================================================================
