-------------------------- MODULE MCIdempotencyKeys --------------------------
(***************************************************************************)
(* An instance of IdempotencyKeys for TLC: requests r1, r2 and r3 share a  *)
(* key, r3 with another body; r4 has a key of its own.                     *)
(***************************************************************************)
EXTENDS IdempotencyKeys

MCKeyOf == [r \in Requests |-> IF r = "r4" THEN "k2" ELSE "k1"]
MCBodyOf == [r \in Requests |-> IF r = "r3" THEN "b2" ELSE "b1"]
=============================================================================
