-------------------------- MODULE MCConsumerGroup --------------------------
(***************************************************************************)
(* An instance of ConsumerGroup for TLC.  Partition p1 holds an event      *)
(* twice, as a relay publishes it that died before its mark, behind one    *)
(* that does not parse; p2 holds what cannot be handled.                   *)
(***************************************************************************)
EXTENDS ConsumerGroup

Event(t, o) == [topic |-> t, orderId |-> o, serial |-> 1]

Paid == Event("payments.completed", "o1")
Unknown == Event("payments.failed", "o2")
Garbage == Event("payments.failed", "o3")
Empty == Event("payments.failed", "o4")

MCLog ==
    [p \in Partitions |-> IF p = "p1" THEN <<Garbage, Paid, Paid>>
                          ELSE <<Empty, Unknown>>]

MCKind == [m \in Messages |-> CASE m = Unknown -> "poison"
                                [] m = Garbage -> "garbage"
                                [] m = Empty -> "empty"
                                [] OTHER -> "good"]
=============================================================================
