SPECIFICATION Spec
CONSTANTS
    Orders = {"o1", "o2"}
    Products = {"p1", "p2"}
    UnreliableConsumers = {}
    DefaultStock = 2
    DeclineWhenCentsEndsIn = 13
    TotalAmountCents <- MCTotalAmountCents
    Quantity <- MCQuantity
    LargestLine <- MCLargestLine
INVARIANT CancelledIsNotCharged
CHECK_DEADLOCK FALSE
