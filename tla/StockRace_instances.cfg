SPECIFICATION FairSpec
CONSTANTS
    Instances = {"i1", "i2"}
    Orders = {"o1", "o3"}
    Cancellations <- MCCancellations
    Products = {"p1", "p2"}
    KnownAtStart = {"p1"}
    DefaultStock = 2
    Lines <- MCLines
    MaxFailures = 1
INVARIANTS
    OneAnswerPerOrder
    OnlyRepeatedCancelsDistortStock
    OnlyNewProductsLoseOrders
PROPERTIES
    ReservationsAreAtomic
    OrdersAreAnswered
CHECK_DEADLOCK FALSE
