SPECIFICATION FairSpec
CONSTANTS
    Orders = {"o1", "o2"}
    Products = {"p1", "p2"}
    UnreliableConsumers = {"inventory-service.orders", "notification-service.notifications"}
    DefaultStock = 2
    DeclineWhenCentsEndsIn = 13
    TotalAmountCents <- MCTotalAmountCents
    Quantity <- MCQuantity
    LargestLine <- MCLargestLine
INVARIANTS
    ConfirmedIsPaidAndHeld
    AnnouncedExactlyOnce
    OneOutcomePerLeg
    StockIsAccountedFor
    OversoldByOneOrder
    MailsTellTheTruth
    DrainedIsSettled
PROPERTIES
    ImplementsContract
    CustomersAreTold
    TimelyReservationIsReleased
    OrdersSettle
CHECK_DEADLOCK FALSE
