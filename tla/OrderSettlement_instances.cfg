SPECIFICATION FairSpec
CONSTANTS
    Instances = {"i1", "i2", "i3"}
    Orders = {"o1"}
    MaxFailures = 1
INVARIANTS
    VerdictFitsTheLegs
    NoLegIsLost
PROPERTIES
    SettlementsAreAtomic
    OrdersSettle
CHECK_DEADLOCK FALSE
