SPECIFICATION Spec
CONSTANTS
    Instances = {"i1", "i2"}
    Orders = {"o1", "o2"}
    Cancellations <- MCCancellations
    Products = {"p1", "p2"}
    KnownAtStart = {"p1", "p2"}
    DefaultStock = 1
    Lines <- MCLines
    MaxFailures = 0
INVARIANTS
    NoOversell
CHECK_DEADLOCK FALSE
