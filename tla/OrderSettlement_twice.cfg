SPECIFICATION Spec
CONSTANTS
    Instances = {"i1", "i2"}
    Orders = {"o1"}
    MaxFailures = 0
INVARIANTS
    AnnouncedOnce
CHECK_DEADLOCK FALSE
