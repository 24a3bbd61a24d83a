SPECIFICATION FairSpec
CONSTANTS
    Instances = {"i1", "i2"}
    NumRows = 3
    OrderOf <- MCOrderOf
    BatchSize = 2
    MaxFailures = 2
INVARIANTS
    MarkedIsPublished
    OrdersStayInOrder
PROPERTIES
    RelaysAsAssumed
    CommittedIsPublished
CHECK_DEADLOCK FALSE
