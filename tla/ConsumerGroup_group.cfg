SPECIFICATION FairSpec
CONSTANTS
    Consumer = "order-service.saga"
    Instances = {"i1", "i2"}
    Partitions = {"p1", "p2"}
    Log <- MCLog
    Kind <- MCKind
    MaxRetries = 1
    MaxFailures = 1
INVARIANTS
    NothingIsSkipped
    HandledInOrder
    ParkedAfterAllRetries
PROPERTIES
    DeliversAsAssumed
    PartitionsMoveOn
CHECK_DEADLOCK FALSE
