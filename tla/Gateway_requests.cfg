SPECIFICATION FairEdgeSpec
CONSTANTS
    Gateways = {"g1", "g2"}
    Identities = {"c1", "c2"}
    MaxRequests = 1
    WindowSeconds = 2
    Purchases = {"p1", "p2"}
    Attempts = {"a1", "a2", "a3"}
    Keys = {"k1"}
    Careless = {"p2"}
    MaxFailures = 1
    None = None
    PurchaseOf <- MCPurchaseOf
    CustomerOf <- MCCustomerOf
    ClaimOf <- MCClaimOf
    ItemsOf <- MCItemsOf
    HeaderKey <- MCHeaderKey
INVARIANTS
    LimitIsShared
    RefusedOnlyWhenSpent
    TwoWindowsAtMost
    AnswersAreTheCustomersOwn
PROPERTIES CustomersAreServed
CHECK_DEADLOCK FALSE
