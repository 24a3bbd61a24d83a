SPECIFICATION FairSpec
CONSTANTS
    Requests = {"r1", "r2", "r3", "r4"}
    Keys = {"k1", "k2"}
    Bodies = {"b1", "b2"}
    None = None
    KeyOf <- MCKeyOf
    BodyOf <- MCBodyOf
INVARIANTS OneOrderPerKey AnswersAreJust KeyAndOrderCommitTogether CacheRepeatsPostgres
PROPERTIES RequestsComeToAnEnd ImplementsEndpoint
CHECK_DEADLOCK FALSE
