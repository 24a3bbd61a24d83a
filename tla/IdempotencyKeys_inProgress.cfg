SPECIFICATION FairSpec
CONSTANTS
    Requests = {"r1", "r2"}
    Keys = {"k1", "k2"}
    Bodies = {"b1", "b2"}
    None = None
    KeyOf <- MCKeyOf
    BodyOf <- MCBodyOf
PROPERTIES InProgressIsRefused
CHECK_DEADLOCK FALSE
