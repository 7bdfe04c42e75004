SPECIFICATION Spec
CONSTANTS
    Addresses = {"a1", "a2"}
    Malformed = {"bad"}
    Thresholds = {0, 1, 2, 3, 9}
    Amounts = {0, 1, 2}
    UInt32 = 8
    MaxCodes = 2
INVARIANT CommandDeploys
CHECK_DEADLOCK FALSE
