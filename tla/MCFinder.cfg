CONSTANTS
    Codes <- MCCodes
    Decode <- MCDecode
    TokenChoices <- OneSpelling
    XRPLTxs <- MCXRPLTxs
    NoAddress = "no_address"
    Unit = 2
    Scale = 3
    Epsilon = 4
    MaxTokens = 2
SPECIFICATION Spec
INVARIANTS TypeOK OneTransferPerTransaction PaidWithinBurn BurnsAreFound
CHECK_DEADLOCK FALSE
