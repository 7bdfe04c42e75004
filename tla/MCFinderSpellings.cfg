CONSTANTS
    Codes <- MCCodes
    Decode <- MCDecode
    TokenChoices <- TwoSpellings
    XRPLTxs <- MCXRPLTxs
    NoAddress = "no_address"
    Unit = 2
    Scale = 3
    Epsilon = 4
    MaxTokens = 2
SPECIFICATION Spec
INVARIANTS DuplicatesPrevented
CHECK_DEADLOCK FALSE
