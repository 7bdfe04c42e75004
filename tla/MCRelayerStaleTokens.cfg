CONSTANTS
    Tokens = {"t1"}
    MaxVersion = 2
SPECIFICATION FairSpec
PROPERTIES ScansRegisteredTokens
CHECK_DEADLOCK FALSE
