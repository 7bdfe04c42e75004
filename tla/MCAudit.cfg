CONSTANTS
    Xrpl <- MCXrpl
    TxChoices <- AllTxs
    InitialLengths = {2, 3}
    MaxTxs = 4
    PageSize = 2
    Workers = 2
    StartDate = 1
    Known = {"h3"}
SPECIFICATION Spec
INVARIANTS FetchesAll DisagreementsReported VerdictNeedsEveryLookup SoundChainAtRestPasses MissesOnlyOldest
CHECK_DEADLOCK FALSE
