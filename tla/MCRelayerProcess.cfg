CONSTANTS
    Tokens = {"t1", "t2"}
    MaxVersion = 2
SPECIFICATION FairProcessSpec
INVARIANTS VersionsOrdered CurrentVersionMeansCurrentTokens
    OneExecutor StuckTransferIsRescanned GroupEndsForAReason
PROPERTIES ChangeReachesFinders RunsLifecycle ClosedGroupReturns
    OldGenerationsEnd
CHECK_DEADLOCK FALSE
