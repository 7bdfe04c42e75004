CONSTANTS
    Accounts = {"issuer"}
    AccountTxs <- BusyAccount
    HistoryStart = 1
    RecentBack = 2
    SkipLast = 1
    PageLimit = 2
    FirstLedgers = {2, 4}
    MaxLedger = 7
    MaxFailures = 2
SPECIFICATION FairSpec
INVARIANTS CursorSkipsNothing HistoryMeetsRecent
PROPERTIES CursorsAdvance EventuallyDelivered
