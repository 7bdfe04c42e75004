CONSTANTS
    Accounts = {"busy", "quiet"}
    AccountTxs <- TwoAccounts
    HistoryStart = 1
    RecentBack = 2
    SkipLast = 1
    PageLimit = 2
    FirstLedgers = {4}
    MaxLedger = 7
    MaxFailures = 0
SPECIFICATION Spec
PROPERTIES GaugeNeverDecreases
