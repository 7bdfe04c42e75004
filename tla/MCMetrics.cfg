CONSTANTS
    EvidenceIds = {1, 2, 3}
    Large = {1, 2, 3}
    Refused = {3}
    Threshold = 2
    Providers = 2
    PageSize = 1
    MaxPageLimit = 1
    MaxFailures = 1
SPECIFICATION FairMetricsSpec
PROPERTIES ApprovedIsExecuted PushedCountsSettle
INVARIANTS ApprovedStaysExecutable NoneMissed ListedOnce FailsOnlyIfOvertaken
