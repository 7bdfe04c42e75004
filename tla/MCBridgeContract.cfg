CONSTANTS
    owner = owner
    r1 = r1
    r2 = r2
    r3 = r3
    contract = contract
    user = user
    Addrs <- MCAddrs
    Recipients = {user, contract}
    Blocked = {}
    ContractAddress = contract
    Ids = {"HASH", "hash"}
    Denoms = {"UCORE", "ucore"}
    Lower <- MCLower
    Amounts = {1, 2}
    Claims <- MCClaims
    AmountLimits = {0, 2}
    TrustedLists <- MCTrustedLists
    Tokens = {"t1", "t1b"}
    ValidTokens = {"t1", "t1b"}
    TokenKey <- MCTokenKey
    MAX_XRPL_TOKENS = 1
    DEFAULT_MIN_AMOUNT = 1
    DEFAULT_MAX_AMOUNT = 1
    InstantiateMsgs <- MCInstantiateMsgs
    LegacyStates <- MCLegacyStates
    MaxVersion = 3
    MaxDeposit = 2
SPECIFICATION Spec
INVARIANTS PaidOnQuorum EvidencePaidOnce OwnCoinsOnlyForFirstPayout AttestationsKept BalanceConserved
PROPERTIES SentIdIsFrozen VersionTracksConfig
CHECK_DEADLOCK FALSE
