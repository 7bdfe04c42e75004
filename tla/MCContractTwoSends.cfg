CONSTANTS
    owner = owner
    r1 = r1
    r2 = r2
    r3 = r3
    contract = contract
    user = user
    Addrs <- MCAddrs
    Recipients = {user}
    Blocked = {}
    ContractAddress = contract
    Ids = {"HASH", "hash"}
    Denoms = {"ucore"}
    Lower <- MCLower
    Amounts = {2, 3}
    Claims <- TwoLargeClaims
    AmountLimits = {}
    TrustedLists <- MCTrustedLists
    Tokens = {"t1", "t1b"}
    ValidTokens = {"t1", "t1b"}
    TokenKey <- MCTokenKey
    MAX_XRPL_TOKENS = 1
    DEFAULT_MIN_AMOUNT = 1
    DEFAULT_MAX_AMOUNT = 1
    InstantiateMsgs <- TwoOfThreeMsgs
    LegacyStates = {}
    MaxVersion = 1
    MaxDeposit = 5
SPECIFICATION Spec
INVARIANTS OneBankSendPerId
CHECK_DEADLOCK FALSE
