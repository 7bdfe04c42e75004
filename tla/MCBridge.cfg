CONSTANTS
    owner = owner
    r1 = r1
    r2 = r2
    contract = contract
    user = user
    module = module
    Relayers <- MCRelayers
    Transfers <- MCTransfers
    MaxDisruptions = 1
    Addrs <- MCAddrs
    Recipients = {user, module}
    Blocked = {module}
    ContractAddress = contract
    Ids = {"hash", "other"}
    Denoms = {"ucore"}
    Lower <- MCLower
    Amounts = {1, 2}
    Claims <- MCTransfers
    AmountLimits = {2}
    TrustedLists <- MCTrustedLists
    Tokens = {}
    ValidTokens = {}
    TokenKey <- MCTokenKey
    MAX_XRPL_TOKENS = 1
    DEFAULT_MIN_AMOUNT = 1
    DEFAULT_MAX_AMOUNT = 1
    InstantiateMsgs <- MCMsgs
    LegacyStates = {}
    MaxVersion = 2
    MaxDeposit = 3
SPECIFICATION FairBridgeSpec
INVARIANTS OnlyKnownEvidence OneBankSendPerId HandledIsAttested
PROPERTIES PaysByQuorum EveryTransferSettled
CHECK_DEADLOCK FALSE
