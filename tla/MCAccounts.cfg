CONSTANTS
    u1 = u1
    u2 = u2
    neon = neon
    w1 = w1
    w2 = w2
    o1 = o1
    p1 = p1
    p2 = p2
    nokey = nokey
    none = none
    nocode = nocode
    Users <- MCUsers
    NeonToken = neon
    Chains = {1, 2}
    DEFAULT_CHAIN_ID = 1
    SOL_CHAIN_ID = 2
    Mint <- MCMint
    Decimals <- MCDecimals
    FeeMints = {"sol"}
    Wallets = {w1, w2}
    Operators = {o1}
    Pubkeys = {p1, p2}
    FromSolanaAddress <- MCFromSolana
    NoKey = nokey
    NoAccount = none
    MAX_NONCE = 2
    Contracts = {1}
    Groups = {0}
    Subs = {0, 1, 2, 3}
    Words = {0, 1}
    Codes <- MCCodes
    STORAGE_ENTRIES = 2
    MAX_DATA_INCREASE = 8
    LEGACY_LEN = 5
    LEGACY_CELL_LEN = 3
    U8_MAX = 3
    MaxRevision = 3
    NoCode = nocode
    HolderTrxs <- MCTrxs
    HolderOwners = {"op", "other"}
    BUFFER_LEN = 4
    Heaps <- MCHeaps
    OldHolders <- MCOldHolders
SPECIFICATION Spec
INVARIANTS
    PoolBacksBalances
    RentExempt
    DeploymentFits
    DeliveredIsComplete
PROPERTIES
    AccountsKeepTheirUser
    RevisionsTell
    StateSpec
CHECK_DEADLOCK FALSE
