CONSTANTS
    NO_CHILD_TRANSACTION = 65535
    MaxNodes = 3
    TREE_ACCOUNT_TIMEOUT = 0
    MaxSlot = 1
    MaxBalance = 0
    Accounts = {a1, a2}
    a2 = a2
    Classic = {c1}
    NoTrx = NoTrx
    GAS_LIMIT = 3
    GAS_PRICE = 1
    BASE_FEE = 1
    SIGNATURE_COST = 1
    TREASURY_PAYMENT = 1
    MaxRent = 1
    FINISH_GAS = 1
    TOKENS_PER_LAMPORT = 3
    MaxPool = 22
    Fees = {0, 2}
    EvmExit = {"Return", "Revert"}
SPECIFICATION MCFairSpec
INVARIANT TreeCoversPending
PROPERTIES TokenFlow EveryTransactionEnds
