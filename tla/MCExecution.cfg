CONSTANTS
    Trxs = {t1, t2}
    t1 = t1
    Cells = {c}
    Purses = {p, q}
    Unknown = Unknown
    MaxValue = 1
    MaxActions = 2
    MaxRevision = 3
    REVISIONS = 65536
    MaxClock = 3
    NO_CHILD_TRANSACTION = 65535
    MaxNodes = 2
    TREE_ACCOUNT_TIMEOUT = 0
    MaxSlot = 0
    MaxBalance = 0
    Accounts = {a1, a2}
    Classic = {c1}
    NoTrx = NoTrx
    GAS_LIMIT = 3
    GAS_PRICE = 1
    BASE_FEE = 1
    SIGNATURE_COST = 1
    TREASURY_PAYMENT = 1
    MaxRent = 0
    FINISH_GAS = 1
    TOKENS_PER_LAMPORT = 3
    MaxPool = 0
    Fees = {0, 2}
    EvmExit = {"Return", "Revert"}
SPECIFICATION MCSpec
SYMMETRY Symmetry
INVARIANTS
    InProgressHeldOnce AppliedOnceUnlessCancelled FinishAccepted
    ReadsCurrent TimeNeverRunsBack
\* When every transaction is over and MaxRevision is reached nothing is left to do.
CHECK_DEADLOCK FALSE
