CONSTANTS
    NO_CHILD_TRANSACTION = 65535
    MaxNodes = 4
    TREE_ACCOUNT_TIMEOUT = 1
    MaxSlot = 3
    MaxBalance = 1
SPECIFICATION MCSpec
INVARIANTS
    CountersExact
    ExecutionOrder
    NeverStuck
PROPERTIES
    ResultsAreSettled
    EventuallyComplete
