SPECIFICATION Spec
CONSTANTS
    a1 = a1
    a2 = a2
    Origin = o
    Accounts = {o, a1, a2}
    Precompile = p
    Token = t
    Values = {0, 1}
    Funds = 1
    InitialCode <- OneContract
    MaxDepth = 3
    MaxActions = 3
INVARIANT StorageHasContract
CHECK_DEADLOCK FALSE
