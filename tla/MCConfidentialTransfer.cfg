SPECIFICATION MCSpec
CONSTANTS
    a1 = a1
    a2 = a2
    Accounts = {a1, a2}
    ElGamalKeys = {k1, k2}
    WithdrawKey = kw
    Auditors = {u1, u2}
    Openings = {1, 2}
    TransferSums = {1, 2, 3}
    Fees <- MCFees
    MaxCredits = 2
    MaxAmount = 3
    OneInBasisPoints = 4
    LoLimit = 2
    HiLimit = 2
    BalanceLimit = 4
    DeltaLimit = 8
    Plots = {"setup", "credits", "splits", "fees", "fee splits", "any proofs", "any fee proofs", "formats", "wire"}
    ContextPool <- Pool
INVARIANTS
    ConfidentialConserved
    BalancesSound
    
    
    AcceptedProofsSound
    EntriesAreAMap
    
CHECK_DEADLOCK FALSE
