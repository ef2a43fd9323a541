SPECIFICATION MCSpec
CONSTANTS
    t1 = t1
    t2 = t2
    t3 = t3
    t4 = t4
    m1 = m1
    w1 = w1
    w2 = w2
    TokenKeys = {t1, t2, t3, t4}
    AtaWallet <- WalletOf
    AtaMint <- MintOf
    MintKeys = {m1, nm}
    NativeMint = nm
    Wallets = {w1, w2}
    MultisigKeys = {s1}
    Incinerator = inc
    None = None
    Amounts = {1, 2}
    MaxAmount = 3
    OneInBasisPoints = 2
    BasisPoints = {0, 1}
    MaxSlots = 2
    MaxLamports = 4
    MaxEpoch = 2
    Plots = {"setup", "fees", "allowances", "multisigs", "guards", "freezes", "nested", "natives", "hooks"}
INVARIANTS
    SupplyIsHeld
    NativeIsBacked
    WithinAllowance
    AtaIsTheWallets
PROPERTIES
    FrozenStays
    CpiGuardHolds
    FeeSettledForEpoch
CHECK_DEADLOCK FALSE
