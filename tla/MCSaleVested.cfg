SPECIFICATION SaleSpec
CONSTANTS
    Investors = {a, b}
    Amounts = {1, 2}
    cliffDuration = 1
    vestingDuration = 2
    MaxTime = 3
    MaxTokens = 2
    Payments = {1, 2}
    Scale = 1
    softCap = 2
    hardCap = 3
    feeBasisPoints = 5000
    feeCapUsdc = 1
    BlockLimits = {}
    DefaultMaxPerBlock = 4
    PhaseConfigs <- MCVestedPhases
    MaxPhases = 1
    InitialUsdc = 3
    VaultDeployed = TRUE
SYMMETRY MCSymmetry
INVARIANTS
    NeverOverpaid
    VaultMirrorsSale
    RefundXorTokens
    FractionsAccounted
