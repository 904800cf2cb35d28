SPECIFICATION SaleSpec
CONSTANTS
    Investors = {a, b}
    Amounts = {2}
    cliffDuration = 0
    vestingDuration = 1
    MaxTime = 2
    MaxTokens = 2
    Payments = {1, 3}
    Scale = 1
    softCap = 3
    hardCap = 4
    feeBasisPoints = 5000
    feeCapUsdc = 1
    BlockLimits = {0, 3}
    DefaultMaxPerBlock = 4
    PhaseConfigs <- MCPhaseConfigs
    MaxPhases = 2
    InitialUsdc = 4
    VaultDeployed = FALSE
SYMMETRY MCSymmetry
INVARIANTS
    EscrowCoversRefunds
    ProceedsSplit
    CapsDecide
PROPERTIES
    ImplementsCrowdfund
