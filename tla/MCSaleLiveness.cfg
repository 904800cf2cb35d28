SPECIFICATION FairSaleSpec
CONSTANTS
    Investors = {a, b}
    Amounts = {1}
    cliffDuration = 1
    vestingDuration = 1
    MaxTime = 2
    MaxTokens = 1
    Payments = {1, 2}
    Scale = 1
    softCap = 2
    hardCap = 3
    feeBasisPoints = 5000
    feeCapUsdc = 1
    BlockLimits = {}
    DefaultMaxPerBlock = 4
    PhaseConfigs <- MCVestedPhases
    MaxPhases = 1
    InitialUsdc = 3
    VaultDeployed = TRUE
PROPERTY EveryoneSettled
