SPECIFICATION MCSpec
CONSTANTS
    Investors = {a, b}
    Amounts = {1, 2}
    cliffDuration = 1
    vestingDuration = 3
    MaxTime = 4
    MaxTokens = 3
    Beneficiaries = {c, d}
    VestAmounts = {2}
    StartTimes = {2}
    Durations = {0, 3}
    Cliffs = {1}
    MaxVestTime = 5
    MaxSchedules = 2
    Holders = {e, f}
    Deposits = {2, 3}
    MAX_CLAIM_BATCH = 1
    MaxEpochs = 2
    MaxBalance = 2
    MaxSupply = 3
    Redeemers = {r1, r2}
    Eligible = {r1}
    RedeemAmounts = {1, 2}
    Stock = 2
    Clerks = {k1, k2}
    MaxRedemptions = 3
    MaxRecords = 2
    MaxUpdates = 3
SYMMETRY MCSymmetry
CHECK_DEADLOCK FALSE
INVARIANTS
    ClaimedWithinVested
    SchedulesHonoured
    EpochsHonoured
    HeldIsOwed
    
PROPERTIES
    BackingKept
