SPECIFICATION BackendSpec
CONSTANTS
    Backers = {u1, u2}
    Linked = {u1, u2}
    Txs = {t1, t2}
    Otcs = {}
    Sums = {1, 2}
    goal = 2
    limit = 3
    minContribution = 1
    maxContribution = 3
    Slots = {s1, s2, s3}
    Listener = listener
    IssuerWallet = TRUE
    Faults = FALSE
    PollRange = 2
    Lookback = 1
    MaxBlocks = 1
    MaxPaid = 3
SYMMETRY MCSymmetry
PROPERTIES
    FinalStatusStands
CHECK_DEADLOCK FALSE
