SPECIFICATION BackendSpec
CONSTANTS
    Backers = {u1, u2}
    Linked = {u1}
    Txs = {t1, t2}
    Otcs = {}
    Sums = {1, 2}
    goal = 2
    limit = 3
    minContribution = 1
    maxContribution = 3
    Slots = {s1, s2}
    Listener = listener
    IssuerWallet = TRUE
    Faults = TRUE
    PollRange = 2
    Lookback = 1
    MaxBlocks = 1
    MaxPaid = 3
SYMMETRY MCSymmetry
INVARIANTS
    RaisedIsSum
    WithinBounds
    
PROPERTIES
    NoLateMoney
    SettledStays
CHECK_DEADLOCK FALSE
