SPECIFICATION MCSpec
CONSTANTS
    Wallets = {w1, w2}
    Platform = p
    Desks = {d1, d2}
    Actors = {"adm", "iss", "inv"}
    Role <- MCRole
    Supply = 1
    MaxActions = 3
    MaxMoves = 1
    Issuers = {u1}
    Symbols = {x}
    Names = {n1, n2}
    Caps = {1, 2}
    Workers = {k1, k2}
    MaxTokens = 2
    MaxSales = 1
    MaxContracts = 2
    Investors = {i1, i2}
    Addresses = {a1, a2}
    Handlers = {h1, h2}
    Total = 6
    Cliff = 1
    End = 4
    MaxLinks = 3
    MaxDay = 4
    MaxFailures = 3
    Window = 4
    OpenDuration = 2
    MaxClock = 12
    Submissions = {x1, x2, x3}
    MaxRetries = 3
    Rivals = 2
    Clients = {c1, c2}
    Paths = {"health", "register", "other"}
    exclude_paths = {"health"}
    path_limits <- MCLimits
    requests_per_minute = 2
    window_size = 2
    MaxSecond = 3
    MaxCalls = 5
SYMMETRY MCSymmetry
INVARIANTS
    
    RevertsAreForeign
    
    
    FrozenWithinBalance
    SymbolsUnique
    SaleSellsItsToken
    WalletsInOrder
    
    FailuresBounded
    
    
CHECK_DEADLOCK FALSE
