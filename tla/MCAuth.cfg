SPECIFICATION AuthSpec
CONSTANTS
    Users = {u1}
    Slots = {s1, s2}
    Passwords = {p, q}
    Redis = "flaky"
    MaxAttempts = 2
    Lockout = 1
    Lifetime <- MCLifetime
    Ttl = 3
    BackupCodes = 1
    MaxNow = 2
    MaxSecrets = 2
    MaxRequests = 5
SYMMETRY MCSymmetry
INVARIANTS
    EndedStaysEnded
    LockedAfterFailures
    BackupCodeOnce
    
CHECK_DEADLOCK FALSE
