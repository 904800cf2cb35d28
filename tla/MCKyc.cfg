SPECIFICATION KycSpec
CONSTANTS
    Users = {u1}
    Slots = {s1}
    Worker = worker
    Answers = {"GREEN", "RED"}
    Credentials = TRUE
    LastTopic = 2
    MaxEvents = 1
    MaxApplications = 2
    MaxUpsets = 1
INVARIANTS
    
    InvestorsWereGreen
PROPERTIES
    EventsSettle
CHECK_DEADLOCK FALSE
