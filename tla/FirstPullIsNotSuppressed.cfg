SPECIFICATION ScenarioSpec
CONSTANTS
    c1 = c1
    c2 = c2
    p1 = p1
    p2 = p2
    s1 = s1
    s2 = s2
    Collections = {c1, c2}
    Pulls = {p1, p2}
    Sockets = {s1, s2}
    NoPull = NoPull
    NoJob = NoJob
    NoSnap = NoSnap
    NoSocket = NoSocket
    Gone = Gone
    Failed = Failed
    Purge = Purge
    Capacity = 1
    MaxRetries = 3
    MaxMoves = 2
    Moves = {}
    MaxSessions = 2
    MaxFaults = 1
    MaxQueue = 1
    Scenarios <- SessionScenarios
INVARIANTS
    FirstPullIsNotSuppressed
CHECK_DEADLOCK FALSE
