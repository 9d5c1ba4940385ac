SPECIFICATION ScenarioSpec
CONSTANTS
    a = a
    b = b
    p = p
    q = q
    t1 = t1
    t2 = t2
    j1 = j1
    j2 = j2
    None = None
    Freed = Freed
    Accounts = {a, b}
    Passkeys = {p, q}
    Tabs = {t1, t2}
    Jobs = {j1, j2}
    Copied = {p}
    Does = {}
    MaxSessions = 3
    MaxStarts = 4
    Scenarios <- AllScenarios
SYMMETRY JobSymmetry
INVARIANTS
    TypeOK
    NoFalseAlarm
    OwnIdentity
CHECK_DEADLOCK FALSE
