SPECIFICATION ScenarioSpec
CONSTANTS
    a = a
    b = b
    n1 = n1
    n2 = n2
    Accounts = {a, b}
    Nonces = {n1, n2}
    None = None
    r1 = r1
    r2 = r2
    r3 = r3
    Requests = {r1, r2, r3}
    Creates = {r1, r3}
    Events = {}
    MaxEvents = 4
    Scenarios <- AllScenarios
INVARIANTS
    UnlockedIsTimed
    OneSession
    ProviderTypeOK
    GivenIsKept
PROPERTIES
    SessionEnds
    CeremonyEnds
    SignsOnlyUnlocked
    CeremoniesEnd
CHECK_DEADLOCK FALSE
