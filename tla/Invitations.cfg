SPECIFICATION ScenarioSpec
CONSTANTS
    o = o
    a = a
    b = b
    c1 = c1
    f1 = f1
    k1 = k1
    i1 = i1
    i2 = i2
    Users = {o, a, b}
    Owner = o
    Collections = {c1, f1, k1}
    Invites = {i1, i2}
    NoCollection = NoCollection
    NoInvite = NoInvite
    NoDraft = NoDraft
    NoPage = NoPage
    WideKind <- MCWideKind
    Declared <- MCDeclared
    MaxFailedAttempts = 2
    MaxGuesses = 2
    MaxMoves = 3
    Moves = {}
    AskLevels = {"read", "edit"}
    Scenarios <- AllScenarios
INVARIANTS
    TypeOK
    
    GuessesAreBounded
PROPERTIES
    GrantsFollowTheInviter
    RedeemedOnceAndWhole
CHECK_DEADLOCK FALSE
