SPECIFICATION ScenarioSpec
CONSTANTS
  o = o  m = m  n = n
  c1 = c1  c2 = c2
  i1 = i1  i2 = i2
  Personal = Personal  None = None  Gone = Gone
  WideKind <- MCKind
  Declared <- MCDeclared
  Users = {o, m, n}
  Items = {i1, i2}
  Collections = {c1, c2}
  AskLevels = {"read", "hidden_password", "edit"}
  MaxRevision = 3
  MaxInFlight = 2
  Enabled <- Everything
  Scenarios <- StoreScenarios
CHECK_DEADLOCK FALSE
INVARIANTS TypeOK NoShareOnCollectionItem BucketLevels OutsidersHoldNoShare
PROPERTIES LastEditorIsNotDemoted OnlyAccountDeletionOrphans VaultCursorCovers CollectionCursorCovers DirectCursorCovers
