SPECIFICATION ScenarioSpec
CONSTANTS
  o = o  m = m  n = n  i1 = i1
  NoJob = NoJob
  Owner = o
  Author <- MCAuthor
  Users = {o, m, n}
  Items = {i1}
  MaxEpoch = 3
  MaxRevision = 3
  MaxInFlight = 2
  Enabled <- Everything
  Scenarios <- ShareRaces
CHECK_DEADLOCK FALSE
INVARIANTS RecipientsOpenSharedItems
