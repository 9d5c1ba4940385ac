SPECIFICATION FairScenarioSpec
CONSTANTS
  a = a  g = g
  p1 = p1  p2 = p2
  Idle = Idle
  Items = {a, g}
  Grouped = {g}
  Pulls = {p1, p2}
  MaxFailedMerges = 2
  MaxWrites = 3
  MaxSaves = 1
  Scenarios <- BothClients
CHECK_DEADLOCK FALSE
INVARIANTS TypeOK
PROPERTIES OnlyOvertakenAnswersMislead PullsSpareLockedStore DownloadsEnd
