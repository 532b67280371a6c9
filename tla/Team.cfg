SPECIFICATION FairSpec
CONSTANTS
  a = a
  b = b
  r1 = r1
  w1 = w1
  w2 = w2
  None = None
  Roster <- Two
  NumTasks = 2
  Deps <- Chain
  Workspaces = {w1, w2}
  Requests = {r1}
  MaxChildren = 2
  LeadStatuses = {"pending", "completed", "in_progress"}
  NewDeps <- Freed
  MaxTries = 2
  MaxEvents = 2
  MaxTeams = 1
INVARIANTS
  TypeOK
  RunsAreOwned
  NeverBusy
  NoLeakedLease
  LimitHolds
  RecordsMatch
PROPERTIES
  RequestKept
  CancelEnds
  WorkIsHandedOut
CHECK_DEADLOCK FALSE
