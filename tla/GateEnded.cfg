SPECIFICATION Spec
CONSTANTS
  lead = lead
  work = work
  l1 = l1
  l2 = l2
  t1 = t1
  t2 = t2
  t3 = t3
  None = None
  NumResources = 1
  Principals = {lead, work}
  RootOf <- TwoRoots
  Requests = {t1, t2}
  Launches = {l1, l2}
  OwnerOf <- OneEach
  BuildLaunches = {l1}
  MaxQueued = 2
  Controllers = {lead}
  Clients = {}
  Policies <- StrictOnly
  MaxEpoch = 1
  MaxLaunches = 2
  Faults = {"end"}
INVARIANT EndedRunHoldsNothingUnused
CHECK_DEADLOCK FALSE
