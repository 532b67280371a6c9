SPECIFICATION Spec
CONSTANTS
  lead = lead
  work = work
  l1 = l1
  l2 = l2
  t1 = t1
  t2 = t2
  t3 = t3
  None = None
  NumResources = 2
  Principals = {lead, work}
  RootOf <- TwoRoots
  Requests = {t1, t2, t3}
  Launches = {l1, l2}
  OwnerOf <- BothWork
  BuildLaunches = {l1}
  MaxQueued = 2
  Controllers = {lead}
  Clients = {}
  Policies <- StrictOnly
  MaxEpoch = 1
  MaxLaunches = 2
  Faults = {"crash", "loss"}
SYMMETRY AnyTicket
INVARIANT CapacityOne
INVARIANT WaitsInOrder
INVARIANT NoUngovernedCommand
CHECK_DEADLOCK FALSE
