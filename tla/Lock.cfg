SPECIFICATION FairSpec
CONSTANTS
  p1 = p1
  p2 = p2
  p3 = p3
  Procs = {p1, p2, p3}
  Patient = {p1}
  MaxCrashes = 2
  MaxHazards = 1
  Hazards = {"torn", "slow"}
INVARIANTS
  TypeOK
  MutualExclusion
  SoundLocksPreserved
  OneReaper
PROPERTIES
  ImplementsMutex
  LockProgress
