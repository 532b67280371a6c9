SPECIFICATION Spec
CONSTANTS
  p1 = p1
  p2 = p2
  p3 = p3
  Procs = {p1, p2}
  Patient = {}
  MaxCrashes = 0
  MaxHazards = 3
  Hazards = {"torn"}
INVARIANT LiveLocksPreserved
