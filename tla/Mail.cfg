SPECIFICATION FairSpec
CONSTANTS
  m1 = m1
  m2 = m2
  k1 = k1
  k2 = k2
  c1 = c1
  c2 = c2
  None = None
  Lost = Lost
  Msgs = {m1}
  Chains = {k1}
  Consumers = {c1, c2}
  Capacity = 1
  Mortal = {m1}
  Answered = {m1}
  MaxLate = 1
  MaxNotes = 1
  Faults = {"loss", "record", "mark", "release"}
INVARIANTS
  TypeOK
  ReceiptsAreTrue
  OneReader
PROPERTIES
  ProgressIsKept
  SendsReturn
  AcceptedSettles
