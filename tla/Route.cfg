SPECIFICATION Spec
CONSTANTS
  m1 = m1
  m2 = m2
  k1 = k1
  k2 = k2
  c1 = c1
  c2 = c2
  None = None
  Lost = Lost
  Msgs = {m1, m2}
  Chains = {k1, k2}
  Consumers = {c1}
  Capacity = 1
  Mortal = {}
  Answered = {}
  MaxLate = 1
  MaxNotes = 0
  Faults = {"loss"}
PROPERTIES
  ImplementsMailbox
