SPECIFICATION FairSpec
CONSTANTS
  None = None
  Kinds = {"delegate", "team"}
  MaxLoops = 2
  MaxInbox = 1
  MaxSends = 1
INVARIANTS
  TypeOK
  VetoHonoured
  ContextIsSeen
PROPERTIES
  ImplementsFeed
  GatesOpen
CHECK_DEADLOCK FALSE
