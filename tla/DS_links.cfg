SPECIFICATION Spec
CONSTANTS
  Links <- PassLinks
CHECK_DEADLOCK FALSE
INVARIANTS
  TypeOK
  NeededIsKept
  KeptIsNeeded
  StrippingIsSafe
PROPERTIES
  StrippingEnds
