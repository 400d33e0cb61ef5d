SPECIFICATION FairSpec

CONSTANTS
  c1 = c1
  c2 = c2
  c3 = c3
  None = None
  Callers = {c1, c2, c3}
  Configs <- AllConfigs
  MaxTime = 2

INVARIANTS
  TypeOK
  NotAbandoned
  CoalescesUntilExpiry

PROPERTIES
  BusyEnds

CHECK_DEADLOCK FALSE
