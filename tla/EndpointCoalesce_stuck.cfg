SPECIFICATION Spec

CONSTANTS
  c1 = c1
  c2 = c2
  c3 = c3
  None = None
  Callers = {c1, c2, c3}
  Configs <- DevicesConfigs
  MaxTime = 2

INVARIANTS
  FinishFollowsStart

CHECK_DEADLOCK FALSE
