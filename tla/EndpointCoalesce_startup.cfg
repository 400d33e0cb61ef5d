SPECIFICATION Spec

CONSTANTS
  c1 = c1
  c2 = c2
  c3 = c3
  None = None
  Callers = {c1, c2, c3}
  Configs <- StartupConfigs
  MaxTime = 2

INVARIANTS
  OneWorkerAtATime
