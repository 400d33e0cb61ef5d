SPECIFICATION FairSpec

CONSTANTS
  None = None
  w1 = w1
  Pool = {w1}
  d1 = d1
  Spare = {d1}
  c1 = c1
  Conns = {c1}
  a1 = a1
  Args = {a1}
  Configs <- PoolConfigs

PROPERTIES
  StopReturns

CHECK_DEADLOCK FALSE
