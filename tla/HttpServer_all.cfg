SPECIFICATION FairSpec

CONSTANTS
  None = None
  w1 = w1
  w2 = w2
  Pool = {w1, w2}
  d1 = d1
  d2 = d2
  Spare = {d1, d2}
  c1 = c1
  c2 = c2
  Conns = {c1, c2}
  a1 = a1
  a2 = a2
  Args = {a1, a2}
  Configs <- AllConfigs

INVARIANTS
  TypeOK
  OneKeeper
  BlocksNotShared
  HandlersOutlivePool

PROPERTIES
  
  StopReturnsUnpooled

CHECK_DEADLOCK FALSE
