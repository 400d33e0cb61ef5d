SPECIFICATION Spec

CONSTANTS
  c1 = c1
  c2 = c2
  r1 = r1
  r2 = r2
  r3 = r3
  r4 = r4
  r5 = r5
  None = None
  Callers = {c1, c2}
  Reqs = {r1, r2, r3, r4, r5}
  Entries <- AllEntries
  QueueMax = 4
  Retries = 1
  Ttl = 1
  MaxTime = 1

SYMMETRY Symmetry

INVARIANTS
  NoRedundantPending
  NothingDroppedByDefault

CHECK_DEADLOCK FALSE
