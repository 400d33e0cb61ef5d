SPECIFICATION Spec

CONSTANTS
  c1 = c1
  c2 = c2
  r1 = r1
  r2 = r2
  r3 = r3
  None = None
  Callers = {c1, c2}
  Reqs = {r1, r2, r3}
  Entries <- AllEntries
  QueueMax = 4
  Retries = 2
  Ttl = 1
  MaxTime = 2

SYMMETRY Symmetry

INVARIANT
  WorkerReleasesLive

CHECK_DEADLOCK FALSE
