SPECIFICATION FairSpec

CONSTANTS
  c1 = c1
  c2 = c2
  r1 = r1
  r2 = r2
  r3 = r3
  None = None
  Callers = {c1, c2}
  Reqs = {r1, r2, r3}
  Entries <- QueuedEntries
  QueueMax = 4
  Retries = 1
  Ttl = 1
  MaxTime = 1

PROPERTIES
  AcceptedIsServed
  MeetsDemand

CHECK_DEADLOCK FALSE
