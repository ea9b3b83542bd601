SPECIFICATION FairSpec
CONSTANTS
  a = a
  b = b
  g = g
  None = None
  Scene = {a, b}
  Gate = {g}
  Task = {t1, t2, t3, t4, t5}
  Requester = {r1, r2}
  Programs <- Rings
  Requests <- Asked
  Estimated = {a}
  Attempts = 1
  Verified = {g}
  MaxRequests = 2
INVARIANTS
  PathsBounded
  QueueSound
PROPERTIES
  InterruptedStops
  EverythingEnds
