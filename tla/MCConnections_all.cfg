SPECIFICATION FairSpec
CONSTANTS
  c1 = c1
  c2 = c2
  c3 = c3
  g1 = g1
  h1 = h1
  h2 = h2
  tcp = tcp
  ssl = ssl
  None = None
  Loop = {tcp, ssl}
  Conn = {c1, c2, c3}
  Guid = {g1}
  Sleeper = {g1}
  Holder = {h1, h2}
  Origin = {"foreign"}
  Setting <- MCSetting
INVARIANTS
  TypeOK
  PendingBound
  OneOnline
  ListedOrTerminated
  HeldIsAlive
PROPERTIES
  TerminatedEnds
  PendingEnds
  RejectIsTemporary
