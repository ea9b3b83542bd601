\* Two connections, five devices of which two are stored, three registrations
\* and a limit of three devices.
CONSTANTS
  Session = {s1, s2}
  old = old
  off = off
  new = new
  other = other
  third = third
  here = here
  there = there
  Guid = {old, off, new, other, third}
  Location = {here, there}
  Open = {here}
  Requests <- MCRequests
  Stored <- MCStored
  StoredWith <- MCStoredWith
  Limit = 3
  MaxRegistrations = 3
  None = None
SPECIFICATION FairSpec
INVARIANTS
  NoPartialDevice
  RegisteredIsStored
  LockedStaysOut
  LimitBound
PROPERTIES
  EveryoneAnswered
