SPECIFICATION Spec
CONSTANTS
  l1 = l1
  c1 = c1
  c2 = c2
  v1 = v1
  v2 = v2
  e1 = e1
  s1 = s1
  n1 = n1
  Client = Client
  None = None
  Locations <- NoLocation
  ItemLists <- Values
  SceneLists <- NoScenes
  Record <- Nothing
  Single = {}
  Absent = {}
  Expiring = {}
  Writer = {"w1"}
  PackMax = 2
  MaxChanges = 1
INVARIANT
  LastValueArrives
