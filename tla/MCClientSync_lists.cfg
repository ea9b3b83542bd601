SPECIFICATION FairSpec
CONSTANTS
  l1 = l1
  c1 = c1
  c2 = c2
  v1 = v1
  v2 = v2
  e1 = e1
  s1 = s1
  n1 = n1
  Client = Client
  None = None
  Locations <- OneLocation
  ItemLists <- Channels
  SceneLists <- SceneAndState
  Record <- Carries
  Single = {2}
  Absent = {e1}
  Expiring = {v1}
  Writer = {"w1"}
  PackMax = 1
  MaxChanges = 2
INVARIANTS
  NothingForgotten
PROPERTIES
  KnownForward
  ComesToRest
