SPECIFICATION FairSpec
CONSTANTS
  t1 = t1
  t2 = t2
  w1 = w1
  w2 = w2
  w3 = w3
  p1 = p1
  p2 = p2
  None = None
  Task = {t1}
  Thread = {w1}
  Pool = {p1}
  Home <- OneHome
  PoolOf <- OnePool
  Prio <- TwoPrios
  Limit <- Each1
  PerThread <- Each0
  KeepMax <- Each0
  Delayed = {t1}
  Timed = {}
  Repeating = {t1}
  Observable = {}
  Cancelable = {}
PROPERTY StartedIsPicked
