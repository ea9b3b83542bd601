SPECIFICATION FairSpec
CONSTANTS
  t1 = t1
  t2 = t2
  w1 = w1
  w2 = w2
  w3 = w3
  p1 = p1
  p2 = p2
  None = None
  Task = {t1, t2}
  Thread = {w1, w2}
  Pool = {p1, p2}
  Home <- TwoHomes
  PoolOf <- TwoPools
  Prio <- TwoPrios
  Limit <- Each1
  PerThread <- Each1
  KeepMax <- Each1
  Delayed = {}
  Timed = {}
  Repeating = {}
  Observable = {t1}
  Cancelable = {t1}
PROPERTIES
  ShutdownCompletes
  CancelIsNotified
