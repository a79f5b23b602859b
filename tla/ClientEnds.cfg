SPECIFICATION Spec
CONSTANTS
  Tasks = {t1, t2}
  Sessions = {s1}
  Ops = {"create"}
  MaxGen = 2
  MaxCalls = 2
  MaxOut = 0
  MaxDeaths = 0
  MaxFaults = 1
  CacheMax = 1
PROPERTIES RequestsEnd
CHECK_DEADLOCK FALSE
