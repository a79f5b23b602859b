SPECIFICATION Spec
CONSTANTS
  Tasks = {t1, t2}
  Sessions = {s1}
  Ops = {"create", "pause", "resume"}
  MaxGen = 2
  MaxCalls = 2
  MaxOut = 1
  MaxDeaths = 1
  MaxFaults = 1
  CacheMax = 1
SYMMETRY TaskSymmetry
INVARIANTS OneClaimOneExit PendingHasOwner
PROPERTIES  SubscriberKept
CHECK_DEADLOCK FALSE
