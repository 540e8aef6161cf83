SPECIFICATION MCSpec
CONSTANTS
  Report = {1, 2, 3}
  Content <- Mixed
  CheckIn = {"c1", "c2", "c3"}
  KnownYard = {"c1", "c3"}
  Anonymous = {"c1", "c2", "c3"}
  PREFETCH_COUNT = 2
  Loads <- MCLoads
  MaxErrors = 1
  Object = {"o1", "o2", "o3"}
  FirstMap = {"o1"}
  Request = {"u1", "u2", "c2", "d1", "x1", "m", "s"}
  Ask <- MCAsk
  Result = {"r1"}
  NewMap <- MCNewMap
  Works <- MCWorks
  MaxFailures = 1
PROPERTIES ReportsDelivered ReportsSettled AgentsAnswered MapSettles
CHECK_DEADLOCK FALSE
