SPECIFICATION FairSpec
CONSTANTS
  Node = {n1, n2}
  Leader = n1
  limitWaitingFlushes = 1
  MaxQueries = 1
  Configs <- MCConfigs
INVARIANT PendingBounded
PROPERTIES Settles CachesCatchUp
CHECK_DEADLOCK FALSE
