SPECIFICATION FairSpec
CONSTANTS
  Queue <- ThreeMissions
  Direct = {"d1"}
  Agent = {"a1", "a2"}
  AgentsOf <- Crossed
  Handler = {h1, h2}
  NoWp = "none"
  WithSettings = {"m2"}
  NoWait = {"m3"}
  Unplannable = {"m1", "m3"}
  HalfPlanned = {}
  MissingAgent = {}
  Acknowledges = {"a1", "a2"}
  Cancelable = {}
  CancelsQueue = FALSE
  LateAgents = TRUE
PROPERTIES RunsInSequence MissionsEnd
CHECK_DEADLOCK FALSE
