SPECIFICATION Spec
CONSTANTS
  Queue <- OneMission
  Direct = {"d1"}
  Agent = {"a1"}
  AgentsOf <- SharedAgent
  Handler = {h1, h2}
  NoWp = "none"
  WithSettings = {}
  NoWait = {}
  Unplannable = {}
  HalfPlanned = {}
  MissingAgent = {}
  Acknowledges = {"a1"}
  Cancelable = {"preparing resources", "executing"}
  CancelsQueue = TRUE
  LateAgents = TRUE
SYMMETRY Symmetry
INVARIANT ExclusiveAgents
CHECK_DEADLOCK FALSE
