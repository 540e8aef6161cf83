SPECIFICATION FairSpec
CONSTANTS
  Node = {n1, n2}
  ServicesYml <- TwoServices
  MissionsYml <- OneMission
  AgentKeys <- OneAgent
  Ttl = 30
  DeclaredTtls = {0, 30}
  MaxCrashes = 1
  MaxCuts = 2
  MaxRefusals = 1
INVARIANTS OneServiceOfType RecipeInWork ConnectionsDouble
PROPERTIES NodesRun SendsAgain
CHECK_DEADLOCK FALSE
