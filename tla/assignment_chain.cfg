SPECIFICATION Spec
CONSTANTS
  Req = {"P"}
  Asg = {"a1", "a2"}
  Handler = {h1, h2}
  NoRow = "none"
  NextReq <- NoRequestOrder
  DependsOn <- NoRequestOrder
  Planner = {"P"}
  Owner <- OwnerP2
  Cancelable = {"executing"}
  NextAsg <- ChainNext
  DependsAsg <- ChainDeps
  Continues = {"a2"}
  Reports = {"succeeded", "failed", "canceled"}
  QuickAgents = FALSE
  OrdersFail = {}
INVARIANT SentOnce
PROPERTY AssignmentCycle
CHECK_DEADLOCK FALSE
