SPECIFICATION FairSpec
CONSTANTS
  Req = {"P", "S"}
  Asg = {"a1"}
  Handler = {h1, h2}
  NoRow = "none"
  NextReq <- ChainNext
  DependsOn <- ChainDeps
  Planner = {"P"}
  Owner <- OwnerOne
  Cancelable = {"preparing resources", "calculating", "executing"}
  WaitAssignments = {"S"}
  Replies = {"ready", "failed"}
  Choosers = {}
  NextAsg <- OneAsg
  DependsAsg <- OneAsg
  Continues = {}
  Reports = {"succeeded", "failed", "canceled"}
  QuickAgents = FALSE
  OrdersFail = {}
  DispatchModes = {"assignment_order_array", "dispatch_all_at_once"}
  InvalidPlans = TRUE
INVARIANTS ServiceWaitsForAssignments FollowsPlan
PROPERTY MissionTerminates
CHECK_DEADLOCK FALSE
