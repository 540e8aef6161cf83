SPECIFICATION Spec
CONSTANTS
  Req = {"A", "B", "C"}
  Asg = {}
  Handler = {h1, h2}
  NoRow = "none"
  NextReq <- ChainNext
  DependsOn <- ChainDeps
  Planner = {}
  Owner <- NoAsg
  Cancelable = {"preparing resources", "calculating", "executing"}
  WaitAssignments = {"B"}
  Replies = {"ready", "pending", "failed", "canceled", "time-out", "error"}
  Choosers = {"A", "B"}
SYMMETRY Symmetry
INVARIANTS TypeOK RunsWithPermission NoPrematureCompletion ReleasedAtEnd
PROPERTY OutcomeIsFinal
CHECK_DEADLOCK FALSE
