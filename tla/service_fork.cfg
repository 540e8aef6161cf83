SPECIFICATION FairSpec
CONSTANTS
  Req = {"A", "B", "C"}
  Asg = {}
  Handler = {h1, h2}
  NoRow = "none"
  NextReq <- ForkNext
  DependsOn <- ForkDeps
  Planner = {}
  Owner <- NoAsg
  Cancelable = {"preparing resources", "calculating"}
  WaitAssignments = {}
  Replies = {"ready", "pending", "failed", "time-out"}
  Choosers = {}
INVARIANTS CalledAfterDependencies CalledOnce
PROPERTIES MissionTerminates JobsEnd StatusSequence
CHECK_DEADLOCK FALSE
