SPECIFICATION Spec
CONSTANTS
  Req = {"P", "R"}
  Asg = {"a1", "a2", "a3"}
  Handler = {h1, h2}
  NoRow = "none"
  NextReq <- NoOrderTwo
  DependsOn <- NoOrderTwo
  Planner = {"P", "R"}
  Owner <- OwnerTwo
  Cancelable = {"executing"}
  NextAsg <- TwoPlansNext
  DependsAsg <- TwoPlansDeps
  Continues = {"a2", "a3"}
  Reports = {"succeeded", "failed", "canceled"}
  QuickAgents = TRUE
  OrdersFail = {"a1"}
SYMMETRY Symmetry
INVARIANTS SentAfterDependencies NoEarlyCompletion
PROPERTY OutcomeIsFinal
CHECK_DEADLOCK FALSE
