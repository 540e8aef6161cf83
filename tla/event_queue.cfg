SPECIFICATION FairSpec
CONSTANTS
  Node = {n1, n2}
  Event = {"assignments_status_update", "service_requests_update", "change_agent_security"}
  None = "none"
  Priority = {"assignments_status_update"}
  Buffered = {"service_requests_update"}
  MaxCrashes = 1
INVARIANTS HandledOnce NotBehind ToldOnce
PROPERTY EventsTaken
CHECK_DEADLOCK FALSE
