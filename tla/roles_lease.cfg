SPECIFICATION FairSpec
CONSTANTS
  Node = {n1, n2}
  None = "none"
  Gone = "gone"
  MaxLate = 2
  MaxErrors = 1
  MaxCrashes = 1
INVARIANT OneOfEach
PROPERTIES StepsDown LeaseTaken
CHECK_DEADLOCK FALSE
