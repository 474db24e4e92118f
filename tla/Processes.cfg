SPECIFICATION ReadingSpec
CONSTANTS
  Connections = {c1}
  Handles = {h}
  MaxRequests = 3
  StdinCapacity = 1
INVARIANTS TypeOK OneAtATime RunningIsReachable ClosedLeavesNothing
CHECK_DEADLOCK FALSE
PROPERTIES RequestsAnswered ClosedTerminates
