SPECIFICATION FairSpec
CONSTANTS
  Connections = {c1}
  Handles = {h}
  MaxRequests = 3
  StdinCapacity = 1
PROPERTIES ClosedTerminates
CHECK_DEADLOCK FALSE
