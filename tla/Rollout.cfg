SPECIFICATION FairSpec
CONSTANTS
  Callers = {c1, c2}
  Capacity = 2
  MaxItems = 3
  MaxBatch = 2
  Faults = {"fail", "tear", "crash"}
  None = None
CHECK_DEADLOCK FALSE
INVARIANTS TypeOK FileIsPrefix ConfirmedIsStored
PROPERTIES LogSpec CallersAnswered
