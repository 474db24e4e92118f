SPECIFICATION Spec
CONSTANTS
  Threads = {t1, t2}
  Extractors = {e1, e2}
  Consolidators = {}
  MaxRunning = 1
  Lease = 2
  RetryDelay = 1
  Cooldown = 1
  Retries = 1
  Idle = 1
  MaxUnused = 1
  MaxSelected = 1
  Delay = 1
  ScanTime = 1
  MaxTime = 3
  MaxTokens = 3
  MaxResets = 1
  MaxPolluted = 0
  Suspends = FALSE
SYMMETRY Symmetry
CHECK_DEADLOCK FALSE
INVARIANTS TypeOK RunningCap NoDuplicateWork RetriesBounded ResetForgetsOutputs
