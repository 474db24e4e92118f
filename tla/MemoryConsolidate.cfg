SPECIFICATION Spec
CONSTANTS
  Threads = {t1}
  Extractors = {e1}
  Consolidators = {c1, c2}
  MaxRunning = 1
  Lease = 2
  RetryDelay = 1
  Cooldown = 2
  Retries = 1
  Idle = 1
  MaxUnused = 2
  MaxSelected = 1
  Delay = 0
  ScanTime = 1
  MaxTime = 3
  MaxTokens = 4
  MaxResets = 0
  MaxPolluted = 1
  Suspends = FALSE
SYMMETRY Symmetry
CHECK_DEADLOCK FALSE
INVARIANTS OneRunInDirectory SelectedInBaseline OutputsEnqueued
PROPERTY CooldownKept
