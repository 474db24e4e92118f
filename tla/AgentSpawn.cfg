SPECIFICATION Spec
CONSTANTS
  Flows = {f1, f2}
  Threads = {t1, t2, t3}
  Paths = {p}
  Names = {n}
  Root = root
  Stored = {}
  Limit = 2
  MaxResets = 1
  Allowed = {"close", "unload"}
INVARIANTS TypeOK SlotsExact OpenWithinLimit OpenIsRegistered PathsExclusive
SYMMETRY Symmetry
CHECK_DEADLOCK FALSE
