SPECIFICATION Spec
CONSTANTS
  Flows = {f1, f2}
  Threads = {t1, t2, t3}
  Paths = {}
  Names = {n}
  Root = root
  Stored = {t3}
  Limit = 2
  MaxResets = 1
  Allowed = {"resume", "unload"}
INVARIANTS SlotsCovered NicknamesUnique
SYMMETRY Symmetry
CHECK_DEADLOCK FALSE
