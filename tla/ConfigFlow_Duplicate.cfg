SPECIFICATION Spec
CONSTANTS
  Flows = {f1, f2}
  Targets = {t1, t2}
  Deadline = 1
  Lag = 3
  None = None
CHECK_DEADLOCK FALSE
INVARIANT NoDuplicateEntry
