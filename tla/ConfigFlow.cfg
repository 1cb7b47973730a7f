SPECIFICATION Spec
CONSTANTS
  Flows = {f1, f2}
  Targets = {t1, t2}
  Deadline = 1
  Lag = 3
  None = None
INVARIANT OneAttempt
INVARIANT NothingSurvives
INVARIANT EntriesAreValidated
PROPERTY EverySubmissionIsAnswered
CHECK_DEADLOCK FALSE
