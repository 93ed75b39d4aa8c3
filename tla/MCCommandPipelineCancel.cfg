\* One session; the operator clicks cancel once.
SPECIFICATION Spec
CONSTANTS
  MaxSessions = 1
  MaxCancels = 1
  SequentialOperator = TRUE
  RefreshErrors = TRUE
INVARIANT CancelNeverLost
