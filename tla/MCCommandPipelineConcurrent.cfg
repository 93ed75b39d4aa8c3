\* Two button presses with no wait between them.
SPECIFICATION Spec
CONSTANTS
  MaxSessions = 2
  MaxCancels = 1
  SequentialOperator = FALSE
  RefreshErrors = TRUE
INVARIANT OneSessionAtATime
