\* Two sessions one after the other: every handler interleaving of the
\* second session with the answers left over from the first.
SPECIFICATION Spec
CONSTANTS
  MaxSessions = 2
  MaxCancels = 2
  SequentialOperator = TRUE
  RefreshErrors = TRUE
INVARIANT TypeOK IndicatorMatchesSession
PROPERTY CancelReachesExecuting
