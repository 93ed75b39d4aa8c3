\* Two sessions one after the other, no cancel; every state request answered.
SPECIFICATION Spec
CONSTANTS
  MaxSessions = 2
  MaxCancels = 0
  SequentialOperator = TRUE
  RefreshErrors = FALSE
PROPERTY DisplaySettles
