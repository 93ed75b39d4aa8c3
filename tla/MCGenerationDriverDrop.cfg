\* The connection may drop while the plan is being streamed.
CONSTANTS
  i1 = i1
  i2 = i2
  Instrs <- MCInstrs
  MaxPlan = 2
  MaxStatus = 0
  AllowDrop = TRUE
  AllowMalformed = FALSE

SPECIFICATION Spec

INVARIANT HandedListIsPlan
