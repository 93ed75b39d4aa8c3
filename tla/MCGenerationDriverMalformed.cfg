\* The generator answers the request with a frame that is not JSON.
CONSTANTS
  i1 = i1
  i2 = i2
  Instrs <- MCInstrs
  MaxPlan = 1
  MaxStatus = 0
  AllowDrop = FALSE
  AllowMalformed = TRUE

SPECIFICATION Spec

INVARIANT InitBeforeHandover
