\* A generator that may answer with a malformed frame, over a connection
\* that may drop.
CONSTANTS
  i1 = i1
  i2 = i2
  Instrs <- MCInstrs
  MaxPlan = 2
  MaxStatus = 2
  AllowDrop = TRUE
  AllowMalformed = TRUE

SPECIFICATION Spec

INVARIANT TypeOK
INVARIANT FailureBlocksExecution
INVARIANT UndroppedListIsPlan

PROPERTY GenerationEnds
