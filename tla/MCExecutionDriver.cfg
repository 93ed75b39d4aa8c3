\* Lists of one to three instructions over three shapes, one of which
\* cannot be labelled; up to two cancel clicks and one Log per instruction.
CONSTANTS
  InstrCounts <- MCInstrCounts
  MaxLogs = 1
  MaxCancels = 2
  Instructions <- MCInstructions

SPECIFICATION Spec

INVARIANT TypeOK
INVARIANT ReplyMatchesCurrent

PROPERTY Termination
PROPERTY ImplementsExecutionSpec
