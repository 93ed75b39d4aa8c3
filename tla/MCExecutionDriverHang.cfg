\* Lists of up to two instructions, the empty list included, each a bare
\* name or a Destroy whose label cannot be built.
CONSTANTS
  InstrCounts <- MCShortCounts
  MaxLogs = 1
  MaxCancels = 1
  Instructions <- MCShapes

SPECIFICATION Spec

PROPERTY SessionEnds
