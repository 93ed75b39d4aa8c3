CONSTANTS
  y1 = y1
  y2 = y2
  empty = empty
  Yamls = {y1, empty}
  ValidYamls = {y1}
  NoText = empty
  States <- MCStates
  MaxClicks = 2
  MaxCreateClicks = 1
SPECIFICATION Spec
INVARIANT TypeOK
INVARIANT PushesValidatedText
INVARIANT TopologyAsNamed
