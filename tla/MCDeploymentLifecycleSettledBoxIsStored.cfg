CONSTANTS
  y1 = y1
  y2 = y2
  empty = empty
  Yamls <- MCYamls
  ValidYamls = {y1, y2}
  NoText = empty
  States <- MCStates
  MaxClicks = 2
  MaxCreateClicks = 1
SPECIFICATION Spec
INVARIANT SettledBoxIsStored
