CONSTANTS
  v1 = v1
  v2 = v2
  o1 = o1
  o2 = o2
  none = none
  Values = {v1, v2}
  Others = {o1, o2}
  Empty = none
  MaxSubmits = 2
  MaxExternal = 1
  ServerFails = TRUE
SPECIFICATION Spec
INVARIANT TypeOK
INVARIANT CurrentShowsNewestFill
