\* Two validations of different texts, answered in reverse order.
CONSTANTS
  y1 = y1
  empty = empty
  Yamls = {y1, empty}
  ValidYamls = {y1}
  NoText = empty
  MaxCreateClicks = 3
SPECIFICATION Spec
INVARIANT YamlBadgeShowsLastSent
