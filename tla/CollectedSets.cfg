CONSTANTS
  Items = {i1, i2, absent}
  Existing = {i1, i2}
  MaxDepth = 3
SPECIFICATION Spec
INVARIANTS
  FlagsAreSound
PROPERTIES
  FlagFollowsChart
CHECK_DEADLOCK FALSE
