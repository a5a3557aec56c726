SPECIFICATION Spec
CONSTANTS
  Interval = 1
  Wrap = 4
  Horizon = 3
  Arrivals = 2
  Boots = 0
INVARIANT RefusedOnlyWhenRecent
CHECK_DEADLOCK FALSE
