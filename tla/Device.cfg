SPECIFICATION Spec
CONSTANTS
  Networks = {"home"}
  Keys = {"k1", "k2"}
  NoName = ""
  Changes = 3
  Saturated = 2
  Requests = 3
  MaxSubmit = 2
  Interval = 1
  Wrap = 8
  Horizon = 2
  Arrivals = 2
  Boots = 1
  Edits = 2
  Faults = 1
  Retyped = {1, 2, 8}
INVARIANTS RadioMatchesState LevelsWork PageShowsItsOwn
PROPERTIES Associates SubmitsOwnWholeBody ResetsSpaced PanelIsCurrent BootLoopEnds
CHECK_DEADLOCK FALSE
