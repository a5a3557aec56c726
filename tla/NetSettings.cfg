SPECIFICATION Spec
CONSTANTS
  Changes = 2
  Cuts = 1
  Faults = 1
INVARIANTS SavedMeansStored
PROPERTIES FormSavesEdits AnswerIsTrue PanelEditsOneFlag
CHECK_DEADLOCK FALSE
