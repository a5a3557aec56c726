SPECIFICATION Spec
CONSTANTS
  Screens <- MCScreens
  Root = "p0"
  RootTail = "select"
  Flow <- MCFlow
  Guard <- MCGuard
  Toasts <- MCToasts
  Editors <- MCEditors
  SensorOf <- MCSensorOf
  LongPress = 3
  ComboMax = 2
  ChordHold = 2
  ToastTime = 2
  IdleTime = 5
  RestartDelay = 1
  MaxDepth = 3
  MaxValue = 2
  Packs = 2
  Active = 0
  NoScreen = NoScreen
INVARIANTS TypeOK EditorOnItsScreen SensorFollowsStack
PROPERTIES FullHold RampOwnsItsRelease ToastLeaves RestartHappens
