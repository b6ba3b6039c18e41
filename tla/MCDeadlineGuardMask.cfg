SPECIFICATION Spec
CONSTANTS
  Deadline = 2
  OuterTimers <- MCNoOuterTimer
  MaxOuter = 0
  MaxCalls = 2
INVARIANT AlarmsUnblocked
