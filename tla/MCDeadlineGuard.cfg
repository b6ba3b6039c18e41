SPECIFICATION FairSpec
CONSTANTS
  Deadline = 2
  OuterTimers <- MCOuterTimers
  MaxOuter = 3
  MaxCalls = 2
INVARIANTS
  TypeOK
  HandlersRestored
  DeadlineNeverKills
  OuterAlarmKept
  LeftTempIsExplained
PROPERTIES
  ImplementsPublication
  StuckCallEnds
