SPECIFICATION Spec
CONSTANTS
  SilentWindow = 2
  ContextRows = 2
  Readings = {"OB", "FULL", "CHRG", "UNKNOWN"}
  AttributionWindow = 3
  Cooldown = 2
  DayLength = 3
  Horizon = 1
  TestLength = 1
  MaxTime = 7
  MaxFaults = 1
INVARIANTS
  TypeOK
  StreamInOrder
  RowsLieInOneOutage
  LostSummariesCostFaults
  SelfTestsWereAttributed
  OneOutagePerCommand
