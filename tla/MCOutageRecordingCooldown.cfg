SPECIFICATION Spec
CONSTANTS
  SilentWindow = 2
  ContextRows = 3
  Readings = {"OB", "FULL", "LOW", "UNKNOWN"}
  AttributionWindow = 3
  Cooldown = 3
  DayLength = 3
  Horizon = 1
  TestLength = 1
  MaxTime = 8
  MaxFaults = 0
INVARIANTS
  SelfTestsKeepCooldown
