SPECIFICATION FairSpec
CONSTANTS
  ShutdownMinutes = 5
  MaxAge = 6
  AgeCap = 13
  IterationBound = 2
  WatchdogTicks = 3
  MaxFaults = 1
  Runtimes = {1, 6}
INVARIANTS
  WatchdogBoundsStaleness
PROPERTIES
  PingNeedsPublication
  LostTelemetryIsNotServed
  LowBatteryIsServed
