SPECIFICATION Spec
CONSTANTS
  RestartSec = 1
  WatchdogSec = 12
  Interval = 30
  Burst = 3
  MaxFaults = 1
INVARIANT HistoryIsOptional
CHECK_DEADLOCK FALSE
