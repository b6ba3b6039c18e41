SPECIFICATION FairSpec
CONSTANTS
  RestartSec = 1
  WatchdogSec = 12
  Interval = 30
  Burst = 3
  MaxFaults = 2
INVARIANTS
  TypeOK
  SlowDeathsStayBelowTheLimit
PROPERTY ServesAgain
CHECK_DEADLOCK FALSE
