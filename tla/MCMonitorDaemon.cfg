SPECIFICATION Spec
CONSTANTS
  ShutdownMinutes = 5
  MaxAge = 2
  AgeCap = 7
  IterationBound = 1
  WatchdogTicks = 5
  MaxFaults = 5
  Runtimes = {1, 3, 6}
INVARIANTS
  TypeOK
  BoundedStaleness
  LbStandsUntilOl
  TrackerMatchesFile
  NoSyntheticLbUnpublished
  LeftoverNeedsFailedUnlinks
  LeftoverNeverServed
PROPERTIES
  ImplementsContract
