SPECIFICATION Spec
CONSTANTS
  MaxEvents = 6
  Outages <- NaturalOutages
  InitialK = 60
  MaxFaults = 2
INVARIANT AppliedChangesAreAppended
ACTION_CONSTRAINT OnlyTheLastIsReconciled
