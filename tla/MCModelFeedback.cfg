SPECIFICATION FairSpec
CONSTANTS
  MaxEvents = 6
  Outages <- AnyOutage
  InitialK = 60
  MaxFaults = 2
INVARIANTS
  TypeOK
  MemoryLagsByOneUnlogged
  EvidenceUsedOnceWithoutFaults
PROPERTIES
  ReplayLeavesNothing
  ImplementsAudit
  ReceiptIsRecorded
ACTION_CONSTRAINT OneOddOutage
