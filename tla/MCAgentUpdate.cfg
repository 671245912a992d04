CONSTANTS
  Version = {1, 2, 3}
  First = 1
  Broken = {3}
  Instruction <- Rollouts
  Layouts = {"staged", "native", "legacy"}
  MaxStartAttempts = 3
  MaxStagings = 3
  Faults <- Fault
  MaxFaults = 1
SPECIFICATION FairSpec
INVARIANTS
  CurrentInstalled
  StartsBounded
  ReportTrue
PROPERTIES
  AcceptedExported
  HealthyStays
  RollbackToPrevious
  RefusedUntilNext
  BrokenLeaves
