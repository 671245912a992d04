CONSTANTS
  Batches = 2
  Metrics = 1
  Sizes <- SmallOrLarge
  MaxItems = 2
  MaxQueueBytes = 3
  MaxBytes = 2
  MaxStops = 1
  Faults <- Fault
  MaxFaults = 1
SPECIFICATION Spec
INVARIANT LogsAtLeastOnce
CHECK_DEADLOCK FALSE
