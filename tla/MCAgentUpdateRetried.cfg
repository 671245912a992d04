CONSTANTS
  Version = {1, 2, 3}
  First = 1
  Broken = {3}
  Instruction <- Rollouts
  Layouts = {"staged"}
  MaxStartAttempts = 3
  MaxStagings = 3
  Faults <- Fault
  MaxFaults = 0
SPECIFICATION EverSpec
INVARIANTS
  NeverRetried
