SPECIFICATION FairSpec
CONSTANTS
    a = a
    b = b
    Pod = {a, b}
    NoPod = NoPod
    MaxAttempts = 2
    MaxRows = 3
    Faults <- Fault
    MaxFaults = 1
INVARIANTS OpeningFirst DuplicatesPaidFor RemindersWhileOpen SuppressionExcused
PROPERTIES OrderKept EventuallyFinished
CHECK_DEADLOCK FALSE
