CONSTANTS
  m1 = m1
  m2 = m2
  p1 = p1
  p2 = p2
  t1 = t1
  t2 = t2
  Member = {m1, m2}
  Partition = {p1, p2}
  NoMember = NoMember
  Record <- SampledRecords
  MaxLog = 2
  Trace = {t1, t2}
  MaxTraces = 1
  MaxSpansPerTrace = 3
  MaxBufferedBytes = 1
  DecisionCacheSize = 1
  FlushOutputs = 2
  MaxRevokes = 1
  MaxRecords = 2
  Faults <- Fault
  MaxFaults = 1
SPECIFICATION Spec
INVARIANTS
  WholeTraces
  DuplicatesExcused
  RefsExact
PROPERTY SamplesAtLeastOnce
SYMMETRY Symmetry
CHECK_DEADLOCK FALSE
