CONSTANTS
  m1 = m1
  m2 = m2
  p1 = p1
  p2 = p2
  Member = {m1}
  Partition = {p1, p2}
  NoMember = NoMember
  Record <- SizedRecords
  MaxLog = 2
  Tables <- OneTable
  BatchBytes = 3
  MaxBufferedBytes = 3
  Budgets <- MemoryBudgets
SPECIFICATION Spec
SYMMETRY PartitionSymmetry
INVARIANTS
  AccountingExact
  BufferBounded
  CommittedStored
CHECK_DEADLOCK FALSE
