CONSTANTS
  m1 = m1
  m2 = m2
  p1 = p1
  p2 = p2
  Member = {m1, m2}
  Partition = {p1}
  NoMember = NoMember
  Record <- WindowRecords
  MaxLog = 2
  Tables <- TwoTables
  BatchBytes = 2
  MaxBufferedBytes = 3
  Budgets <- FailoverBudgets
SPECIFICATION FairSpec
INVARIANTS
  DuplicatesNeedTimedCut
  TablesInOrder
PROPERTIES
  DeliversAtLeastOnce
  EventuallyStored
CHECK_DEADLOCK FALSE
