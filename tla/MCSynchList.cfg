SPECIFICATION FairListSpec
CONSTANTS
  m = m
  t1 = t1
  t2 = t2
  lock = lock
  listEmpty = listEmpty
  x = x
  y = y
  Thread <- MCThread
  NoThread = NoThread
  Semaphore = {}
  Lock <- MCLock
  Condition <- MCCondition
  NoObject = NoObject
  LockOf <- MCLockOf
  InitialValue <- MCNone
  Main = m
  Priority <- MCPriority
  MaxValue = 1
  MaxPending = 0
  ListLock = lock
  ListEmpty = listEmpty
  Item <- MCItem
  NoItem = NoItem
  MaxCalls = 5
PROPERTIES
  ImplementsChannel
  ItemIsTaken
CHECK_DEADLOCK FALSE
