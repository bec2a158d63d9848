SPECIFICATION Spec
CONSTANTS
  m = m
  t1 = t1
  t2 = t2
  s1 = s1
  l1 = l1
  c1 = c1
  Thread <- MCThread
  NoThread = NoThread
  Semaphore <- MCSemaphore
  Lock <- MCLock
  Condition <- MCCondition
  NoObject = NoObject
  LockOf <- MCLockOf
  InitialValue <- MCInitialValue
  Main = m
  Priority <- MCPriority
  MaxValue = 2
  MaxPending = 1
INVARIANTS
  TypeOK
  ThreadPlacement
  MutualExclusion
  NoLostWakeup
PROPERTIES
  WakeupOrder
CHECK_DEADLOCK FALSE
