SPECIFICATION FairDiskSpec
CONSTANTS
  m = m
  t1 = t1
  t2 = t2
  lock = lock
  semaphore = semaphore
  Thread <- MCThread
  NoThread = NoThread
  Semaphore <- MCSemaphore
  Lock <- MCLock
  Condition = {}
  NoObject = NoObject
  LockOf <- MCLockOf
  InitialValue <- MCInitialValue
  Main = m
  Priority <- MCPriority
  MaxValue = 1
  MaxPending = 1
  DiskSemaphore = semaphore
  DiskLock = lock
  Sector <- MCSector
  Data <- MCData
  Initial = 0
  NoCall = NoCall
  MaxCalls = 3
INVARIANTS
  OneRequestAtATime
PROPERTIES
  ImplementsAtomicDisk
  CallReturns
CHECK_DEADLOCK FALSE
