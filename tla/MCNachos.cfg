SPECIFICATION FairNachosSpec
CONSTANTS
  m = m
  table = table
  test = test
  wGo = wGo
  rGo = rGo
  t1 = t1
  t2 = t2
  t3 = t3
  t4 = t4
  t5 = t5
  t6 = t6
  t7 = t7
  t8 = t8
  t9 = t9
  Thread <- MCThread
  NoThread = NoThread
  Semaphore <- MCSemaphore
  Lock <- MCLock
  Condition <- MCCondition
  NoObject = NoObject
  LockOf <- MCLockOf
  InitialValue <- MCInitialValue
  Main = m
  Priority <- MCPriority
  MaxValue = 1
  MaxPending = 0
  MayDie <- MCMayDie
  JoinSignal <- MCJoinSignal
  MaxThreads = 4
  Crew <- MCCrew
  TestLock = test
  WGo = wGo
  RGo = rGo
  MaxSlices = 2
  TableLock = table
  MAX_PROGS = 2
  NULL = NULL
  Garbage = Garbage
INVARIANTS
  NoDanglingThread
  JoinAfterFinish
  IdNamesProcess
  ExpectedOrder
  ReadersExcludeWriters
  TestsEnd
PROPERTIES
  JoinReturns
CHECK_DEADLOCK FALSE
