SPECIFICATION WhaleSpec
CONSTANTS
  m = m
  t1 = t1
  t2 = t2
  t3 = t3
  lock = lock
  maleSnd = maleSnd
  femaleSnd = femaleSnd
  matchSnd = matchSnd
  matchWait = matchWait
  Thread <- MCThread
  NoThread = NoThread
  Semaphore = {}
  Lock <- MCLock
  Condition <- MCCondition
  NoObject = NoObject
  LockOf <- MCLockOf
  InitialValue <- MCNone
  Main = m
  Priority <- MCPriority
  MaxValue = 1
  MaxPending = 0
  WhaleLock = lock
  Snd <- MCSnd
  MatchWait = matchWait
  MaxCalls = 2
INVARIANT
  MatchHasMated
SYMMETRY MCSymmetry
CHECK_DEADLOCK FALSE
