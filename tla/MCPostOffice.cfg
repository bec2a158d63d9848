SPECIFICATION FairPostSpec
CONSTANTS
  m = m
  c = c
  w = w
  available = available
  sent = sent
  lock = lock
  b1 = b1
  b2 = b2
  Thread <- MCThread
  NoThread = NoThread
  Semaphore <- MCSemaphore
  Lock <- MCLock
  Condition = {}
  NoObject = NoObject
  LockOf <- MCLockOf
  InitialValue <- MCInitialValue
  Main = m
  Priority <- MCPriority
  MaxValue = 1
  MaxPending = 1
  Worker = w
  MessageAvailable = available
  MessageSent = sent
  SendLock = lock
  Box <- MCBox
  NoMail = NoMail
  MaxSends = 2
  MaxReceives = 2
INVARIANTS
  MailInOrder
  OnePacketAtATime
PROPERTIES
  SendReturns
  MailArrives
CHECK_DEADLOCK FALSE
