SPECIFICATION MailSpec
CONSTANTS
  m = m
  t1 = t1
  t2 = t2
  t3 = t3
  lock = lock
  mailSnd = mailSnd
  mailRcv = mailRcv
  Thread <- MCThread
  NoThread = NoThread
  Semaphore = {}
  Lock <- MCLock
  Condition <- MCCondition
  NoObject = NoObject
  LockOf <- MCLockOf
  InitialValue <- MCNone
  Main = m
  Priority <- MCPriority
  MaxValue = 1
  MaxPending = 0
  BoxLock = lock
  MailSnd = mailSnd
  MailRcv = mailRcv
  MaxCalls = 3
INVARIANTS
  FifoDelivery
  SendMeetsReceive
  NoMissedMeeting
SYMMETRY MCSymmetry
CHECK_DEADLOCK FALSE
