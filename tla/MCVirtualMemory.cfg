SPECIFICATION VMSpec
CONSTANTS
  p1 = p1
  p2 = p2
  Process <- MCProcess
  PageSize = 2
  UserStackSize = 1
  Coff <- MCCoff
  NumPhysPages = 2
  MaxPages = 4
  Store <- MCStore
INVARIANTS
  FramesAccounted
  PagesKeepData
  ClockFindsVictim
SYMMETRY MCProcesses
CHECK_DEADLOCK FALSE
