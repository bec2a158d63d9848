SPECIFICATION MachineSpec
CONSTANTS
  p1 = p1
  p2 = p2
  Process = {p1, p2}
  ByteBits = 3
  JumpSpan = 64
  GPReg = {0, 1, 2, 4, 29, 31}
  CodeBytes = 16
  NumPages = 4
  PageSize = 8
  MaxSteps = 4
  Executables <- MCExecutables
  Data <- MCData
INVARIANTS
  NoInstructionTwice
CHECK_DEADLOCK FALSE
