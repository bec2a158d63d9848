SPECIFICATION DevicesSpec
CONSTANTS
  timer = timer
  sender = sender
  network = network
  TheDisk = TheDisk
  Keyboard = Keyboard
  Display = Display
  EOF = EOF
  Char = {"a", "b", "q"}
  Timer = timer
  OneShot <- MCOneShot
  Poller <- MCPoller
  UserTick = 1
  SystemTick = 2
  Delay <- MCDelay
  MaxTime = 12
  ConsoleTime = 3
  Typed <- MCTyped
  SectorsPerTrack = 3
  NumTracks = 2
  SeekTime = 3
  RotationTime = 2
INVARIANTS
  EachInterruptOnce
  HaltsWhenDone
  EchoesAll
  InterruptsWhenPassed
PROPERTIES
  FiresInOrder
CHECK_DEADLOCK FALSE
