------------------------------- MODULE Devices -------------------------------
(***************************************************************************)
(* The console and the disk on the interrupt machinery: when their         *)
(* interrupts come is what Interrupt makes of their requests, and what     *)
(* their handlers do is in Console and DiskHead.                           *)
(*                                                                         *)
(* Nachos runs either ConsoleTest, or a kernel that makes requests of the  *)
(* disk and of the other devices at any time.                              *)
(***************************************************************************)
EXTENDS Interrupt, DiskHead, Console

CONSTANTS
  TheDisk, Keyboard, Display,   \* devices of Interrupt
  ConsoleTime                   \* ticks to read or write a character

ASSUME DevicesAssumption ==
  /\ {TheDisk, Display} \subseteq OneShot /\ TheDisk # Display /\ Keyboard \in Poller
  /\ OneShot \ {TheDisk, Display} \subseteq DOMAIN Delay
  /\ Delay[Keyboard] = {ConsoleTime}

deviceVars == <<intVars, diskVars, consoleVars>>

InConsoleTest == Keyboard \in polling

\* The handler of the interrupt that is delivered.
Handle(device) ==
  \/ device = Keyboard /\ CheckCharAvail /\ UNCHANGED diskVars
  \/ device = Display /\ WriteDone /\ UNCHANGED diskVars
  \/ device = TheDisk /\ DiskDone /\ UNCHANGED consoleVars
  \/ device \notin {Keyboard, Display, TheDisk} /\ UNCHANGED <<diskVars, consoleVars>>

\* The kernel asks the disk or another device for something.
Request ==
  /\ ~InConsoleTest
  /\ \/ \E sector \in DiskSector, writing \in BOOLEAN :
          /\ Schedule(TheDisk, ComputeLatency(sector, writing, totalTicks))
          /\ DiskRequest(sector, writing, totalTicks)
     \/ /\ \E device \in OneShot \ {TheDisk, Display} : \E d \in Delay[device] : Schedule(device, d)
        /\ UNCHANGED diskVars
  /\ UNCHANGED consoleVars

\* ConsoleTest: P runs with interrupts off, the rest with interrupts on.
ConsoleTest ==
  /\ InConsoleTest
  /\ phase = "run" /\ status = "SystemMode"
  /\ \/ level = "IntOff" /\ (AwaitChar \/ AwaitWritten) /\ UNCHANGED intVars
     \/ level = "IntOn" /\ Echo /\ Schedule(Display, ConsoleTime)
  /\ UNCHANGED diskVars

\* The machine idles when no thread can run.
Idling == Idle /\ (InConsoleTest => TestAsleep) /\ Handle(First(pending))

DevicesStep ==
  \/ Request
  \/ ConsoleTest
  \/ Deliver /\ Handle(First(pending))
  \/ Idling
  \/ /\ \/ SetLevelOff \/ SetLevelOn
        \/ \E s \in MachineStatus : ~InConsoleTest /\ SetStatus(s)
        \/ UserInstruction \/ EndTick \/ EndIdle
        \/ Halt /\ (InConsoleTest => TestAsleep)
     /\ UNCHANGED <<diskVars, consoleVars>>

DevicesInit ==
  /\ IntInit
  /\ DiskHeadInit
  /\ ConsoleInit
  /\ InConsoleTest <=> text # << >>

DevicesSpec == DevicesInit /\ [][DevicesStep /\ UNCHANGED polling]_deviceVars
-----------------------------------------------------------------------------
\* A disk request interrupts when its sector has passed the head, no earlier and
\* no rotation later, whatever requests went before and at whatever moment of a
\* rotation they came; a read is answered from the track buffer exactly if the
\* sector has passed since the head got to the track.
InterruptsWhenPassed ==
  \A i \in DOMAIN pending :
    pending[i].item = TheDisk => active /\ pending[i].key = DoneAt
=============================================================================
