------------------------------ MODULE Interrupt ------------------------------
(***************************************************************************)
(* machine/interrupt.cc and machine/timer.cc: simulated time, the list of  *)
(* pending interrupts and the places where their handlers run: OneTick     *)
(* (interrupts re-enabled, or a user instruction executed) and Idle.       *)
(*                                                                         *)
(* The kernel around them is the most general one: it turns interrupts on  *)
(* and off, runs user instructions, makes device requests, and calls Idle  *)
(* when it has nothing to run.  Each call of CheckIfDue is a step, as the  *)
(* handlers run there.                                                     *)
(***************************************************************************)
EXTENDS List, FiniteSets

CONSTANTS
  Timer,                  \* the timer device (nachos -rs)
  OneShot,                \* devices that interrupt once for each request
  Poller,                 \* devices that schedule themselves again when polled
  UserTick, SystemTick,   \* how far OneTick advances time
  Delay,                  \* the delays each device uses
  MaxTime                 \* bound on simulated time

Device == {Timer} \cup OneShot \cup Poller

ASSUME InterruptAssumption ==
  /\ Timer \notin OneShot \cup Poller
  /\ OneShot \cap Poller = {}
  /\ UserTick \in Nat \ {0} /\ SystemTick \in Nat \ {0}
  /\ IsFiniteSet(Poller)
  /\ {Timer} \cup Poller \subseteq DOMAIN Delay
  /\ \A device \in DOMAIN Delay : Delay[device] \subseteq Nat \ {0}

VARIABLES
  totalTicks,      \* stats->totalTicks
  pending,         \* Interrupt::pending
  level,           \* Interrupt::level
  status,          \* Interrupt::status
  yieldOnReturn,   \* Interrupt::yieldOnReturn
  polling,         \* devices that were constructed and interrupt unasked: the
                   \* timer, console input, network input
  phase,           \* "run", or the routine whose loop is calling CheckIfDue:
                   \* "OneTick", "Idle"; "halted" after Halt
  lastFired        \* history: the time the last handler to run was due at

intVars == <<totalTicks, pending, level, status, yieldOnReturn, polling, phase, lastFired>>

IntStatus == {"IntOff", "IntOn"}
MachineStatus == {"IdleMode", "SystemMode", "UserMode"}

DueTime == Head(pending).key
DueOrNow == IF DueTime > totalTicks THEN DueTime ELSE totalTicks
IsDue == ~IsEmpty(pending) /\ DueTime <= totalTicks

\* Mutant of Scheduled: the list is not kept sorted.
ScheduledLast(list, device, fromNow, now) == Append(list, ListElement(device, now + fromNow))

\* Schedule, by a device, of an interrupt in list.
Scheduled(list, device, fromNow, now) == SortedInsert(list, device, now + fromNow)

\* Mutant of PutBack: the interrupt is dropped.
PutBackForgets == Rest(pending)

\* CheckIfDue puts an interrupt that it does not deliver back: behind others
\* due at the same time.
PutBack == SortedInsert(Rest(pending), First(pending), DueTime)

\* Mutant of OnlyTimerLeft: what else is pending is not looked at.
OnlyTimerLeftUnchecked == ~IsEmpty(pending) /\ First(pending) = Timer

\* There is only the timer to wait for: an idle machine has nothing to do.
OnlyTimerLeft == ~IsEmpty(pending) /\ First(pending) = Timer /\ IsEmpty(Rest(pending))
-----------------------------------------------------------------------------
\* TimerExpired schedules the next timer interrupt and, through
\* TimerInterruptHandler, asks for a context switch: the status that one looks
\* at is SystemMode while a handler runs, idle machine or not.
TimerExpired(now) ==
  /\ \E d \in Delay[Timer] : pending' = Scheduled(Rest(pending), Timer, d, now)
  /\ yieldOnReturn' = TRUE

\* A device that polls (console input, network input) schedules its next poll.
Poll(device, now) ==
  /\ \E d \in Delay[device] : pending' = Scheduled(Rest(pending), device, d, now)
  /\ UNCHANGED yieldOnReturn

\* A request (disk, console output, network output) is done.
RequestDone ==
  /\ pending' = Rest(pending)
  /\ UNCHANGED yieldOnReturn

\* CheckIfDue calls the handler of the first pending interrupt at time now.  (The
\* load that it finishes before is in Machine, with the registers.)
Fire(now) ==
  LET device == First(pending)
  IN  /\ lastFired' = DueTime
      /\ \/ device = Timer /\ TimerExpired(now)
         \/ device \in Poller /\ Poll(device, now)
         \/ device \in OneShot /\ RequestDone

\* A device request.
Schedule(device, fromNow) ==
  /\ phase = "run"
  /\ status = "SystemMode"
  /\ device \in OneShot
  /\ device \notin Items(pending)
  /\ pending' = Scheduled(pending, device, fromNow, totalTicks)
  /\ UNCHANGED <<totalTicks, level, status, yieldOnReturn, phase, lastFired>>

\* OneTick, up to its loop.
StartTick(ticks) ==
  /\ totalTicks + ticks <= MaxTime
  /\ totalTicks' = totalTicks + ticks
  /\ level' = "IntOff"
  /\ phase' = "OneTick"
  /\ UNCHANGED <<pending, status, yieldOnReturn, lastFired>>

\* SetLevel, and ThreadRoot's Enable.
SetLevelOff ==
  /\ phase = "run"
  /\ level = "IntOn"
  /\ status = "SystemMode"
  /\ level' = "IntOff"
  /\ UNCHANGED <<totalTicks, pending, status, yieldOnReturn, phase, lastFired>>

SetLevelOn ==
  /\ phase = "run"
  /\ level = "IntOff"
  /\ StartTick(SystemTick)

\* Machine::Run executes an instruction.
UserInstruction ==
  /\ phase = "run"
  /\ status = "UserMode"
  /\ StartTick(UserTick)

\* Machine::Run enters user mode, RaiseException leaves it, interrupts enabled.
SetStatus(s) ==
  /\ phase = "run"
  /\ level = "IntOn"
  /\ s # status /\ s # "IdleMode"
  /\ status' = s
  /\ UNCHANGED <<totalTicks, pending, level, yieldOnReturn, phase, lastFired>>

\* The loops of OneTick and Idle, CheckIfDue(FALSE): an interrupt is delivered.
Deliver ==
  /\ phase \in {"OneTick", "Idle"}
  /\ IsDue
  /\ ~(phase = "Idle" /\ OnlyTimerLeft)
  /\ Fire(totalTicks)
  /\ UNCHANGED <<totalTicks, level, status, phase>>

\* OneTick ends: CheckIfDue put the first pending interrupt back.  If the timer
\* asked for it, the thread yields now (status is as before when it returns).
EndTick ==
  /\ phase = "OneTick"
  /\ ~IsDue
  /\ pending' = IF IsEmpty(pending) THEN pending ELSE PutBack
  /\ level' = "IntOn"
  /\ yieldOnReturn' = FALSE
  /\ phase' = "run"
  /\ UNCHANGED <<totalTicks, status, lastFired>>

\* Idle, with CheckIfDue(TRUE): time jumps to the next interrupt, which is
\* delivered.
Idle ==
  /\ phase = "run"
  /\ level = "IntOff"
  /\ ~IsEmpty(pending) /\ ~OnlyTimerLeft
  /\ DueTime <= MaxTime
  /\ totalTicks' = DueOrNow
  /\ Fire(DueOrNow)
  /\ status' = "IdleMode"
  /\ phase' = "Idle"
  /\ UNCHANGED level

\* Its loop ends when nothing is due, or only the timer is left.
EndIdle ==
  /\ phase = "Idle"
  /\ ~IsDue \/ OnlyTimerLeft
  /\ pending' = IF IsEmpty(pending) THEN pending ELSE PutBack
  /\ yieldOnReturn' = FALSE
  /\ status' = "SystemMode"
  /\ phase' = "run"
  /\ UNCHANGED <<totalTicks, level, lastFired>>

\* Idle with nothing to wait for halts the machine (time has been advanced to
\* the timer interrupt that is put back).
Halt ==
  /\ phase = "run"
  /\ level = "IntOff"
  /\ IsEmpty(pending) \/ OnlyTimerLeft
  /\ status' = "IdleMode"
  /\ phase' = "halted"
  /\ totalTicks' = IF IsEmpty(pending) THEN totalTicks ELSE DueOrNow
  /\ UNCHANGED <<pending, level, yieldOnReturn, lastFired>>
-----------------------------------------------------------------------------
\* Time is counted from when the devices have been constructed.
IntInit ==
  /\ totalTicks = 0
  /\ polling \in SUBSET ({Timer} \cup Poller)
  /\ pending \in {p \in [1..Cardinality(polling) -> [item : polling, key : UNION {Delay[d] : d \in polling}]] :
                    /\ SortedByKey(p) /\ NoDuplicates(p) /\ Items(p) = polling
                    /\ \A i \in DOMAIN p : p[i].key \in Delay[p[i].item]}
  /\ level = "IntOff"
  /\ status = "SystemMode"
  /\ yieldOnReturn = FALSE
  /\ phase = "run"
  /\ lastFired = 0
-----------------------------------------------------------------------------
\* No interrupt is forgotten, and none comes twice: when code runs with
\* interrupts enabled, all that was due has been delivered (with interrupts off
\* only the timer can be overdue: Idle leaves it when it is the only one), and
\* the timer and each device that polls have exactly one interrupt pending,
\* whatever CheckIfDue removes and puts back.
EachInterruptOnce ==
  /\ NoDuplicates(pending) /\ polling \subseteq Items(pending)
  /\ phase = "run" =>
       \A i \in DOMAIN pending :
         pending[i].key > totalTicks \/ (level = "IntOff" /\ pending[i].item = Timer)

\* Handlers run in the order of the times they are due at.
FiresInOrder == [][lastFired <= lastFired']_intVars

\* The machine halts only when no device has an interrupt to deliver, so that
\* no thread waits for one, and never while the console or the network is
\* operating: "there are *always* pending interrupts" then.
HaltsWhenDone == phase = "halted" => Items(pending) \cup polling \subseteq {Timer}
=============================================================================
