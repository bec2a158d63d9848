------------------------------ MODULE Scheduler ------------------------------
(***************************************************************************)
(* threads/scheduler.cc and the parts of threads/thread.cc that give up    *)
(* the processor.  The kernel is a uniprocessor: these routines run with   *)
(* interrupts off, so each is a function from one scheduler state to the   *)
(* next, and a kernel operation composes them inside a single step.        *)
(*                                                                         *)
(* A scheduler state is a record:                                          *)
(*   current    currentThread                                              *)
(*   ready      readyList                                                  *)
(*   status     the status of each thread; "UNBORN" before its constructor *)
(*              and "DELETED" after its destructor                         *)
(*   key        the priority of each thread, the least first               *)
(*   fresh      threads whose stack still starts at ThreadRoot             *)
(*   carcass    threadToBeDestroyed                                        *)
(***************************************************************************)
EXTENDS List

CONSTANTS Thread, NoThread

ASSUME NoThreadAssumption == NoThread \notin Thread

Status == {"UNBORN", "JUST_CREATED", "RUNNING", "READY", "BLOCKED", "DELETED"}

SchedulerState ==
  [current : Thread,
   ready   : Seq([item : Thread, key : Int]),
   status  : [Thread -> Status],
   key     : [Thread -> Int],
   fresh   : SUBSET Thread,
   carcass : Thread \cup {NoThread}]

ReadyToRun(s, t) ==
  [s EXCEPT !.status[t] = "READY",
            !.ready = SortedInsert(@, t, s.key[t])]

\* Scheduler::Run deletes the carcass after SWITCH returns, in the context of
\* the thread switched to.  A thread that has never run starts at ThreadRoot
\* instead of returning from SWITCH, and skips that code.
DeleteCarcass(s) ==
  IF s.carcass = NoThread
  THEN s
  ELSE [s EXCEPT !.status[s.carcass] = "DELETED", !.carcass = NoThread]

Run(s, next) ==
  LET switched == [s EXCEPT !.current = next, !.status[next] = "RUNNING"]
  IN  IF next \in s.fresh
      THEN [switched EXCEPT !.fresh = @ \ {next}]
      ELSE DeleteCarcass(switched)

\* FindNextToRun takes the head of the ready list; Dispatch then runs it.
FindNextToRun(s) == First(s.ready)

Dispatch(s) == Run([s EXCEPT !.ready = Rest(@)], FindNextToRun(s))

\* Mutant of Yield: the yielding thread is made ready before the next is found.
YieldReadiesFirst(s) ==
  Dispatch(ReadyToRun(s, s.current))

\* Thread::Yield takes the next thread off the ready list before it puts the
\* yielding thread on it.
Yield(s) ==
  IF IsEmpty(s.ready)
  THEN s
  ELSE Run(ReadyToRun([s EXCEPT !.ready = Rest(@)], s.current),
           FindNextToRun(s))

\* Thread::Sleep.  With nobody ready the sleeper stays current and idles.
Sleep(s) ==
  LET blocked == [s EXCEPT !.status[s.current] = "BLOCKED"]
  IN  IF IsEmpty(s.ready) THEN blocked ELSE Dispatch(blocked)

\* The current thread is in the idle loop of Sleep: BLOCKED, or READY again
\* once an interrupt handler has woken it.
Idling(s) == s.status[s.current] # "RUNNING"
=============================================================================
