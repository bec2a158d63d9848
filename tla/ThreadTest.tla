------------------------------ MODULE ThreadTest ------------------------------
(***************************************************************************)
(* The tests of threads/threadtest.cc that use threads, locks, conditions  *)
(* and priorities, run on ThreadLife and Synch.  (Those of mailboxes and   *)
(* whales are instances of the clients of Mailbox and Whale.)              *)
(*                                                                         *)
(* The body of a thread is a sequence of operations, each of which is one  *)
(* kernel routine with the local code before it.  Without -rs a thread is  *)
(* switched out only where it asks for it, and a test has one behaviour;   *)
(* with -rs a time slice may end after any kernel routine.                 *)
(***************************************************************************)
EXTENDS ThreadLife, SequencesExt

CONSTANTS
  Crew,             \* the threads a test forks, in a sequence
  TestLock,         \* the lock of a test
  WGo, RGo,         \* the conditions of ReadersAndWriters
  MaxSlices         \* bound: time slices in a run with -rs

ASSUME ThreadTestAssumption ==
  /\ Crew \in Seq(Thread \ {Main})
  /\ TestLock \in Lock
  /\ {WGo, RGo} \subseteq Condition /\ WGo # RGo
  /\ LockOf[WGo] = TestLock /\ LockOf[RGo] = TestLock
  /\ MaxSlices \in Nat

VARIABLES
  testnum,       \* the test
  slices,        \* time slices that may still come
  at,            \* the operation each thread is at
  nReaders, wantToWrite,
  printed,       \* what the threads of PriorityLockOrderTest have printed
  ran            \* history, without -rs: the threads in the order they ran

testVars == <<testnum, slices, at, nReaders, wantToWrite, printed, ran>>

\* An operation: what is done, to which thread of the crew, with which priority,
\* and what is printed before.
Op(do, n, p, says) == [do |-> do, n |-> n, p |-> p, says |-> says]
Do(do) == Op(do, 0, 0, "")
Of(do, n) == Op(do, n, 0, "")
SetTo(n, p) == Op("SetPriority", n, p, "")
Says(do, says) == Op(do, 0, 0, says)
Times(k, op) == [i \in 1..k |-> op]

\* new Thread and Fork, for the n-th thread of the crew.
ForkNew(n) == <<Of("New", n), Of("Fork", n)>>
-----------------------------------------------------------------------------
SimpleThread == Times(5, Do("Yield"))

ThreadTest1 == ForkNew(1) \o SimpleThread

LockThread == <<Do("Acquire"), Do("Yield"), Do("Release")>>

LockTest1 == ForkNew(1) \o ForkNew(2)

Lock2Thread1 ==
  <<Do("Acquire"), Do("Release"), Do("Delete"), Do("Acquire"), Do("Delete"), Do("Release")>>

LockTest2 == ForkNew(1)

LockTest3Thread == <<Do("Acquire"), Do("Acquire")>>

LockTest3 == ForkNew(1)

badConditionTest1 == <<Do("Signal")>>

badConditionTest2 == <<Do("Broadcast")>>

CondTest == ForkNew(1)

\* Mutant of Writer: the loop is an if.
WriterIf ==
  <<Do("Acquire"), Do("WantToWrite"), Do("Yield"), Do("Write"), Do("Release")>>

Writer ==
  <<Do("Acquire"), Do("WantToWrite"), Do("AwaitReaders"), Do("Write"), Do("Release")>>

Reader ==
  <<Do("Acquire"), Do("BeginRead"), Do("Yield"), Do("Acquire"), Do("EndRead"),
    Do("Release")>>

Joinee == Times(7, Do("Yield"))

Joiner == <<Do("Yield"), Of("Join", 2), Do("Yield"), Do("Yield")>>

JoinTest1 == <<Of("New", 1), Of("NewJoin", 2), Of("Fork", 1), Of("Fork", 2)>>

JoinTask2 == << >>

JoinStart2 == <<Of("NewJoin", 2), Of("Fork", 2), Do("Yield"), Of("Join", 2)>>

JoinTest2 == ForkNew(1)

PriorityYieldTask == <<Do("Yield")>>

PriorityEmptyTask == << >>

PriorityLockTaskIce ==
  <<Do("Acquire"), Do("Yield"), Says("Yield", "Ice"), Do("Release")>>

PriorityLockTaskCream == <<Do("Acquire"), Do("Yield"), Says("Release", "cream")>>

PriorityLockTaskDonuts == <<Do("Acquire"), Do("Yield"), Says("Release", "donuts")>>

\* P1, P5 and P3 are the first three of the crew.
PriorityOrderTest ==
  <<Of("New", 1), SetTo(1, 1), Of("Fork", 1), Of("New", 2), SetTo(2, 5),
    Of("Fork", 2), Of("New", 3), SetTo(3, 3), Of("Fork", 3), SetTo(0, 8),
    Do("Yield")>>

PriorityLockOrderTest ==
  <<Of("New", 1), Of("New", 2), Of("New", 3), SetTo(1, 1), SetTo(2, 2),
    SetTo(3, 3), Of("Fork", 3), Do("Yield"), Of("Fork", 2), Do("Yield"),
    Of("Fork", 1)>>

ReadersAndWriters ==
  <<Of("New", 1), Of("New", 2), Of("Fork", 1), Of("Fork", 2)>>
    \o ForkNew(3) \o ForkNew(4) \o ForkNew(5)
    \o <<Of("New", 6), Of("New", 7), Of("Fork", 6), Of("Fork", 7)>>
    \o ForkNew(8) \o ForkNew(9)

\* ThreadTest: what main does in each test, and what its threads do.
MainBody ==
  [k \in {1, 2, 3, 4, 20, 21, 22, 40, 41, 42, 50, 51} |->
     CASE k = 1         -> ThreadTest1
       [] k = 2         -> LockTest1
       [] k = 3         -> LockTest2
       [] k = 4         -> LockTest3
       [] k = 20        -> ReadersAndWriters
       [] k \in 21..22  -> CondTest
       [] k \in 40..41  -> PriorityOrderTest
       [] k = 42        -> PriorityLockOrderTest
       [] k = 50        -> JoinTest1
       [] k = 51        -> JoinTest2]

ThreadBody ==
  [k \in DOMAIN MainBody |->
     CASE k = 1  -> <<SimpleThread>>
       [] k = 2  -> <<LockThread, LockThread>>
       [] k = 3  -> <<Lock2Thread1>>
       [] k = 4  -> <<LockTest3Thread>>
       [] k = 20 -> <<Reader, Reader, Reader, Reader, Writer, Reader, Reader, Reader, Writer>>
       [] k = 21 -> <<badConditionTest1>>
       [] k = 22 -> <<badConditionTest2>>
       [] k = 40 -> Times(3, PriorityEmptyTask)
       [] k = 41 -> Times(3, PriorityYieldTask)
       [] k = 42 -> <<PriorityLockTaskCream, PriorityLockTaskDonuts, PriorityLockTaskIce>>
       [] k = 50 -> <<Joiner, Joinee>>
       [] k = 51 -> <<JoinStart2, JoinTask2>>]

Member(n) == IF n = 0 THEN Main ELSE Crew[n]

Body(t) ==
  IF t = Main THEN MainBody[testnum]
  ELSE LET n == CHOOSE i \in DOMAIN Crew : Crew[i] = t
       IN  ThreadBody[testnum][n]

Doing(t) == IF at[t] <= Len(Body(t)) THEN Body(t)[at[t]] ELSE Do("Finish")
-----------------------------------------------------------------------------
Goto(t, n) == at' = [at EXCEPT ![t] = n]
Next1(t) == Goto(t, at[t] + 1)

\* The operations that are one routine of the kernel.
Routine(t) ==
  LET op == Doing(t)
      u  == Member(op.n)
  IN  /\ InBody(t)
      /\ \/ op.do = "New" /\ NewThread(t, u, FALSE)
         \/ op.do = "NewJoin" /\ NewThread(t, u, TRUE)
         \/ op.do = "SetPriority" /\ Prioritise(t, u, op.p)
         \/ op.do = "Fork" /\ Fork(t, u)
         \/ op.do = "Join" /\ JoinWait(t, u)
         \/ op.do = "Yield" /\ Preempt(t)
         \/ op.do = "Acquire" /\ Acquire(t, TestLock) /\ UNCHANGED life
         \/ op.do = "Release" /\ Release(t, TestLock) /\ UNCHANGED life
         \/ op.do = "Delete" /\ ~isLocked[TestLock] /\ UNCHANGED lifeVars
         \/ op.do = "Finish" /\ Finish(t)
      /\ printed' = IF op.says = "" THEN printed ELSE Append(printed, op.says)
      /\ Next1(t)
      /\ UNCHANGED <<slices, nReaders, wantToWrite>>

\* The loop of Writer, from its test; after it the writer yields.
WriterLoop(t) ==
  \/ nReaders > 0 /\ Wait(t, WGo) /\ Goto(t, 3)
  \/ nReaders = 0 /\ YieldCPU(t) /\ Goto(t, 4)

\* The operations of Reader and Writer that use their shared variables.
ReadOrWrite(t) ==
  LET do == Doing(t).do
  IN  /\ InBody(t)
      /\ \/ /\ do = "WantToWrite"
            /\ WriterLoop(t)
            /\ wantToWrite' = TRUE
            /\ UNCHANGED nReaders
         \/ /\ do = "AwaitReaders"
            /\ WriterLoop(t)
            /\ UNCHANGED <<nReaders, wantToWrite>>
         \/ /\ do = "Write"
            /\ Broadcast(t, RGo)
            /\ wantToWrite' = FALSE
            /\ Next1(t)
            /\ UNCHANGED nReaders
         \/ /\ do = "BeginRead"
            /\ wantToWrite
            /\ Wait(t, RGo)
            /\ UNCHANGED <<at, nReaders, wantToWrite>>
         \/ /\ do = "BeginRead"
            /\ ~wantToWrite
            /\ nReaders' = nReaders + 1
            /\ Release(t, TestLock)
            /\ Next1(t)
            /\ UNCHANGED wantToWrite
         \/ /\ do = "EndRead"
            /\ nReaders' = nReaders - 1
            /\ \/ nReaders = 1 /\ Signal(t, WGo) /\ Next1(t)
               \/ nReaders # 1 /\ Release(t, TestLock) /\ Goto(t, at[t] + 2)
            /\ UNCHANGED wantToWrite
      /\ UNCHANGED <<life, slices, printed>>

\* An operation that the kernel refuses with an ASSERT: to acquire a lock twice,
\* to delete one that is held, to signal without it.
Refused(t) ==
  LET do == Doing(t).do
  IN  /\ InBody(t)
      /\ \/ do = "Acquire" /\ Holds(t, TestLock)
         \/ do = "Delete" /\ isLocked[TestLock]
         \/ do \in {"Signal", "Broadcast"} /\ ~Holds(t, TestLock)
      /\ aborted' = TRUE
      /\ UNCHANGED <<vars, joining, phase, target, joined, slices, at, nReaders,
                     wantToWrite, printed>>

\* A time slice ends, after a routine that has turned interrupts on again.
TimeSlice(t) ==
  /\ slices > 0
  /\ Preempt(t)
  /\ at[t] > 1 => Body(t)[at[t] - 1].do \notin {"New", "SetPriority", "Delete"}
  /\ slices' = slices - 1
  /\ UNCHANGED <<at, nReaders, wantToWrite, printed>>

\* The rest of Join, of Finish, of a wait, and the loop of Broadcast.
Goes(t) ==
  /\ \/ JoinRelease(t) \/ FinishWait(t) \/ FinishDie(t) \/ ResumeP(t)
     \/ Running(t) /\ BroadcastLoop(RGo) /\ UNCHANGED life
  /\ UNCHANGED <<slices, at, nReaders, wantToWrite, printed>>

WithRS == ran = << >>

TestInit ==
  /\ LifeInit
  /\ testnum \in DOMAIN MainBody
  /\ at = [t \in Thread |-> 1]
  /\ nReaders = 0
  /\ wantToWrite = FALSE
  /\ printed = << >>
  /\ \/ slices = 0 /\ ran = <<Main>>
     \/ slices = MaxSlices /\ ran = << >>

TestStep(t) ==
  /\ Routine(t) \/ ReadOrWrite(t) \/ Refused(t) \/ TimeSlice(t) \/ Goes(t)
  /\ ran' = IF WithRS \/ sched'.current = sched.current THEN ran
            ELSE Append(ran, sched'.current)
  /\ UNCHANGED testnum

TestNext == ~aborted /\ \E t \in Thread : TestStep(t)

TestSpec == TestInit /\ [][TestNext]_<<lifeVars, testVars>>
-----------------------------------------------------------------------------
\* Nothing runs, and without devices nothing will.
Halted == Idle /\ IsEmpty(sched.ready)

Order(s) == [i \in DOMAIN s |-> Member(s[i])]

\* "Expected order is main->P1->P3->P5->main", the order and the print that the
\* other two priority tests announce: without -rs the ready list and the queue
\* of the lock serve the threads in just this order.
ExpectedOrder ==
  testnum # 0 /\ ~WithRS =>
    LET Shows(s, whole) == IsPrefix(s, whole) /\ (Halted => s = whole)
    IN  /\ testnum = 40 => Shows(ran, Order(<<0, 1, 3, 2, 0>>))
        /\ testnum = 41 => Shows(ran, Order(<<0, 1, 3, 1, 3, 2, 0, 2>>))
        /\ testnum = 42 => Shows(printed, <<"Ice", "cream", "donuts">>)

\* A Reader is between its two critical sections.
Reading(t) == phase[t] = "alive" /\ Body(t) = Reader /\ at[t] \in {3, 4}

\* No Reader reads while a Writer writes, whatever signals, broadcasts and time
\* slices come between the test of nReaders and the write.
ReadersExcludeWriters ==
  testnum = 20 =>
    \A t, u \in Thread :
      sched.status[t] # "UNBORN" /\ sched.status[u] # "UNBORN" =>
        ~(t # Main /\ u # Main /\ Reading(t) /\ Doing(u).do = "Write")

\* The machine halts only when every thread has finished (in 51 "the child will
\* finish before the parent"), and the tests that misuse a lock or a condition
\* end in the ASSERT that they are about, the others never.  With -rs a Writer
\* may be left asleep: two of them wait, and the last Reader wakes one.
TestsEnd ==
  testnum # 0 =>
    /\ aborted => testnum \in {3, 4, 21, 22}
    /\ Halted =>
         /\ testnum \notin {3, 4, 21, 22}
         /\ \A t \in Thread :
              sched.status[t] # "UNBORN" /\ phase[t] # "dead" =>
                testnum = 20 /\ WithRS /\ blockedIn[t] = WGo
=============================================================================
