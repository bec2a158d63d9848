-------------------------------- MODULE Synch --------------------------------
(***************************************************************************)
(* threads/synch.cc: semaphores, locks and condition variables, used by    *)
(* threads that call them in any legal order (the most general client).    *)
(*                                                                         *)
(* Every routine runs from SetLevel(IntOff) to SetLevel(oldLevel) or to    *)
(* Sleep() without another thread or handler running, so each such stretch *)
(* is one step.  A thread put to sleep inside a loop continues with the    *)
(* loop test when it is switched to, interrupts still off: blockedIn says  *)
(* which object's loop that is, and while it is set for the running thread *)
(* that thread is the only one that can take a step.  Timer and device     *)
(* interrupts come in between, where interrupts are enabled (OneTick), or  *)
(* while the machine idles.                                                *)
(***************************************************************************)
EXTENDS Scheduler, FiniteSets

CONSTANTS
  Semaphore, Lock, Condition,  \* the synchronisation objects
  NoObject,
  LockOf,         \* the lock each condition variable is used with
  InitialValue,   \* the initial value of each semaphore
  Main,           \* the thread that runs first
  Priority,       \* the priorities threads may be given
  MaxValue,       \* bound on a semaphore's value
  MaxPending      \* bound on the device requests in flight

Object == Semaphore \cup Lock \cup Condition

ASSUME SynchAssumption ==
  /\ Main \in Thread
  /\ NoObject \notin Object
  /\ Semaphore \cap Lock = {}
  /\ Semaphore \cap Condition = {}
  /\ Lock \cap Condition = {}
  /\ LockOf \in [Condition -> Lock]
  /\ InitialValue \in [Semaphore -> Nat]
  /\ Priority \subseteq Int
  /\ IsFiniteSet(Thread)

VARIABLES
  sched,         \* the scheduler state (module Scheduler)
  value,         \* Semaphore::value
  isLocked,      \* Lock::isLocked
  currThread,    \* Lock::currThread, the owner
  queue,         \* the wait queue of each object
  blockedIn,     \* the object whose P, Acquire or Wait a thread has slept in
  broadcasting,  \* the condition whose Broadcast loop is running
  pending,       \* device interrupts scheduled and not yet delivered
  inside         \* history: threads that hold each lock, as their calls returned

objects == <<value, isLocked, currThread>>
vars == <<sched, objects, queue, blockedIn, broadcasting, pending, inside>>

Running(t) == sched.current = t /\ sched.status[t] = "RUNNING"

\* t runs outside the kernel's critical stretches, interrupts enabled.
InClient(t) ==
  /\ Running(t)
  /\ blockedIn[t] = NoObject
  /\ broadcasting = NoObject

Idle == Idling(sched)

Holds(t, l) == currThread[l] = t
-----------------------------------------------------------------------------
\* Mutant of SleepOn: the wait queue is kept in arrival order.
SleepOnAppends(t, o) ==
  /\ queue' = [queue EXCEPT ![o] = Append(@, ListElement(t, sched.key[t]))]
  /\ blockedIn' = [blockedIn EXCEPT ![t] = o]
  /\ sched' = Sleep(sched)

\* Put the running thread t to sleep in the wait queue of o.
SleepOn(t, o) ==
  /\ queue' = [queue EXCEPT ![o] = SortedInsert(@, t, sched.key[t])]
  /\ blockedIn' = [blockedIn EXCEPT ![t] = o]
  /\ sched' = Sleep(sched)

\* Remove the first thread of a wait queue, if any, and make it ready.
Wake(s, list) == IF IsEmpty(list) THEN s ELSE ReadyToRun(s, First(list))

\* Mutant of WakeFirst: the woken thread is left in the queue.
WakeFirstPeeks(o) ==
  /\ sched' = Wake(sched, queue[o])
  /\ UNCHANGED queue

WakeFirst(o) ==
  /\ sched' = Wake(sched, queue[o])
  /\ queue' = [queue EXCEPT ![o] = Rest(@)]

\* The loop of Semaphore::P, from its test.
PLoop(t, s) ==
  /\ \/ /\ value[s] = 0
        /\ SleepOn(t, s)
        /\ UNCHANGED value
     \/ /\ value[s] # 0
        /\ value' = [value EXCEPT ![s] = @ - 1]
        /\ blockedIn' = [blockedIn EXCEPT ![t] = NoObject]
        /\ UNCHANGED <<sched, queue>>
  /\ UNCHANGED <<isLocked, currThread, inside, broadcasting, pending>>

\* The loop of Lock::Acquire, from its test.
AcquireLoop(t, l) ==
  /\ \/ /\ isLocked[l]
        /\ SleepOn(t, l)
        /\ UNCHANGED <<isLocked, currThread, inside>>
     \/ /\ ~isLocked[l]
        /\ isLocked' = [isLocked EXCEPT ![l] = TRUE]
        /\ currThread' = [currThread EXCEPT ![l] = t]
        /\ inside' = [inside EXCEPT ![l] = @ \cup {t}]
        /\ blockedIn' = [blockedIn EXCEPT ![t] = NoObject]
        /\ UNCHANGED <<sched, queue>>
  /\ UNCHANGED <<value, broadcasting, pending>>
-----------------------------------------------------------------------------
\* Semaphore::P, called by t.
P(t, s) == InClient(t) /\ PLoop(t, s)

\* Mutant of VBody: a waiter is woken only when the value was zero.
VBodyWakesAtZero(s) ==
  /\ IF value[s] = 0 THEN WakeFirst(s) ELSE UNCHANGED <<sched, queue>>
  /\ value' = [value EXCEPT ![s] = @ + 1]
  /\ UNCHANGED <<isLocked, currThread, inside, blockedIn, broadcasting>>

\* The body of Semaphore::V, which a thread or an interrupt handler calls.
VBody(s) ==
  /\ WakeFirst(s)
  /\ value' = [value EXCEPT ![s] = @ + 1]
  /\ UNCHANGED <<isLocked, currThread, inside, blockedIn, broadcasting>>

V(t, s) ==
  /\ InClient(t)
  /\ value[s] < MaxValue
  /\ VBody(s)
  /\ UNCHANGED pending

\* Lock::Acquire; the ASSERT is the caller's obligation.
Acquire(t, l) == InClient(t) /\ ~Holds(t, l) /\ AcquireLoop(t, l)

\* What Lock::Release does to the lock itself.
Unlock(t, l) ==
  /\ currThread' = [currThread EXCEPT ![l] = NoThread]
  /\ isLocked' = [isLocked EXCEPT ![l] = FALSE]
  /\ inside' = [inside EXCEPT ![l] = @ \ {t}]

Release(t, l) ==
  /\ InClient(t)
  /\ Holds(t, l)
  /\ WakeFirst(l)
  /\ Unlock(t, l)
  /\ UNCHANGED <<value, blockedIn, broadcasting, pending>>

\* Mutant of Wait: the lock is freed without waking a thread that waits for it.
WaitKeepsLockQueue(t, c) ==
  LET l == LockOf[c]
  IN  /\ InClient(t)
      /\ Holds(t, l)
      /\ Unlock(t, l)
      /\ SleepOn(t, c)
      /\ UNCHANGED <<value, broadcasting, pending>>

\* Condition::Wait up to its Sleep(): Release the lock, join the queue of c,
\* sleep, all with interrupts off.
Wait(t, c) ==
  LET l == LockOf[c]
  IN  /\ InClient(t)
      /\ Holds(t, l)
      /\ Unlock(t, l)
      /\ queue' = [queue EXCEPT ![l] = Rest(@),
                                ![c] = SortedInsert(@, t, sched.key[t])]
      /\ blockedIn' = [blockedIn EXCEPT ![t] = c]
      /\ sched' = Sleep(Wake(sched, queue[l]))
      /\ UNCHANGED <<value, broadcasting, pending>>

Signal(t, c) ==
  /\ InClient(t)
  /\ Holds(t, LockOf[c])
  /\ WakeFirst(c)
  /\ UNCHANGED <<objects, inside, blockedIn, broadcasting, pending>>

\* Condition::Broadcast: no other step can come between those of its loop.
Broadcast(t, c) ==
  /\ InClient(t)
  /\ Holds(t, LockOf[c])
  /\ broadcasting' = c
  /\ UNCHANGED <<sched, objects, inside, queue, blockedIn, pending>>

\* Mutant of BroadcastLoop: if in place of while.
BroadcastLoopOnce(c) ==
  /\ broadcasting = c
  /\ WakeFirst(c)
  /\ broadcasting' = NoObject
  /\ UNCHANGED <<objects, inside, blockedIn, pending>>

BroadcastLoop(c) ==
  /\ broadcasting = c
  /\ WakeFirst(c)
  /\ broadcasting' = IF IsEmpty(queue[c]) THEN NoObject ELSE c
  /\ UNCHANGED <<objects, inside, blockedIn, pending>>

\* Mutant of Resume: the loops test their condition once, with if.
ResumeWithoutTest(t) ==
  /\ Running(t)
  /\ blockedIn[t] # NoObject
  /\ blockedIn' = [blockedIn EXCEPT ![t] = NoObject]
  /\ \/ /\ blockedIn[t] \in Semaphore
        /\ value' = [value EXCEPT ![blockedIn[t]] = @ - 1]
        /\ UNCHANGED <<isLocked, currThread, inside>>
     \/ \E l \in Lock :
          /\ blockedIn[t] = l \/ \E c \in Condition : blockedIn[t] = c /\ LockOf[c] = l
          /\ isLocked' = [isLocked EXCEPT ![l] = TRUE]
          /\ currThread' = [currThread EXCEPT ![l] = t]
          /\ inside' = [inside EXCEPT ![l] = @ \cup {t}]
          /\ UNCHANGED value
  /\ UNCHANGED <<sched, queue, broadcasting, pending>>

\* A thread that slept in P, Acquire or Wait has been switched to: it tests
\* its loop again (Wait goes on to call Acquire).
Resume(t) ==
  /\ Running(t)
  /\ \/ \E s \in Semaphore : blockedIn[t] = s /\ PLoop(t, s)
     \/ \E l \in Lock : blockedIn[t] = l /\ AcquireLoop(t, l)
     \/ \E c \in Condition : blockedIn[t] = c /\ AcquireLoop(t, LockOf[c])
-----------------------------------------------------------------------------
\* Thread::Yield, called by the thread or, on a time slice, by OneTick.
YieldCPU(t) ==
  /\ InClient(t)
  /\ sched' = Yield(sched)
  /\ UNCHANGED <<objects, inside, queue, blockedIn, broadcasting, pending>>

\* Thread::setPriority.  Queues keep the key a thread was inserted under.
SetPriority(t, u, p) ==
  /\ InClient(t)
  /\ sched' = [sched EXCEPT !.key[u] = p]
  /\ UNCHANGED <<objects, inside, queue, blockedIn, broadcasting, pending>>

\* A device request puts an interrupt on the pending list
\* (Interrupt::Schedule).
Schedule(t) ==
  /\ InClient(t)
  /\ pending < MaxPending
  /\ pending' = pending + 1
  /\ UNCHANGED <<sched, objects, inside, queue, blockedIn, broadcasting>>

\* Interrupt::CheckIfDue fires a device handler, which does V on s: from
\* OneTick when interrupts are enabled, or from Idle.
DeviceInterrupt(s) ==
  /\ pending > 0
  /\ Idle \/ InClient(sched.current)
  /\ value[s] < MaxValue
  /\ pending' = pending - 1
  /\ VBody(s)

\* Thread::Sleep leaves its idle loop when a handler made a thread ready.
\* With nothing ready and nothing pending, Interrupt::Idle halts the machine.
LeaveIdle ==
  /\ Idle
  /\ ~IsEmpty(sched.ready)
  /\ sched' = Dispatch(sched)
  /\ UNCHANGED <<objects, inside, queue, blockedIn, broadcasting, pending>>
-----------------------------------------------------------------------------
\* Main has forked every other thread, with its priority, and none has run.
InitialReady(ready, key) ==
  /\ SortedByKey(ready)
  /\ NoDuplicates(ready)
  /\ Items(ready) = Thread \ {Main}
  /\ \A i \in DOMAIN ready : ready[i].key = key[ready[i].item]

InitSynch ==
  /\ value = InitialValue
  /\ isLocked = [l \in Lock |-> FALSE]
  /\ currThread = [l \in Lock |-> NoThread]
  /\ queue = [o \in Object |-> << >>]
  /\ blockedIn = [t \in Thread |-> NoObject]
  /\ broadcasting = NoObject
  /\ pending = 0
  /\ inside = [l \in Lock |-> {}]

InitSched(ready, key) ==
  sched = [current |-> Main,
           ready   |-> ready,
           status  |-> [t \in Thread |-> IF t = Main THEN "RUNNING" ELSE "READY"],
           key     |-> key,
           fresh   |-> Thread \ {Main},
           carcass |-> NoThread]

ReadyLists == [1..Cardinality(Thread) - 1 -> [item : Thread, key : Priority]]

Init ==
  /\ InitSynch
  /\ \E key \in [Thread -> Priority], ready \in ReadyLists :
       InitialReady(ready, key) /\ InitSched(ready, key)

Next ==
  \/ \E t \in Thread :
       \/ \E s \in Semaphore : P(t, s) \/ V(t, s)
       \/ \E l \in Lock : Acquire(t, l) \/ Release(t, l)
       \/ \E c \in Condition : Wait(t, c) \/ Signal(t, c) \/ Broadcast(t, c)
       \/ Resume(t)
       \/ YieldCPU(t)
       \/ \E u \in Thread, p \in Priority : SetPriority(t, u, p)
       \/ Schedule(t)
  \/ \E c \in Condition : BroadcastLoop(c)
  \/ \E s \in Semaphore : DeviceInterrupt(s)
  \/ LeaveIdle

Spec == Init /\ [][Next]_vars
-----------------------------------------------------------------------------
TypeOK ==
  /\ sched \in SchedulerState
  /\ value \in [Semaphore -> Nat]
  /\ isLocked \in [Lock -> BOOLEAN]
  /\ currThread \in [Lock -> Thread \cup {NoThread}]
  /\ queue \in [Object -> Seq([item : Thread, key : Int])]
  /\ blockedIn \in [Thread -> Object \cup {NoObject}]
  /\ broadcasting \in Condition \cup {NoObject}
  /\ pending \in Nat
  /\ inside \in [Lock -> SUBSET Thread]

\* Every thread is in exactly one place, the one its status names: the
\* processor, the ready list (once), or the wait queue (once) of the one
\* object it sleeps on.  ReadyToRun, Yield, Sleep and the Remove of a wait
\* queue never lose a thread nor put it in two lists.
ThreadPlacement ==
  /\ \A t \in Thread :
       /\ sched.status[t] = "RUNNING" <=> t = sched.current /\ ~Idle
       /\ sched.status[t] = "READY" <=> t \in Items(sched.ready)
       /\ sched.status[t] = "BLOCKED" =>
            blockedIn[t] # NoObject /\ t \in Items(queue[blockedIn[t]])
  /\ \A o \in Object : \A t \in Items(queue[o]) :
       sched.status[t] = "BLOCKED" /\ blockedIn[t] = o
  /\ NoDuplicates(sched.ready)
  /\ \A o \in Object : NoDuplicates(queue[o])

\* Lock::Acquire and Condition::Wait return to one thread at a time, and it
\* is the one the lock names as its owner.
MutualExclusion ==
  \A l \in Lock :
    /\ isLocked[l] <=> currThread[l] # NoThread
    /\ inside[l] = IF isLocked[l] THEN {currThread[l]} ELSE {}

\* Threads taken off the queue of o that have not tested its loop again.
Woken(o) == {t \in Thread : blockedIn[t] = o /\ t \notin Items(queue[o])}

\* While threads sleep in Semaphore::P, every unit of the value has a thread
\* already woken to take it: V never leaves a waiter asleep beside a positive
\* value, however running threads barge in.  While threads sleep in
\* Lock::Acquire, the lock is held or one of them has been woken to take it.
NoLostWakeup ==
  /\ \A s \in Semaphore : ~IsEmpty(queue[s]) => value[s] <= Cardinality(Woken(s))
  /\ \A l \in Lock : ~IsEmpty(queue[l]) => isLocked[l] \/ Woken(l) # {}

Before(list, t, u) ==
  \E i, j \in DOMAIN list : i < j /\ list[i].item = t /\ list[j].item = u

\* Wait queues are served in order: nobody is woken ahead of a thread queued
\* before it, or moved ahead of it, the order is by the priority each had when
\* it went to sleep, and a newcomer goes behind its equals.
WakeupOrder ==
  [][\A o \in Object :
       /\ SortedByKey(queue'[o])
       /\ \A t, u \in Thread :
            Before(queue[o], t, u) /\ t \in Items(queue'[o]) =>
              Before(queue'[o], t, u)
       /\ \A i, j \in DOMAIN queue'[o] :
            /\ i < j
            /\ queue'[o][i].item \notin Items(queue[o])
            /\ queue'[o][j].item \in Items(queue[o])
            => queue'[o][i].key < queue'[o][j].key]_vars
=============================================================================
