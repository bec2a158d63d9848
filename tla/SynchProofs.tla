----------------------------- MODULE SynchProofs -----------------------------
(***************************************************************************)
(* Proofs about module Synch, for any set of threads, semaphores, locks    *)
(* and condition variables.                                                *)
(***************************************************************************)
EXTENDS Synch, SchedulerProofs, FiniteSetTheorems

Queues == [Object -> Seq(Element(Thread))]

\* The wait queues hold the BLOCKED threads, each in the queue of the one
\* object it sleeps on, once.
Placed(q, b, s) ==
  /\ \A o \in Object : NoDuplicates(q[o])
  /\ \A o \in Object, t \in Thread : t \in Items(q[o]) <=> Blocked(s, t) /\ b[t] = o
  /\ \A t \in Thread : Blocked(s, t) => b[t] \in Object

Dequeued(q, o) == [q EXCEPT ![o] = Rest(@)]
Enqueued(q, o, t, k) == [q EXCEPT ![o] = SortedInsert(@, t, k)]

\* What waking the head of o's queue does to the scheduler and the queues.
WakeEffect(s, q, b, o) ==
  /\ Consistent(Wake(s, q[o]))
  /\ Dequeued(q, o) \in Queues
  /\ Placed(Dequeued(q, o), b, Wake(s, q[o]))
  /\ Wake(s, q[o]).current = s.current
  /\ Wake(s, q[o]).key = s.key
  /\ s.status[s.current] = "RUNNING" =>
       Wake(s, q[o]).status[s.current] = "RUNNING"
  /\ \A t \in Thread : Blocked(Wake(s, q[o]), t) <=>
       Blocked(s, t) /\ (IsEmpty(q[o]) \/ t # First(q[o]))
  /\ ~IsEmpty(q[o]) => /\ First(q[o]) \in Thread
                       /\ Blocked(s, First(q[o]))
                       /\ b[First(q[o])] = o

\* Removing the head of a wait queue and making it ready keeps every thread in
\* its place.
LEMMA WakePlaced ==
  ASSUME NEW s, NEW q \in Queues, NEW b, NEW o \in Object,
         Consistent(s), Placed(q, b, s)
  PROVE  WakeEffect(s, q, b, o)
<1>1. q[o] \in Seq(Element(Thread)) /\ NoDuplicates(q[o])
  BY DEF Queues, Placed
<1>2. CASE IsEmpty(q[o])
  <2>1. Wake(s, q[o]) = s
    BY <1>2 DEF Wake
  <2>2. Dequeued(q, o) = q
    BY <1>2 DEF Dequeued, Rest, Queues
  <2> QED
    BY <1>2, <2>1, <2>2 DEF WakeEffect
<1>3. CASE ~IsEmpty(q[o])
  <2> DEFINE f == First(q[o])
             n == Wake(s, q[o])
             d == Dequeued(q, o)
  <2>1. /\ f \in Thread
        /\ f \in Items(q[o])
        /\ Rest(q[o]) \in Seq(Element(Thread))
    BY <1>1, <1>3, RemoveProperty
  <2>2. Items(Rest(q[o])) = Items(q[o]) \ {f} /\ NoDuplicates(Rest(q[o]))
    BY <1>1, <1>3, RemoveItems
  <2>3. s.status[f] = "BLOCKED" /\ b[f] = o
    BY <2>1 DEF Placed, Blocked
  <2>4. n = ReadyToRun(s, f)
    BY <1>3 DEF Wake
  <2> HIDE DEF f, n, d
  <2>5. /\ Consistent(n)
        /\ n.status = [s.status EXCEPT ![f] = "READY"]
        /\ n.current = s.current
        /\ n.key = s.key
    BY <2>1, <2>3, <2>4, ReadyToRunConsistent
  <2>6. s.status \in [Thread -> Status] /\ s.current \in Thread
    BY DEF Consistent, SchedulerState
  <2>7. \A t \in Thread : n.status[t] = IF t = f THEN "READY" ELSE s.status[t]
    BY <2>5, <2>6
  <2>8. \A t \in Thread : Blocked(n, t) <=> Blocked(s, t) /\ t # f
    BY <2>7 DEF Blocked
  <2>9. /\ d \in Queues
        /\ d[o] = Rest(q[o])
        /\ \A p \in Object : p # o => d[p] = q[p]
    BY <2>1 DEF d, Dequeued, Queues
  <2>10. Placed(d, b, n)
    <3>1. \A p \in Object : NoDuplicates(d[p])
      BY <2>2, <2>9 DEF Placed
    <3>2. \A p \in Object, t \in Thread :
            t \in Items(d[p]) <=> Blocked(n, t) /\ b[t] = p
      <4> TAKE p \in Object, t \in Thread
      <4>1. CASE p = o
        BY <2>2, <2>8, <2>9, <4>1 DEF Placed
      <4>2. CASE p # o
        BY <2>3, <2>8, <2>9, <4>2 DEF Placed
      <4> QED
        BY <4>1, <4>2
    <3>3. \A t \in Thread : Blocked(n, t) => b[t] \in Object
      BY <2>8 DEF Placed
    <3> QED
      BY <3>1, <3>2, <3>3 DEF Placed
  <2>11. s.status[s.current] = "RUNNING" => n.status[s.current] = "RUNNING"
    BY <2>3, <2>6, <2>7
  <2> QED
    BY <1>3, <2>1, <2>3, <2>5, <2>8, <2>9, <2>10, <2>11 DEF f, n, d, Blocked, WakeEffect
<1> QED
  BY <1>2, <1>3

\* Queueing the running thread and putting it to sleep does too.
LEMMA SleepPlaced ==
  ASSUME NEW s, NEW q \in Queues, NEW b \in [Thread -> Object \cup {NoObject}],
         NEW o \in Object, NEW t \in Thread,
         Consistent(s), Placed(q, b, s), t = s.current, s.status[t] = "RUNNING"
  PROVE  /\ Consistent(Sleep(s))
         /\ Enqueued(q, o, t, s.key[t]) \in Queues
         /\ Placed(Enqueued(q, o, t, s.key[t]), [b EXCEPT ![t] = o], Sleep(s))
         /\ \A u \in Thread : Blocked(Sleep(s), u) <=> Blocked(s, u) \/ u = t
<1> DEFINE k == s.key[t]
           e == Enqueued(q, o, t, k)
           c == [b EXCEPT ![t] = o]
           n == Sleep(s)
<1>1. q[o] \in Seq(Element(Thread)) /\ NoDuplicates(q[o]) /\ k \in Int
  BY DEF Queues, Placed, Consistent, SchedulerState
<1>2. \A p \in Object : t \notin Items(q[p])
  BY DEF Placed, Blocked
<1>3. Consistent(n) /\ \A u \in Thread : Blocked(n, u) <=> Blocked(s, u) \/ u = t
  BY SleepConsistent
<1> HIDE DEF k, n
<1>4. SortedInsert(q[o], t, k) \in Seq(Element(Thread))
  BY <1>1, SortedInsertItems
<1>5. Items(SortedInsert(q[o], t, k)) = Items(q[o]) \cup {t}
  BY <1>1, SortedInsertMember
<1>6. NoDuplicates(SortedInsert(q[o], t, k))
  BY <1>1, <1>2, SortedInsertItems
<1>7. /\ e \in Queues
      /\ e[o] = SortedInsert(q[o], t, k)
      /\ \A p \in Object : p # o => e[p] = q[p]
  BY <1>4 DEF Enqueued, Queues
<1>8. \A u \in Thread : c[u] = IF u = t THEN o ELSE b[u]
  OBVIOUS
<1> HIDE DEF e, c
<1>9. Placed(e, c, n)
  <2>1. \A p \in Object : NoDuplicates(e[p])
    BY <1>6, <1>7 DEF Placed
  <2>2. \A p \in Object, u \in Thread :
          u \in Items(e[p]) <=> Blocked(n, u) /\ c[u] = p
    <3> TAKE p \in Object, u \in Thread
    <3>1. CASE p = o
      BY <1>3, <1>5, <1>7, <1>8, <3>1 DEF Placed
    <3>2. CASE p # o
      BY <1>2, <1>3, <1>7, <1>8, <3>2 DEF Placed
    <3> QED
      BY <3>1, <3>2
  <2>3. \A u \in Thread : Blocked(n, u) => c[u] \in Object
    BY <1>3, <1>8 DEF Placed
  <2> QED
    BY <2>1, <2>2, <2>3 DEF Placed
<1> QED
  BY <1>3, <1>7, <1>9 DEF e, c, n, k
-----------------------------------------------------------------------------
\* The inductive invariant.
Inv ==
  /\ TypeOK
  /\ Consistent(sched)
  /\ Placed(queue, blockedIn, sched)
  /\ MutualExclusion

\* What an action does to the threads' places, apart from the objects' state.
PlacesKept ==
  /\ Consistent(sched')
  /\ queue' \in Queues
  /\ blockedIn' \in [Thread -> Object \cup {NoObject}]
  /\ Placed(queue', blockedIn', sched')

LEMMA InvTypes ==
  ASSUME Inv
  PROVE  /\ queue \in Queues
         /\ blockedIn \in [Thread -> Object \cup {NoObject}]
         /\ sched \in SchedulerState
         /\ sched.current \in Thread
         /\ Consistent(sched)
         /\ Placed(queue, blockedIn, sched)
BY DEF Inv, TypeOK, Queues, Element, SchedulerState

\* WakePlaced at the present state.
LEMMA WakeHere ==
  ASSUME Inv, NEW o \in Object
  PROVE  WakeEffect(sched, queue, blockedIn, o)
BY InvTypes, WakePlaced

LEMMA WakeFirstPlaces ==
  ASSUME Inv, NEW o \in Object, WakeFirst(o), UNCHANGED blockedIn
  PROVE  PlacesKept
<1>1. sched' = Wake(sched, queue[o]) /\ queue' = Dequeued(queue, o)
  BY DEF WakeFirst, Dequeued
<1> QED
  BY <1>1, InvTypes, WakeHere DEF PlacesKept, WakeEffect

LEMMA SleepOnPlaces ==
  ASSUME Inv, NEW t \in Thread, NEW o \in Object, Running(t), SleepOn(t, o)
  PROVE  PlacesKept
<1>1. /\ sched' = Sleep(sched)
      /\ queue' = Enqueued(queue, o, t, sched.key[t])
      /\ blockedIn' = [blockedIn EXCEPT ![t] = o]
  BY DEF SleepOn, Enqueued
<1>2. t = sched.current /\ sched.status[t] = "RUNNING"
  BY DEF Running
<1>3. blockedIn' \in [Thread -> Object \cup {NoObject}]
  BY <1>1, InvTypes
<1> QED
  BY <1>1, <1>2, <1>3, InvTypes, SleepPlaced DEF PlacesKept

LEMMA ReturnPlaces ==
  ASSUME Inv, NEW t \in Thread, Running(t), UNCHANGED <<sched, queue>>,
         blockedIn' = [blockedIn EXCEPT ![t] = NoObject]
  PROVE  PlacesKept
<1>1. ~Blocked(sched, t)
  BY DEF Running, Blocked
<1>2. \A u \in Thread : u # t => blockedIn'[u] = blockedIn[u]
  BY InvTypes
<1>3. blockedIn' \in [Thread -> Object \cup {NoObject}]
  BY InvTypes
<1>4. Placed(queue', blockedIn', sched')
  BY <1>1, <1>2, InvTypes DEF Placed
<1> QED
  BY <1>3, <1>4, InvTypes DEF PlacesKept

LEMMA SamePlaces ==
  ASSUME Inv, UNCHANGED <<sched, queue, blockedIn>>
  PROVE  PlacesKept
BY InvTypes DEF PlacesKept

\* The invariant holds again once the places and the objects' state do.
LEMMA InvFromPlaces ==
  ASSUME PlacesKept,
         value' \in [Semaphore -> Nat],
         isLocked' \in [Lock -> BOOLEAN],
         currThread' \in [Lock -> Thread \cup {NoThread}],
         inside' \in [Lock -> SUBSET Thread],
         broadcasting' \in Condition \cup {NoObject},
         pending' \in Nat,
         MutualExclusion'
  PROVE  Inv'
<1>1. sched' \in SchedulerState
  BY DEF PlacesKept, Consistent
<1>2. queue' \in [Object -> Seq([item : Thread, key : Int])]
  BY DEF PlacesKept, Queues, Element
<1> QED
  BY <1>1, <1>2 DEF Inv, TypeOK, PlacesKept

LEMMA ObjectTypes ==
  ASSUME Inv
  PROVE  /\ value \in [Semaphore -> Nat]
         /\ isLocked \in [Lock -> BOOLEAN]
         /\ currThread \in [Lock -> Thread \cup {NoThread}]
         /\ inside \in [Lock -> SUBSET Thread]
         /\ broadcasting \in Condition \cup {NoObject}
         /\ pending \in Nat
         /\ MutualExclusion
BY DEF Inv, TypeOK

\* A step that leaves semaphores and locks alone and keeps the places.
LEMMA InvOfPlaces ==
  ASSUME Inv, PlacesKept, UNCHANGED <<objects, inside>>,
         broadcasting' \in Condition \cup {NoObject}, pending' \in Nat
  PROVE  Inv'
<1>1. UNCHANGED <<value, isLocked, currThread, inside>>
  BY DEF objects
<1>2. MutualExclusion'
  BY <1>1, ObjectTypes DEF MutualExclusion
<1> QED
  BY <1>1, <1>2, ObjectTypes, InvFromPlaces
-----------------------------------------------------------------------------
LEMMA PLoopInv ==
  ASSUME Inv, NEW t \in Thread, NEW s \in Semaphore, Running(t), PLoop(t, s)
  PROVE  Inv'
<1>1. CASE value[s] = 0
  <2>1. SleepOn(t, s) /\ UNCHANGED <<objects, inside, broadcasting, pending>>
    BY <1>1 DEF PLoop, objects
  <2>2. PlacesKept
    BY <2>1, SleepOnPlaces DEF Object
  <2> QED
    BY <2>1, <2>2, InvOfPlaces, ObjectTypes
<1>2. CASE value[s] # 0
  <2>1. /\ value' = [value EXCEPT ![s] = @ - 1]
        /\ blockedIn' = [blockedIn EXCEPT ![t] = NoObject]
        /\ UNCHANGED <<sched, queue, isLocked, currThread, inside, broadcasting, pending>>
    BY <1>2 DEF PLoop
  <2>2. PlacesKept
    BY <2>1, ReturnPlaces
  <2>3. value' \in [Semaphore -> Nat]
    BY <1>2, <2>1, ObjectTypes
  <2>4. MutualExclusion'
    BY <2>1, ObjectTypes DEF MutualExclusion
  <2> QED
    BY <2>1, <2>2, <2>3, <2>4, ObjectTypes, InvFromPlaces
<1> QED
  BY <1>1, <1>2

LEMMA AcquireLoopInv ==
  ASSUME Inv, NEW t \in Thread, NEW l \in Lock, Running(t), AcquireLoop(t, l)
  PROVE  Inv'
<1>1. CASE isLocked[l]
  <2>1. SleepOn(t, l) /\ UNCHANGED <<objects, inside, broadcasting, pending>>
    BY <1>1 DEF AcquireLoop, objects
  <2>2. PlacesKept
    BY <2>1, SleepOnPlaces DEF Object
  <2> QED
    BY <2>1, <2>2, InvOfPlaces, ObjectTypes
<1>2. CASE ~isLocked[l]
  <2>1. /\ isLocked' = [isLocked EXCEPT ![l] = TRUE]
        /\ currThread' = [currThread EXCEPT ![l] = t]
        /\ inside' = [inside EXCEPT ![l] = @ \cup {t}]
        /\ blockedIn' = [blockedIn EXCEPT ![t] = NoObject]
        /\ UNCHANGED <<sched, queue, value, broadcasting, pending>>
    BY <1>2 DEF AcquireLoop
  <2>2. PlacesKept
    BY <2>1, ReturnPlaces
  <2>3. /\ isLocked' \in [Lock -> BOOLEAN]
        /\ currThread' \in [Lock -> Thread \cup {NoThread}]
        /\ inside' \in [Lock -> SUBSET Thread]
    BY <2>1, ObjectTypes
  <2>4. MutualExclusion'
    <3> SUFFICES ASSUME NEW k \in Lock
                 PROVE  /\ isLocked'[k] <=> currThread'[k] # NoThread
                        /\ inside'[k] = IF isLocked'[k] THEN {currThread'[k]} ELSE {}
      BY DEF MutualExclusion
    <3>1. CASE k = l
      <4>1. inside[k] = {}
        BY <1>2, <3>1, ObjectTypes DEF MutualExclusion
      <4>2. isLocked'[k] /\ currThread'[k] = t /\ inside'[k] = {t}
        BY <2>1, <3>1, <4>1, ObjectTypes
      <4> QED
        BY <4>2, NoThreadAssumption
    <3>2. CASE k # l
      <4>1. /\ isLocked'[k] = isLocked[k]
            /\ currThread'[k] = currThread[k]
            /\ inside'[k] = inside[k]
        BY <2>1, <3>2, ObjectTypes
      <4> QED
        BY <4>1, ObjectTypes DEF MutualExclusion
    <3> QED
      BY <3>1, <3>2
  <2> QED
    BY <2>1, <2>2, <2>3, <2>4, ObjectTypes, InvFromPlaces
<1> QED
  BY <1>1, <1>2

LEMMA VBodyInv ==
  ASSUME Inv, NEW s \in Semaphore, VBody(s), pending' \in Nat
  PROVE  Inv'
<1>1. /\ WakeFirst(s)
      /\ value' = [value EXCEPT ![s] = @ + 1]
      /\ UNCHANGED <<isLocked, currThread, inside, blockedIn, broadcasting>>
  BY DEF VBody
<1>2. PlacesKept
  BY <1>1, WakeFirstPlaces DEF Object
<1>3. value' \in [Semaphore -> Nat]
  BY <1>1, ObjectTypes
<1>4. MutualExclusion'
  BY <1>1, ObjectTypes DEF MutualExclusion
<1> QED
  BY <1>1, <1>2, <1>3, <1>4, ObjectTypes, InvFromPlaces

LEMMA UnlockObjects ==
  ASSUME Inv, NEW t \in Thread, NEW l \in Lock, Holds(t, l), Unlock(t, l)
  PROVE  /\ isLocked' \in [Lock -> BOOLEAN]
         /\ currThread' \in [Lock -> Thread \cup {NoThread}]
         /\ inside' \in [Lock -> SUBSET Thread]
         /\ MutualExclusion'
<1>1. /\ isLocked' = [isLocked EXCEPT ![l] = FALSE]
      /\ currThread' = [currThread EXCEPT ![l] = NoThread]
      /\ inside' = [inside EXCEPT ![l] = @ \ {t}]
  BY DEF Unlock
<1>2. /\ isLocked' \in [Lock -> BOOLEAN]
      /\ currThread' \in [Lock -> Thread \cup {NoThread}]
      /\ inside' \in [Lock -> SUBSET Thread]
  BY <1>1, ObjectTypes
<1>3. MutualExclusion'
  <2> SUFFICES ASSUME NEW k \in Lock
               PROVE  /\ isLocked'[k] <=> currThread'[k] # NoThread
                      /\ inside'[k] = IF isLocked'[k] THEN {currThread'[k]} ELSE {}
    BY DEF MutualExclusion
  <2>1. CASE k = l
    <3>1. inside[k] \subseteq {t}
      BY <2>1, ObjectTypes DEF MutualExclusion, Holds
    <3>2. ~isLocked'[k] /\ currThread'[k] = NoThread /\ inside'[k] = inside[k] \ {t}
      BY <1>1, <2>1, ObjectTypes
    <3> QED
      BY <3>1, <3>2
  <2>2. CASE k # l
    <3>1. /\ isLocked'[k] = isLocked[k]
          /\ currThread'[k] = currThread[k]
          /\ inside'[k] = inside[k]
      BY <1>1, <2>2, ObjectTypes
    <3> QED
      BY <3>1, ObjectTypes DEF MutualExclusion
  <2> QED
    BY <2>1, <2>2
<1> QED
  BY <1>2, <1>3

LEMMA ReleaseInv ==
  ASSUME Inv, NEW t \in Thread, NEW l \in Lock, Release(t, l)
  PROVE  Inv'
<1>1. /\ Holds(t, l)
      /\ WakeFirst(l)
      /\ Unlock(t, l)
      /\ UNCHANGED <<value, blockedIn, broadcasting, pending>>
  BY DEF Release
<1>2. PlacesKept
  BY <1>1, WakeFirstPlaces DEF Object
<1> QED
  BY <1>1, <1>2, UnlockObjects, ObjectTypes, InvFromPlaces

LEMMA WaitInv ==
  ASSUME Inv, NEW t \in Thread, NEW c \in Condition, Wait(t, c)
  PROVE  Inv'
<1> DEFINE l == LockOf[c]
           s1 == Wake(sched, queue[l])
           q1 == Dequeued(queue, l)
<1>1. l \in Lock /\ l \in Object /\ c \in Object /\ l # c
  BY SynchAssumption DEF Object
<1>2. /\ t = sched.current /\ sched.status[t] = "RUNNING"
      /\ Holds(t, l)
      /\ Unlock(t, l)
      /\ queue' = [queue EXCEPT ![l] = Rest(@), ![c] = SortedInsert(@, t, sched.key[t])]
      /\ blockedIn' = [blockedIn EXCEPT ![t] = c]
      /\ sched' = Sleep(s1)
      /\ UNCHANGED <<value, broadcasting, pending>>
  BY DEF Wait, InClient, Running
<1>3. /\ Consistent(s1)
      /\ q1 \in Queues
      /\ Placed(q1, blockedIn, s1)
      /\ s1.current = sched.current
      /\ s1.key = sched.key
      /\ s1.status[sched.current] = "RUNNING"
  BY <1>1, <1>2, InvTypes, WakeHere DEF WakeEffect
<1>4. queue' = Enqueued(q1, c, t, sched.key[t])
  BY <1>1, <1>2, InvTypes DEF Enqueued, Dequeued, Queues
<1> HIDE DEF l, s1, q1
<1>5. PlacesKept
  <2>1. /\ Consistent(Sleep(s1))
        /\ Enqueued(q1, c, t, s1.key[t]) \in Queues
        /\ Placed(Enqueued(q1, c, t, s1.key[t]), [blockedIn EXCEPT ![t] = c], Sleep(s1))
    BY <1>1, <1>2, <1>3, InvTypes, SleepPlaced
  <2>2. blockedIn' \in [Thread -> Object \cup {NoObject}]
    BY <1>1, <1>2, InvTypes
  <2> QED
    BY <1>2, <1>3, <1>4, <2>1, <2>2 DEF PlacesKept
<1> QED
  BY <1>1, <1>2, <1>5, UnlockObjects, ObjectTypes, InvFromPlaces

LEMMA InitInv == Init => Inv
<1> SUFFICES ASSUME Init PROVE Inv
  OBVIOUS
<1>1. PICK key \in [Thread -> Priority], ready \in ReadyLists :
        InitialReady(ready, key) /\ InitSched(ready, key)
  BY DEF Init
<1>2. Main \in Thread /\ key \in [Thread -> Int]
  BY SynchAssumption
<1>3. ready \in Seq([item : Thread, key : Int])
  <2>1. Cardinality(Thread) - 1 \in Nat
    BY SynchAssumption, FS_CardinalityType, FS_EmptySet
  <2>2. ready \in [1..Cardinality(Thread) - 1 -> [item : Thread, key : Int]]
    BY SynchAssumption DEF ReadyLists
  <2> DEFINE n == Cardinality(Thread) - 1
             S == [item : Thread, key : Int]
  <2> HIDE DEF n, S
  <2>3. n \in Nat /\ ready \in [1..n -> S]
    BY <2>1, <2>2 DEF n, S
  <2>4. ready \in Seq(S)
    BY <2>3
  <2> QED
    BY <2>4 DEF S
<1>4. /\ sched \in SchedulerState
      /\ sched.ready = ready
      /\ sched.current = Main
      /\ sched.carcass = NoThread
      /\ sched.status = [t \in Thread |-> IF t = Main THEN "RUNNING" ELSE "READY"]
  BY <1>1, <1>2, <1>3 DEF InitSched, SchedulerState, Status
<1>5. TypeOK
  BY <1>4, SynchAssumption DEF TypeOK, Init, InitSynch
<1>6. Consistent(sched)
  BY <1>1, <1>2, <1>4 DEF Consistent, InitialReady
<1>7. Placed(queue, blockedIn, sched)
  BY <1>4 DEF Placed, Blocked, Init, InitSynch, Items, NoDuplicates
<1>8. MutualExclusion
  BY DEF MutualExclusion, Init, InitSynch
<1> QED
  BY <1>5, <1>6, <1>7, <1>8 DEF Inv

LEMMA NextInv == Inv /\ [Next]_vars => Inv'
<1> SUFFICES ASSUME Inv, [Next]_vars PROVE Inv'
  OBVIOUS
<1>1. ASSUME NEW t \in Thread, NEW s \in Semaphore, P(t, s) PROVE Inv'
  BY <1>1, PLoopInv DEF P, InClient
<1>2. ASSUME NEW t \in Thread, NEW s \in Semaphore, V(t, s) PROVE Inv'
  BY <1>2, VBodyInv, ObjectTypes DEF V
<1>3. ASSUME NEW t \in Thread, NEW l \in Lock, Acquire(t, l) PROVE Inv'
  BY <1>3, AcquireLoopInv DEF Acquire, InClient
<1>4. ASSUME NEW t \in Thread, NEW l \in Lock, Release(t, l) PROVE Inv'
  BY <1>4, ReleaseInv
<1>5. ASSUME NEW t \in Thread, NEW c \in Condition, Wait(t, c) PROVE Inv'
  BY <1>5, WaitInv
<1>6. ASSUME NEW t \in Thread, NEW c \in Condition, Signal(t, c) PROVE Inv'
  <2>1. WakeFirst(c) /\ UNCHANGED <<objects, inside, blockedIn, broadcasting, pending>>
    BY <1>6 DEF Signal
  <2>2. PlacesKept
    BY <2>1, WakeFirstPlaces DEF Object
  <2> QED
    BY <2>1, <2>2, InvOfPlaces, ObjectTypes
<1>7. ASSUME NEW t \in Thread, NEW c \in Condition, Broadcast(t, c) PROVE Inv'
  <2>1. /\ broadcasting' = c
        /\ UNCHANGED <<sched, objects, inside, queue, blockedIn, pending>>
    BY <1>7 DEF Broadcast
  <2> QED
    BY <2>1, SamePlaces, InvOfPlaces, ObjectTypes
<1>8. ASSUME NEW c \in Condition, BroadcastLoop(c) PROVE Inv'
  <2>1. /\ WakeFirst(c)
        /\ broadcasting' \in {c, NoObject}
        /\ UNCHANGED <<objects, inside, blockedIn, pending>>
    BY <1>8 DEF BroadcastLoop
  <2>2. PlacesKept
    BY <2>1, WakeFirstPlaces DEF Object
  <2> QED
    BY <2>1, <2>2, InvOfPlaces, ObjectTypes
<1>9. ASSUME NEW t \in Thread, Resume(t) PROVE Inv'
  BY <1>9, PLoopInv, AcquireLoopInv, SynchAssumption DEF Resume
<1>10. ASSUME NEW t \in Thread, YieldCPU(t) PROVE Inv'
  <2>1. /\ sched.status[sched.current] = "RUNNING"
        /\ sched' = Yield(sched)
        /\ UNCHANGED <<objects, inside, queue, blockedIn, broadcasting, pending>>
    BY <1>10 DEF YieldCPU, InClient, Running
  <2>2. Consistent(sched') /\ \A u \in Thread : Blocked(sched', u) <=> Blocked(sched, u)
    BY <2>1, InvTypes, YieldConsistent
  <2>3. PlacesKept
    BY <2>1, <2>2, InvTypes DEF PlacesKept, Placed
  <2> QED
    BY <2>1, <2>3, InvOfPlaces, ObjectTypes
<1>11. ASSUME NEW t \in Thread, NEW u \in Thread, NEW p \in Priority, SetPriority(t, u, p)
       PROVE  Inv'
  <2>1. /\ sched' = [sched EXCEPT !.key[u] = p]
        /\ UNCHANGED <<objects, inside, queue, blockedIn, broadcasting, pending>>
    BY <1>11 DEF SetPriority
  <2>2. p \in Int
    BY SynchAssumption
  <2>3. /\ sched' \in SchedulerState
        /\ sched'.status = sched.status
        /\ sched'.ready = sched.ready
        /\ sched'.current = sched.current
        /\ sched'.carcass = sched.carcass
    BY <2>1, <2>2, InvTypes DEF SchedulerState
  <2>4. Consistent(sched')
    BY <2>3, InvTypes DEF Consistent
  <2>5. PlacesKept
    BY <2>1, <2>3, <2>4, InvTypes DEF PlacesKept, Placed, Blocked
  <2> QED
    BY <2>1, <2>5, InvOfPlaces, ObjectTypes
<1>12. ASSUME NEW t \in Thread, Schedule(t) PROVE Inv'
  <2>1. /\ pending' = pending + 1
        /\ UNCHANGED <<sched, objects, inside, queue, blockedIn, broadcasting>>
    BY <1>12 DEF Schedule
  <2> QED
    BY <2>1, SamePlaces, InvOfPlaces, ObjectTypes
<1>13. ASSUME NEW s \in Semaphore, DeviceInterrupt(s) PROVE Inv'
  <2>1. VBody(s) /\ pending' \in Nat
    BY <1>13, ObjectTypes DEF DeviceInterrupt
  <2> QED
    BY <2>1, VBodyInv
<1>14. ASSUME LeaveIdle PROVE Inv'
  <2>1. /\ sched.status[sched.current] # "RUNNING"
        /\ ~IsEmpty(sched.ready)
        /\ sched' = Dispatch(sched)
        /\ UNCHANGED <<objects, inside, queue, blockedIn, broadcasting, pending>>
    BY <1>14 DEF LeaveIdle, Idle, Idling
  <2>2. /\ Consistent(sched')
        /\ First(sched.ready) \in Thread
        /\ sched.status[First(sched.ready)] = "READY"
        /\ sched'.status = [sched.status EXCEPT ![First(sched.ready)] = "RUNNING"]
    BY <2>1, InvTypes, DispatchConsistent
  <2>3. \A u \in Thread : Blocked(sched', u) <=> Blocked(sched, u)
    BY <2>2, InvTypes DEF Blocked, SchedulerState
  <2>4. PlacesKept
    BY <2>1, <2>2, <2>3, InvTypes DEF PlacesKept, Placed
  <2> QED
    BY <2>1, <2>4, InvOfPlaces, ObjectTypes
<1>15. ASSUME UNCHANGED vars PROVE Inv'
  <2>1. UNCHANGED <<sched, objects, inside, queue, blockedIn, broadcasting, pending>>
    BY <1>15 DEF vars
  <2> QED
    BY <2>1, SamePlaces, InvOfPlaces, ObjectTypes
<1> QED
  BY <1>1, <1>2, <1>3, <1>4, <1>5, <1>6, <1>7, <1>8, <1>9, <1>10, <1>11, <1>12, <1>13,
     <1>14, <1>15 DEF Next

THEOREM InvAlways == Spec => []Inv
BY InitInv, NextInv, PTL DEF Spec

\* The state of the synchronisation objects and of the scheduler stays within
\* its types: in particular Semaphore::P never takes a value below zero.
THEOREM TypeCorrect == Spec => []TypeOK
<1>1. Inv => TypeOK
  BY DEF Inv
<1> QED
  BY <1>1, InvAlways, PTL

\* No kernel routine loses a thread or puts it in two lists.
THEOREM ThreadPlacementAlways == Spec => []ThreadPlacement
<1>1. ASSUME Inv PROVE ThreadPlacement
  <2>1. \A o \in Object : \A t \in Items(queue[o]) : t \in Thread
    <3> TAKE o \in Object
    <3>1. queue[o] \in Seq(Element(Thread))
      BY <1>1, InvTypes DEF Queues
    <3>2. \A i \in DOMAIN queue[o] : queue[o][i] \in Element(Thread)
      BY <3>1, LenProperties
    <3> QED
      BY <3>2 DEF Items, Element
  <2>2. \A t \in Thread :
          /\ sched.status[t] = "RUNNING" <=> t = sched.current /\ ~Idle
          /\ sched.status[t] = "READY" <=> t \in Items(sched.ready)
    BY <1>1, InvTypes DEF Consistent, Idle, Idling
  <2>3. \A t \in Thread : sched.status[t] = "BLOCKED" =>
          blockedIn[t] # NoObject /\ t \in Items(queue[blockedIn[t]])
    BY <1>1, InvTypes, SynchAssumption DEF Placed, Blocked
  <2>4. \A o \in Object : \A t \in Items(queue[o]) :
          sched.status[t] = "BLOCKED" /\ blockedIn[t] = o
    BY <1>1, <2>1, InvTypes DEF Placed, Blocked
  <2> QED
    BY <1>1, <2>2, <2>3, <2>4, InvTypes DEF ThreadPlacement, Consistent, Placed
<1> QED
  BY <1>1, InvAlways, PTL

\* Acquire and Wait give a lock to one thread at a time, its owner.
THEOREM MutualExclusionAlways == Spec => []MutualExclusion
<1>1. Inv => MutualExclusion
  BY DEF Inv
<1> QED
  BY <1>1, InvAlways, PTL
-----------------------------------------------------------------------------
(***************************************************************************)
(* No lost wakeups.  Under Inv, a queue is nonempty when some thread is    *)
(* asleep in its object, and Woken holds the threads that are in the loop  *)
(* of the object and not asleep.                                           *)
(***************************************************************************)
AsleepIn(o) == \E t \in Thread : blockedIn[t] = o /\ Blocked(sched, t)
AwakeIn(o) == {t \in Thread : blockedIn[t] = o /\ ~Blocked(sched, t)}

NoLost ==
  /\ \A l \in Lock : AsleepIn(l) => isLocked[l] \/ AwakeIn(l) # {}
  /\ \A s \in Semaphore : AsleepIn(s) => value[s] <= Cardinality(AwakeIn(s))

LEMMA QueueAsleep ==
  ASSUME Inv, NEW o \in Object
  PROVE  ~IsEmpty(queue[o]) <=> AsleepIn(o)
<1>1. queue[o] \in Seq(Element(Thread))
  BY InvTypes DEF Queues
<1>2. ASSUME IsEmpty(queue[o]) PROVE Items(queue[o]) = {}
  BY <1>2 DEF IsEmpty, Items
<1>3. ASSUME ~IsEmpty(queue[o])
      PROVE  First(queue[o]) \in Thread /\ First(queue[o]) \in Items(queue[o])
  BY <1>1, <1>3, RemoveProperty
<1>4. \A t \in Thread : t \in Items(queue[o]) <=> blockedIn[t] = o /\ Blocked(sched, t)
  BY InvTypes DEF Placed
<1> QED
  BY <1>2, <1>3, <1>4 DEF AsleepIn

LEMMA NoLostMeaning ==
  ASSUME Inv
  PROVE  NoLost <=> NoLostWakeup
<1>1. \A o \in Object : ~IsEmpty(queue[o]) <=> AsleepIn(o)
  BY QueueAsleep
<1>2. \A o \in Object : Woken(o) = AwakeIn(o)
  BY InvTypes DEF Woken, AwakeIn, Placed
<1> QED
  BY <1>1, <1>2 DEF NoLost, NoLostWakeup, Object

\* A step that wakes the head of one queue at most and puts nobody to sleep.
LEMMA WakeFirstAwake ==
  ASSUME Inv, NEW o \in Object, WakeFirst(o), UNCHANGED blockedIn
  PROVE  /\ \A p \in Object : p # o =>
              (AsleepIn(p)' <=> AsleepIn(p)) /\ AwakeIn(p)' = AwakeIn(p)
         /\ AsleepIn(o)' => \E f \in Thread : /\ AsleepIn(o)
                                               /\ f \notin AwakeIn(o)
                                               /\ AwakeIn(o)' = AwakeIn(o) \cup {f}
<1> DEFINE f == First(queue[o])
<1>1. sched' = Wake(sched, queue[o])
  BY DEF WakeFirst
<1>2. /\ \A t \in Thread : Blocked(sched', t) <=>
            Blocked(sched, t) /\ (IsEmpty(queue[o]) \/ t # f)
      /\ ~IsEmpty(queue[o]) => f \in Thread /\ Blocked(sched, f) /\ blockedIn[f] = o
  BY <1>1, InvTypes, WakeHere DEF WakeEffect
<1>3. ~IsEmpty(queue[o]) <=> AsleepIn(o)
  BY QueueAsleep
<1> HIDE DEF f
<1>4. ASSUME NEW p \in Object, p # o
      PROVE  (AsleepIn(p)' <=> AsleepIn(p)) /\ AwakeIn(p)' = AwakeIn(p)
  BY <1>2, <1>4 DEF AsleepIn, AwakeIn
<1>5. ASSUME AsleepIn(o)'
      PROVE  /\ AsleepIn(o)
             /\ f \in Thread
             /\ f \notin AwakeIn(o)
             /\ AwakeIn(o)' = AwakeIn(o) \cup {f}
  <2>1. AsleepIn(o)
    BY <1>2, <1>5 DEF AsleepIn
  <2>2. f \in Thread /\ Blocked(sched, f) /\ blockedIn[f] = o
    BY <1>2, <1>3, <2>1
  <2>3. \A t \in Thread : Blocked(sched', t) <=> Blocked(sched, t) /\ t # f
    BY <1>2, <1>3, <2>1
  <2> QED
    BY <2>1, <2>2, <2>3 DEF AwakeIn
<1> QED
  BY <1>4, <1>5

\* A step that concerns only the thread t, which before and after it is not
\* in the loop of p.
LEMMA LoopAwake ==
  ASSUME NEW t \in Thread, NEW p,
         \A u \in Thread : u # t => /\ blockedIn'[u] = blockedIn[u]
                                    /\ Blocked(sched', u) <=> Blocked(sched, u),
         blockedIn[t] # p, blockedIn'[t] # p
  PROVE  (AsleepIn(p)' <=> AsleepIn(p)) /\ AwakeIn(p)' = AwakeIn(p)
<1>1. \A u \in Thread : /\ blockedIn'[u] = p <=> blockedIn[u] = p
                        /\ blockedIn[u] = p => (Blocked(sched', u) <=> Blocked(sched, u))
  BY DEF Blocked
<1>2. AsleepIn(p)' <=> AsleepIn(p)
  BY <1>1 DEF AsleepIn
<1>3. AwakeIn(p)' = AwakeIn(p)
  BY <1>1 DEF AwakeIn
<1> QED
  BY <1>2, <1>3

LEMMA AwakeCardinality ==
  ASSUME NEW T \in SUBSET Thread
  PROVE  /\ Cardinality(T) \in Nat
         /\ \A f \in Thread : f \notin T => Cardinality(T \cup {f}) = Cardinality(T) + 1
         /\ \A f \in T : Cardinality(T \ {f}) = Cardinality(T) - 1
<1>1. IsFiniteSet(T)
  BY SynchAssumption, FS_Subset
<1> QED
  BY <1>1, FS_CardinalityType, FS_AddElement, FS_RemoveElement

LEMMA SleepOnBlocked ==
  ASSUME Inv, NEW t \in Thread, NEW o \in Object, Running(t), SleepOn(t, o)
  PROVE  /\ blockedIn'[t] = o
         /\ \A u \in Thread : u # t => /\ blockedIn'[u] = blockedIn[u]
                                       /\ Blocked(sched', u) <=> Blocked(sched, u)
<1>1. sched' = Sleep(sched) /\ t = sched.current /\ sched.status[sched.current] = "RUNNING"
  BY DEF SleepOn, Running
<1> QED
  BY <1>1, InvTypes, SleepConsistent DEF SleepOn

\* A step that wakes nobody, puts nobody to sleep and leaves the objects alone.
LEMMA QuietNoLost ==
  ASSUME NoLost, UNCHANGED <<blockedIn, objects>>,
         \A t \in Thread : Blocked(sched', t) <=> Blocked(sched, t)
  PROVE  NoLost'
<1>1. \A o \in Object : (AsleepIn(o)' <=> AsleepIn(o)) /\ AwakeIn(o)' = AwakeIn(o)
  BY DEF AsleepIn, AwakeIn
<1> QED
  BY <1>1 DEF NoLost, Object, objects

LEMMA PLoopNoLost ==
  ASSUME Inv, NoLost, NEW t \in Thread, NEW s \in Semaphore, Running(t), PLoop(t, s),
         blockedIn[t] \in {s, NoObject}
  PROVE  NoLost'
<1>1. s \in Object /\ NoObject \notin Object
  BY SynchAssumption DEF Object
<1>2. AwakeIn(s)' \in SUBSET Thread /\ AwakeIn(s) \in SUBSET Thread
  BY DEF AwakeIn
<1>3. CASE value[s] = 0
  <2>1. SleepOn(t, s) /\ UNCHANGED objects
    BY <1>3 DEF PLoop, objects
  <2>2. \A p \in Object : p # s =>
          (AsleepIn(p)' <=> AsleepIn(p)) /\ AwakeIn(p)' = AwakeIn(p)
    BY <1>1, <2>1, SleepOnBlocked, LoopAwake
  <2>3. value'[s] <= Cardinality(AwakeIn(s)')
    BY <1>2, <1>3, <2>1, AwakeCardinality DEF objects
  <2> QED
    BY <2>1, <2>2, <2>3, SynchAssumption DEF NoLost, Object, objects
<1>4. CASE value[s] # 0
  <2>1. /\ value' = [value EXCEPT ![s] = @ - 1]
        /\ blockedIn' = [blockedIn EXCEPT ![t] = NoObject]
        /\ UNCHANGED <<sched, isLocked>>
    BY <1>4 DEF PLoop
  <2>2. \A p \in Object : p # s =>
          (AsleepIn(p)' <=> AsleepIn(p)) /\ AwakeIn(p)' = AwakeIn(p)
    <3>1. \A u \in Thread : u # t => /\ blockedIn'[u] = blockedIn[u]
                                     /\ Blocked(sched', u) <=> Blocked(sched, u)
      BY <2>1, InvTypes
    <3>2. blockedIn'[t] = NoObject
      BY <2>1, InvTypes
    <3> QED
      BY <1>1, <3>1, <3>2, LoopAwake
  <2>3. \A u \in Thread : blockedIn'[u] = IF u = t THEN NoObject ELSE blockedIn[u]
    BY <2>1, InvTypes
  <2>4. ~Blocked(sched, t)
    BY DEF Running, Blocked
  <2>5. AsleepIn(s)' => AsleepIn(s)
    BY <1>1, <2>1, <2>3 DEF AsleepIn
  <2>6. AwakeIn(s)' = AwakeIn(s) \ {t}
    BY <1>1, <2>1, <2>3 DEF AwakeIn
  <2>7. Cardinality(AwakeIn(s)') >= Cardinality(AwakeIn(s)) - 1 /\ Cardinality(AwakeIn(s)') \in Nat
    <3>1. CASE t \in AwakeIn(s)
      BY <1>2, <2>6, <3>1, AwakeCardinality
    <3>2. CASE t \notin AwakeIn(s)
      <4>1. AwakeIn(s)' = AwakeIn(s)
        BY <2>6, <3>2
      <4> QED
        BY <1>2, <4>1, AwakeCardinality
    <3> QED
      BY <3>1, <3>2
  <2>8. AsleepIn(s)' => value'[s] <= Cardinality(AwakeIn(s)')
    <3> HAVE AsleepIn(s)'
    <3>1. value[s] <= Cardinality(AwakeIn(s))
      BY <2>5 DEF NoLost
    <3>2. value[s] \in Nat /\ value'[s] = value[s] - 1
      BY <2>1, ObjectTypes
    <3>3. Cardinality(AwakeIn(s)) \in Nat
      BY <1>2, AwakeCardinality
    <3> QED
      BY <2>7, <3>1, <3>2, <3>3
  <2>9. \A p \in Semaphore : p # s => value'[p] = value[p]
    BY <2>1, ObjectTypes
  <2> QED
    BY <2>1, <2>2, <2>8, <2>9, SynchAssumption DEF NoLost, Object
<1> QED
  BY <1>3, <1>4

LEMMA AcquireLoopNoLost ==
  ASSUME Inv, NoLost, NEW t \in Thread, NEW l \in Lock, Running(t), AcquireLoop(t, l),
         blockedIn[t] \in {l, NoObject} \cup Condition
  PROVE  NoLost'
<1>1. l \in Object /\ NoObject \notin Object
  BY SynchAssumption DEF Object
<1>2. \A p \in Lock \cup Semaphore : p # l => p \in Object /\ p # blockedIn[t]
  BY SynchAssumption DEF Object
<1>3. CASE isLocked[l]
  <2>1. SleepOn(t, l) /\ UNCHANGED objects
    BY <1>3 DEF AcquireLoop, objects
  <2>2. \A p \in Lock \cup Semaphore : p # l =>
          (AsleepIn(p)' <=> AsleepIn(p)) /\ AwakeIn(p)' = AwakeIn(p)
    BY <1>1, <1>2, <2>1, SleepOnBlocked, LoopAwake
  <2> QED
    BY <1>3, <2>1, <2>2, SynchAssumption DEF NoLost, objects
<1>4. CASE ~isLocked[l]
  <2>1. /\ isLocked' = [isLocked EXCEPT ![l] = TRUE]
        /\ blockedIn' = [blockedIn EXCEPT ![t] = NoObject]
        /\ UNCHANGED <<sched, value>>
    BY <1>4 DEF AcquireLoop
  <2>2. \A p \in Lock \cup Semaphore : p # l =>
          (AsleepIn(p)' <=> AsleepIn(p)) /\ AwakeIn(p)' = AwakeIn(p)
    <3>1. \A u \in Thread : u # t => /\ blockedIn'[u] = blockedIn[u]
                                     /\ Blocked(sched', u) <=> Blocked(sched, u)
      BY <2>1, InvTypes
    <3>2. blockedIn'[t] = NoObject
      BY <2>1, InvTypes
    <3> QED
      BY <1>1, <1>2, <3>1, <3>2, LoopAwake
  <2>3. isLocked'[l] /\ \A p \in Lock : p # l => isLocked'[p] = isLocked[p]
    BY <2>1, ObjectTypes
  <2> QED
    BY <2>1, <2>2, <2>3, SynchAssumption DEF NoLost
<1> QED
  BY <1>3, <1>4

LEMMA VBodyNoLost ==
  ASSUME Inv, NoLost, NEW s \in Semaphore, VBody(s)
  PROVE  NoLost'
<1>1. /\ WakeFirst(s)
      /\ value' = [value EXCEPT ![s] = @ + 1]
      /\ UNCHANGED <<isLocked, blockedIn>>
      /\ s \in Object
  BY DEF VBody, Object
<1>2. \A p \in Object : p # s =>
        (AsleepIn(p)' <=> AsleepIn(p)) /\ AwakeIn(p)' = AwakeIn(p)
  BY <1>1, WakeFirstAwake
<1>3. AsleepIn(s)' => value'[s] <= Cardinality(AwakeIn(s)')
  <2> HAVE AsleepIn(s)'
  <2>1. PICK f \in Thread : /\ AsleepIn(s)
                            /\ f \notin AwakeIn(s)
                            /\ AwakeIn(s)' = AwakeIn(s) \cup {f}
    BY <1>1, WakeFirstAwake
  <2>2. AwakeIn(s) \in SUBSET Thread
    BY DEF AwakeIn
  <2>3. /\ Cardinality(AwakeIn(s)) \in Nat
        /\ Cardinality(AwakeIn(s)') = Cardinality(AwakeIn(s)) + 1
    BY <2>1, <2>2, AwakeCardinality
  <2>4. value[s] \in Nat /\ value'[s] = value[s] + 1
    BY <1>1, ObjectTypes
  <2>5. value[s] <= Cardinality(AwakeIn(s))
    BY <2>1 DEF NoLost
  <2> QED
    BY <2>3, <2>4, <2>5
<1>4. \A p \in Semaphore : p # s => value'[p] = value[p]
  BY <1>1, ObjectTypes
<1> QED
  BY <1>1, <1>2, <1>3, <1>4, SynchAssumption DEF NoLost, Object

\* Waking the head of a lock's or a condition's queue: l is the only lock whose
\* state may change, and o its queue.
LEMMA WakeNoLost ==
  ASSUME Inv, NoLost, NEW o \in Lock \cup Condition, WakeFirst(o),
         UNCHANGED <<blockedIn, value>>,
         \A l \in Lock : l # o => isLocked'[l] = isLocked[l]
  PROVE  NoLost'
<1>1. o \in Object
  BY DEF Object
<1>2. \A p \in Object : p # o =>
        (AsleepIn(p)' <=> AsleepIn(p)) /\ AwakeIn(p)' = AwakeIn(p)
  BY <1>1, WakeFirstAwake
<1>3. AsleepIn(o)' => AwakeIn(o)' # {}
  BY <1>1, WakeFirstAwake
<1> QED
  BY <1>2, <1>3, SynchAssumption DEF NoLost, Object

LEMMA WaitNoLost ==
  ASSUME Inv, NoLost, NEW t \in Thread, NEW c \in Condition, Wait(t, c)
  PROVE  NoLost'
<1> DEFINE l == LockOf[c]
           f == First(queue[l])
           s1 == Wake(sched, queue[l])
<1>1. l \in Lock /\ l \in Object /\ c \notin Lock \cup Semaphore /\ NoObject \notin Object
  BY SynchAssumption DEF Object
<1>2. /\ t = sched.current /\ sched.status[sched.current] = "RUNNING"
      /\ blockedIn[t] = NoObject
      /\ isLocked' = [isLocked EXCEPT ![l] = FALSE]
      /\ blockedIn' = [blockedIn EXCEPT ![t] = c]
      /\ sched' = Sleep(s1)
      /\ UNCHANGED value
  BY DEF Wait, InClient, Running, Unlock
<1>3. /\ Consistent(s1)
      /\ s1.current = t /\ s1.status[s1.current] = "RUNNING"
      /\ \A u \in Thread : Blocked(s1, u) <=>
            Blocked(sched, u) /\ (IsEmpty(queue[l]) \/ u # f)
      /\ ~IsEmpty(queue[l]) => f \in Thread /\ Blocked(sched, f) /\ blockedIn[f] = l
  <2>1. /\ Consistent(s1)
        /\ s1.current = sched.current
        /\ sched.status[sched.current] = "RUNNING" => s1.status[sched.current] = "RUNNING"
    BY <1>1, WakeHere DEF WakeEffect
  <2>2. \A u \in Thread : Blocked(s1, u) <=>
          Blocked(sched, u) /\ (IsEmpty(queue[l]) \/ u # f)
    BY <1>1, WakeHere DEF WakeEffect
  <2>3. ~IsEmpty(queue[l]) => f \in Thread /\ Blocked(sched, f) /\ blockedIn[f] = l
    BY <1>1, WakeHere DEF WakeEffect
  <2> QED
    BY <1>2, <2>1, <2>2, <2>3
<1> HIDE DEF l, f, s1
<1>4. \A u \in Thread : Blocked(sched', u) <=> Blocked(s1, u) \/ u = t
  BY <1>2, <1>3, SleepConsistent
<1>5. /\ blockedIn'[t] = c
      /\ \A u \in Thread : u # t => blockedIn'[u] = blockedIn[u]
  BY <1>2, InvTypes
<1>6. ~Blocked(sched, t)
  BY <1>2 DEF Blocked
<1>7. \A p \in Lock \cup Semaphore : p # l =>
        (AsleepIn(p)' <=> AsleepIn(p)) /\ AwakeIn(p)' = AwakeIn(p)
  <2> SUFFICES ASSUME NEW p \in Lock \cup Semaphore, p # l
               PROVE  (AsleepIn(p)' <=> AsleepIn(p)) /\ AwakeIn(p)' = AwakeIn(p)
    OBVIOUS
  <2>1. blockedIn[t] # p /\ blockedIn'[t] # p
    BY <1>1, <1>2, <1>5 DEF Object
  <2>2. \A u \in Thread : /\ blockedIn'[u] = p <=> blockedIn[u] = p
                          /\ blockedIn[u] = p => (Blocked(sched', u) <=> Blocked(sched, u))
    BY <1>3, <1>4, <1>5, <2>1
  <2>3. AsleepIn(p)' <=> AsleepIn(p)
    BY <2>2 DEF AsleepIn
  <2>4. AwakeIn(p)' = AwakeIn(p)
    BY <2>2 DEF AwakeIn
  <2> QED
    BY <2>3, <2>4
<1>8. AsleepIn(l)' => AwakeIn(l)' # {}
  <2> HAVE AsleepIn(l)'
  <2>1. PICK u \in Thread : blockedIn'[u] = l /\ Blocked(sched', u)
    BY DEF AsleepIn
  <2>2. u # t /\ blockedIn[u] = l /\ Blocked(sched, u)
    BY <1>1, <1>3, <1>4, <1>5, <2>1
  <2>3. ~IsEmpty(queue[l])
    BY <1>1, <2>2, QueueAsleep DEF AsleepIn
  <2>4. f \in Thread /\ f # t /\ blockedIn'[f] = l /\ ~Blocked(sched', f)
    BY <1>3, <1>4, <1>5, <1>6, <2>3
  <2> QED
    BY <2>4 DEF AwakeIn
<1>9. \A p \in Lock : p # l => isLocked'[p] = isLocked[p]
  BY <1>2, ObjectTypes
<1> QED
  BY <1>1, <1>2, <1>7, <1>8, <1>9, SynchAssumption DEF NoLost

LEMMA NextNoLost == Inv /\ NoLost /\ [Next]_vars => NoLost'
<1> SUFFICES ASSUME Inv, NoLost, [Next]_vars PROVE NoLost'
  OBVIOUS
<1>1. ASSUME NEW t \in Thread, NEW s \in Semaphore, P(t, s) PROVE NoLost'
  BY <1>1, PLoopNoLost DEF P, InClient
<1>2. ASSUME NEW t \in Thread, NEW s \in Semaphore, V(t, s) PROVE NoLost'
  BY <1>2, VBodyNoLost DEF V
<1>3. ASSUME NEW t \in Thread, NEW l \in Lock, Acquire(t, l) PROVE NoLost'
  BY <1>3, AcquireLoopNoLost DEF Acquire, InClient
<1>4. ASSUME NEW t \in Thread, NEW l \in Lock, Release(t, l) PROVE NoLost'
  <2>1. WakeFirst(l) /\ Unlock(t, l) /\ UNCHANGED <<blockedIn, value>>
    BY <1>4 DEF Release
  <2>2. \A k \in Lock : k # l => isLocked'[k] = isLocked[k]
    BY <2>1, ObjectTypes DEF Unlock
  <2> QED
    BY <2>1, <2>2, WakeNoLost
<1>5. ASSUME NEW t \in Thread, NEW c \in Condition, Wait(t, c) PROVE NoLost'
  BY <1>5, WaitNoLost
<1>6. ASSUME NEW t \in Thread, NEW c \in Condition, Signal(t, c) PROVE NoLost'
  <2>1. WakeFirst(c) /\ UNCHANGED <<blockedIn, value, isLocked>>
    BY <1>6 DEF Signal, objects
  <2> QED
    BY <2>1, WakeNoLost
<1>7. ASSUME NEW c \in Condition, BroadcastLoop(c) PROVE NoLost'
  <2>1. WakeFirst(c) /\ UNCHANGED <<blockedIn, value, isLocked>>
    BY <1>7 DEF BroadcastLoop, objects
  <2> QED
    BY <2>1, WakeNoLost
<1>8. ASSUME NEW t \in Thread, Resume(t) PROVE NoLost'
  <2>1. CASE \E s \in Semaphore : blockedIn[t] = s /\ PLoop(t, s)
    BY <1>8, <2>1, PLoopNoLost DEF Resume
  <2>2. CASE \E l \in Lock : blockedIn[t] = l /\ AcquireLoop(t, l)
    BY <1>8, <2>2, AcquireLoopNoLost DEF Resume
  <2>3. CASE \E c \in Condition : blockedIn[t] = c /\ AcquireLoop(t, LockOf[c])
    BY <1>8, <2>3, AcquireLoopNoLost, SynchAssumption DEF Resume
  <2> QED
    BY <1>8, <2>1, <2>2, <2>3 DEF Resume
<1>9. ASSUME NEW t \in Thread, YieldCPU(t) PROVE NoLost'
  <2>1. /\ sched.status[sched.current] = "RUNNING"
        /\ sched' = Yield(sched)
        /\ UNCHANGED <<blockedIn, objects>>
    BY <1>9 DEF YieldCPU, InClient, Running
  <2>2. \A u \in Thread : Blocked(sched', u) <=> Blocked(sched, u)
    BY <2>1, InvTypes, YieldConsistent
  <2> QED
    BY <2>1, <2>2, QuietNoLost
<1>10. ASSUME NEW t \in Thread, NEW u \in Thread, NEW p \in Priority, SetPriority(t, u, p)
       PROVE  NoLost'
  <2>1. sched'.status = sched.status /\ UNCHANGED <<blockedIn, objects>>
    BY <1>10, InvTypes DEF SetPriority, SchedulerState
  <2> QED
    BY <2>1, QuietNoLost DEF Blocked
<1>11. ASSUME NEW s \in Semaphore, DeviceInterrupt(s) PROVE NoLost'
  BY <1>11, VBodyNoLost DEF DeviceInterrupt
<1>12. ASSUME LeaveIdle PROVE NoLost'
  <2>1. /\ sched.status[sched.current] # "RUNNING"
        /\ ~IsEmpty(sched.ready)
        /\ sched' = Dispatch(sched)
        /\ UNCHANGED <<blockedIn, objects>>
    BY <1>12 DEF LeaveIdle, Idle, Idling
  <2>2. /\ First(sched.ready) \in Thread
        /\ sched.status[First(sched.ready)] = "READY"
        /\ sched'.status = [sched.status EXCEPT ![First(sched.ready)] = "RUNNING"]
    BY <2>1, InvTypes, DispatchConsistent
  <2>3. \A u \in Thread : Blocked(sched', u) <=> Blocked(sched, u)
    BY <2>2, InvTypes DEF Blocked, SchedulerState
  <2> QED
    BY <2>1, <2>3, QuietNoLost
<1>13. ASSUME UNCHANGED <<sched, objects, blockedIn>> PROVE NoLost'
  BY <1>13, QuietNoLost
<1>14. ASSUME NEW t \in Thread, Schedule(t) PROVE NoLost'
  BY <1>13, <1>14 DEF Schedule
<1>15. ASSUME NEW t \in Thread, NEW c \in Condition, Broadcast(t, c) PROVE NoLost'
  BY <1>13, <1>15 DEF Broadcast
<1>16. ASSUME UNCHANGED vars PROVE NoLost'
  BY <1>13, <1>16 DEF vars
<1> QED
  BY <1>1, <1>2, <1>3, <1>4, <1>5, <1>6, <1>7, <1>8, <1>9, <1>10, <1>11, <1>12,
     <1>14, <1>15, <1>16 DEF Next

\* No thread stays asleep beside a free lock or an untaken unit of a semaphore
\* unless another has been woken to take it.
THEOREM NoLostWakeups == Spec => []NoLostWakeup
<1>1. Init => NoLost
  <2> SUFFICES ASSUME Init PROVE NoLost
    OBVIOUS
  <2>1. blockedIn = [t \in Thread |-> NoObject]
    BY DEF Init, InitSynch
  <2>2. \A o \in Object : ~AsleepIn(o)
    BY <2>1, SynchAssumption DEF AsleepIn
  <2> QED
    BY <2>2 DEF NoLost, Object
<1>2. Inv /\ NoLost => NoLostWakeup
  BY NoLostMeaning
<1> QED
  BY <1>1, <1>2, InvAlways, NextNoLost, PTL DEF Spec
-----------------------------------------------------------------------------
(***************************************************************************)
(* The order of the wait queues.                                           *)
(***************************************************************************)
SortedQueues == \A o \in Object : SortedByKey(queue[o])

\* What one step may do to one queue.
QueueStep(o) ==
  \/ queue'[o] = queue[o]
  \/ queue'[o] = Rest(queue[o])
  \/ \E t \in Thread, k \in Int :
       t \notin Items(queue[o]) /\ queue'[o] = SortedInsert(queue[o], t, k)

\* What WakeupOrder says of one step and one queue.
Ordered(old, new) ==
  /\ SortedByKey(new)
  /\ \A t, u \in Thread : Before(old, t, u) /\ t \in Items(new) => Before(new, t, u)
  /\ \A i, j \in DOMAIN new :
       i < j /\ new[i].item \notin Items(old) /\ new[j].item \in Items(old)
       => new[i].key < new[j].key

LEMMA SameOrdered ==
  ASSUME NEW list \in Seq(Element(Thread)), SortedByKey(list)
  PROVE  Ordered(list, list)
<1>1. \A i \in DOMAIN list : list[i].item \in Items(list)
  BY DEF Items
<1> QED
  BY <1>1 DEF Ordered

LEMMA InsertOrdered ==
  ASSUME NEW list \in Seq(Element(Thread)), NEW t \in Thread, NEW k \in Int,
         SortedByKey(list)
  PROVE  Ordered(list, SortedInsert(list, t, k))
<1> DEFINE new == SortedInsert(list, t, k)
<1>1. SortedByKey(new)
  BY SortedInsertSorted
<1>2. ASSUME NEW u \in Thread, NEW v \in Thread, Before(list, u, v)
      PROVE  Before(new, u, v)
  <2>1. PICK i \in DOMAIN list, j \in DOMAIN list :
          i < j /\ list[i].item = u /\ list[j].item = v
    BY <1>2 DEF Before
  <2> DEFINE a == Shifted(list, k, i)
             b == Shifted(list, k, j)
  <2>2. a \in DOMAIN new /\ b \in DOMAIN new /\ a < b /\ new[a] = list[i] /\ new[b] = list[j]
    BY <2>1, SortedInsertOrder
  <2> HIDE DEF a, b
  <2> HIDE DEF new
  <2> QED
    BY <2>1, <2>2 DEF Before
<1>3. ASSUME NEW i \in DOMAIN new, NEW j \in DOMAIN new, i < j,
             new[i].item \notin Items(list)
      PROVE  new[i].key < new[j].key
  BY <1>3, SortedInsertNewcomer
<1> HIDE DEF new
<1>4. Ordered(list, new)
  BY <1>1, <1>2, <1>3 DEF Ordered
<1> QED
  BY <1>4 DEF new

LEMMA RemoveOrdered ==
  ASSUME NEW list \in Seq(Element(Thread)), SortedByKey(list), NoDuplicates(list),
         ~IsEmpty(list)
  PROVE  Ordered(list, Rest(list))
<1>1. SortedByKey(Rest(list))
  BY RemoveSorted
<1>2. /\ Rest(list) \in Seq(Element(Thread))
      /\ Len(Rest(list)) = Len(list) - 1
      /\ \A i \in 1..Len(list) - 1 : Rest(list)[i] = list[i + 1]
      /\ list[1].item = First(list)
  BY RemoveProperty
<1>3. Items(Rest(list)) = Items(list) \ {First(list)}
  BY RemoveItems
<1>4. Len(list) \in Nat /\ DOMAIN list = 1..Len(list)
  BY LenProperties
<1>5. DOMAIN Rest(list) = 1..Len(list) - 1
  BY <1>2, LenProperties
<1>6. ASSUME NEW t \in Thread, NEW u \in Thread, Before(list, t, u), t \in Items(Rest(list))
      PROVE  Before(Rest(list), t, u)
  <2>1. PICK i \in 1..Len(list), j \in 1..Len(list) :
          i < j /\ list[i].item = t /\ list[j].item = u
    BY <1>4, <1>6 DEF Before
  <2>2. i # 1
    BY <1>2, <1>3, <1>6, <2>1
  <2>3. /\ i - 1 \in 1..Len(list) - 1 /\ j - 1 \in 1..Len(list) - 1 /\ i - 1 < j - 1
        /\ (i - 1) + 1 = i /\ (j - 1) + 1 = j
    BY <1>4, <2>1, <2>2
  <2>4. Rest(list)[i - 1] = list[i] /\ Rest(list)[j - 1] = list[j]
    BY <1>2, <2>3
  <2> QED
    BY <1>5, <2>1, <2>3, <2>4 DEF Before
<1>7. \A i \in DOMAIN Rest(list) : Rest(list)[i].item \in Items(list)
  <2> TAKE i \in DOMAIN Rest(list)
  <2>1. Rest(list)[i].item \in Items(Rest(list))
    BY DEF Items
  <2> QED
    BY <1>3, <2>1
<1> QED
  BY <1>1, <1>6, <1>7 DEF Ordered

LEMMA NextQueueStep ==
  ASSUME Inv, [Next]_vars, NEW o \in Object
  PROVE  QueueStep(o)
<1> USE InvTypes DEF Queues
<1>1. ASSUME NEW p \in Object, WakeFirst(p) PROVE QueueStep(o)
  BY <1>1 DEF WakeFirst, QueueStep
<1>2. ASSUME NEW t \in Thread, NEW p \in Object, Running(t), SleepOn(t, p) PROVE QueueStep(o)
  <2>1. t \notin Items(queue[o]) /\ sched.key[t] \in Int
    BY <1>2 DEF Running, Placed, Blocked, SchedulerState
  <2>2. queue'[o] = queue[o] \/ queue'[o] = SortedInsert(queue[o], t, sched.key[t])
    BY <1>2 DEF SleepOn
  <2> QED
    BY <2>1, <2>2 DEF QueueStep
<1>3. ASSUME UNCHANGED queue PROVE QueueStep(o)
  BY <1>3 DEF QueueStep
<1>4. ASSUME NEW t \in Thread, NEW s \in Semaphore, Running(t), PLoop(t, s) PROVE QueueStep(o)
  BY <1>2, <1>3, <1>4 DEF PLoop, Object
<1>5. ASSUME NEW t \in Thread, NEW l \in Lock, Running(t), AcquireLoop(t, l) PROVE QueueStep(o)
  BY <1>2, <1>3, <1>5 DEF AcquireLoop, Object
<1>6. ASSUME NEW t \in Thread, NEW s \in Semaphore, P(t, s) \/ V(t, s) PROVE QueueStep(o)
  BY <1>1, <1>4, <1>6 DEF P, V, VBody, InClient, Object
<1>7. ASSUME NEW t \in Thread, NEW l \in Lock, Acquire(t, l) \/ Release(t, l) PROVE QueueStep(o)
  BY <1>1, <1>5, <1>7 DEF Acquire, Release, InClient, Object
<1>8. ASSUME NEW t \in Thread, NEW c \in Condition, Signal(t, c) \/ Broadcast(t, c)
      PROVE  QueueStep(o)
  BY <1>1, <1>3, <1>8 DEF Signal, Broadcast, Object
<1>9. ASSUME NEW c \in Condition, BroadcastLoop(c) PROVE QueueStep(o)
  BY <1>1, <1>9 DEF BroadcastLoop, Object
<1>10. ASSUME NEW t \in Thread, NEW c \in Condition, Wait(t, c) PROVE QueueStep(o)
  <2>1. LockOf[c] # c
    BY SynchAssumption
  <2>2. t \notin Items(queue[o]) /\ sched.key[t] \in Int
    BY <1>10 DEF Wait, InClient, Running, Placed, Blocked, SchedulerState
  <2>3. \/ queue'[o] = queue[o]
        \/ queue'[o] = Rest(queue[o])
        \/ queue'[o] = SortedInsert(queue[o], t, sched.key[t])
    BY <1>10, <2>1 DEF Wait
  <2> QED
    BY <2>2, <2>3 DEF QueueStep
<1>11. ASSUME NEW t \in Thread, Resume(t) PROVE QueueStep(o)
  BY <1>4, <1>5, <1>11, SynchAssumption DEF Resume
<1>12. ASSUME NEW s \in Semaphore, DeviceInterrupt(s) PROVE QueueStep(o)
  BY <1>1, <1>12 DEF DeviceInterrupt, VBody, Object
<1> QED
  BY <1>3, <1>6, <1>7, <1>8, <1>9, <1>10, <1>11, <1>12
     DEF Next, YieldCPU, SetPriority, Schedule, LeaveIdle, vars

LEMMA NextOrdered ==
  ASSUME Inv, SortedQueues, [Next]_vars, NEW o \in Object
  PROVE  Ordered(queue[o], queue'[o])
<1>1. queue[o] \in Seq(Element(Thread)) /\ NoDuplicates(queue[o]) /\ SortedByKey(queue[o])
  BY InvTypes DEF Queues, Placed, SortedQueues
<1>2. QueueStep(o)
  BY NextQueueStep
<1>3. CASE queue'[o] = queue[o]
  BY <1>1, <1>3, SameOrdered
<1>4. CASE queue'[o] = Rest(queue[o])
  <2>1. CASE IsEmpty(queue[o])
    BY <1>1, <1>4, <2>1, SameOrdered DEF Rest
  <2>2. CASE ~IsEmpty(queue[o])
    BY <1>1, <1>4, <2>2, RemoveOrdered
  <2> QED
    BY <2>1, <2>2
<1>5. CASE \E t \in Thread, k \in Int : queue'[o] = SortedInsert(queue[o], t, k)
  BY <1>1, <1>5, InsertOrdered
<1> QED
  BY <1>2, <1>3, <1>4, <1>5 DEF QueueStep

\* Wait queues are served by priority, first come first served within one.
THEOREM WakeupOrderHolds == Spec => WakeupOrder
<1>1. Init => SortedQueues
  BY DEF Init, InitSynch, SortedQueues, SortedByKey
<1>2. Inv /\ SortedQueues /\ [Next]_vars => SortedQueues'
  BY NextOrdered DEF Ordered, SortedQueues
<1>3. Inv /\ SortedQueues /\ [Next]_vars =>
        [\A o \in Object :
           /\ SortedByKey(queue'[o])
           /\ \A t, u \in Thread :
                Before(queue[o], t, u) /\ t \in Items(queue'[o]) =>
                  Before(queue'[o], t, u)
           /\ \A i, j \in DOMAIN queue'[o] :
                /\ i < j
                /\ queue'[o][i].item \notin Items(queue[o])
                /\ queue'[o][j].item \in Items(queue[o])
                => queue'[o][i].key < queue'[o][j].key]_vars
  BY NextOrdered DEF Ordered
<1> QED
  BY <1>1, <1>2, <1>3, InvAlways, PTL DEF Spec, WakeupOrder
=============================================================================
