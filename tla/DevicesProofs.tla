--------------------------- MODULE DevicesProofs ---------------------------
(***************************************************************************)
(* Proofs about the interrupt machinery and the console, for any devices,  *)
(* delays, texts and sizes of the disk: interrupts come once each and in   *)
(* order, the machine halts only when nothing is left to come, and         *)
(* ConsoleTest echoes what is typed.                                       *)
(***************************************************************************)
EXTENDS Devices, ListProofs, FiniteSetTheorems

\* The elements of new are the element of x and elements of list.
ElementsFrom(new, list, x, k) ==
  \A i \in DOMAIN new : \/ new[i] = ListElement(x, k)
                        \/ \E j \in DOMAIN list : new[i] = list[j]

LEMMA InsertElementsFrom ==
  ASSUME NEW S, NEW list \in Seq(Element(S)), NEW x \in S, NEW k \in Int
  PROVE  ElementsFrom(SortedInsert(list, x, k), list, x, k)
<1> DEFINE p == InsertPosition(list, k)
           new == SortedInsert(list, x, k)
<1>1. Len(list) \in Nat /\ DOMAIN list = 1..Len(list)
  BY LenProperties
<1>2. p \in 1..Len(list) + 1
  BY InsertPositionProperty
<1>3. InsertedAt(S, list, x, k, p, new)
  BY SortedInsertElements
<1> HIDE DEF p, new
<1>4. DOMAIN new = 1..Len(list) + 1
  BY <1>3, LenProperties DEF InsertedAt
<1>5. ASSUME NEW i \in 1..Len(list) + 1
      PROVE  new[i] = ListElement(x, k) \/ \E j \in 1..Len(list) : new[i] = list[j]
  <2>1. CASE i < p
    <3>1. i \in 1..p - 1 /\ i \in 1..Len(list)
      BY <1>1, <1>2, <2>1
    <3> QED
      BY <1>3, <3>1 DEF InsertedAt
  <2>2. CASE i = p
    BY <1>3, <2>2 DEF InsertedAt
  <2>3. CASE i > p
    <3>1. i \in p + 1..Len(list) + 1 /\ i - 1 \in 1..Len(list)
      BY <1>1, <1>2, <2>3
    <3> QED
      BY <1>3, <3>1 DEF InsertedAt
  <2> QED
    BY <1>2, <2>1, <2>2, <2>3
<1> QED
  BY <1>1, <1>4, <1>5 DEF ElementsFrom, new

LEMMA RestElementsFrom ==
  ASSUME NEW S, NEW list \in Seq(Element(S)), ~IsEmpty(list)
  PROVE  /\ \A i \in DOMAIN Rest(list) : \E j \in DOMAIN list : Rest(list)[i] = list[j]
         /\ 1 \in DOMAIN list
         /\ Head(list) = list[1]
         /\ list[1] = ListElement(First(list), Head(list).key)
         /\ Head(list).key \in Int
<1>1. /\ Rest(list) \in Seq(Element(S))
      /\ Len(Rest(list)) = Len(list) - 1
      /\ \A i \in 1..Len(list) - 1 : Rest(list)[i] = list[i + 1]
  BY RemoveProperty
<1>2. Len(list) \in Nat /\ DOMAIN list = 1..Len(list) /\ Len(list) # 0
  BY LenProperties, EmptySeq DEF IsEmpty
<1>3. DOMAIN Rest(list) = 1..Len(list) - 1
  BY <1>1, LenProperties
<1>4. \A i \in 1..Len(list) - 1 : i + 1 \in 1..Len(list)
  BY <1>2
<1>5. 1 \in DOMAIN list /\ list[1] \in Element(S)
  BY <1>2, ElementOfSeq
<1>6. Head(list) = list[1]
  BY <1>2
<1>7. list[1] = ListElement(list[1].item, list[1].key) /\ list[1].key \in Int
  BY <1>5 DEF Element, ListElement
<1> QED
  BY <1>1, <1>2, <1>3, <1>4, <1>5, <1>6, <1>7 DEF First
-----------------------------------------------------------------------------
PendingOK(p) ==
  /\ p \in Seq(Element(Device))
  /\ SortedByKey(p)
  /\ NoDuplicates(p)

AllFrom(p, time) == \A i \in DOMAIN p : time <= p[i].key

\* In a sorted list nothing comes before the first element.
LEMMA FirstIsEarliest ==
  ASSUME NEW S, NEW list \in Seq(Element(S)), ~IsEmpty(list), SortedByKey(list)
  PROVE  AllFrom(list, Head(list).key)
<1>1. 1 \in DOMAIN list /\ Head(list) = list[1]
  BY RestElementsFrom
<1>2. DOMAIN list = 1..Len(list) /\ Len(list) \in Nat
  BY LenProperties
<1> QED
  BY <1>1, <1>2 DEF AllFrom, SortedByKey

\* What a device's request adds to a list of pending interrupts.
LEMMA InsertKeepsOrder ==
  ASSUME NEW list, PendingOK(list), NEW device \in Device, NEW k \in Int,
         device \notin Items(list)
  PROVE  /\ PendingOK(SortedInsert(list, device, k))
         /\ Items(SortedInsert(list, device, k)) = Items(list) \cup {device}
         /\ \A time \in Int : AllFrom(list, time) /\ time <= k =>
                                AllFrom(SortedInsert(list, device, k), time)
<1> DEFINE new == SortedInsert(list, device, k)
<1>1. list \in Seq(Element(Device)) /\ SortedByKey(list) /\ NoDuplicates(list)
  BY DEF PendingOK
<1>2. /\ new \in Seq(Element(Device))
      /\ Items(new) = Items(list) \cup {device}
      /\ NoDuplicates(new)
  <2>1. new \in Seq(Element(Device))
    BY <1>1, SortedInsertItems
  <2>2. Items(new) = Items(list) \cup {device}
    BY <1>1, SortedInsertItems
  <2>3. NoDuplicates(new)
    BY <1>1, SortedInsertItems
  <2> QED
    BY <2>1, <2>2, <2>3
<1>3. SortedByKey(new)
  BY <1>1, SortedInsertSorted
<1>4. ElementsFrom(new, list, device, k)
  BY <1>1, InsertElementsFrom
<1> HIDE DEF new
<1>5. ASSUME NEW time \in Int, AllFrom(list, time), time <= k
      PROVE  AllFrom(new, time)
  BY <1>4, <1>5 DEF AllFrom, ElementsFrom, ListElement
<1> QED
  BY <1>2, <1>3, <1>5 DEF new, PendingOK

\* What is left when the first interrupt is taken off.
LEMMA RestKeepsOrder ==
  ASSUME NEW list, PendingOK(list), ~IsEmpty(list)
  PROVE  /\ PendingOK(Rest(list))
         /\ Items(Rest(list)) = Items(list) \ {First(list)}
         /\ First(list) \in Device /\ First(list) \in Items(list)
         /\ Head(list).key \in Int
         /\ AllFrom(list, Head(list).key)
         /\ \A time \in Int : AllFrom(list, time) => AllFrom(Rest(list), time) /\ time <= Head(list).key
<1>1. list \in Seq(Element(Device)) /\ SortedByKey(list) /\ NoDuplicates(list)
  BY DEF PendingOK
<1>2. /\ Rest(list) \in Seq(Element(Device))
      /\ First(list) \in Device /\ First(list) \in Items(list)
  BY <1>1, RemoveProperty
<1>3. Items(Rest(list)) = Items(list) \ {First(list)} /\ NoDuplicates(Rest(list))
  BY <1>1, RemoveItems
<1>4. SortedByKey(Rest(list))
  BY <1>1, RemoveSorted
<1>5. /\ \A i \in DOMAIN Rest(list) : \E j \in DOMAIN list : Rest(list)[i] = list[j]
      /\ 1 \in DOMAIN list
      /\ Head(list) = list[1]
      /\ Head(list).key \in Int
  BY <1>1, RestElementsFrom
<1>6. AllFrom(list, Head(list).key)
  BY <1>1, FirstIsEarliest
<1>7. \A time \in Int : AllFrom(list, time) => AllFrom(Rest(list), time) /\ time <= Head(list).key
  BY <1>5 DEF AllFrom
<1> QED
  BY <1>2, <1>3, <1>4, <1>5, <1>6, <1>7 DEF PendingOK

\* CheckIfDue puts back what it took: the interrupts are the same.
LEMMA PutBackKeeps ==
  ASSUME PendingOK(pending), ~IsEmpty(pending)
  PROVE  /\ PendingOK(PutBack)
         /\ Items(PutBack) = Items(pending)
         /\ \A i \in DOMAIN PutBack : \E j \in DOMAIN pending : PutBack[i] = pending[j]
<1> DEFINE rest == Rest(pending)
           device == First(pending)
           k == Head(pending).key
<1>1. /\ PendingOK(rest)
      /\ Items(rest) = Items(pending) \ {device}
      /\ device \in Device /\ device \in Items(pending)
      /\ k \in Int
  BY RestKeepsOrder
<1>2. pending \in Seq(Element(Device)) /\ rest \in Seq(Element(Device))
  BY <1>1 DEF PendingOK
<1>3. /\ \A i \in DOMAIN rest : \E j \in DOMAIN pending : rest[i] = pending[j]
      /\ 1 \in DOMAIN pending
      /\ pending[1] = ListElement(device, k)
  BY <1>2, RestElementsFrom
<1>4. PutBack = SortedInsert(rest, device, k)
  BY DEF PutBack, DueTime
<1> HIDE DEF rest, device, k
<1>5. PendingOK(PutBack) /\ Items(PutBack) = Items(rest) \cup {device}
  BY <1>1, <1>4, InsertKeepsOrder
<1>6. ElementsFrom(PutBack, rest, device, k)
  BY <1>1, <1>2, <1>4, InsertElementsFrom
<1>7. Items(PutBack) = Items(pending)
  BY <1>1, <1>5
<1>8. \A i \in DOMAIN PutBack : \E j \in DOMAIN pending : PutBack[i] = pending[j]
  BY <1>3, <1>6 DEF ElementsFrom
<1> QED
  BY <1>5, <1>7, <1>8
-----------------------------------------------------------------------------
\* With code running nothing is overdue, except the timer when Idle left it.
NoneOverdue(p, now, lvl) ==
  \A i \in DOMAIN p : p[i].key > now \/ (lvl = "IntOff" /\ p[i].item = Timer)

\* The inductive invariant of the interrupt machinery.  That the list is sorted
\* and holds nothing older than the last handler makes handlers run in order.
IntInv ==
  /\ totalTicks \in Int /\ lastFired \in Int
  /\ PendingOK(pending)
  /\ polling \subseteq Items(pending) /\ polling \subseteq {Timer} \cup Poller
  /\ lastFired <= totalTicks
  /\ AllFrom(pending, lastFired)
  /\ phase = "Idle" => level = "IntOff"
  /\ phase = "run" => NoneOverdue(pending, totalTicks, level)
  /\ phase = "halted" => Items(pending) \subseteq {Timer}
  /\ phase = "run" => ~yieldOnReturn

LEMMA DelaysPositive ==
  ASSUME NEW device \in DOMAIN Delay, NEW d \in Delay[device]
  PROVE  d \in Int /\ d > 0
BY InterruptAssumption

LEMMA IntInitially == IntInit => IntInv
<1> SUFFICES ASSUME IntInit PROVE IntInv
  OBVIOUS
<1> DEFINE K == UNION {Delay[d] : d \in polling}
<1>1. IsFiniteSet({Timer} \cup Poller)
  BY InterruptAssumption, FS_AddElement
<1>2. polling \subseteq {Timer} \cup Poller
  BY DEF IntInit
<1>3. Cardinality(polling) \in Nat
  BY <1>1, <1>2, FS_Subset, FS_CardinalityType
<1>4. /\ pending \in [1..Cardinality(polling) -> [item : polling, key : K]]
      /\ SortedByKey(pending) /\ NoDuplicates(pending) /\ Items(pending) = polling
      /\ \A i \in DOMAIN pending : pending[i].key \in Delay[pending[i].item]
  BY DEF IntInit
<1>5. K \subseteq Int
  BY <1>2, InterruptAssumption
<1> HIDE DEF K
<1>6. [item : polling, key : K] \subseteq Element(Device)
  BY <1>2, <1>5 DEF Element, Device
<1>7. pending \in [1..Cardinality(polling) -> Element(Device)]
  BY <1>4, <1>6
<1>8. PendingOK(pending)
  BY <1>3, <1>4, <1>7 DEF PendingOK
<1>9. \A i \in DOMAIN pending : pending[i].key \in Int /\ pending[i].key > 0
  <2> TAKE i \in DOMAIN pending
  <2>1. pending[i].item \in polling
    BY <1>4
  <2>2. pending[i].item \in DOMAIN Delay
    BY <1>2, <2>1, InterruptAssumption
  <2> QED
    BY <1>4, <2>2, DelaysPositive
<1>10. /\ totalTicks = 0 /\ lastFired = 0
       /\ phase = "run" /\ yieldOnReturn = FALSE
  BY DEF IntInit
<1>11. AllFrom(pending, lastFired) /\ NoneOverdue(pending, totalTicks, level)
  BY <1>9, <1>10 DEF AllFrom, NoneOverdue
<1> QED
  BY <1>2, <1>4, <1>8, <1>10, <1>11 DEF IntInv

\* A request that takes time comes due in order.
LEMMA ScheduleKeeps ==
  ASSUME IntInv, NEW device \in OneShot, NEW fromNow \in Int, fromNow > 0,
         Schedule(device, fromNow), polling' = polling
  PROVE  IntInv' /\ Items(pending') = Items(pending) \cup {device} /\ lastFired' = lastFired
<1> DEFINE k == totalTicks + fromNow
           new == SortedInsert(pending, device, k)
<1>1. /\ totalTicks \in Int /\ lastFired \in Int
      /\ PendingOK(pending)
      /\ polling \subseteq Items(pending) /\ polling \subseteq {Timer} \cup Poller
      /\ lastFired <= totalTicks
      /\ AllFrom(pending, lastFired)
      /\ NoneOverdue(pending, totalTicks, level)
      /\ ~yieldOnReturn
  BY DEF IntInv, Schedule
<1>2. /\ device \notin Items(pending)
      /\ pending' = new
      /\ phase = "run"
      /\ UNCHANGED <<totalTicks, level, status, yieldOnReturn, phase, lastFired>>
  BY DEF Schedule, Scheduled
<1>3. k \in Int /\ k > totalTicks /\ lastFired <= k
  BY <1>1
<1>4. device \in Device
  BY DEF Device
<1> HIDE DEF k
<1>5. /\ PendingOK(new)
      /\ Items(new) = Items(pending) \cup {device}
      /\ AllFrom(new, lastFired)
  BY <1>1, <1>2, <1>3, <1>4, InsertKeepsOrder
<1>6. ElementsFrom(new, pending, device, k)
  BY <1>1, <1>3, <1>4, InsertElementsFrom DEF PendingOK
<1> HIDE DEF new
<1>7. NoneOverdue(new, totalTicks, level)
  BY <1>1, <1>3, <1>6 DEF NoneOverdue, ElementsFrom, ListElement
<1>8. AllFrom(pending', lastFired') /\ NoneOverdue(pending', totalTicks', level')
  BY <1>2, <1>5, <1>7
<1> QED
  BY <1>1, <1>2, <1>5, <1>8 DEF IntInv

\* A handler runs: it takes its interrupt off, may ask for the next one, and
\* comes no earlier than the handlers before it.
LEMMA FireKeeps ==
  ASSUME IntInv, ~IsEmpty(pending), NEW now \in Int, DueTime <= now, totalTicks <= now,
         Fire(now), totalTicks' = now, polling' = polling,
         phase' \in {"OneTick", "Idle"}, phase' = "Idle" => level' = "IntOff"
  PROVE  /\ IntInv'
         /\ lastFired <= lastFired'
         /\ First(pending) \in Items(pending)
         /\ Items(pending') = IF First(pending) \in OneShot
                              THEN Items(pending) \ {First(pending)} ELSE Items(pending)
<1> DEFINE rest == Rest(pending)
           device == First(pending)
<1>1. /\ totalTicks \in Int /\ lastFired \in Int
      /\ PendingOK(pending)
      /\ polling \subseteq Items(pending) /\ polling \subseteq {Timer} \cup Poller
      /\ AllFrom(pending, lastFired)
  BY DEF IntInv
<1>2. /\ PendingOK(rest)
      /\ Items(rest) = Items(pending) \ {device}
      /\ device \in Device /\ device \in Items(pending)
      /\ DueTime \in Int
      /\ AllFrom(rest, DueTime)
      /\ lastFired <= DueTime
  <2>1. /\ PendingOK(rest)
        /\ Items(rest) = Items(pending) \ {device}
        /\ device \in Device /\ device \in Items(pending)
        /\ DueTime \in Int
        /\ AllFrom(pending, DueTime)
    BY <1>1, RestKeepsOrder DEF DueTime
  <2>2. \A time \in Int : AllFrom(pending, time) => AllFrom(rest, time) /\ time <= DueTime
    BY <1>1, RestKeepsOrder DEF DueTime
  <2> QED
    BY <1>1, <2>1, <2>2
<1>3. lastFired' = DueTime
  BY DEF Fire
<1> HIDE DEF rest, device
<1>4. /\ PendingOK(pending')
      /\ Items(pending') = IF device \in OneShot THEN Items(pending) \ {device} ELSE Items(pending)
      /\ AllFrom(pending', DueTime)
  <2>1. CASE device \in OneShot
    <3>1. pending' = rest
      BY <2>1, InterruptAssumption DEF Fire, RequestDone, TimerExpired, Poll, rest, device
    <3> QED
      BY <1>2, <2>1, <3>1
  <2>2. CASE device \notin OneShot
    <3>1. \E d \in Delay[device] : pending' = SortedInsert(rest, device, now + d)
      BY <2>2 DEF Fire, TimerExpired, Poll, Scheduled, rest, device
    <3>2. PICK d \in Delay[device] : pending' = SortedInsert(rest, device, now + d)
      BY <3>1
    <3>3. device \in DOMAIN Delay
      BY <1>2, <2>2, InterruptAssumption DEF Device
    <3>4. d \in Int /\ d > 0
      BY <3>3, DelaysPositive
    <3> DEFINE k == now + d
    <3>5. k \in Int /\ DueTime <= k
      BY <1>2, <3>4
    <3>6. device \notin Items(rest)
      BY <1>2
    <3>7. pending' = SortedInsert(rest, device, k)
      BY <3>2
    <3> HIDE DEF k
    <3>8. /\ PendingOK(SortedInsert(rest, device, k))
          /\ Items(SortedInsert(rest, device, k)) = Items(rest) \cup {device}
          /\ AllFrom(SortedInsert(rest, device, k), DueTime)
      BY <1>2, <3>5, <3>6, InsertKeepsOrder
    <3> QED
      BY <1>2, <2>2, <3>7, <3>8
  <2> QED
    BY <2>1, <2>2
<1>5. polling \subseteq Items(pending')
  BY <1>1, <1>4, InterruptAssumption
<1>6. phase' # "run" /\ phase' # "halted"
  OBVIOUS
<1> QED
  BY <1>1, <1>2, <1>3, <1>4, <1>5, <1>6 DEF IntInv, device

\* Deliver and Idle run a handler.
LEMMA DeliverFires ==
  ASSUME IntInv, Deliver \/ Idle, polling' = polling
  PROVE  /\ IntInv'
         /\ lastFired <= lastFired'
         /\ First(pending) \in Items(pending)
         /\ Items(pending') = IF First(pending) \in OneShot
                              THEN Items(pending) \ {First(pending)} ELSE Items(pending)
<1>1. totalTicks \in Int /\ (phase = "Idle" => level = "IntOff")
  BY DEF IntInv
<1>2. CASE Deliver
  <2>1. /\ ~IsEmpty(pending) /\ DueTime <= totalTicks
        /\ Fire(totalTicks)
        /\ totalTicks' = totalTicks
        /\ phase' \in {"OneTick", "Idle"} /\ (phase' = "Idle" => level' = "IntOff")
    BY <1>1, <1>2 DEF Deliver, IsDue
  <2> QED
    BY <1>1, <2>1, FireKeeps
<1>3. CASE Idle
  <2>1. /\ ~IsEmpty(pending)
        /\ Fire(DueOrNow)
        /\ totalTicks' = DueOrNow
        /\ phase' \in {"OneTick", "Idle"} /\ (phase' = "Idle" => level' = "IntOff")
    BY <1>3 DEF Idle
  <2>2. DueTime \in Int
    BY <2>1, RestKeepsOrder DEF IntInv, DueTime
  <2>3. DueOrNow \in Int /\ DueTime <= DueOrNow /\ totalTicks <= DueOrNow
    BY <1>1, <2>2 DEF DueOrNow
  <2> QED
    BY <2>1, <2>3, FireKeeps
<1> QED
  BY <1>2, <1>3

\* The other steps leave the pending interrupts as they are, or put one back.
QuietStep ==
  \/ SetLevelOff \/ SetLevelOn
  \/ \E s \in MachineStatus : SetStatus(s)
  \/ UserInstruction \/ EndTick \/ EndIdle \/ Halt

LEMMA QuietKeeps ==
  ASSUME IntInv, QuietStep, polling' = polling
  PROVE  IntInv' /\ Items(pending') = Items(pending) /\ lastFired' = lastFired
<1>1. /\ totalTicks \in Int /\ lastFired \in Int
      /\ PendingOK(pending)
      /\ polling \subseteq Items(pending) /\ polling \subseteq {Timer} \cup Poller
      /\ lastFired <= totalTicks
      /\ AllFrom(pending, lastFired)
      /\ phase = "Idle" => level = "IntOff"
      /\ phase = "run" => NoneOverdue(pending, totalTicks, level)
      /\ phase = "run" => ~yieldOnReturn
  BY DEF IntInv
<1>2. CASE SetLevelOff \/ \E s \in MachineStatus : SetStatus(s)
  <2>1. /\ UNCHANGED <<totalTicks, pending, yieldOnReturn, phase, lastFired>>
        /\ phase = "run" /\ level = "IntOn"
    BY <1>2 DEF SetLevelOff, SetStatus
  <2>2. NoneOverdue(pending, totalTicks, level')
    BY <1>1, <2>1 DEF NoneOverdue
  <2> QED
    BY <1>1, <2>1, <2>2 DEF IntInv
<1>3. CASE SetLevelOn \/ UserInstruction
  <2>1. \E ticks \in {UserTick, SystemTick} : StartTick(ticks)
    BY <1>3 DEF SetLevelOn, UserInstruction
  <2>2. /\ totalTicks' \in Int /\ lastFired <= totalTicks'
        /\ UNCHANGED <<pending, lastFired>> /\ phase' = "OneTick"
    BY <1>1, <2>1, InterruptAssumption DEF StartTick
  <2> QED
    BY <1>1, <2>2 DEF IntInv
<1>4. CASE EndTick \/ EndIdle
  <2>1. /\ pending' = IF IsEmpty(pending) THEN pending ELSE PutBack
        /\ UNCHANGED <<totalTicks, lastFired>>
        /\ phase' = "run" /\ yieldOnReturn' = FALSE
        /\ ~IsDue \/ (OnlyTimerLeft /\ level' = "IntOff")
    BY <1>1, <1>4 DEF EndTick, EndIdle
  <2>2. /\ PendingOK(pending')
        /\ Items(pending') = Items(pending)
        /\ \A i \in DOMAIN pending' : \E j \in DOMAIN pending : pending'[i] = pending[j]
    BY <1>1, <2>1, PutBackKeeps
  <2>3. AllFrom(pending', lastFired)
    BY <1>1, <2>2 DEF AllFrom
  <2>4. NoneOverdue(pending, totalTicks, level')
    <3>1. CASE IsEmpty(pending)
      BY <3>1 DEF NoneOverdue, IsEmpty
    <3>2. CASE ~IsEmpty(pending) /\ ~IsDue
      <4>1. DueTime \in Int /\ AllFrom(pending, DueTime) /\ DueTime > totalTicks
        BY <1>1, <3>2, RestKeepsOrder DEF DueTime, IsDue
      <4>2. \A i \in DOMAIN pending : pending[i].key \in Int
        <5>1. \A i \in DOMAIN pending : pending[i] \in Element(Device)
          BY <1>1 DEF PendingOK
        <5> QED
          BY <5>1 DEF Element
      <4> QED
        BY <1>1, <4>1, <4>2 DEF AllFrom, NoneOverdue
    <3>3. CASE OnlyTimerLeft /\ level' = "IntOff"
      <4>1. Items(pending) \subseteq {Timer}
        <5>1. Items(Rest(pending)) = {}
          BY <3>3 DEF OnlyTimerLeft, IsEmpty, Items
        <5> QED
          BY <1>1, <3>3, <5>1, RestKeepsOrder DEF OnlyTimerLeft
      <4> QED
        BY <3>3, <4>1 DEF NoneOverdue, Items
    <3> QED
      BY <2>1, <3>1, <3>2, <3>3
  <2>5. NoneOverdue(pending', totalTicks, level')
    BY <2>2, <2>4 DEF NoneOverdue
  <2> QED
    BY <1>1, <2>1, <2>2, <2>3, <2>5 DEF IntInv
<1>5. CASE Halt
  <2>1. /\ UNCHANGED <<pending, lastFired>> /\ phase' = "halted"
        /\ IsEmpty(pending) \/ OnlyTimerLeft
        /\ totalTicks' = IF IsEmpty(pending) THEN totalTicks ELSE DueOrNow
    BY <1>5 DEF Halt
  <2>2. Items(pending) \subseteq {Timer}
    <3>1. CASE IsEmpty(pending)
      BY <3>1 DEF IsEmpty, Items
    <3>2. CASE OnlyTimerLeft
      <4>1. Items(Rest(pending)) = {}
        BY <3>2 DEF OnlyTimerLeft, IsEmpty, Items
      <4> QED
        BY <1>1, <3>2, <4>1, RestKeepsOrder DEF OnlyTimerLeft
    <3> QED
      BY <2>1, <3>1, <3>2
  <2>3. totalTicks' \in Int /\ lastFired <= totalTicks'
    <3>1. CASE IsEmpty(pending)
      BY <1>1, <2>1, <3>1
    <3>2. CASE ~IsEmpty(pending)
      <4>1. DueTime \in Int
        BY <1>1, <3>2, RestKeepsOrder DEF DueTime
      <4> QED
        BY <1>1, <2>1, <3>2, <4>1 DEF DueOrNow
    <3> QED
      BY <3>1, <3>2
  <2> QED
    BY <1>1, <2>1, <2>2, <2>3 DEF IntInv
<1> QED
  BY <1>2, <1>3, <1>4, <1>5 DEF QuietStep

\* Seeking and turning take no negative time.
LEMMA SeekAndRotation ==
  ASSUME lastSector \in Int, NEW sector \in DiskSector
  PROVE  /\ SeekTimeTo(sector) \in Nat
         /\ \A time \in Int : RotationAfter(time) \in Nat
         /\ \A to, from \in Int : ModuloDiff(to, from) \in Nat
<1>1. SectorsPerTrack \in Nat \ {0} /\ SeekTime \in Nat \ {0} /\ RotationTime \in Nat \ {0}
  BY DiskHeadAssumption
<1>2. \A n \in Nat \ {0} : \A x \in Int : x \div n \in Int /\ x % n \in Int /\ 0 <= x % n /\ x % n < n
  OBVIOUS
<1>3. \A x, y \in Nat : x * y \in Nat
  OBVIOUS
<1>4. SeekTimeTo(sector) \in Nat
  <2>1. Track(sector) \in Int /\ Track(lastSector) \in Int
    BY <1>1, <1>2 DEF Track, DiskSector
  <2> DEFINE tracks == Track(sector) - Track(lastSector)
  <2>2. (IF tracks < 0 THEN -tracks ELSE tracks) \in Nat
    BY <2>1
  <2> QED
    BY <1>1, <1>3, <2>2 DEF SeekTimeTo
<1>5. \A time \in Int : RotationAfter(time) \in Nat
  BY <1>1, <1>2 DEF RotationAfter
<1>6. \A to, from \in Int : ModuloDiff(to, from) \in Nat
  BY <1>1, <1>2 DEF ModuloDiff, Offset
<1> QED
  BY <1>4, <1>5, <1>6

\* A disk request takes at least the time of one sector.
LEMMA LatencyPositive ==
  ASSUME lastSector \in Int,
         NEW sector \in DiskSector, NEW writing \in BOOLEAN, NEW now \in Int
  PROVE  ComputeLatency(sector, writing, now) \in Int /\ ComputeLatency(sector, writing, now) > 0
<1> DEFINE seek == SeekTimeTo(sector)
           rotation == RotationAfter(now + seek)
           timeAfter == now + seek + rotation
           diff == ModuloDiff(sector, timeAfter \div RotationTime)
<1>1. RotationTime \in Nat \ {0}
  BY DiskHeadAssumption
<1>2. sector \in Int
  BY DEF DiskSector
<1>3. seek \in Nat /\ rotation \in Nat /\ timeAfter \in Int
  <2>1. seek \in Nat
    BY SeekAndRotation
  <2>2. now + seek \in Int
    BY <2>1
  <2>3. rotation \in Nat
    BY <2>2, SeekAndRotation
  <2> QED
    BY <2>1, <2>3
<1>4. timeAfter \div RotationTime \in Int
  BY <1>1, <1>3
<1>5. diff \in Nat
  BY <1>2, <1>4, SeekAndRotation
<1>6. \A x, y \in Nat : x * y \in Nat
  OBVIOUS
<1>7. diff * RotationTime \in Nat
  BY <1>1, <1>5, <1>6
<1>8. ComputeLatency(sector, writing, now) =
        IF ~writing /\ seek = 0 /\ InTrackBuffer(sector, timeAfter) THEN RotationTime
        ELSE seek + rotation + RotationTime + diff * RotationTime
  BY DEF ComputeLatency
<1> HIDE DEF seek, rotation, timeAfter, diff
<1> QED
  BY <1>1, <1>3, <1>7, <1>8
-----------------------------------------------------------------------------
\* The inductive invariant of the console: the display has an interrupt pending
\* exactly while it is busy, and then, or when that interrupt has come, the test
\* waits for it.
ConsoleInv ==
  /\ EchoesAll
  /\ unread \in Seq(Char) /\ display \in Seq(Char) /\ incoming \in Char \cup {EOF}
  /\ readAvail \in Nat /\ writeDone \in Nat
  /\ putBusy \in BOOLEAN
  /\ putBusy <=> Display \in Items(pending)
  /\ testAt = "writeDone->P" => writeDone = IF putBusy THEN 0 ELSE 1
  /\ testAt # "writeDone->P" => ~putBusy /\ writeDone = 0
  /\ testAt \in {"readAvail->P", "echo"} => \A i \in 1..Len(display) : display[i] # "q"

\* The test and the handlers of the console keep it, if the display's interrupt
\* is pending just when it should.
LEMMA CheckCharAvailKeeps ==
  ASSUME ConsoleInv, CheckCharAvail, (Display \in Items(pending'))  <=> (Display \in Items(pending))
  PROVE  ConsoleInv'
<1>1. CASE UNCHANGED <<unread, incoming, readAvail>>
  BY <1>1 DEF ConsoleInv, EchoesAll, Buffered, CheckCharAvail
<1>2. CASE /\ incoming = EOF /\ unread # << >>
           /\ incoming' = Head(unread) /\ unread' = Tail(unread)
           /\ readAvail' = readAvail + 1
  <2>1. UNCHANGED <<text, putBusy, display, writeDone, testAt>>
    BY DEF CheckCharAvail
  <2>2. /\ unread \in Seq(Char) /\ display \in Seq(Char) /\ readAvail \in Nat
        /\ text = display \o Buffered \o unread
        /\ readAvail + (IF testAt = "echo" THEN 1 ELSE 0) = Len(Buffered)
    BY DEF ConsoleInv, EchoesAll
  <2>3. Head(unread) \in Char /\ Tail(unread) \in Seq(Char)
    BY <1>2, <2>2, HeadTailProperties
  <2>4. Buffered = << >> /\ Buffered' = <<Head(unread)>>
    BY <1>2, <2>3, ConsoleAssumption DEF Buffered
  <2>5. unread = <<Head(unread)>> \o Tail(unread)
    BY <1>2, <2>2
  <2>6. text = display \o unread
    BY <2>2, <2>4, ConcatEmptySeq
  <2>7. <<Head(unread)>> \in Seq(Char)
    BY <2>3
  <2>8. text = display \o <<Head(unread)>> \o Tail(unread)
    BY <2>2, <2>3, <2>5, <2>6, <2>7, ConcatAssociative
  <2>9. text' = display' \o Buffered' \o unread'
    BY <1>2, <2>1, <2>4, <2>8
  <2>10. readAvail' + (IF testAt' = "echo" THEN 1 ELSE 0) = Len(Buffered')
    <3>1. Len(Buffered) = 0 /\ Len(Buffered') = 1
      BY <2>4
    <3> QED
      BY <1>2, <2>1, <2>2, <3>1
  <2> QED
    BY <1>2, <2>1, <2>2, <2>3, <2>9, <2>10 DEF ConsoleInv, EchoesAll
<1> QED
  BY <1>1, <1>2 DEF CheckCharAvail

LEMMA WriteDoneKeeps ==
  ASSUME ConsoleInv, WriteDone, Display \in Items(pending), Display \notin Items(pending')
  PROVE  ConsoleInv'
<1>1. putBusy /\ testAt = "writeDone->P" /\ writeDone = 0
  BY DEF ConsoleInv
<1>2. /\ putBusy' = FALSE /\ writeDone' = writeDone + 1
      /\ UNCHANGED <<text, unread, incoming, display, readAvail, testAt>>
  BY DEF WriteDone
<1>3. Buffered' = Buffered /\ testAt' = "writeDone->P"
  BY <1>1, <1>2 DEF Buffered
<1>4. EchoesAll'
  BY <1>1, <1>2, <1>3 DEF ConsoleInv, EchoesAll
<1>5. putBusy' \in BOOLEAN /\ (putBusy' <=> Display \in Items(pending'))
  BY <1>2
<1>6. writeDone' = (IF putBusy' THEN 0 ELSE 1) /\ writeDone' \in Nat
  BY <1>1, <1>2
<1>7. unread' \in Seq(Char) /\ display' \in Seq(Char) /\ incoming' \in Char \cup {EOF} /\ readAvail' \in Nat
  BY <1>2 DEF ConsoleInv
<1> QED
  BY <1>3, <1>4, <1>5, <1>6, <1>7 DEF ConsoleInv

LEMMA AwaitKeeps ==
  ASSUME ConsoleInv, AwaitChar \/ AwaitWritten, pending' = pending
  PROVE  ConsoleInv'
<1>1. CASE AwaitChar
  <2>1. /\ testAt = "readAvail->P" /\ testAt' = "echo" /\ readAvail' = readAvail - 1 /\ readAvail > 0
        /\ UNCHANGED <<text, unread, incoming, putBusy, display, writeDone>>
    BY <1>1 DEF AwaitChar
  <2>2. Buffered' = Buffered
    BY <2>1 DEF Buffered
  <2>3. readAvail' \in Nat /\ readAvail' + 1 = Len(Buffered)
    BY <2>1 DEF ConsoleInv, EchoesAll
  <2> QED
    BY <2>1, <2>2, <2>3 DEF ConsoleInv, EchoesAll
<1>2. CASE AwaitWritten
  <2>1. /\ testAt = "writeDone->P" /\ writeDone > 0 /\ writeDone' = writeDone - 1
        /\ testAt' = IF display[Len(display)] = "q" THEN "done" ELSE "readAvail->P"
        /\ UNCHANGED <<text, unread, incoming, putBusy, display, readAvail>>
    BY <1>2 DEF AwaitWritten
  <2>2. Buffered' = Buffered
    BY <2>1 DEF Buffered
  <2>3. ~putBusy /\ writeDone' = 0
    BY <2>1 DEF ConsoleInv
  <2>4. testAt' # "echo" /\ testAt' # "writeDone->P"
    BY <2>1
  <2>5. testAt' = "readAvail->P" => \A i \in 1..Len(display) : display[i] # "q"
    <3>1. \A i \in 1..Len(display) - 1 : display[i] # "q"
      BY DEF ConsoleInv, EchoesAll
    <3>2. Len(display) \in Nat
      BY LenProperties DEF ConsoleInv
    <3> QED
      BY <2>1, <3>1, <3>2
  <2> QED
    BY <2>1, <2>2, <2>3, <2>4, <2>5 DEF ConsoleInv, EchoesAll
<1> QED
  BY <1>1, <1>2

LEMMA EchoKeeps ==
  ASSUME ConsoleInv, Echo, Display \in Items(pending')
  PROVE  ConsoleInv'
<1>1. /\ testAt = "echo" /\ display' = Append(display, incoming) /\ incoming' = EOF
      /\ putBusy' = TRUE /\ testAt' = "writeDone->P"
      /\ UNCHANGED <<text, unread, readAvail, writeDone>>
  BY DEF Echo
<1>2. /\ unread \in Seq(Char) /\ display \in Seq(Char) /\ incoming \in Char \cup {EOF}
      /\ readAvail \in Nat /\ writeDone = 0
      /\ text = display \o Buffered \o unread
      /\ readAvail + 1 = Len(Buffered)
      /\ \A i \in 1..Len(display) : display[i] # "q"
  BY <1>1 DEF ConsoleInv, EchoesAll
<1>3. incoming # EOF
  <2>1. incoming = EOF => Len(Buffered) = 0
    BY DEF Buffered
  <2> QED
    BY <1>2, <2>1
<1>4. incoming \in Char /\ Buffered = <<incoming>> /\ Buffered' = << >>
  BY <1>1, <1>2, <1>3 DEF Buffered
<1>5. /\ display' \in Seq(Char) /\ display' = display \o <<incoming>>
      /\ Len(display') = Len(display) + 1
      /\ \A i \in 1..Len(display) : display'[i] = display[i]
  BY <1>1, <1>2, <1>4, AppendProperties, AppendIsConcat
<1>6. text' = display' \o Buffered' \o unread'
  <2>1. display' \o Buffered' = display'
    BY <1>4, <1>5, ConcatEmptySeq
  <2> QED
    BY <1>1, <1>2, <1>4, <1>5, <2>1
<1>7. readAvail' + (IF testAt' = "echo" THEN 1 ELSE 0) = Len(Buffered')
  <2>1. Len(Buffered) = 1 /\ Len(Buffered') = 0
    BY <1>4
  <2> QED
    BY <1>1, <1>2, <2>1
<1>8. \A i \in 1..Len(display') - 1 : display'[i] # "q"
  <2>1. Len(display) \in Nat
    BY <1>2, LenProperties
  <2> QED
    BY <1>2, <1>5, <2>1
<1> QED
  BY <1>1, <1>2, <1>5, <1>6, <1>7, <1>8 DEF ConsoleInv, EchoesAll
-----------------------------------------------------------------------------
DevicesInv == IntInv /\ ConsoleInv /\ lastSector \in Int

LEMMA DevicesInitially == DevicesInit => DevicesInv
<1> SUFFICES ASSUME DevicesInit PROVE DevicesInv
  OBVIOUS
<1>1. IntInv
  BY IntInitially DEF DevicesInit
<1>2. Display \notin Items(pending)
  BY <1>1, DevicesAssumption, InterruptAssumption DEF DevicesInit, IntInit
<1>3. /\ text \in Seq(Char) /\ unread = text /\ incoming = EOF /\ ~putBusy /\ putBusy = FALSE
      /\ display = << >> /\ readAvail = 0 /\ writeDone = 0 /\ testAt = "readAvail->P"
  BY ConsoleAssumption DEF DevicesInit, ConsoleInit
<1>4. Buffered = << >> /\ Len(Buffered) = 0 /\ Len(display) = 0 /\ display \in Seq(Char)
  BY <1>3 DEF Buffered
<1>5. text = display \o Buffered \o unread
  BY <1>3, <1>4, ConcatEmptySeq
<1>6. EchoesAll
  BY <1>3, <1>4, <1>5 DEF EchoesAll
<1>7. ConsoleInv
  <2>1. putBusy \in BOOLEAN /\ (putBusy <=> Display \in Items(pending))
    BY <1>2, <1>3
  <2>2. testAt # "writeDone->P"
    BY <1>3
  <2>3. \A i \in 1..Len(display) : display[i] # "q"
    BY <1>4
  <2>4. unread \in Seq(Char) /\ incoming \in Char \cup {EOF} /\ readAvail \in Nat /\ writeDone \in Nat
    BY <1>3
  <2> QED
    BY <1>3, <1>4, <1>6, <2>1, <2>2, <2>3, <2>4 DEF ConsoleInv
<1> QED
  BY <1>1, <1>7 DEF DevicesInv, DevicesInit, DiskHeadInit

\* Steps that touch neither console nor the display's interrupt.
LEMMA ConsoleUntouched ==
  ASSUME ConsoleInv, UNCHANGED consoleVars, (Display \in Items(pending')) <=> (Display \in Items(pending))
  PROVE  ConsoleInv'
BY DEF ConsoleInv, EchoesAll, Buffered, consoleVars

\* A handler runs, with what it does to its device.
LEMMA HandlerKeeps ==
  ASSUME DevicesInv, Deliver \/ Idle, Handle(First(pending)), polling' = polling
  PROVE  DevicesInv' /\ lastFired <= lastFired'
<1> DEFINE device == First(pending)
<1>1. IntInv /\ ConsoleInv /\ lastSector \in Int
  BY DEF DevicesInv
<1>2. /\ IntInv' /\ lastFired <= lastFired'
      /\ device \in Items(pending)
      /\ Items(pending') = IF device \in OneShot THEN Items(pending) \ {device} ELSE Items(pending)
  BY <1>1, DeliverFires
<1>3. lastSector' = lastSector
  BY DEF Handle, diskVars, DiskDone
<1>4. ConsoleInv'
  <2>1. CASE device = Display
    <3>1. WriteDone
      BY <2>1, DevicesAssumption, InterruptAssumption DEF Handle
    <3>2. Display \in Items(pending) /\ Display \notin Items(pending')
      BY <1>2, <2>1, DevicesAssumption
    <3> QED
      BY <1>1, <3>1, <3>2, WriteDoneKeeps
  <2>2. CASE device # Display
    <3>1. (Display \in Items(pending')) <=> (Display \in Items(pending))
      BY <1>2, <2>2
    <3>2. CheckCharAvail \/ UNCHANGED consoleVars
      BY <2>2 DEF Handle
    <3> QED
      BY <1>1, <3>1, <3>2, CheckCharAvailKeeps, ConsoleUntouched
  <2> QED
    BY <2>1, <2>2
<1> QED
  BY <1>1, <1>2, <1>3, <1>4 DEF DevicesInv

LEMMA RequestKeeps ==
  ASSUME DevicesInv, Request, polling' = polling
  PROVE  DevicesInv' /\ lastFired <= lastFired'
<1>1. IntInv /\ ConsoleInv /\ lastSector \in Int /\ totalTicks \in Int /\ lastFired \in Int
  BY DEF DevicesInv, IntInv
<1> DEFINE Timed == \E device \in OneShot \ {Display} : \E d \in Int : d > 0 /\ Schedule(device, d)
<1>2. Timed
  <2>1. ASSUME NEW sector \in DiskSector, NEW writing \in BOOLEAN,
               Schedule(TheDisk, ComputeLatency(sector, writing, totalTicks))
        PROVE  Timed
    <3>1. ComputeLatency(sector, writing, totalTicks) \in Int
          /\ ComputeLatency(sector, writing, totalTicks) > 0
      BY <1>1, LatencyPositive
    <3>2. TheDisk \in OneShot \ {Display}
      BY DevicesAssumption
    <3> QED
      BY <2>1, <3>1, <3>2
  <2>2. ASSUME NEW device \in OneShot \ {TheDisk, Display}, NEW d \in Delay[device], Schedule(device, d)
        PROVE  Timed
    <3>1. d \in Int /\ d > 0
      BY DelaysPositive, DevicesAssumption
    <3> QED
      BY <2>2, <3>1
  <2> QED
    BY <2>1, <2>2 DEF Request
<1>3. PICK device \in OneShot \ {Display}, d \in Int : d > 0 /\ Schedule(device, d)
  BY <1>2
<1>4. IntInv' /\ Items(pending') = Items(pending) \cup {device} /\ lastFired' = lastFired
  BY <1>1, <1>3, ScheduleKeeps
<1>5. UNCHANGED consoleVars /\ lastSector' \in Int
  BY <1>1 DEF Request, DiskRequest, UpdateLast, DiskSector, diskVars
<1>6. ConsoleInv'
  BY <1>1, <1>4, <1>5, ConsoleUntouched
<1> QED
  BY <1>1, <1>4, <1>5, <1>6 DEF DevicesInv

LEMMA ConsoleTestKeeps ==
  ASSUME DevicesInv, ConsoleTest, polling' = polling
  PROVE  DevicesInv' /\ lastFired <= lastFired'
<1>1. IntInv /\ ConsoleInv /\ lastSector \in Int /\ lastFired \in Int
  BY DEF DevicesInv, IntInv
<1>2. lastSector' = lastSector
  BY DEF ConsoleTest, diskVars
<1>3. CASE (AwaitChar \/ AwaitWritten) /\ UNCHANGED intVars
  <2>1. IntInv' /\ pending' = pending /\ lastFired' = lastFired
    BY <1>1, <1>3 DEF IntInv, intVars
  <2>2. ConsoleInv'
    BY <1>1, <1>3, <2>1, AwaitKeeps
  <2> QED
    BY <1>1, <1>2, <2>1, <2>2 DEF DevicesInv
<1>4. CASE Echo /\ Schedule(Display, ConsoleTime)
  <2>1. ConsoleTime \in Int /\ ConsoleTime > 0
    BY DelaysPositive, DevicesAssumption, InterruptAssumption
  <2>2. IntInv' /\ Items(pending') = Items(pending) \cup {Display} /\ lastFired' = lastFired
    BY <1>1, <1>4, <2>1, ScheduleKeeps, DevicesAssumption
  <2>3. ConsoleInv'
    BY <1>1, <1>4, <2>2, EchoKeeps
  <2> QED
    BY <1>1, <1>2, <2>2, <2>3 DEF DevicesInv
<1> QED
  BY <1>3, <1>4 DEF ConsoleTest

LEMMA StepKeeps ==
  ASSUME DevicesInv, [DevicesStep /\ UNCHANGED polling]_deviceVars
  PROVE  DevicesInv' /\ lastFired <= lastFired'
<1>1. IntInv /\ ConsoleInv /\ lastSector \in Int /\ lastFired \in Int
  BY DEF DevicesInv, IntInv
<1>2. CASE Request /\ polling' = polling
  BY <1>2, RequestKeeps
<1>3. CASE ConsoleTest /\ polling' = polling
  BY <1>3, ConsoleTestKeeps
<1>4. CASE (Deliver \/ Idle) /\ Handle(First(pending)) /\ polling' = polling
  BY <1>4, HandlerKeeps
<1>5. CASE QuietStep /\ UNCHANGED <<diskVars, consoleVars>> /\ polling' = polling
  <2>1. IntInv' /\ Items(pending') = Items(pending) /\ lastFired' = lastFired
    BY <1>1, <1>5, QuietKeeps
  <2>2. ConsoleInv' /\ lastSector' = lastSector
    BY <1>1, <1>5, <2>1, ConsoleUntouched DEF diskVars
  <2> QED
    BY <1>1, <2>1, <2>2 DEF DevicesInv
<1>6. CASE UNCHANGED deviceVars
  <2>1. UNCHANGED intVars /\ UNCHANGED diskVars /\ UNCHANGED consoleVars
    BY <1>6 DEF deviceVars
  <2>2. IntInv' /\ lastFired' = lastFired /\ pending' = pending /\ lastSector' = lastSector
    BY <1>1, <2>1 DEF IntInv, intVars, diskVars
  <2>3. ConsoleInv'
    BY <1>1, <2>1, <2>2, ConsoleUntouched
  <2> QED
    BY <1>1, <2>2, <2>3 DEF DevicesInv
<1> QED
  BY <1>2, <1>3, <1>4, <1>5, <1>6 DEF DevicesStep, Idling, QuietStep

LEMMA DevicesInvariant == DevicesSpec => []DevicesInv
<1>1. DevicesInv /\ [DevicesStep /\ UNCHANGED polling]_deviceVars => DevicesInv'
  BY StepKeeps
<1> QED
  BY <1>1, DevicesInitially, PTL DEF DevicesSpec
-----------------------------------------------------------------------------
\* CheckIfDue, Schedule and Idle (machine/interrupt.cc) lose no interrupt and
\* deliver none twice, and leave none overdue to code that runs: for any devices
\* and delays.
THEOREM InterruptsComeOnce == DevicesSpec => []EachInterruptOnce
<1>1. DevicesInv => EachInterruptOnce
  BY DEF DevicesInv, IntInv, PendingOK, NoneOverdue, EachInterruptOnce
<1> QED
  BY <1>1, DevicesInvariant, PTL

\* Handlers run in the order of the times they are due at, whatever CheckIfDue
\* puts back and whatever is scheduled meanwhile.
THEOREM HandlersInOrder == DevicesSpec => FiresInOrder
<1>1. DevicesInv /\ [DevicesStep /\ UNCHANGED polling]_deviceVars => [lastFired <= lastFired']_intVars
  BY StepKeeps
<1> QED
  BY <1>1, DevicesInvariant, PTL DEF DevicesSpec, FiresInOrder

\* Idle halts the machine only when no device but the timer has an interrupt
\* pending, and never while console or network poll.
THEOREM HaltsOnlyWhenDone == DevicesSpec => []HaltsWhenDone
<1>1. DevicesInv => HaltsWhenDone
  BY DEF DevicesInv, IntInv, HaltsWhenDone
<1> QED
  BY <1>1, DevicesInvariant, PTL

\* ConsoleTest echoes each character once and in order, whatever is typed and
\* whenever the interrupts of the console come.
THEOREM ConsoleEchoes == DevicesSpec => []EchoesAll
<1>1. DevicesInv => EchoesAll
  BY DEF DevicesInv, ConsoleInv
<1> QED
  BY <1>1, DevicesInvariant, PTL
=============================================================================
