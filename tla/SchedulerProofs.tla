--------------------------- MODULE SchedulerProofs ---------------------------
(***************************************************************************)
(* What the scheduler operations do to a consistent scheduler state in     *)
(* which no thread has finished.                                           *)
(***************************************************************************)
EXTENDS Scheduler, ListProofs

\* The ready list holds the READY threads, each once, and only the current
\* thread may be RUNNING.
Consistent(s) ==
  /\ s \in SchedulerState
  /\ s.carcass = NoThread
  /\ NoDuplicates(s.ready)
  /\ \A t \in Thread : s.status[t] = "READY" <=> t \in Items(s.ready)
  /\ \A t \in Thread : s.status[t] = "RUNNING" => t = s.current

Blocked(s, t) == s.status[t] = "BLOCKED"

LEMMA ReadyIsList ==
  ASSUME NEW s \in SchedulerState
  PROVE  s.ready \in Seq(Element(Thread))
BY DEF SchedulerState, Element

\* ReadyToRun moves one blocked thread to the ready list.
LEMMA ReadyToRunConsistent ==
  ASSUME NEW s, Consistent(s), NEW t \in Thread, s.status[t] # "READY"
  PROVE  /\ Consistent(ReadyToRun(s, t))
         /\ ReadyToRun(s, t).status = [s.status EXCEPT ![t] = "READY"]
         /\ ReadyToRun(s, t).current = s.current
         /\ ReadyToRun(s, t).key = s.key
         /\ ~IsEmpty(ReadyToRun(s, t).ready)
<1> DEFINE r == SortedInsert(s.ready, t, s.key[t])
           n == ReadyToRun(s, t)
<1>1. /\ s \in SchedulerState
      /\ s.ready \in Seq(Element(Thread))
      /\ s.key[t] \in Int
      /\ t \notin Items(s.ready)
      /\ NoDuplicates(s.ready)
  BY ReadyIsList DEF Consistent, SchedulerState
<1>2. /\ r \in Seq(Element(Thread))
      /\ Items(r) = Items(s.ready) \cup {t}
      /\ ~IsEmpty(r)
      /\ NoDuplicates(r)
  <2>1. r \in Seq(Element(Thread))
    BY <1>1, SortedInsertItems
  <2>2. Items(r) = Items(s.ready) \cup {t}
    BY <1>1, SortedInsertMember
  <2>3. ~IsEmpty(r)
    BY <1>1, SortedInsertItems
  <2>4. NoDuplicates(r)
    BY <1>1, SortedInsertItems
  <2> QED
    BY <2>1, <2>2, <2>3, <2>4
<1> HIDE DEF r
<1>3. /\ n.status = [s.status EXCEPT ![t] = "READY"]
      /\ n.ready = r
      /\ n.current = s.current
      /\ n.key = s.key
      /\ n.carcass = s.carcass
      /\ n \in SchedulerState
  BY <1>1, <1>2 DEF ReadyToRun, SchedulerState, Element, Status, r
<1>4. Consistent(n)
  <2>1. \A u \in Thread : n.status[u] = IF u = t THEN "READY" ELSE s.status[u]
    BY <1>1, <1>3 DEF SchedulerState
  <2> QED
    BY <1>2, <1>3, <2>1 DEF Consistent
<1> QED
  BY <1>2, <1>3, <1>4

\* Dispatch runs the thread at the head of the ready list.
LEMMA DispatchConsistent ==
  ASSUME NEW s, Consistent(s), ~IsEmpty(s.ready), s.status[s.current] # "RUNNING"
  PROVE  /\ Consistent(Dispatch(s))
         /\ First(s.ready) \in Thread
         /\ s.status[First(s.ready)] = "READY"
         /\ Dispatch(s).status = [s.status EXCEPT ![First(s.ready)] = "RUNNING"]
         /\ Dispatch(s).current = First(s.ready)
         /\ Dispatch(s).key = s.key
<1> DEFINE f == First(s.ready)
           r == Rest(s.ready)
           n == Dispatch(s)
<1>1. /\ s \in SchedulerState
      /\ s.ready \in Seq(Element(Thread))
  BY ReadyIsList DEF Consistent
<1>2. /\ f \in Thread
      /\ f \in Items(s.ready)
      /\ r \in Seq(Element(Thread))
      /\ Items(r) = Items(s.ready) \ {f}
      /\ NoDuplicates(r)
  BY <1>1, RemoveProperty, RemoveItems DEF Consistent
<1> HIDE DEF f, r
<1>3. s.carcass = NoThread
  BY DEF Consistent
<1>4. /\ n.status = [s.status EXCEPT ![f] = "RUNNING"]
      /\ n.ready = r
      /\ n.current = f
      /\ n.key = s.key
      /\ n.carcass = NoThread
      /\ n \in SchedulerState
  BY <1>1, <1>2, <1>3
     DEF Dispatch, Run, DeleteCarcass, FindNextToRun, SchedulerState, Element, Status, f, r
<1>5. Consistent(n)
  <2>1. \A u \in Thread : n.status[u] = IF u = f THEN "RUNNING" ELSE s.status[u]
    BY <1>1, <1>4 DEF SchedulerState
  <2>2. \A u \in Thread : s.status[u] # "RUNNING"
    BY DEF Consistent
  <2> QED
    BY <1>2, <1>4, <2>1, <2>2 DEF Consistent
<1> QED
  BY <1>2, <1>4, <1>5 DEF f, r, Consistent

\* Sleep blocks the running thread, and only that one.
LEMMA SleepConsistent ==
  ASSUME NEW s, Consistent(s), s.status[s.current] = "RUNNING"
  PROVE  /\ Consistent(Sleep(s))
         /\ \A t \in Thread : Blocked(Sleep(s), t) <=> Blocked(s, t) \/ t = s.current
         /\ Sleep(s).key = s.key
<1> DEFINE b == [s EXCEPT !.status[s.current] = "BLOCKED"]
<1>1. s \in SchedulerState /\ s.current \in Thread
  BY DEF Consistent, SchedulerState
<1>2. /\ b \in SchedulerState
      /\ b.status = [s.status EXCEPT ![s.current] = "BLOCKED"]
      /\ b.ready = s.ready
      /\ b.current = s.current
      /\ b.key = s.key
      /\ b.carcass = s.carcass
  BY <1>1 DEF SchedulerState, Status
<1>3. \A t \in Thread : b.status[t] = IF t = s.current THEN "BLOCKED" ELSE s.status[t]
  BY <1>1, <1>2 DEF SchedulerState
<1>4. Sleep(s) = IF IsEmpty(b.ready) THEN b ELSE Dispatch(b)
  BY <1>2 DEF Sleep
<1> HIDE DEF b
<1>5. Consistent(b) /\ b.status[b.current] # "RUNNING"
  BY <1>1, <1>2, <1>3 DEF Consistent
<1>6. \A t \in Thread : Blocked(b, t) <=> Blocked(s, t) \/ t = s.current
  BY <1>3 DEF Blocked
<1>7. CASE IsEmpty(b.ready)
  BY <1>2, <1>4, <1>5, <1>6, <1>7
<1>8. CASE ~IsEmpty(b.ready)
  <2>1. /\ Consistent(Dispatch(b))
        /\ First(b.ready) \in Thread
        /\ b.status[First(b.ready)] = "READY"
        /\ Dispatch(b).status = [b.status EXCEPT ![First(b.ready)] = "RUNNING"]
        /\ Dispatch(b).key = b.key
    BY <1>5, <1>8, DispatchConsistent
  <2>2. \A t \in Thread : Blocked(Dispatch(b), t) <=> Blocked(b, t)
    BY <1>2, <2>1 DEF Blocked, SchedulerState
  <2> QED
    BY <1>2, <1>4, <1>6, <1>8, <2>1, <2>2
<1> QED
  BY <1>7, <1>8

\* Yield blocks and unblocks nobody.
LEMMA YieldConsistent ==
  ASSUME NEW s, Consistent(s), s.status[s.current] = "RUNNING"
  PROVE  /\ Consistent(Yield(s))
         /\ \A t \in Thread : Blocked(Yield(s), t) <=> Blocked(s, t)
         /\ Yield(s).key = s.key
<1> DEFINE f == First(s.ready)
<1>1. s \in SchedulerState /\ s.current \in Thread
  BY DEF Consistent, SchedulerState
<1>2. CASE IsEmpty(s.ready)
  BY <1>2 DEF Yield
<1>3. CASE ~IsEmpty(s.ready)
  <2>1. s.ready \in Seq(Element(Thread))
    BY <1>1, ReadyIsList
  <2>2. /\ f \in Thread
        /\ f \in Items(s.ready)
        /\ Rest(s.ready) \in Seq(Element(Thread))
        /\ Items(Rest(s.ready)) = Items(s.ready) \ {f}
        /\ NoDuplicates(Rest(s.ready))
    BY <1>3, <2>1, RemoveProperty, RemoveItems DEF Consistent
  <2>3. s.status[f] = "READY" /\ f # s.current
    BY <2>2 DEF Consistent
  <2> DEFINE c == s.current
             r == SortedInsert(Rest(s.ready), c, s.key[c])
             n == Yield(s)
  <2>4. c \notin Items(Rest(s.ready)) /\ s.key[c] \in Int
    BY <1>1, <2>2 DEF Consistent, SchedulerState
  <2>5. /\ r \in Seq(Element(Thread))
        /\ Items(r) = Items(Rest(s.ready)) \cup {c}
        /\ NoDuplicates(r)
    <3>1. r \in Seq(Element(Thread))
      BY <1>1, <2>2, <2>4, SortedInsertItems
    <3>2. Items(r) = Items(Rest(s.ready)) \cup {c}
      BY <1>1, <2>2, <2>4, SortedInsertMember
    <3>3. NoDuplicates(r)
      BY <1>1, <2>2, <2>4, SortedInsertItems
    <3> QED
      BY <3>1, <3>2, <3>3
  <2> HIDE DEF f, r
  <2>6. /\ n.status = [s.status EXCEPT ![c] = "READY", ![f] = "RUNNING"]
        /\ n.ready = r
        /\ n.current = f
        /\ n.key = s.key
        /\ n.carcass = NoThread
        /\ n \in SchedulerState
    <3>1. s.carcass = NoThread
      BY DEF Consistent
    <3> QED
      BY <1>1, <1>3, <2>2, <2>5, <3>1
         DEF Yield, Run, ReadyToRun, DeleteCarcass, FindNextToRun, SchedulerState,
             Element, Status, f, r
  <2>7. \A t \in Thread : n.status[t] = IF t = f THEN "RUNNING"
                                        ELSE IF t = c THEN "READY" ELSE s.status[t]
    BY <1>1, <2>2, <2>6 DEF SchedulerState
  <2>8. Consistent(n)
    BY <2>2, <2>3, <2>5, <2>6, <2>7 DEF Consistent
  <2> QED
    BY <2>3, <2>6, <2>7, <2>8 DEF Blocked
<1> QED
  BY <1>2, <1>3
=============================================================================
