-------------------------- MODULE SynchDiskProofs --------------------------
(***************************************************************************)
(* Proofs about the synchronous disk, for any number of threads and        *)
(* sectors: the disk has one request at a time, and ReadSector and         *)
(* WriteSector are atomic.                                                 *)
(***************************************************************************)
EXTENDS SynchDisk, TLAPS

\* t has the lock of the disk: past its Acquire, not yet at its Release.
HasDisk(t) == pc[t] \in {"Await", "Done"} \/ (pc[t] = "Request" /\ blockedIn[t] # DiskLock)

\* t has made its request and not got past its P.
Waits(t) == pc[t] = "Await" \/ (pc[t] = "Done" /\ blockedIn[t] = DiskSemaphore)

DiskTypeOK ==
  /\ pc \in [Thread -> {"idle", "Request", "Await", "Done"}]
  /\ value \in [Semaphore -> Nat]
  /\ isLocked \in [Lock -> BOOLEAN]
  /\ currThread \in [Lock -> Thread \cup {NoThread}]
  /\ DOMAIN blockedIn = Thread
  /\ active \in BOOLEAN /\ pending \in Nat
  /\ disk \in [Sector -> Data]
  /\ DOMAIN call = Thread
  /\ \A t \in Thread : IF pc[t] = "idle" THEN call[t] = NoCall ELSE call[t] \in Request

\* The inductive invariant.  The thread that has the disk is the owner of the
\* lock, so there is one at most; while it waits, its request is either an
\* interrupt that is pending or a unit of the semaphore, and otherwise there is
\* neither.
DiskInv ==
  /\ DiskTypeOK
  /\ isLocked[DiskLock] <=> currThread[DiskLock] # NoThread
  /\ \A t \in Thread :
       /\ HasDisk(t) <=> currThread[DiskLock] = t
       /\ blockedIn[t] # NoObject =>
            \/ pc[t] = "Request" /\ blockedIn[t] = DiskLock
            \/ pc[t] = "Done" /\ blockedIn[t] = DiskSemaphore
  /\ pending = IF active THEN 1 ELSE 0
  /\ value[DiskSemaphore] + pending = IF \E t \in Thread : Waits(t) THEN 1 ELSE 0

LEMMA DiskObjects ==
  /\ DiskLock \in Lock /\ DiskLock \in Object /\ DiskLock # NoObject
  /\ DiskSemaphore \in Semaphore /\ DiskSemaphore \in Object /\ DiskSemaphore # NoObject
  /\ DiskLock \notin Semaphore /\ DiskLock \notin Condition
  /\ DiskSemaphore \notin Lock /\ DiskSemaphore \notin Condition
  /\ DiskLock # DiskSemaphore
BY SynchDiskAssumption, SynchAssumption DEF Object

LEMMA DiskInitially == DiskInit => DiskInv
<1> SUFFICES ASSUME DiskInit PROVE DiskInv
  OBVIOUS
<1>1. /\ pc = [t \in Thread |-> "idle"] /\ call = [t \in Thread |-> NoCall]
      /\ disk = [s \in Sector |-> Initial]
      /\ active = FALSE /\ pending = 0 /\ value = InitialValue
      /\ isLocked = [l \in Lock |-> FALSE] /\ currThread = [l \in Lock |-> NoThread]
      /\ blockedIn = [t \in Thread |-> NoObject]
  BY DEF DiskInit, Init, InitSynch
<1>2. DiskTypeOK
  BY <1>1, SynchAssumption, SynchDiskAssumption DEF DiskTypeOK
<1>3. isLocked[DiskLock] = FALSE /\ currThread[DiskLock] = NoThread /\ value[DiskSemaphore] = 0
  BY <1>1, DiskObjects, SynchDiskAssumption
<1>4. \A t \in Thread : pc[t] = "idle" /\ blockedIn[t] = NoObject /\ t # NoThread
  BY <1>1, NoThreadAssumption
<1>5. \A t \in Thread : ~HasDisk(t) /\ ~Waits(t)
  BY <1>4 DEF HasDisk, Waits
<1> QED
  BY <1>1, <1>2, <1>3, <1>4, <1>5 DEF DiskInv

\* One thread has the disk, and only that one waits for it.
LEMMA OneHasDisk ==
  ASSUME DiskInv
  PROVE  /\ \A t, u \in Thread : HasDisk(t) /\ HasDisk(u) => t = u
         /\ \A t \in Thread : Waits(t) => HasDisk(t)
         /\ \A t \in Thread : HasDisk(t) /\ ~Waits(t) =>
              value[DiskSemaphore] = 0 /\ pending = 0 /\ active = FALSE
<1>1. \A t, u \in Thread : HasDisk(t) /\ HasDisk(u) => t = u
  BY DEF DiskInv
<1>2. \A t \in Thread : Waits(t) => HasDisk(t)
  BY DEF Waits, HasDisk
<1>3. ASSUME NEW t \in Thread, HasDisk(t), ~Waits(t)
      PROVE  value[DiskSemaphore] = 0 /\ pending = 0 /\ active = FALSE
  <2>1. ~\E u \in Thread : Waits(u)
    BY <1>1, <1>2, <1>3
  <2>2. value[DiskSemaphore] \in Nat /\ pending \in Nat /\ active \in BOOLEAN
    BY DiskObjects DEF DiskInv, DiskTypeOK
  <2>3. value[DiskSemaphore] + pending = 0
    BY <2>1 DEF DiskInv
  <2>4. pending = 0 /\ value[DiskSemaphore] = 0
    BY <2>2, <2>3
  <2> QED
    BY <2>2, <2>4 DEF DiskInv
<1> QED
  BY <1>1, <1>2, <1>3

\* The loop of Acquire, entered or tested again.
LEMMA AcquireKeeps ==
  ASSUME DiskInv, NEW t \in Thread, ~HasDisk(t), ~Waits(t), AcquireLoop(t, DiskLock),
         pc' = [pc EXCEPT ![t] = "Request"], call'[t] \in Request, DOMAIN call' = Thread,
         \A u \in Thread \ {t} : call'[u] = call[u], UNCHANGED <<disk, active>>
  PROVE  DiskInv'
<1>1. DiskTypeOK
  BY DEF DiskInv
<1>2. /\ pc' \in [Thread -> {"idle", "Request", "Await", "Done"}]
      /\ pc'[t] = "Request" /\ \A u \in Thread \ {t} : pc'[u] = pc[u]
  BY <1>1 DEF DiskTypeOK
<1>3. UNCHANGED <<value, pending>>
  BY DEF AcquireLoop
<1>4. /\ isLocked' \in [Lock -> BOOLEAN] /\ currThread' \in [Lock -> Thread \cup {NoThread}]
      /\ DOMAIN blockedIn' = Thread
      /\ \A u \in Thread \ {t} : blockedIn'[u] = blockedIn[u]
  <2>1. CASE isLocked[DiskLock]
    <3>1. UNCHANGED <<isLocked, currThread>> /\ blockedIn' = [blockedIn EXCEPT ![t] = DiskLock]
      BY <2>1 DEF AcquireLoop, SleepOn
    <3> QED
      BY <1>1, <3>1 DEF DiskTypeOK
  <2>2. CASE ~isLocked[DiskLock]
    <3>1. /\ isLocked' = [isLocked EXCEPT ![DiskLock] = TRUE]
          /\ currThread' = [currThread EXCEPT ![DiskLock] = t]
          /\ blockedIn' = [blockedIn EXCEPT ![t] = NoObject]
      BY <2>2 DEF AcquireLoop
    <3> QED
      BY <1>1, <3>1 DEF DiskTypeOK
  <2> QED
    BY <2>1, <2>2
<1>5. DiskTypeOK'
  BY <1>1, <1>2, <1>3, <1>4 DEF DiskTypeOK
<1>6. \A u \in Thread \ {t} : /\ HasDisk(u)' <=> HasDisk(u)
                              /\ Waits(u)' <=> Waits(u)
  BY <1>2, <1>4 DEF HasDisk, Waits
<1>7. ~Waits(t)'
  BY <1>2 DEF Waits
<1>8. /\ isLocked'[DiskLock] <=> currThread'[DiskLock] # NoThread
      /\ \A u \in Thread : HasDisk(u)' <=> currThread'[DiskLock] = u
      /\ blockedIn'[t] \in {NoObject, DiskLock}
  <2>1. CASE isLocked[DiskLock]
    <3>1. UNCHANGED <<isLocked, currThread>> /\ blockedIn'[t] = DiskLock
      BY <1>1, <2>1 DEF AcquireLoop, SleepOn, DiskTypeOK
    <3>2. ~HasDisk(t)' /\ currThread[DiskLock] # t
      BY <1>2, <3>1 DEF HasDisk, DiskInv
    <3> QED
      BY <1>6, <3>1, <3>2 DEF DiskInv
  <2>2. CASE ~isLocked[DiskLock]
    <3>1. /\ isLocked'[DiskLock] = TRUE /\ currThread'[DiskLock] = t
          /\ blockedIn'[t] = NoObject
      BY <1>1, <2>2, DiskObjects DEF AcquireLoop, DiskTypeOK
    <3>2. HasDisk(t)'
      BY <1>2, <3>1, DiskObjects DEF HasDisk
    <3>3. \A u \in Thread : ~HasDisk(u)
      BY <2>2, NoThreadAssumption DEF DiskInv
    <3> QED
      BY <1>6, <3>1, <3>2, <3>3, NoThreadAssumption
  <2> QED
    BY <2>1, <2>2
<1>9. (\E u \in Thread : Waits(u)') <=> (\E u \in Thread : Waits(u))
  BY <1>6, <1>7
<1>10. \A u \in Thread :
         blockedIn'[u] # NoObject =>
            \/ pc'[u] = "Request" /\ blockedIn'[u] = DiskLock
            \/ pc'[u] = "Done" /\ blockedIn'[u] = DiskSemaphore
  BY <1>2, <1>4, <1>8 DEF DiskInv
<1> QED
  BY <1>3, <1>5, <1>8, <1>9, <1>10 DEF DiskInv

\* The loop of P, entered or tested again: the interrupt has come, or will.
LEMMA AwaitKeeps ==
  ASSUME DiskInv, NEW t \in Thread, Waits(t), PLoop(t, DiskSemaphore),
         pc' = [pc EXCEPT ![t] = "Done"], UNCHANGED <<call, disk, active>>
  PROVE  DiskInv'
<1>1. DiskTypeOK
  BY DEF DiskInv
<1>2. /\ pc' \in [Thread -> {"idle", "Request", "Await", "Done"}]
      /\ pc'[t] = "Done" /\ \A u \in Thread \ {t} : pc'[u] = pc[u]
      /\ pc[t] # "idle"
  BY <1>1 DEF DiskTypeOK, Waits
<1>3. UNCHANGED <<isLocked, currThread, pending>>
  BY DEF PLoop
<1>4. /\ value' \in [Semaphore -> Nat]
      /\ DOMAIN blockedIn' = Thread
      /\ \A u \in Thread \ {t} : blockedIn'[u] = blockedIn[u]
  BY <1>1, DiskObjects DEF DiskTypeOK, PLoop, SleepOn
<1>5. DiskTypeOK'
  BY <1>1, <1>2, <1>3, <1>4 DEF DiskTypeOK
<1>6. \A u \in Thread \ {t} : /\ HasDisk(u)' <=> HasDisk(u)
                              /\ Waits(u)' <=> Waits(u)
  BY <1>2, <1>4 DEF HasDisk, Waits
<1>7. HasDisk(t) /\ HasDisk(t)'
  BY <1>2 DEF HasDisk, Waits
<1>8. \A u \in Thread \ {t} : ~Waits(u)
  BY <1>7, OneHasDisk
<1>9. value[DiskSemaphore] \in Nat /\ pending \in Nat /\ value[DiskSemaphore] + pending = 1
  BY <1>1, DiskObjects DEF DiskInv, DiskTypeOK
<1>10. /\ value'[DiskSemaphore] + pending' = IF \E u \in Thread : Waits(u)' THEN 1 ELSE 0
       /\ blockedIn'[t] \in {NoObject, DiskSemaphore}
  <2>1. CASE value[DiskSemaphore] = 0
    <3>1. value' = value /\ blockedIn'[t] = DiskSemaphore
      BY <1>1, <2>1 DEF PLoop, SleepOn, DiskTypeOK
    <3>2. Waits(t)'
      BY <1>2, <3>1 DEF Waits
    <3> QED
      BY <1>3, <1>9, <3>1, <3>2
  <2>2. CASE value[DiskSemaphore] # 0
    <3>1. value'[DiskSemaphore] = value[DiskSemaphore] - 1 /\ blockedIn'[t] = NoObject
      BY <1>1, <2>2, DiskObjects DEF PLoop, DiskTypeOK
    <3>2. \A u \in Thread : ~Waits(u)'
      BY <1>2, <1>6, <1>8, <3>1, DiskObjects DEF Waits
    <3> QED
      BY <1>3, <1>9, <3>1, <3>2
  <2> QED
    BY <2>1, <2>2
<1>11. \A u \in Thread :
         /\ HasDisk(u)' <=> currThread'[DiskLock] = u
         /\ blockedIn'[u] # NoObject =>
              \/ pc'[u] = "Request" /\ blockedIn'[u] = DiskLock
              \/ pc'[u] = "Done" /\ blockedIn'[u] = DiskSemaphore
  BY <1>2, <1>3, <1>4, <1>6, <1>7, <1>10 DEF DiskInv
<1> QED
  BY <1>3, <1>5, <1>10, <1>11 DEF DiskInv

LEMMA DiskRequestKeeps ==
  ASSUME DiskInv, NEW t \in Thread, DiskRequest(t)
  PROVE  DiskInv'
<1>1. DiskTypeOK /\ pc[t] = "Request" /\ blockedIn[t] = NoObject
  BY DEF DiskInv, DiskRequest, At, InClient
<1>2. /\ active' = TRUE /\ pending' = pending + 1
      /\ pc' = [pc EXCEPT ![t] = "Await"]
      /\ UNCHANGED <<value, isLocked, currThread, blockedIn>>
  BY DEF DiskRequest, Goto, objects
<1>3. /\ pc' \in [Thread -> {"idle", "Request", "Await", "Done"}]
      /\ pc'[t] = "Await" /\ \A u \in Thread \ {t} : pc'[u] = pc[u]
  BY <1>1, <1>2 DEF DiskTypeOK
<1>4. HasDisk(t) /\ ~Waits(t)
  BY <1>1, DiskObjects DEF HasDisk, Waits
<1>5. value[DiskSemaphore] = 0 /\ pending = 0
  BY <1>4, OneHasDisk
<1>6. call[t] \in Request /\ call[t].sector \in Sector /\ call[t].data \in Data
  BY <1>1 DEF DiskTypeOK, Request
<1>7. /\ disk' \in [Sector -> Data] /\ DOMAIN call' = Thread /\ call'[t] \in Request
      /\ \A u \in Thread \ {t} : call'[u] = call[u]
  <2>1. disk \in [Sector -> Data] /\ disk[call[t].sector] \in Data /\ DOMAIN call = Thread
    BY <1>1, <1>6 DEF DiskTypeOK
  <2>2. CASE call' = [call EXCEPT ![t].data = disk[call[t].sector]] /\ UNCHANGED disk
    <3>1. call'[t] = [call[t] EXCEPT !.data = disk[call[t].sector]]
      BY <2>1, <2>2
    <3> QED
      BY <1>6, <2>1, <2>2, <3>1 DEF Request
  <2>3. CASE disk' = [disk EXCEPT ![call[t].sector] = call[t].data] /\ UNCHANGED call
    BY <1>6, <2>1, <2>3
  <2> QED
    BY <2>2, <2>3 DEF DiskRequest
<1>8. DiskTypeOK'
  BY <1>1, <1>2, <1>3, <1>5, <1>7 DEF DiskTypeOK
<1>9. \A u \in Thread : HasDisk(u)' <=> HasDisk(u)
  BY <1>2, <1>3, <1>4 DEF HasDisk
<1>10. Waits(t)'
  BY <1>3 DEF Waits
<1>11. value'[DiskSemaphore] + pending' = 1 /\ pending' = 1
  BY <1>2, <1>5
<1>12. \A u \in Thread : blockedIn'[u] # NoObject =>
            \/ pc'[u] = "Request" /\ blockedIn'[u] = DiskLock
            \/ pc'[u] = "Done" /\ blockedIn'[u] = DiskSemaphore
  BY <1>1, <1>2, <1>3 DEF DiskInv
<1> QED
  BY <1>2, <1>8, <1>9, <1>10, <1>11, <1>12 DEF DiskInv

LEMMA DoneKeeps ==
  ASSUME DiskInv, NEW t \in Thread, Done(t)
  PROVE  DiskInv'
<1>1. DiskTypeOK /\ pc[t] = "Done" /\ blockedIn[t] = NoObject
  BY DEF DiskInv, Done, At, InClient
<1>2. /\ pc' = [pc EXCEPT ![t] = "idle"] /\ call' = [call EXCEPT ![t] = NoCall]
      /\ currThread' = [currThread EXCEPT ![DiskLock] = NoThread]
      /\ isLocked' = [isLocked EXCEPT ![DiskLock] = FALSE]
      /\ UNCHANGED <<value, blockedIn, pending, disk, active>>
  BY DEF Done, Goto, Release, Unlock
<1>3. /\ pc' \in [Thread -> {"idle", "Request", "Await", "Done"}]
      /\ pc'[t] = "idle" /\ \A u \in Thread \ {t} : pc'[u] = pc[u]
      /\ currThread'[DiskLock] = NoThread /\ isLocked'[DiskLock] = FALSE
  BY <1>1, <1>2, DiskObjects DEF DiskTypeOK
<1>4. DiskTypeOK'
  BY <1>1, <1>2, <1>3, DiskObjects DEF DiskTypeOK
<1>5. HasDisk(t) /\ ~Waits(t)
  BY <1>1, DiskObjects DEF HasDisk, Waits
<1>6. value[DiskSemaphore] = 0 /\ pending = 0
  BY <1>5, OneHasDisk
<1>7. \A u \in Thread : ~HasDisk(u)' /\ ~Waits(u)'
  <2>1. ~HasDisk(t)' /\ ~Waits(t)'
    BY <1>3 DEF HasDisk, Waits
  <2>2. \A u \in Thread \ {t} : ~HasDisk(u) /\ ~Waits(u)
    BY <1>5, OneHasDisk
  <2>3. \A u \in Thread \ {t} : ~HasDisk(u)' /\ ~Waits(u)'
    BY <1>2, <1>3, <2>2 DEF HasDisk, Waits
  <2> QED
    BY <2>1, <2>3
<1>8. \A u \in Thread : blockedIn'[u] # NoObject =>
            \/ pc'[u] = "Request" /\ blockedIn'[u] = DiskLock
            \/ pc'[u] = "Done" /\ blockedIn'[u] = DiskSemaphore
  BY <1>1, <1>2, <1>3 DEF DiskInv
<1>9. value'[DiskSemaphore] + pending' = 0 /\ pending' = IF active' THEN 1 ELSE 0
  BY <1>2, <1>6 DEF DiskInv
<1> QED
  BY <1>3, <1>4, <1>7, <1>8, <1>9, NoThreadAssumption DEF DiskInv

LEMMA HandleInterruptKeeps ==
  ASSUME DiskInv, HandleInterrupt
  PROVE  DiskInv'
<1>1. DiskTypeOK
  BY DEF DiskInv
<1>2. /\ pending > 0 /\ pending' = pending - 1 /\ active' = FALSE
      /\ value' = [value EXCEPT ![DiskSemaphore] = @ + 1]
      /\ UNCHANGED <<isLocked, currThread, blockedIn, pc, call, disk>>
  BY DEF HandleInterrupt, VBody
<1>3. pending = 1 /\ pending' = 0
  BY <1>2 DEF DiskInv
<1>4. /\ value[DiskSemaphore] \in Nat /\ value' \in [Semaphore -> Nat]
      /\ value'[DiskSemaphore] = value[DiskSemaphore] + 1
  BY <1>1, <1>2, DiskObjects DEF DiskTypeOK
<1>5. value'[DiskSemaphore] + pending' = value[DiskSemaphore] + pending
  BY <1>3, <1>4
<1>6. DiskTypeOK'
  <2>1. active' \in BOOLEAN
    BY <1>2
  <2>2. pending' \in Nat
    BY <1>3
  <2>3. isLocked' \in [Lock -> BOOLEAN] /\ currThread' \in [Lock -> Thread \cup {NoThread}]
    BY <1>1, <1>2 DEF DiskTypeOK
  <2> QED
    BY <1>1, <1>2, <1>4, <2>1, <2>2, <2>3 DEF DiskTypeOK
<1>7. \A u \in Thread : (HasDisk(u)' <=> HasDisk(u)) /\ (Waits(u)' <=> Waits(u))
  BY <1>2 DEF HasDisk, Waits
<1> QED
  BY <1>2, <1>3, <1>5, <1>6, <1>7 DEF DiskInv

\* Steps that leave calls, locks, semaphores and requests alone.
LEMMA SameKeeps ==
  ASSUME DiskInv, UNCHANGED <<objects, blockedIn, pending, pc, call, disk, active>>
  PROVE  DiskInv'
<1>1. \A u \in Thread : (HasDisk(u)' <=> HasDisk(u)) /\ (Waits(u)' <=> Waits(u))
  BY DEF HasDisk, Waits
<1>2. DiskTypeOK'
  BY DEF DiskInv, DiskTypeOK, objects
<1> QED
  BY <1>1, <1>2 DEF DiskInv, objects

LEMMA ResumeKeeps ==
  ASSUME DiskInv, NEW t \in Thread, Resume(t), UNCHANGED <<pc, call, disk, active>>
  PROVE  DiskInv'
<1>1. DiskTypeOK
  BY DEF DiskInv
<1>2. blockedIn[t] \in Semaphore \cup Lock \cup Condition
  BY DEF Resume
<1>3. blockedIn[t] # NoObject
  BY <1>2, SynchAssumption DEF Object
<1>4. CASE pc[t] = "Request" /\ blockedIn[t] = DiskLock
  <2>1. AcquireLoop(t, DiskLock)
    BY <1>4, DiskObjects DEF Resume
  <2>2. ~HasDisk(t) /\ ~Waits(t)
    BY <1>4, DiskObjects DEF HasDisk, Waits
  <2>3. pc' = [pc EXCEPT ![t] = "Request"] /\ call'[t] \in Request /\ DOMAIN call' = Thread
    BY <1>1, <1>4 DEF DiskTypeOK
  <2> QED
    BY <2>1, <2>2, <2>3, AcquireKeeps
<1>5. CASE pc[t] = "Done" /\ blockedIn[t] = DiskSemaphore
  <2>1. PLoop(t, DiskSemaphore)
    BY <1>5, DiskObjects DEF Resume
  <2>2. Waits(t)
    BY <1>5 DEF Waits
  <2>3. pc' = [pc EXCEPT ![t] = "Done"]
    BY <1>1, <1>5 DEF DiskTypeOK
  <2> QED
    BY <2>1, <2>2, <2>3, AwaitKeeps
<1> QED
  BY <1>3, <1>4, <1>5 DEF DiskInv

LEMMA EnterKeeps ==
  ASSUME DiskInv, NEW t \in Thread, NEW r \in Request, Enter(t, r)
  PROVE  DiskInv'
<1>1. DiskTypeOK /\ pc[t] = "idle"
  BY DEF DiskInv, Enter, At
<1>2. /\ AcquireLoop(t, DiskLock) /\ pc' = [pc EXCEPT ![t] = "Request"]
      /\ call' = [call EXCEPT ![t] = r] /\ UNCHANGED <<disk, active>>
  BY DEF Enter, Acquire, Goto
<1>3. call'[t] \in Request /\ DOMAIN call' = Thread /\ \A u \in Thread \ {t} : call'[u] = call[u]
  BY <1>1, <1>2 DEF DiskTypeOK
<1>4. ~HasDisk(t) /\ ~Waits(t)
  BY <1>1 DEF HasDisk, Waits
<1> QED
  BY <1>2, <1>3, <1>4, AcquireKeeps

LEMMA DiskStepKeeps ==
  ASSUME DiskInv, [DiskNext]_synchDiskVars
  PROVE  DiskInv'
<1>1. ASSUME NEW t \in Thread, NEW r \in Request, Enter(t, r) PROVE DiskInv'
  BY <1>1, EnterKeeps
<1>2. ASSUME NEW t \in Thread, DiskRequest(t) PROVE DiskInv'
  BY <1>2, DiskRequestKeeps
<1>3. ASSUME NEW t \in Thread, Await(t) PROVE DiskInv'
  <2>1. Waits(t) /\ PLoop(t, DiskSemaphore) /\ pc' = [pc EXCEPT ![t] = "Done"]
        /\ UNCHANGED <<call, disk, active>>
    BY <1>3 DEF Await, At, P, Goto, Waits
  <2> QED
    BY <2>1, AwaitKeeps
<1>4. ASSUME NEW t \in Thread, Done(t) PROVE DiskInv'
  BY <1>4, DoneKeeps
<1>5. ASSUME NEW t \in Thread, Kernel(t) PROVE DiskInv'
  <2>1. UNCHANGED <<pc, call, disk, active>> /\ (Resume(t) \/ YieldCPU(t))
    BY <1>5 DEF Kernel
  <2>2. CASE Resume(t)
    BY <2>1, <2>2, ResumeKeeps
  <2>3. CASE YieldCPU(t)
    BY <2>1, <2>3, SameKeeps DEF YieldCPU
  <2> QED
    BY <2>1, <2>2, <2>3
<1>6. CASE HandleInterrupt
  BY <1>6, HandleInterruptKeeps
<1>7. CASE WakeMachine
  BY <1>7, SameKeeps DEF WakeMachine, LeaveIdle
<1>8. CASE UNCHANGED synchDiskVars
  BY <1>8, SameKeeps DEF synchDiskVars, vars
<1> QED
  BY <1>1, <1>2, <1>3, <1>4, <1>5, <1>6, <1>7, <1>8 DEF DiskNext

LEMMA DiskInvariant == DiskSpec => []DiskInv
BY DiskInitially, DiskStepKeeps, PTL DEF DiskSpec
-----------------------------------------------------------------------------
\* The lock and the semaphore of SynchDisk keep requests apart, so that
\* ASSERT(!active) of the disk holds and a call returns after its own interrupt:
\* for any number of threads.
THEOREM OneRequestAtATimeAlways == DiskSpec => []OneRequestAtATime
<1>1. ASSUME DiskInv PROVE OneRequestAtATime
  <2>1. \A t \in Thread : At(t, "Request") \/ At(t, "Done") => HasDisk(t) /\ ~Waits(t)
    BY DiskObjects DEF At, InClient, HasDisk, Waits
  <2>2. \A t \in Thread : At(t, "Request") \/ At(t, "Done") =>
                            active = FALSE /\ value[DiskSemaphore] = 0
    BY <1>1, <2>1, OneHasDisk
  <2> QED
    BY <1>1, <2>2 DEF OneRequestAtATime, DiskInv
<1> QED
  BY <1>1, DiskInvariant, PTL

\* ReadSector and WriteSector take effect at one moment each, for any number of
\* threads and sectors: SynchDisk implements AtomicDisk.
THEOREM ImplementsAtomicDiskAlways == DiskSpec => ImplementsAtomicDisk
<1> DEFINE Served == {t \in Thread : pc[t] \in {"Await", "Done"}}
<1>1. DiskInit => Abstract!AtomicInit
  BY DEF DiskInit, Abstract!AtomicInit
<1>2. ASSUME DiskInv, [DiskNext]_synchDiskVars
      PROVE  [Abstract!AtomicNext]_<<disk, call, Served>>
  <2>1. DiskTypeOK
    BY <1>2 DEF DiskInv
  <2>2. ASSUME NEW t \in Thread, NEW r \in Request, Enter(t, r) PROVE Abstract!AtomicNext
    <3>1. pc[t] = "idle" /\ pc' = [pc EXCEPT ![t] = "Request"]
          /\ call' = [call EXCEPT ![t] = r] /\ UNCHANGED disk
      BY <2>2 DEF Enter, At, Goto
    <3>2. call[t] = NoCall /\ Served' = Served
      BY <2>1, <3>1 DEF DiskTypeOK
    <3>3. r \in Abstract!Request
      BY DEF Request, Abstract!Request
    <3> QED
      BY <3>1, <3>2, <3>3 DEF Abstract!Call, Abstract!AtomicNext
  <2>3. ASSUME NEW t \in Thread, DiskRequest(t) PROVE Abstract!AtomicNext
    <3>1. pc[t] = "Request" /\ pc' = [pc EXCEPT ![t] = "Await"]
      BY <2>3 DEF DiskRequest, At, Goto
    <3>2. call[t] # NoCall /\ t \notin Served /\ Served' = Served \cup {t}
      BY <2>1, <3>1, SynchDiskAssumption DEF DiskTypeOK
    <3>3. Abstract!Serve(t)
      BY <2>3, <3>2 DEF Abstract!Serve, DiskRequest
    <3> QED
      BY <3>3 DEF Abstract!AtomicNext
  <2>4. ASSUME NEW t \in Thread, Done(t) PROVE Abstract!AtomicNext
    <3>1. pc[t] = "Done" /\ pc' = [pc EXCEPT ![t] = "idle"]
          /\ call' = [call EXCEPT ![t] = NoCall] /\ UNCHANGED disk
      BY <2>4 DEF Done, At, Goto
    <3>2. t \in Served /\ Served' = Served \ {t}
      BY <2>1, <3>1 DEF DiskTypeOK
    <3>3. Abstract!Return(t)
      BY <3>1, <3>2 DEF Abstract!Return
    <3> QED
      BY <3>3 DEF Abstract!AtomicNext
  <2>5. ASSUME NEW t \in Thread, Await(t) PROVE UNCHANGED <<disk, call, Served>>
    <3>1. pc[t] = "Await" /\ pc' = [pc EXCEPT ![t] = "Done"] /\ UNCHANGED <<call, disk>>
      BY <2>5 DEF Await, At, Goto
    <3>2. Served' = Served
      BY <2>1, <3>1 DEF DiskTypeOK
    <3> QED
      BY <3>1, <3>2
  <2>6. ASSUME NEW t \in Thread, Kernel(t) PROVE UNCHANGED <<disk, call, Served>>
    BY <2>6 DEF Kernel
  <2>7. CASE HandleInterrupt \/ WakeMachine \/ UNCHANGED synchDiskVars
    BY <2>7 DEF HandleInterrupt, WakeMachine, synchDiskVars
  <2> QED
    BY <1>2, <2>2, <2>3, <2>4, <2>5, <2>6, <2>7 DEF DiskNext
<1>3. DiskInv /\ [DiskNext]_synchDiskVars => [Abstract!AtomicNext]_(Abstract!diskVars)
  BY <1>2 DEF Abstract!diskVars
<1> QED
  BY <1>1, <1>3, DiskInvariant, PTL DEF DiskSpec, ImplementsAtomicDisk, Abstract!AtomicSpec
=============================================================================
