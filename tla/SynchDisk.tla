------------------------------ MODULE SynchDisk ------------------------------
(***************************************************************************)
(* filesys/synchdisk.cc on top of the request interface of machine/disk.cc:*)
(* threads read and write sectors, one request at a time, each waiting for *)
(* the disk's interrupt.  The disk transfers the data when the request is  *)
(* made and interrupts later.                                              *)
(***************************************************************************)
EXTENDS Synch

CONSTANTS
  DiskSemaphore, DiskLock,   \* SynchDisk::semaphore, SynchDisk::lock
  Sector, Data, Initial,     \* sectors, their contents, those of a new disk
  NoCall,
  MaxCalls                   \* bound on the calls

Request == [op : {"Read", "Write"}, sector : Sector, data : Data]

ASSUME SynchDiskAssumption ==
  /\ DiskSemaphore \in Semaphore /\ InitialValue[DiskSemaphore] = 0
  /\ DiskLock \in Lock
  /\ Initial \in Data
  /\ NoCall \notin Request

VARIABLES
  pc,        \* what a thread does next in its call; "idle" outside
  call,      \* the arguments of a thread's call, and the data it reads
  disk,      \* the contents of the disk
  active,    \* Disk::active
  calls      \* calls so far

synchDiskVars == <<vars, pc, call, disk, active, calls>>

Goto(t, label) == pc' = [pc EXCEPT ![t] = label]
At(t, label) == InClient(t) /\ pc[t] = label
-----------------------------------------------------------------------------
\* Mutant of Enter: the lock is not taken.
EnterUnlocked(t, r) ==
  /\ At(t, "idle")
  /\ calls < MaxCalls
  /\ calls' = calls + 1
  /\ call' = [call EXCEPT ![t] = r]
  /\ Goto(t, "Request")
  /\ UNCHANGED <<vars, disk, active>>

\* ReadSector and WriteSector.
Enter(t, r) ==
  /\ At(t, "idle")
  /\ calls < MaxCalls
  /\ Acquire(t, DiskLock)
  /\ calls' = calls + 1
  /\ call' = [call EXCEPT ![t] = r]
  /\ Goto(t, "Request")
  /\ UNCHANGED <<disk, active>>

\* Mutant of DiskRequest: a read leaves the caller's buffer as it is.
DiskRequestUnread(t) ==
  LET r == call[t]
  IN  /\ At(t, "Request")
      /\ active' = TRUE
      /\ pending' = pending + 1
      /\ disk' = IF r.op = "Read" THEN disk ELSE [disk EXCEPT ![r.sector] = r.data]
      /\ Goto(t, "Await")
      /\ UNCHANGED <<sched, objects, queue, blockedIn, broadcasting, inside, call, calls>>

\* Disk::ReadRequest and Disk::WriteRequest.
DiskRequest(t) ==
  LET r == call[t]
  IN  /\ At(t, "Request")
      /\ active' = TRUE
      /\ pending' = pending + 1
      /\ \/ /\ r.op = "Read"
            /\ call' = [call EXCEPT ![t].data = disk[r.sector]]
            /\ UNCHANGED disk
         \/ /\ r.op = "Write"
            /\ disk' = [disk EXCEPT ![r.sector] = r.data]
            /\ UNCHANGED call
      /\ Goto(t, "Await")
      /\ UNCHANGED <<sched, objects, queue, blockedIn, broadcasting, inside, calls>>

\* Mutant of Await: the call does not wait for the interrupt.
AwaitNot(t) ==
  /\ At(t, "Await")
  /\ Goto(t, "Done")
  /\ UNCHANGED <<vars, call, disk, active, calls>>

Await(t) ==
  /\ At(t, "Await")
  /\ P(t, DiskSemaphore)
  /\ Goto(t, "Done")
  /\ UNCHANGED <<call, disk, active, calls>>

Done(t) ==
  /\ At(t, "Done")
  /\ Release(t, DiskLock)
  /\ call' = [call EXCEPT ![t] = NoCall]
  /\ Goto(t, "idle")
  /\ UNCHANGED <<disk, active, calls>>

\* Mutant of HandleInterrupt: the thread is not woken.
HandleInterruptQuiet ==
  /\ pending > 0
  /\ Idle \/ InClient(sched.current)
  /\ pending' = pending - 1
  /\ active' = FALSE
  /\ UNCHANGED <<sched, objects, queue, blockedIn, broadcasting, inside, pc, call, disk, calls>>

\* Disk::HandleInterrupt and SynchDisk::RequestDone.
HandleInterrupt ==
  /\ pending > 0
  /\ Idle \/ InClient(sched.current)
  /\ pending' = pending - 1
  /\ active' = FALSE
  /\ VBody(DiskSemaphore)
  /\ UNCHANGED <<pc, call, disk, calls>>

\* What the kernel does with threads between the steps of their calls.
Kernel(t) == (Resume(t) \/ YieldCPU(t)) /\ UNCHANGED <<pc, call, disk, active, calls>>
WakeMachine == LeaveIdle /\ UNCHANGED <<pc, call, disk, active, calls>>

DiskInit ==
  /\ Init
  /\ pc = [t \in Thread |-> "idle"]
  /\ call = [t \in Thread |-> NoCall]
  /\ disk = [s \in Sector |-> Initial]
  /\ active = FALSE
  /\ calls = 0

DiskNext ==
  \/ \E t \in Thread : \/ \E r \in Request : Enter(t, r)
                       \/ DiskRequest(t) \/ Await(t) \/ Done(t) \/ Kernel(t)
  \/ HandleInterrupt
  \/ WakeMachine

DiskSpec == DiskInit /\ [][DiskNext]_synchDiskVars

\* Threads are given turns and go on in their calls; the disk answers; an idle
\* machine goes on when a thread is ready.
DiskFairness ==
  /\ \A t \in Thread :
       /\ SF_synchDiskVars(DiskRequest(t) \/ Await(t) \/ Done(t))
       /\ SF_synchDiskVars(Kernel(t))
  /\ WF_synchDiskVars(HandleInterrupt)
  /\ WF_synchDiskVars(WakeMachine)

FairDiskSpec == DiskSpec /\ DiskFairness
-----------------------------------------------------------------------------
\* The disk gets one request at a time (the ASSERT(!active) of ReadRequest and
\* WriteRequest), its interrupt is due exactly while it is active, and ReadSector
\* and WriteSector return only after the interrupt for their own request: no V of
\* an earlier one is left in the semaphore for them.
OneRequestAtATime ==
  /\ pending = IF active THEN 1 ELSE 0
  /\ \A t \in Thread :
       /\ At(t, "Request") => ~active
       /\ At(t, "Done") => ~active /\ value[DiskSemaphore] = 0

Abstract ==
  INSTANCE AtomicDisk WITH
    Caller   <- Thread,
    contents <- disk,
    request  <- call,
    served   <- {t \in Thread : pc[t] \in {"Await", "Done"}}

\* SynchDisk implements the atomic disk.
ImplementsAtomicDisk == Abstract!AtomicSpec

\* Every ReadSector and WriteSector returns.
CallReturns == \A t \in Thread : pc[t] # "idle" ~> pc[t] = "idle"
=============================================================================
