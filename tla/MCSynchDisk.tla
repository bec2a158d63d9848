----------------------------- MODULE MCSynchDisk -----------------------------
(* Instances of SynchDisk for TLC. *)
EXTENDS SynchDisk

CONSTANTS m, t1, t2, lock, semaphore

MCThread == {m, t1, t2}
MCSemaphore == {semaphore}
MCLock == {lock}
MCLockOf == << >>
MCInitialValue == [s \in MCSemaphore |-> 0]
MCPriority == {0}
MCSector == {1, 2}
MCData == {0, 1}
=============================================================================
