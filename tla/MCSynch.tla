------------------------------- MODULE MCSynch -------------------------------
(* Instances of Synch for TLC. *)
EXTENDS Synch

CONSTANTS m, t1, t2, s1, l1, c1

MCThread == {m, t1, t2}
MCSemaphore == {s1}
MCLock == {l1}
MCCondition == {c1}
MCLockOf == [c \in MCCondition |-> l1]
MCInitialValue == [s \in MCSemaphore |-> 0]
MCPriority == {0, 1}
=============================================================================
