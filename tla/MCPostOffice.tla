----------------------------- MODULE MCPostOffice -----------------------------
(* The instance of PostOffice for TLC. *)
EXTENDS PostOffice

CONSTANTS m, c, w, available, sent, lock, b1, b2

MCThread == {m, c, w}
MCSemaphore == {available, sent}
MCLock == {lock}
MCLockOf == << >>
MCInitialValue == [s \in MCSemaphore |-> 0]
MCPriority == {0}
MCBox == {b1, b2}
=============================================================================
