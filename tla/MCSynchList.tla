----------------------------- MODULE MCSynchList -----------------------------
(* Instances of SynchList for TLC. *)
EXTENDS SynchList

CONSTANTS m, t1, t2, lock, listEmpty, x, y

MCThread == {m, t1, t2}
MCLock == {lock}
MCCondition == {listEmpty}
MCLockOf == [c \in MCCondition |-> lock]
MCNone == << >>
MCPriority == {0}
MCItem == {x, y}
=============================================================================
