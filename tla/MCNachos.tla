------------------------------- MODULE MCNachos -------------------------------
(* Instances of Nachos for TLC. *)
EXTENDS Nachos

CONSTANTS m, t1, t2, t3, t4, t5, t6, t7, t8, t9, table, test, wGo, rGo

MCCrew == <<t1, t2, t3, t4, t5, t6, t7, t8, t9>>
MCThread == {m, t1, t2, t3, t4, t5, t6, t7, t8, t9}
MCMayDie == [t \in MCThread |-> <<"mayDie", t>>]
MCJoinSignal == [t \in MCThread |-> <<"joinSignal", t>>]
MCSemaphore == {"mayDie", "joinSignal"} \X MCThread
MCLock == {table, test}
MCCondition == {wGo, rGo}
MCLockOf == [c \in MCCondition |-> test]
MCInitialValue == [s \in MCSemaphore |-> IF s = <<"mayDie", m>> THEN 1 ELSE 0]
MCPriority == {0}
=============================================================================
