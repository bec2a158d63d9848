------------------------------ MODULE MCMailbox ------------------------------
(* Instances of Mailbox for TLC. *)
EXTENDS Mailbox, TLC

CONSTANTS m, t1, t2, t3, lock, mailSnd, mailRcv

MCThread == {m, t1, t2, t3}
MCLock == {lock}
MCCondition == {mailSnd, mailRcv}
MCLockOf == [c \in MCCondition |-> lock]
MCNone == << >>
MCPriority == {0, 1}
MCSymmetry == Permutations(MCThread \ {m})
=============================================================================
