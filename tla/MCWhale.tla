------------------------------- MODULE MCWhale -------------------------------
(* Instances of Whale for TLC. *)
EXTENDS Whale, TLC

CONSTANTS m, t1, t2, t3, lock, maleSnd, femaleSnd, matchSnd, matchWait

MCThread == {m, t1, t2, t3}
MCLock == {lock}
MCCondition == {maleSnd, femaleSnd, matchSnd, matchWait}
MCLockOf == [c \in MCCondition |-> lock]
MCSnd == [Male |-> maleSnd, Female |-> femaleSnd, Matchmaker |-> matchSnd]
MCNone == << >>
MCPriority == {0}
MCSymmetry == Permutations(MCThread \ {m})
=============================================================================
