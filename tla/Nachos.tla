-------------------------------- MODULE Nachos --------------------------------
(***************************************************************************)
(* What threads/main.cc starts: a thread test, a first user process, or,   *)
(* as the most general kernel, threads that create, fork and join each     *)
(* other at will.  The three share Thread, the scheduler and Synch.        *)
(***************************************************************************)
EXTENDS Process, ThreadTest

VARIABLE boot    \* "test", "process" or "threads"

nachosVars == <<lifeVars, tableVars, testVars, boot>>

\* The variables of the tests, if none runs, and of the table.
NoTest ==
  /\ testnum = 0 /\ slices = 0 /\ at = << >>
  /\ nReaders = 0 /\ wantToWrite = FALSE /\ printed = << >> /\ ran = << >>

NoTable ==
  /\ backing = [i \in 0..MAX_PROGS - 1 |-> NULL] /\ lastElement = 0
  /\ call = [t \in Thread |-> InUser] /\ children = [t \in Thread |-> {}]
  /\ overran = FALSE

\* main: Initialize, then the test or the program the command line asks for.
NachosInit ==
  \/ boot = "test" /\ TestInit /\ NoTable
  \/ boot = "process" /\ ProcessInit /\ NoTest
  \/ boot = "threads" /\ LifeInit /\ NoTest /\ NoTable

NachosNext ==
  /\ UNCHANGED boot
  /\ \/ boot = "test" /\ TestNext /\ UNCHANGED tableVars
     \/ boot = "process" /\ ProcessNext /\ UNCHANGED testVars
     \/ boot = "threads" /\ LifeNext /\ UNCHANGED <<tableVars, testVars>>

NachosSpec == NachosInit /\ [][NachosNext]_nachosVars

\* With the time slicing of -rs, timer interrupts keep coming, so whoever runs
\* its own code is preempted in the end (a test has a bounded number of slices,
\* and goes on by itself); a thread that is given the processor again and again
\* gets through the rest of its Join (strong fairness, as a time slice may end
\* before the step); and what runs with interrupts off is not interrupted.
NachosFairness ==
  /\ SF_lifeVars(\E t \in Thread : ~aborted /\ JoinRelease(t))
  /\ WF_lifeVars(\E t \in Thread : ~aborted /\ (FinishWait(t) \/ FinishDie(t) \/ ResumeP(t)))
  /\ WF_lifeVars(\E t \in Thread : ~aborted /\ boot # "test" /\ Preempt(t))
  /\ WF_<<lifeVars, testVars>>(boot = "test" /\ TestNext)

FairNachosSpec == NachosSpec /\ NachosFairness
=============================================================================
