------------------------------ MODULE ThreadLife ------------------------------
(***************************************************************************)
(* The life of a thread, threads/thread.cc: construction, Fork, Join,      *)
(* Finish, and the deletion of its carcass by Scheduler::Run, on top of    *)
(* the semaphores and the scheduler of Synch.                              *)
(*                                                                         *)
(* Join and Finish hand over through two semaphores of the joined thread:  *)
(* Finish does joinSignal->V(); mayDie->P(), with interrupts off, and Join *)
(* does joinSignal->P(); mayDie->V(), interrupts enabled in between.  A    *)
(* thread may be joined once, as the pair of semaphores can serve once.    *)
(***************************************************************************)
EXTENDS Synch

CONSTANTS
  MayDie, JoinSignal,   \* the two semaphores of each thread
  MaxThreads            \* bound: threads the general client creates

ASSUME ThreadLifeAssumption ==
  /\ MayDie \in [Thread -> Semaphore]
  /\ JoinSignal \in [Thread -> Semaphore]
  /\ \A t, u \in Thread : /\ MayDie[t] # JoinSignal[u]
                          /\ MayDie[t] = MayDie[u] => t = u
                          /\ JoinSignal[t] = JoinSignal[u] => t = u

VARIABLES
  joining,   \* Thread::joining: the thread was constructed to be joined
  phase,     \* how far a thread has got in Finish: "alive",
             \* "signalled", "permitted", "dead"
  target,    \* the thread whose Join a thread is in
  joined,    \* threads somebody has called Join on
  aborted    \* an ASSERT or Nachos itself has failed: the machine is gone

life == <<joining, phase, target, joined, aborted>>
lifeVars == <<vars, life>>

\* t runs with interrupts enabled (in Finish they are off); in its own code,
\* if it is not in Join either.
InThread(t) == InClient(t) /\ phase[t] = "alive"
InBody(t) == InThread(t) /\ target[t] = NoThread

\* Mutant of NewThread: the join signal is up from the start.
NewThreadSignalled(t, u, join) ==
  /\ InBody(t)
  /\ sched.status[u] = "UNBORN"
  /\ sched' = [sched EXCEPT !.status[u] = "JUST_CREATED", !.key[u] = 0]
  /\ joining' = [joining EXCEPT ![u] = join]
  /\ value' = [value EXCEPT ![MayDie[u]] = IF join THEN 0 ELSE 1, ![JoinSignal[u]] = 1]
  /\ UNCHANGED <<isLocked, currThread, inside, queue, blockedIn, broadcasting, pending,
                 phase, target, joined, aborted>>

\* The constructor.  The new thread is unknown to others, so the P() on mayDie,
\* which is 1, cannot block.
NewThread(t, u, join) ==
  /\ InBody(t)
  /\ sched.status[u] = "UNBORN"
  /\ sched' = [sched EXCEPT !.status[u] = "JUST_CREATED", !.key[u] = 0]
  /\ joining' = [joining EXCEPT ![u] = join]
  /\ value' = [value EXCEPT ![MayDie[u]] = IF join THEN 0 ELSE 1,
                            ![JoinSignal[u]] = 0]
  /\ UNCHANGED <<isLocked, currThread, inside, queue, blockedIn, broadcasting, pending,
                 phase, target, joined, aborted>>

\* Fork allocates a stack that starts at ThreadRoot.
Fork(t, u) ==
  /\ InBody(t)
  /\ sched.status[u] = "JUST_CREATED"
  /\ sched' = ReadyToRun([sched EXCEPT !.fresh = @ \cup {u}], u)
  /\ UNCHANGED <<objects, inside, queue, blockedIn, broadcasting, pending, life>>

\* Join, up to the return of joinSignal->P().
JoinWait(t, u) ==
  /\ InBody(t)
  /\ u # t
  /\ sched.status[u] # "UNBORN"
  /\ joining[u]
  /\ u \notin joined
  /\ PLoop(t, JoinSignal[u])
  /\ target' = [target EXCEPT ![t] = u]
  /\ joined' = joined \cup {u}
  /\ UNCHANGED <<joining, phase, aborted>>

\* The rest of Join.
JoinRelease(t) ==
  /\ InThread(t)
  /\ target[t] # NoThread
  /\ VBody(MayDie[target[t]])
  /\ target' = [target EXCEPT ![t] = NoThread]
  /\ UNCHANGED <<pending, joining, phase, joined, aborted>>

\* Mutant of Finish: the joiner is not told.
FinishSilent(t) ==
  /\ InBody(t)
  /\ phase' = [phase EXCEPT ![t] = IF joining[t] THEN "signalled" ELSE "permitted"]
  /\ UNCHANGED <<vars, joining, target, joined, aborted>>

\* Finish turns interrupts off for good, so that its three steps run without
\* another thread in between, unless mayDie->P() sleeps.
Finish(t) ==
  /\ InBody(t)
  /\ \/ /\ joining[t]
        /\ VBody(JoinSignal[t])
        /\ phase' = [phase EXCEPT ![t] = "signalled"]
     \/ /\ ~joining[t]
        /\ phase' = [phase EXCEPT ![t] = "permitted"]
        /\ UNCHANGED <<sched, objects, inside, queue, blockedIn, broadcasting>>
  /\ UNCHANGED <<pending, joining, target, joined, aborted>>

FinishWait(t) ==
  /\ InClient(t)
  /\ phase[t] = "signalled"
  /\ PLoop(t, MayDie[t])
  /\ phase' = [phase EXCEPT ![t] = "permitted"]
  /\ UNCHANGED <<joining, target, joined, aborted>>

\* Mutant of FinishDie: the destructor runs at once, on the thread's own stack.
FinishDieAtOnce(t) ==
  /\ InClient(t)
  /\ phase[t] = "permitted"
  /\ phase' = [phase EXCEPT ![t] = "dead"]
  /\ sched' = [sched EXCEPT !.status[t] = "DELETED"]
  /\ UNCHANGED <<objects, inside, queue, blockedIn, broadcasting, pending,
                 joining, target, joined, aborted>>

FinishDie(t) ==
  /\ InClient(t)
  /\ phase[t] = "permitted"
  /\ phase' = [phase EXCEPT ![t] = "dead"]
  /\ sched' = Sleep([sched EXCEPT !.carcass = t])
  /\ UNCHANGED <<objects, inside, queue, blockedIn, broadcasting, pending,
                 joining, target, joined, aborted>>

\* A woken thread retries its P.
ResumeP(t) == Resume(t) /\ UNCHANGED life

Prioritise(t, u, p) ==
  /\ InBody(t)
  /\ sched.status[u] \notin {"UNBORN", "DELETED"}
  /\ SetPriority(t, u, p)
  /\ UNCHANGED life

\* Thread::Yield, or a time slice.
Preempt(t) == InThread(t) /\ YieldCPU(t) /\ UNCHANGED life
-----------------------------------------------------------------------------
LifeInit ==
  /\ InitSynch
  /\ sched = [current |-> Main,
              ready   |-> << >>,
              status  |-> [t \in Thread |-> IF t = Main THEN "RUNNING" ELSE "UNBORN"],
              key     |-> [t \in Thread |-> 0],
              fresh   |-> {},
              carcass |-> NoThread]
  /\ joining = [t \in Thread |-> FALSE]
  /\ phase = [t \in Thread |-> "alive"]
  /\ target = [t \in Thread |-> NoThread]
  /\ joined = {}
  /\ aborted = FALSE

\* Which of the threads not yet there comes next does not matter.
NextThread == CHOOSE u \in Thread : sched.status[u] = "UNBORN"
MayCreate == Cardinality({u \in Thread : sched.status[u] # "UNBORN"}) < MaxThreads

LifeStep(t) ==
  \/ \E join \in BOOLEAN : MayCreate /\ NewThread(t, NextThread, join)
  \/ \E u \in Thread : Fork(t, u) \/ JoinWait(t, u)
  \/ JoinRelease(t)
  \/ Finish(t) \/ FinishWait(t) \/ FinishDie(t)
  \/ \E u \in Thread, p \in Priority : Prioritise(t, u, p)
  \/ ResumeP(t)
  \/ Preempt(t)

LifeNext == \E t \in Thread : LifeStep(t)

LifeSpec == LifeInit /\ [][LifeNext]_lifeVars
-----------------------------------------------------------------------------
\* A thread that is deleted has finished, and nothing refers to it any more:
\* not the processor, no list, no thread in its Join (the destructor frees its
\* semaphores as well).
NoDanglingThread ==
  \A t \in Thread :
    sched.status[t] = "DELETED" =>
      /\ phase[t] = "dead"
      /\ t # sched.current
      /\ t \notin Items(sched.ready)
      /\ \A o \in Object : t \notin Items(queue[o])
      /\ \A u \in Thread : target[u] # t
      /\ IsEmpty(queue[MayDie[t]]) /\ IsEmpty(queue[JoinSignal[t]])

\* joinSignal->P() returns in Join only after the thread joined has got to its
\* Finish; that thread waits there until Join lets it go, and a joinable thread
\* dies only once its Join is over.
JoinAfterFinish ==
  \A t \in Thread :
    /\ target[t] # NoThread /\ blockedIn[t] = NoObject =>
         phase[target[t]] \in {"signalled", "permitted"}
           /\ sched.status[target[t]] # "DELETED"
    /\ joining[t] /\ phase[t] = "dead" => t \in joined /\ \A u \in Thread : target[u] # t

\* Somebody waits in Join for a thread that has got to its Finish.
JoinOver == \E t, u \in Thread : target[t] = u /\ phase[u] # "alive"

\* Who waits in Join for a thread that finishes gets to the end of Join.  (There
\* is one Join for each thread, so that all are over again and again, unless an
\* ASSERT stops the machine.)
JoinReturns == JoinOver ~> ~JoinOver \/ aborted
=============================================================================
