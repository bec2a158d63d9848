------------------------------ MODULE SynchList ------------------------------
(***************************************************************************)
(* threads/synchlist.cc: a list shared by threads, with a lock and a       *)
(* condition variable on which Remove waits while the list is empty.       *)
(***************************************************************************)
EXTENDS Synch

CONSTANTS
  ListLock, ListEmpty,   \* SynchList::lock, SynchList::listEmpty
  Item, NoItem,          \* what is put on the list; NoItem is NULL
  MaxCalls               \* bound on the calls

ASSUME SynchListAssumption ==
  /\ ListLock \in Lock
  /\ ListEmpty \in Condition /\ LockOf[ListEmpty] = ListLock
  /\ NoItem \notin Item

VARIABLES
  pc,        \* what a thread does next in its call; "idle" outside
  list,      \* SynchList::list
  item,      \* the argument of a thread's Append, the result of its Remove
  calls      \* calls so far

listVars == <<vars, pc, list, item, calls>>

Goto(t, label) == pc' = [pc EXCEPT ![t] = label]
At(t, label) == InClient(t) /\ pc[t] = label
-----------------------------------------------------------------------------
AppendItem(t, x) ==
  /\ At(t, "idle")
  /\ calls < MaxCalls
  /\ Acquire(t, ListLock)
  /\ item' = [item EXCEPT ![t] = x]
  /\ calls' = calls + 1
  /\ Goto(t, "AppendLocked")
  /\ UNCHANGED list

\* Mutant of AppendLocked: no signal.
AppendLockedQuiet(t) ==
  /\ At(t, "AppendLocked")
  /\ list' = Append0(list, item[t])
  /\ item' = [item EXCEPT ![t] = NoItem]
  /\ Goto(t, "AppendDone")
  /\ UNCHANGED <<vars, calls>>

AppendLocked(t) ==
  /\ At(t, "AppendLocked")
  /\ list' = Append0(list, item[t])
  /\ item' = [item EXCEPT ![t] = NoItem]
  /\ Signal(t, ListEmpty)
  /\ Goto(t, "AppendDone")
  /\ UNCHANGED calls

RemoveItem(t) ==
  /\ At(t, "idle")
  /\ calls < MaxCalls
  /\ Acquire(t, ListLock)
  /\ calls' = calls + 1
  /\ Goto(t, "RemoveLoop")
  /\ UNCHANGED <<list, item>>

\* Mutant of RemoveLoop: the list is tested once, with if.
RemoveLoopOnce(t) ==
  /\ \/ At(t, "RemoveLoop") /\ IsEmpty(list) /\ Wait(t, ListEmpty)
        /\ Goto(t, "Woken") /\ UNCHANGED <<list, item>>
     \/ /\ At(t, IF IsEmpty(list) THEN "Woken" ELSE pc[t])
        /\ pc[t] \in {"RemoveLoop", "Woken"}
        /\ item' = [item EXCEPT ![t] = IF IsEmpty(list) THEN NoItem ELSE First(list)]
        /\ list' = Rest(list)
        /\ Goto(t, "RemoveDone")
        /\ UNCHANGED vars
  /\ UNCHANGED calls

RemoveLoop(t) ==
  /\ At(t, "RemoveLoop")
  /\ \/ IsEmpty(list) /\ Wait(t, ListEmpty) /\ UNCHANGED <<pc, list, item>>
     \/ /\ ~IsEmpty(list)
        /\ item' = [item EXCEPT ![t] = First(list)]
        /\ list' = Rest(list)
        /\ Goto(t, "RemoveDone")
        /\ UNCHANGED vars
  /\ UNCHANGED calls

\* Mapcar reads the list under the lock.
Mapcar(t) ==
  /\ At(t, "idle")
  /\ calls < MaxCalls
  /\ Acquire(t, ListLock)
  /\ calls' = calls + 1
  /\ Goto(t, "MapcarDone")
  /\ UNCHANGED <<list, item>>

\* Release, and the return to the caller.
Done(t) ==
  /\ \E label \in {"AppendDone", "RemoveDone", "MapcarDone"} : At(t, label)
  /\ Release(t, ListLock)
  /\ item' = [item EXCEPT ![t] = NoItem]
  /\ Goto(t, "idle")
  /\ UNCHANGED <<list, calls>>

\* What the kernel does with a thread between two steps of its call.
Kernel(t) == (Resume(t) \/ YieldCPU(t)) /\ UNCHANGED <<pc, list, item, calls>>

ListInit ==
  /\ Init
  /\ pc = [t \in Thread |-> "idle"]
  /\ list = << >>
  /\ item = [t \in Thread |-> NoItem]
  /\ calls = 0

ListStep(t) ==
  \/ \E x \in Item : AppendItem(t, x)
  \/ AppendLocked(t)
  \/ RemoveItem(t)
  \/ RemoveLoop(t)
  \/ Mapcar(t)
  \/ Done(t)
  \/ Kernel(t)

ListSpec == ListInit /\ [][\E t \in Thread : ListStep(t)]_listVars

\* As in Synch, threads are given turns and go on inside their calls; nobody
\* is obliged to make a call.  (As the calls are bounded, a thread woken for
\* the lock gets it in the end; a stream of callers that barge in can keep it
\* from the lock for ever.)
ListFairness ==
  \A t \in Thread :
    /\ SF_listVars(AppendLocked(t) \/ RemoveLoop(t) \/ Done(t))
    /\ WF_listVars(Resume(t) /\ UNCHANGED <<pc, list, item, calls>>)
    /\ SF_listVars(YieldCPU(t) /\ UNCHANGED <<pc, list, item, calls>>)

FairListSpec == ListSpec /\ ListFairness
-----------------------------------------------------------------------------
\* SynchList implements the channel of module Channel: an item appended is
\* removed once, by one caller, in FIFO order, and Remove returns an item, never
\* NULL (its ASSERT), whoever comes between the Signal and the woken thread.
CallOf(t) ==
  CASE pc[t] \in {"AppendLocked", "AppendDone"} -> "Append"
    [] pc[t] \in {"RemoveLoop", "RemoveDone"} -> "Remove"
    [] OTHER -> "none"

Abstract ==
  INSTANCE Channel WITH
    Caller <- Thread,
    items  <- [i \in DOMAIN list |-> list[i].item],
    call   <- [t \in Thread |-> CallOf(t)],
    arg    <- item,
    done   <- {t \in Thread : pc[t] \in {"AppendDone", "RemoveDone"}}

ImplementsChannel == Abstract!ChannelSpec

\* Nobody sleeps in Remove for ever over an item: the Signal of each Append is
\* enough, though it wakes one thread and that thread may find the list empty.
ItemIsTaken ==
  \A t \in Thread :
    pc[t] = "RemoveLoop" /\ ~IsEmpty(list) ~> pc[t] # "RemoveLoop" \/ IsEmpty(list)
=============================================================================
