------------------------------- MODULE Mailbox -------------------------------
(***************************************************************************)
(* The Mailbox of threads/synch.cc: Send and Receive meet through a lock,  *)
(* two condition variables, a buffer and the counts of pending calls.      *)
(*                                                                         *)
(* pc[t] is where t is in its call.  "idle" is outside; the other values   *)
(* name what t does next, holding the lock once Acquire or Wait returns.   *)
(* Messages are numbered in the order their Send appends them.             *)
(***************************************************************************)
EXTENDS Synch

CONSTANTS
  BoxLock, MailSnd, MailRcv,   \* Mailbox::lock, mailSnd, mailRcv
  MaxCalls                     \* bound on the calls of Send, and of Receive

ASSUME MailboxAssumption ==
  /\ BoxLock \in Lock
  /\ MailSnd \in Condition /\ LockOf[MailSnd] = BoxLock
  /\ MailRcv \in Condition /\ LockOf[MailRcv] = BoxLock
  /\ MailSnd # MailRcv

VARIABLES
  pc,
  buffer,           \* Mailbox::buffer
  numPendingSends,
  numPendingRecs,
  calls,            \* history: calls begun, [Send |-> ..., Receive |-> ...]
  sent,             \* history: messages whose Send has returned
  received          \* history: messages Receive took, in order

box == <<buffer, numPendingSends, numPendingRecs>>
mailVars == <<vars, pc, box, calls, sent, received>>

Goto(t, label) == pc' = [pc EXCEPT ![t] = label]
At(t, label) == InClient(t) /\ pc[t] = label
-----------------------------------------------------------------------------
Send(t) ==
  /\ At(t, "idle")
  /\ calls.Send < MaxCalls
  /\ Acquire(t, BoxLock)
  /\ calls' = [calls EXCEPT !.Send = @ + 1]
  /\ Goto(t, "SendAppend")
  /\ UNCHANGED <<box, sent, received>>

SendAppend(t) ==
  /\ At(t, "SendAppend")
  /\ numPendingSends' = numPendingSends + 1
  /\ buffer' = Append0(buffer, Len(buffer) + Len(received) + 1)
  /\ Goto(t, "SendLoop")
  /\ UNCHANGED <<vars, numPendingRecs, calls, sent, received>>

\* Mutant of SendLoop: the loop tests once, with if.
SendLoopOnce(t) ==
  /\ At(t, "SendLoop")
  /\ \/ numPendingRecs = 0 /\ Wait(t, MailSnd) /\ Goto(t, "SendDone")
     \/ numPendingRecs # 0 /\ Signal(t, MailRcv) /\ Goto(t, "SendDone")
  /\ UNCHANGED <<box, calls, sent, received>>

\* Mutant of SendLoop: the receiver is not signalled.
SendLoopQuiet(t) ==
  /\ At(t, "SendLoop")
  /\ \/ numPendingRecs = 0 /\ Wait(t, MailSnd) /\ UNCHANGED pc
     \/ numPendingRecs # 0 /\ UNCHANGED vars /\ Goto(t, "SendDone")
  /\ UNCHANGED <<box, calls, sent, received>>

SendLoop(t) ==
  /\ At(t, "SendLoop")
  /\ \/ numPendingRecs = 0 /\ Wait(t, MailSnd) /\ UNCHANGED pc
     \/ numPendingRecs # 0 /\ Signal(t, MailRcv) /\ Goto(t, "SendDone")
  /\ UNCHANGED <<box, calls, sent, received>>

SendDone(t) ==
  /\ At(t, "SendDone")
  /\ numPendingRecs' = numPendingRecs - 1
  /\ sent' = sent + 1
  /\ Release(t, BoxLock)
  /\ Goto(t, "idle")
  /\ UNCHANGED <<buffer, numPendingSends, calls, received>>
-----------------------------------------------------------------------------
Receive(t) ==
  /\ At(t, "idle")
  /\ calls.Receive < MaxCalls
  /\ Acquire(t, BoxLock)
  /\ calls' = [calls EXCEPT !.Receive = @ + 1]
  /\ Goto(t, "ReceiveCount")
  /\ UNCHANGED <<box, sent, received>>

ReceiveCount(t) ==
  /\ At(t, "ReceiveCount")
  /\ numPendingRecs' = numPendingRecs + 1
  /\ Goto(t, "ReceiveLoop")
  /\ UNCHANGED <<vars, buffer, numPendingSends, calls, sent, received>>

\* The loop and, when it ends, the removal of the message: a message removed
\* from an empty buffer is a null pointer, 0 here.
ReceiveLoop(t) ==
  /\ At(t, "ReceiveLoop")
  /\ \/ /\ numPendingSends = 0
        /\ Wait(t, MailRcv)
        /\ UNCHANGED <<pc, buffer, received>>
     \/ /\ numPendingSends # 0
        /\ received' = Append(received, IF IsEmpty(buffer) THEN 0 ELSE First(buffer))
        /\ buffer' = Rest(buffer)
        /\ Signal(t, MailSnd)
        /\ Goto(t, "ReceiveDone")
  /\ UNCHANGED <<numPendingSends, numPendingRecs, calls, sent>>

\* Mutant of ReceiveDone: the count of pending sends is left to the sender.
ReceiveDoneKeepsCount(t) ==
  /\ At(t, "ReceiveDone")
  /\ Release(t, BoxLock)
  /\ Goto(t, "idle")
  /\ UNCHANGED <<box, calls, sent, received>>

ReceiveDone(t) ==
  /\ At(t, "ReceiveDone")
  /\ numPendingSends' = numPendingSends - 1
  /\ Release(t, BoxLock)
  /\ Goto(t, "idle")
  /\ UNCHANGED <<buffer, numPendingRecs, calls, sent, received>>
-----------------------------------------------------------------------------
\* What the kernel does with a thread between two steps of its call.
Kernel(t) == (Resume(t) \/ YieldCPU(t)) /\ UNCHANGED <<pc, box, calls, sent, received>>

MailInit ==
  /\ Init
  /\ pc = [t \in Thread |-> "idle"]
  /\ buffer = << >>
  /\ numPendingSends = 0
  /\ numPendingRecs = 0
  /\ calls = [Send |-> 0, Receive |-> 0]
  /\ sent = 0
  /\ received = << >>

MailNext ==
  \E t \in Thread :
    \/ Send(t) \/ SendAppend(t) \/ SendLoop(t) \/ SendDone(t)
    \/ Receive(t) \/ ReceiveCount(t) \/ ReceiveLoop(t) \/ ReceiveDone(t)
    \/ Kernel(t)

MailSpec == MailInit /\ [][MailNext]_mailVars
-----------------------------------------------------------------------------
\* Each message is received once, in the order of sending, and none before it
\* is sent: Receive never removes from an empty buffer.
FifoDelivery == received \o [i \in DOMAIN buffer |-> buffer[i].item]
                  = [i \in 1..Len(received) + Len(buffer) |-> i]

\* A Send returns only when a Receive has been called for it: of the calls of
\* Receive that got the lock, each lets one Send return.
SendMeetsReceive == sent <= calls.Receive /\ numPendingRecs >= 0

\* The box is at rest: everybody in a call sleeps in its Wait.
AtRest ==
  \A t \in Thread :
    \/ pc[t] = "idle"
    \/ t \in Items(queue[MailSnd]) \cup Items(queue[MailRcv])

\* A Send and a Receive never both wait for each other: when no other thread
\* is on its way through the box, only Sends or only Receives sleep in it, and
\* a Receive does not sleep over a message.
NoMissedMeeting ==
  AtRest => /\ IsEmpty(queue[MailSnd]) \/ IsEmpty(queue[MailRcv])
            /\ ~IsEmpty(queue[MailRcv]) => IsEmpty(buffer)
=============================================================================
