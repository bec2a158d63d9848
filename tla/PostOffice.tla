------------------------------ MODULE PostOffice ------------------------------
(***************************************************************************)
(* network/post.cc on top of machine/network.cc: threads send mail to the  *)
(* boxes of a machine and receive it from them; a thread, the postal       *)
(* worker, moves what arrives into the boxes.  The machine talks to itself *)
(* here: its socket holds what it has sent to its own address.             *)
(*                                                                         *)
(* The boxes are SynchLists, used through what module Channel promises of  *)
(* them: Append and Remove take effect at one moment, and a thread that    *)
(* waits for an item lets others run.  Mail is a box and a number.         *)
(***************************************************************************)
EXTENDS Synch

CONSTANTS
  Worker,                         \* the postal worker
  MessageAvailable, MessageSent,  \* semaphores
  SendLock,
  Box,
  NoMail,
  MaxSends, MaxReceives           \* bounds on the calls

ASSUME PostOfficeAssumption ==
  /\ Worker \in Thread \ {Main}
  /\ {MessageAvailable, MessageSent} \subseteq Semaphore
  /\ MessageAvailable # MessageSent
  /\ \A s \in Semaphore : InitialValue[s] = 0
  /\ SendLock \in Lock
  /\ NoMail \notin [box : Box, number : Nat]

VARIABLES
  pc,        \* what a thread does next in its call; "idle" outside
  mail,      \* the mail a thread is sending, has received or is to deliver
  box,       \* the box a thread receives from
  socket,    \* packets the UNIX socket holds
  inbox,     \* Network::inbox, NoMail while inHdr.length is 0
  boxes,     \* the messages in each box
  sends, receives,
  posted,    \* history: mail put into the socket, by box
  received   \* history: mail Receive returned, by box

postVars == <<vars, pc, mail, box, socket, inbox, boxes, sends, receives, posted, received>>

Goto(t, label) == pc' = [pc EXCEPT ![t] = label]
At(t, label) == InClient(t) /\ pc[t] = label
Client == Thread \ {Worker}
-----------------------------------------------------------------------------
\* Mutant of Send: the lock is not taken.
SendUnlocked(t, b) ==
  /\ At(t, "idle")
  /\ sends < MaxSends
  /\ sends' = sends + 1
  /\ mail' = [mail EXCEPT ![t] = [box |-> b, number |-> sends]]
  /\ Goto(t, "NetworkSend")
  /\ UNCHANGED <<vars, box, socket, inbox, boxes, receives, posted, received>>

\* PostOffice::Send, up to its Acquire.
Send(t, b) ==
  /\ At(t, "idle")
  /\ sends < MaxSends
  /\ sends' = sends + 1
  /\ mail' = [mail EXCEPT ![t] = [box |-> b, number |-> sends]]
  /\ Acquire(t, SendLock)
  /\ Goto(t, "NetworkSend")
  /\ UNCHANGED <<box, socket, inbox, boxes, receives, posted, received>>

\* Network::Send schedules its interrupt and loses the packet or not.
NetworkSend(t) ==
  LET b == mail[t].box
  IN  /\ At(t, "NetworkSend")
      /\ pending' = pending + 1
      /\ \/ UNCHANGED <<socket, posted>>
         \/ /\ socket' = Append(socket, mail[t])
            /\ posted' = [posted EXCEPT ![b] = Append(@, mail[t])]
      /\ Goto(t, "AwaitSent")
      /\ UNCHANGED <<sched, objects, queue, blockedIn, broadcasting, inside,
                     mail, box, inbox, boxes, sends, receives, received>>

AwaitSent(t) ==
  /\ At(t, "AwaitSent")
  /\ P(t, MessageSent)
  /\ Goto(t, "Sent")
  /\ UNCHANGED <<mail, box, socket, inbox, boxes, sends, receives, posted, received>>

SendReturn(t) ==
  /\ At(t, "Sent")
  /\ Release(t, SendLock)
  /\ mail' = [mail EXCEPT ![t] = NoMail]
  /\ Goto(t, "idle")
  /\ UNCHANGED <<box, socket, inbox, boxes, sends, receives, posted, received>>

\* PostOffice::Receive and MailBox::Get: wait for the box to have mail.
Receive(t, b) ==
  /\ At(t, "idle")
  /\ receives < MaxReceives
  /\ receives' = receives + 1
  /\ box' = [box EXCEPT ![t] = b]
  /\ Goto(t, "Get")
  /\ UNCHANGED <<vars, mail, socket, inbox, boxes, sends, posted, received>>

Get(t) ==
  LET b == box[t]
  IN  /\ At(t, "Get")
      /\ boxes[b] # << >>
      /\ received' = [received EXCEPT ![b] = Append(@, Head(boxes[b]))]
      /\ boxes' = [boxes EXCEPT ![b] = Tail(@)]
      /\ Goto(t, "idle")
      /\ UNCHANGED <<vars, mail, box, socket, inbox, sends, receives, posted>>
-----------------------------------------------------------------------------
\* PostOffice::PostalDelivery.
AwaitMessage ==
  /\ At(Worker, "AwaitMessage")
  /\ P(Worker, MessageAvailable)
  /\ Goto(Worker, "NetworkReceive")
  /\ UNCHANGED <<mail, box, socket, inbox, boxes, sends, receives, posted, received>>

\* Mutant of NetworkReceive: the buffer is not marked empty.
NetworkReceiveKeeps ==
  /\ At(Worker, "NetworkReceive")
  /\ mail' = [mail EXCEPT ![Worker] = inbox]
  /\ Goto(Worker, "Put")
  /\ UNCHANGED <<vars, box, socket, inbox, boxes, sends, receives, posted, received>>

\* Network::Receive; had no packet been there, the worker's buffer would still
\* hold the last one.
NetworkReceive ==
  /\ At(Worker, "NetworkReceive")
  /\ mail' = [mail EXCEPT ![Worker] = IF inbox = NoMail THEN @ ELSE inbox]
  /\ inbox' = NoMail
  /\ Goto(Worker, "Put")
  /\ UNCHANGED <<vars, box, socket, boxes, sends, receives, posted, received>>

\* MailBox::Put into the box that the header names.
Put ==
  /\ At(Worker, "Put")
  /\ boxes' = [boxes EXCEPT ![mail[Worker].box] = Append(@, mail[Worker])]
  /\ Goto(Worker, "AwaitMessage")
  /\ UNCHANGED <<vars, mail, box, socket, inbox, sends, receives, posted, received>>
-----------------------------------------------------------------------------
\* Interrupts come when they are enabled, or while the machine idles.
InterruptsOn == Idle \/ InClient(sched.current)

\* Mutant of SendDone: the sender is not woken.
SendDoneQuiet ==
  /\ pending > 0
  /\ InterruptsOn
  /\ pending' = pending - 1
  /\ UNCHANGED <<sched, objects, queue, blockedIn, broadcasting, inside,
                 pc, mail, box, socket, inbox, boxes, sends, receives, posted, received>>

\* Network::SendDone and PostOffice::PacketSent.
SendDone ==
  /\ pending > 0
  /\ InterruptsOn
  /\ pending' = pending - 1
  /\ VBody(MessageSent)
  /\ UNCHANGED <<pc, mail, box, socket, inbox, boxes, sends, receives, posted, received>>

\* Mutants of CheckPktAvail: a packet already buffered is overwritten; the
\* worker is told of a packet when there is none.
CheckPktAvailOverwrites ==
  /\ InterruptsOn
  /\ socket # << >>
  /\ inbox' = Head(socket)
  /\ socket' = Tail(socket)
  /\ VBody(MessageAvailable)
  /\ UNCHANGED <<pending, pc, mail, box, boxes, sends, receives, posted, received>>

CheckPktAvailTwice ==
  /\ InterruptsOn
  /\ \/ inbox = NoMail /\ socket # << >> /\ inbox' = Head(socket) /\ socket' = Tail(socket)
     \/ inbox # NoMail /\ value[MessageAvailable] = 0 /\ UNCHANGED <<inbox, socket>>
  /\ VBody(MessageAvailable)
  /\ UNCHANGED <<pending, pc, mail, box, boxes, sends, receives, posted, received>>

\* Network::CheckPktAvail and PostOffice::IncomingPacket, when there is
\* something to do; polling goes on for ever.
CheckPktAvail ==
  /\ InterruptsOn
  /\ inbox = NoMail
  /\ socket # << >>
  /\ inbox' = Head(socket)
  /\ socket' = Tail(socket)
  /\ VBody(MessageAvailable)
  /\ UNCHANGED <<pending, pc, mail, box, boxes, sends, receives, posted, received>>

\* What the kernel does with threads between the steps of their calls.
Kernel(t) ==
  /\ Resume(t) \/ YieldCPU(t)
  /\ UNCHANGED <<pc, mail, box, socket, inbox, boxes, sends, receives, posted, received>>

WakeMachine ==
  /\ LeaveIdle
  /\ UNCHANGED <<pc, mail, box, socket, inbox, boxes, sends, receives, posted, received>>

\* The PostOffice constructor has forked the worker.
PostInit ==
  /\ Init
  /\ pc = [t \in Thread |-> IF t = Worker THEN "AwaitMessage" ELSE "idle"]
  /\ mail = [t \in Thread |-> NoMail]
  /\ box \in [Thread -> {NoMail}]
  /\ socket = << >>
  /\ inbox = NoMail
  /\ boxes = [b \in Box |-> << >>]
  /\ sends = 0
  /\ receives = 0
  /\ posted = [b \in Box |-> << >>]
  /\ received = [b \in Box |-> << >>]

SendStep(t) == NetworkSend(t) \/ AwaitSent(t) \/ SendReturn(t)
Delivery == AwaitMessage \/ NetworkReceive \/ Put

PostNext ==
  \/ \E t \in Client : \/ \E b \in Box : Send(t, b) \/ Receive(t, b)
                       \/ SendStep(t)
                       \/ Get(t)
  \/ Delivery
  \/ SendDone \/ CheckPktAvail
  \/ \E t \in Thread : Kernel(t)
  \/ WakeMachine

PostSpec == PostInit /\ [][PostNext]_postVars

\* Time slices end; an idle machine goes on when a thread is ready; threads that
\* are given turns go on in their calls; the network interrupts and is polled.
\* As the calls are bounded it is enough to say so of all threads together.
PostFairness ==
  /\ WF_postVars(\E t \in Thread : Kernel(t))
  /\ WF_postVars(WakeMachine)
  /\ SF_postVars(Delivery \/ \E t \in Client : SendStep(t))
  /\ SF_postVars(SendDone \/ CheckPktAvail)

FairPostSpec == PostSpec /\ PostFairness
-----------------------------------------------------------------------------
\* Mail on its way to box b: in the worker's hands, in the inbox, in the socket.
Under(b, m) == IF m # NoMail /\ m.box = b THEN <<m>> ELSE << >>

OnItsWay(b) ==
  LET ForB(m) == m.box = b
  IN  (IF pc[Worker] = "Put" THEN Under(b, mail[Worker]) ELSE << >>)
        \o Under(b, inbox) \o SelectSeq(socket, ForB)

\* Mail the network has not lost is received from the box it was sent to, once
\* and in the order of sending; until then it is in the box or on its way.
MailInOrder ==
  \A b \in Box : posted[b] = received[b] \o boxes[b] \o OnItsWay(b)

\* The network device is given one packet at a time, though sendBusy, which
\* Network::Send asserts to be FALSE, is never set; Send returns only after the
\* interrupt for its own packet; and the worker is told once of each packet: when
\* it calls Network::Receive there is one in the inbox, so it never delivers its
\* buffer's old contents.
OnePacketAtATime ==
  LET told == pc[Worker] = "NetworkReceive" /\ blockedIn[Worker] = NoObject
  IN  /\ pending <= 1
      /\ \A t \in Client :
           /\ At(t, "NetworkSend") => pending = 0
           /\ At(t, "Sent") => pending = 0 /\ value[MessageSent] = 0
      /\ value[MessageAvailable] + (IF told THEN 1 ELSE 0) = IF inbox = NoMail THEN 0 ELSE 1

\* Send returns, whether or not the network lost the packet.
SendReturns == \A t \in Client : mail[t] # NoMail ~> mail[t] = NoMail

\* Mail that the network has not lost gets to its box.
MailArrives == \A b \in Box : OnItsWay(b) # << >> ~> OnItsWay(b) = << >>
=============================================================================
