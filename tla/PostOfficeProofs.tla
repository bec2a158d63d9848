-------------------------- MODULE PostOfficeProofs --------------------------
(***************************************************************************)
(* Proof that the post office gives the network one packet at a time and   *)
(* tells its worker once of each that arrives, for any number of threads,  *)
(* boxes and messages.                                                     *)
(***************************************************************************)
EXTENDS PostOffice, SequenceTheorems, TLAPS

Mail == [box : Box, number : Nat]

WorkerLabel == {"AwaitMessage", "NetworkReceive", "Put"}
Sending == {"NetworkSend", "AwaitSent", "Sent"}
ClientLabel == {"idle", "Get"} \cup Sending

\* t has the lock of PostOffice::Send.
HasLock(t) ==
  pc[t] \in {"AwaitSent", "Sent"} \/ (pc[t] = "NetworkSend" /\ blockedIn[t] # SendLock)

\* t has given its packet to the network and not got past its P.
Waits(t) == pc[t] = "AwaitSent" \/ (pc[t] = "Sent" /\ blockedIn[t] = MessageSent)

\* The worker has been told of a packet and not fetched it.
Told == pc[Worker] = "NetworkReceive" /\ blockedIn[Worker] = NoObject

\* The objects threads sleep on, and where.
Sleeps(t, where, object) ==
  object # NoObject =>
    \/ where = "NetworkSend" /\ object = SendLock
    \/ where = "Sent" /\ object = MessageSent
    \/ t = Worker /\ where = "NetworkReceive" /\ object = MessageAvailable

CallsOK ==
  /\ DOMAIN pc = Thread /\ pc[Worker] \in WorkerLabel
  /\ \A t \in Client : pc[t] \in ClientLabel
  /\ DOMAIN mail = Thread
  /\ \A t \in Client : pc[t] \in Sending => mail[t] \in Mail
  /\ socket \in Seq(Mail) /\ inbox \in Mail \cup {NoMail}
  /\ sends \in Nat

ObjectsOK ==
  /\ value \in [Semaphore -> Nat]
  /\ isLocked \in [Lock -> BOOLEAN]
  /\ currThread \in [Lock -> Thread \cup {NoThread}]
  /\ DOMAIN blockedIn = Thread
  /\ pending \in Nat
  /\ \A t \in Thread : Sleeps(t, pc[t], blockedIn[t])

\* The inductive invariant.  A sender between Acquire and Release owns the lock;
\* while it waits, its packet is an interrupt that is pending or a unit of
\* messageSent.  A packet in the inbox is a unit of messageAvailable, or the
\* worker knows of it.
SendInv ==
  /\ isLocked[SendLock] <=> currThread[SendLock] # NoThread
  /\ \A t \in Thread : HasLock(t) <=> currThread[SendLock] = t
  /\ value[MessageSent] + pending = IF \E t \in Thread : Waits(t) THEN 1 ELSE 0

WorkerInv ==
  value[MessageAvailable] + (IF Told THEN 1 ELSE 0) = IF inbox = NoMail THEN 0 ELSE 1

PostInv == CallsOK /\ ObjectsOK /\ SendInv /\ WorkerInv
-----------------------------------------------------------------------------
LEMMA PostObjects ==
  /\ SendLock \in Lock /\ MessageSent \in Semaphore /\ MessageAvailable \in Semaphore
  /\ SendLock # NoObject /\ MessageSent # NoObject /\ MessageAvailable # NoObject
  /\ SendLock \notin Semaphore /\ SendLock \notin Condition
  /\ MessageSent \notin Lock /\ MessageSent \notin Condition
  /\ MessageAvailable \notin Lock /\ MessageAvailable \notin Condition
  /\ SendLock # MessageSent /\ SendLock # MessageAvailable /\ MessageSent # MessageAvailable
  /\ Worker \in Thread /\ NoMail \notin Mail
BY PostOfficeAssumption, SynchAssumption DEF Object, Mail

LEMMA Threads ==
  ASSUME CallsOK
  PROVE  /\ \A t \in Thread : pc[t] \in WorkerLabel \cup ClientLabel
         /\ \A t \in Thread : pc[t] \in ClientLabel => t # Worker /\ t \in Client
         /\ \A t \in Thread : HasLock(t) => t \in Client
         /\ \A t \in Thread : Waits(t) => HasLock(t)
<1>1. \A t \in Thread : pc[t] \in WorkerLabel \cup ClientLabel
  BY DEF CallsOK, Client
<1>2. \A t \in Thread : pc[t] \in ClientLabel => t # Worker /\ t \in Client
  BY DEF CallsOK, Client, ClientLabel, WorkerLabel, Sending
<1>3. \A t \in Thread : HasLock(t) => t \in Client
  BY <1>2 DEF HasLock, ClientLabel, Sending
<1>4. \A t \in Thread : Waits(t) => HasLock(t)
  BY DEF HasLock, Waits
<1> QED
  BY <1>1, <1>2, <1>3, <1>4

\* The sender that has the lock and does not wait has no packet in the network.
LEMMA OneSender ==
  ASSUME PostInv, NEW t \in Thread, HasLock(t)
  PROVE  /\ \A u \in Thread \ {t} : ~HasLock(u) /\ ~Waits(u)
         /\ ~Waits(t) => value[MessageSent] = 0 /\ pending = 0
<1>1. \A u \in Thread \ {t} : ~HasLock(u)
  BY DEF PostInv, SendInv
<1>2. \A u \in Thread \ {t} : ~Waits(u)
  BY <1>1, Threads DEF PostInv
<1>3. ASSUME ~Waits(t) PROVE value[MessageSent] = 0 /\ pending = 0
  <2>1. value[MessageSent] + pending = 0
    BY <1>2, <1>3 DEF PostInv, SendInv
  <2>2. value[MessageSent] \in Nat /\ pending \in Nat
    BY PostObjects DEF PostInv, ObjectsOK
  <2> QED
    BY <2>1, <2>2
<1> QED
  BY <1>1, <1>2, <1>3

LEMMA PostInitially == PostInit => PostInv
<1> SUFFICES ASSUME PostInit PROVE PostInv
  OBVIOUS
<1>1. /\ pc = [t \in Thread |-> IF t = Worker THEN "AwaitMessage" ELSE "idle"]
      /\ mail = [t \in Thread |-> NoMail] /\ socket = << >> /\ inbox = NoMail /\ sends = 0
      /\ pending = 0 /\ value = InitialValue
      /\ isLocked = [l \in Lock |-> FALSE] /\ currThread = [l \in Lock |-> NoThread]
      /\ blockedIn = [t \in Thread |-> NoObject]
  BY DEF PostInit, Init, InitSynch
<1>2. CallsOK
  BY <1>1, PostObjects DEF CallsOK, WorkerLabel, ClientLabel, Sending, Client
<1>3. ObjectsOK
  BY <1>1, SynchAssumption DEF ObjectsOK, Sleeps
<1>4. value[MessageSent] = 0 /\ value[MessageAvailable] = 0
  BY <1>1, PostObjects, PostOfficeAssumption
<1>5. \A t \in Thread : ~HasLock(t) /\ ~Waits(t) /\ t # NoThread
  BY <1>1, NoThreadAssumption DEF HasLock, Waits
<1>6. ~Told /\ isLocked[SendLock] = FALSE /\ currThread[SendLock] = NoThread
  BY <1>1, PostObjects DEF Told
<1>7. SendInv
  BY <1>1, <1>4, <1>5, <1>6 DEF SendInv
<1>8. WorkerInv
  BY <1>1, <1>4, <1>6 DEF WorkerInv
<1> QED
  BY <1>2, <1>3, <1>7, <1>8 DEF PostInv

\* Steps that leave locks, semaphores, senders and the worker alone.
LEMMA SameKeeps ==
  ASSUME PostInv, CallsOK', UNCHANGED <<objects, blockedIn, pending, inbox>>,
         \A t \in Thread : pc'[t] = pc[t] \/ {pc'[t], pc[t]} \subseteq {"idle", "Get"}
                             \/ (t = Worker /\ {pc'[t], pc[t]} \subseteq {"Put", "AwaitMessage"})
  PROVE  PostInv'
<1>1. UNCHANGED <<value, isLocked, currThread>>
  BY DEF objects
<1>2. \A t \in Thread : (HasLock(t)' <=> HasLock(t)) /\ (Waits(t)' <=> Waits(t))
  BY DEF HasLock, Waits
<1>3. Told' <=> Told
  BY PostObjects DEF Told
<1>4. \A t \in Thread : Sleeps(t, pc'[t], blockedIn[t])
  BY DEF PostInv, ObjectsOK, Sleeps
<1>5. ObjectsOK'
  BY <1>1, <1>4 DEF PostInv, ObjectsOK
<1>6. SendInv'
  BY <1>1, <1>2 DEF PostInv, SendInv
<1>7. WorkerInv'
  BY <1>1, <1>3 DEF PostInv, WorkerInv
<1> QED
  BY <1>5, <1>6, <1>7 DEF PostInv

\* The loop of Acquire, entered or tested again.
LEMMA AcquireKeeps ==
  ASSUME PostInv, CallsOK', NEW t \in Client, ~HasLock(t), ~Waits(t),
         AcquireLoop(t, SendLock), pc'[t] = "NetworkSend",
         \A u \in Thread \ {t} : pc'[u] = pc[u], UNCHANGED inbox
  PROVE  PostInv'
<1>1. CallsOK /\ ObjectsOK /\ t \in Thread /\ t # Worker
  BY DEF PostInv, Client
<1>2. UNCHANGED <<value, pending>>
  BY DEF AcquireLoop
<1>3. CASE isLocked[SendLock]
  <2>1. UNCHANGED <<isLocked, currThread>> /\ blockedIn' = [blockedIn EXCEPT ![t] = SendLock]
    BY <1>3 DEF AcquireLoop, SleepOn
  <2>2. /\ DOMAIN blockedIn' = Thread /\ blockedIn'[t] = SendLock
        /\ \A u \in Thread \ {t} : blockedIn'[u] = blockedIn[u]
    BY <1>1, <2>1 DEF ObjectsOK
  <2>3. \A u \in Thread : Sleeps(u, pc'[u], blockedIn'[u])
    BY <1>1, <2>2 DEF ObjectsOK, Sleeps
  <2>4. ObjectsOK'
    BY <1>1, <1>2, <2>1, <2>2, <2>3 DEF ObjectsOK
  <2>5. \A u \in Thread \ {t} : (HasLock(u)' <=> HasLock(u)) /\ (Waits(u)' <=> Waits(u))
    BY <2>2 DEF HasLock, Waits
  <2>6. ~HasLock(t)' /\ ~Waits(t)'
    BY <2>2 DEF HasLock, Waits
  <2>7. SendInv'
    BY <1>1, <1>2, <2>1, <2>5, <2>6 DEF PostInv, SendInv
  <2>8. WorkerInv'
    BY <1>1, <1>2, <2>2, PostObjects DEF PostInv, WorkerInv, Told
  <2> QED
    BY <2>4, <2>7, <2>8 DEF PostInv
<1>4. CASE ~isLocked[SendLock]
  <2>1. /\ isLocked' = [isLocked EXCEPT ![SendLock] = TRUE]
        /\ currThread' = [currThread EXCEPT ![SendLock] = t]
        /\ blockedIn' = [blockedIn EXCEPT ![t] = NoObject]
    BY <1>4 DEF AcquireLoop
  <2>2. /\ DOMAIN blockedIn' = Thread /\ blockedIn'[t] = NoObject
        /\ \A u \in Thread \ {t} : blockedIn'[u] = blockedIn[u]
        /\ isLocked'[SendLock] = TRUE /\ currThread'[SendLock] = t
        /\ isLocked' \in [Lock -> BOOLEAN] /\ currThread' \in [Lock -> Thread \cup {NoThread}]
    BY <1>1, <2>1, PostObjects DEF ObjectsOK
  <2>3. \A u \in Thread : Sleeps(u, pc'[u], blockedIn'[u])
    BY <1>1, <2>2 DEF ObjectsOK, Sleeps
  <2>4. ObjectsOK'
    BY <1>1, <1>2, <2>2, <2>3 DEF ObjectsOK
  <2>5. \A u \in Thread \ {t} : (HasLock(u)' <=> HasLock(u)) /\ (Waits(u)' <=> Waits(u))
    BY <2>2 DEF HasLock, Waits
  <2>6. HasLock(t)' /\ ~Waits(t)' /\ \A u \in Thread : ~HasLock(u)
    BY <1>4, <2>2, PostObjects, NoThreadAssumption DEF HasLock, Waits, PostInv, SendInv
  <2>7. SendInv'
    BY <1>1, <1>2, <2>2, <2>5, <2>6, NoThreadAssumption DEF PostInv, SendInv
  <2>8. WorkerInv'
    BY <1>1, <1>2, <2>2, PostObjects DEF PostInv, WorkerInv, Told
  <2> QED
    BY <2>4, <2>7, <2>8 DEF PostInv
<1> QED
  BY <1>3, <1>4

\* The loop of the sender's P, entered or tested again.
LEMMA AwaitSentKeeps ==
  ASSUME PostInv, CallsOK', NEW t \in Client, Waits(t), PLoop(t, MessageSent),
         pc'[t] = "Sent", \A u \in Thread \ {t} : pc'[u] = pc[u], UNCHANGED inbox
  PROVE  PostInv'
<1>1. CallsOK /\ ObjectsOK /\ t \in Thread /\ t # Worker
  BY DEF PostInv, Client
<1>2. UNCHANGED <<isLocked, currThread, pending>>
  BY DEF PLoop
<1>3. /\ value' \in [Semaphore -> Nat] /\ value'[MessageAvailable] = value[MessageAvailable]
      /\ DOMAIN blockedIn' = Thread
      /\ \A u \in Thread \ {t} : blockedIn'[u] = blockedIn[u]
      /\ blockedIn'[t] \in {NoObject, MessageSent}
  BY <1>1, PostObjects DEF ObjectsOK, PLoop, SleepOn
<1>4. \A u \in Thread : Sleeps(u, pc'[u], blockedIn'[u])
  BY <1>1, <1>3 DEF ObjectsOK, Sleeps
<1>5. ObjectsOK'
  BY <1>1, <1>2, <1>3, <1>4 DEF ObjectsOK
<1>6. \A u \in Thread \ {t} : (HasLock(u)' <=> HasLock(u)) /\ (Waits(u)' <=> Waits(u))
  BY <1>3 DEF HasLock, Waits
<1>7. HasLock(t) /\ HasLock(t)'
  BY DEF HasLock, Waits
<1>8. \A u \in Thread \ {t} : ~Waits(u)
  BY <1>1, <1>7, OneSender
<1>9. value[MessageSent] \in Nat /\ pending \in Nat /\ value[MessageSent] + pending = 1
  BY <1>1, PostObjects DEF PostInv, ObjectsOK, SendInv
<1>10. value'[MessageSent] + pending' = IF \E u \in Thread : Waits(u)' THEN 1 ELSE 0
  <2>1. CASE value[MessageSent] = 0
    <3>1. value' = value /\ blockedIn'[t] = MessageSent
      BY <1>1, <2>1 DEF PLoop, SleepOn, ObjectsOK
    <3>2. Waits(t)'
      BY <3>1 DEF Waits
    <3> QED
      BY <1>1, <1>2, <1>9, <3>1, <3>2
  <2>2. CASE value[MessageSent] # 0
    <3>1. value'[MessageSent] = value[MessageSent] - 1 /\ blockedIn'[t] = NoObject
      BY <1>1, <2>2, PostObjects DEF PLoop, ObjectsOK
    <3>2. \A u \in Thread : ~Waits(u)'
      BY <1>6, <1>8, <3>1, PostObjects DEF Waits
    <3> QED
      BY <1>2, <1>9, <3>1, <3>2
  <2> QED
    BY <2>1, <2>2
<1>11. SendInv'
  BY <1>2, <1>6, <1>7, <1>10 DEF PostInv, SendInv
<1>12. WorkerInv'
  BY <1>1, <1>3, PostObjects DEF PostInv, WorkerInv, Told
<1> QED
  BY <1>5, <1>11, <1>12 DEF PostInv

\* The loop of the worker's P, entered or tested again.
LEMMA AwaitMessageKeeps ==
  ASSUME PostInv, CallsOK', ~Told, PLoop(Worker, MessageAvailable),
         pc'[Worker] = "NetworkReceive",
         \A u \in Client : pc'[u] = pc[u], UNCHANGED inbox
  PROVE  PostInv'
<1>1. CallsOK /\ ObjectsOK /\ Worker \in Thread /\ Thread = Client \cup {Worker}
  BY PostObjects DEF PostInv, Client
<1>2. UNCHANGED <<isLocked, currThread, pending>>
  BY DEF PLoop
<1>3. /\ value' \in [Semaphore -> Nat] /\ value'[MessageSent] = value[MessageSent]
      /\ DOMAIN blockedIn' = Thread
      /\ \A u \in Client : blockedIn'[u] = blockedIn[u]
      /\ blockedIn'[Worker] \in {NoObject, MessageAvailable}
  BY <1>1, PostObjects DEF ObjectsOK, PLoop, SleepOn, Client
<1>4. \A u \in Thread : Sleeps(u, pc'[u], blockedIn'[u])
  BY <1>1, <1>3 DEF ObjectsOK, Sleeps
<1>5. ObjectsOK'
  BY <1>1, <1>2, <1>3, <1>4 DEF ObjectsOK
<1>6. \A u \in Client : (HasLock(u)' <=> HasLock(u)) /\ (Waits(u)' <=> Waits(u))
  BY <1>3 DEF HasLock, Waits
<1>7. /\ ~HasLock(Worker) /\ ~HasLock(Worker)' /\ ~Waits(Worker) /\ ~Waits(Worker)'
  BY <1>1 DEF HasLock, Waits, CallsOK, WorkerLabel
<1>8. SendInv'
  BY <1>1, <1>2, <1>3, <1>6, <1>7 DEF PostInv, SendInv
<1>9. value[MessageAvailable] \in Nat
  BY <1>1, PostObjects DEF ObjectsOK
<1>10. WorkerInv'
  <2>1. CASE value[MessageAvailable] = 0
    <3>1. value' = value /\ blockedIn'[Worker] = MessageAvailable
      BY <1>1, <2>1 DEF PLoop, SleepOn, ObjectsOK
    <3>2. ~Told'
      BY <3>1, PostObjects DEF Told
    <3> QED
      BY <3>1, <3>2 DEF PostInv, WorkerInv
  <2>2. CASE value[MessageAvailable] # 0
    <3>1. value'[MessageAvailable] = value[MessageAvailable] - 1 /\ blockedIn'[Worker] = NoObject
      BY <1>1, <2>2, PostObjects DEF PLoop, ObjectsOK
    <3>2. Told'
      BY <3>1 DEF Told
    <3> QED
      BY <1>9, <3>1, <3>2 DEF PostInv, WorkerInv
  <2> QED
    BY <2>1, <2>2
<1> QED
  BY <1>5, <1>8, <1>10 DEF PostInv

LEMMA SendKeeps ==
  ASSUME PostInv, NEW t \in Client, NEW b \in Box, Send(t, b)
  PROVE  PostInv'
<1>1. CallsOK /\ pc[t] = "idle" /\ t \in Thread /\ sends \in Nat
  BY DEF PostInv, CallsOK, Send, At, Client
<1>2. /\ pc' = [pc EXCEPT ![t] = "NetworkSend"] /\ sends' = sends + 1
      /\ mail' = [mail EXCEPT ![t] = [box |-> b, number |-> sends]]
      /\ AcquireLoop(t, SendLock) /\ UNCHANGED <<socket, inbox>>
  BY DEF Send, Acquire, Goto
<1>3. /\ DOMAIN pc' = Thread /\ pc'[t] = "NetworkSend" /\ \A u \in Thread \ {t} : pc'[u] = pc[u]
      /\ DOMAIN mail' = Thread /\ mail'[t] \in Mail /\ \A u \in Thread \ {t} : mail'[u] = mail[u]
  BY <1>1, <1>2 DEF CallsOK, Mail
<1>4. CallsOK'
  BY <1>1, <1>2, <1>3, PostObjects DEF CallsOK, Client, ClientLabel, Sending
<1>5. ~HasLock(t) /\ ~Waits(t)
  BY <1>1 DEF HasLock, Waits
<1> QED
  BY <1>2, <1>3, <1>4, <1>5, AcquireKeeps

LEMMA NetworkSendKeeps ==
  ASSUME PostInv, NEW t \in Client, NetworkSend(t)
  PROVE  PostInv'
<1>1. /\ CallsOK /\ ObjectsOK /\ pc[t] = "NetworkSend" /\ blockedIn[t] = NoObject
      /\ t \in Thread /\ t # Worker /\ mail[t] \in Mail /\ socket \in Seq(Mail)
  BY DEF PostInv, CallsOK, NetworkSend, At, InClient, Client, Sending
<1>2. /\ pc' = [pc EXCEPT ![t] = "AwaitSent"] /\ pending' = pending + 1
      /\ UNCHANGED <<value, isLocked, currThread, blockedIn, mail, inbox, sends>>
  BY DEF NetworkSend, Goto, objects
<1>3. socket' = socket \/ socket' = Append(socket, mail[t])
  BY DEF NetworkSend
<1>4. socket' \in Seq(Mail)
  <2>1. Append(socket, mail[t]) \in Seq(Mail)
    BY <1>1, AppendProperties
  <2> QED
    BY <1>1, <1>3, <2>1
<1>5. DOMAIN pc' = Thread /\ pc'[t] = "AwaitSent" /\ \A u \in Thread \ {t} : pc'[u] = pc[u]
  BY <1>1, <1>2 DEF CallsOK
<1>6. CallsOK'
  BY <1>1, <1>2, <1>4, <1>5, PostObjects DEF CallsOK, Client, ClientLabel, Sending
<1>7. HasLock(t) /\ ~Waits(t) /\ HasLock(t)' /\ Waits(t)'
  BY <1>1, <1>5, PostObjects DEF HasLock, Waits
<1>8. value[MessageSent] = 0 /\ pending = 0
  BY <1>1, <1>7, OneSender
<1>9. \A u \in Thread : Sleeps(u, pc'[u], blockedIn[u])
  BY <1>1, <1>5 DEF ObjectsOK, Sleeps
<1>10. ObjectsOK'
  BY <1>1, <1>2, <1>8, <1>9 DEF ObjectsOK
<1>11. \A u \in Thread : HasLock(u)' <=> HasLock(u)
  BY <1>2, <1>5, <1>7 DEF HasLock
<1>12. value'[MessageSent] + pending' = 1 /\ \E u \in Thread : Waits(u)'
  BY <1>1, <1>2, <1>7, <1>8
<1>13. SendInv'
  BY <1>2, <1>11, <1>12 DEF PostInv, SendInv
<1>14. WorkerInv'
  BY <1>1, <1>2, <1>5, PostObjects DEF PostInv, WorkerInv, Told
<1> QED
  BY <1>6, <1>10, <1>13, <1>14 DEF PostInv

LEMMA SendReturnKeeps ==
  ASSUME PostInv, NEW t \in Client, SendReturn(t)
  PROVE  PostInv'
<1>1. /\ CallsOK /\ ObjectsOK /\ pc[t] = "Sent" /\ blockedIn[t] = NoObject
      /\ t \in Thread /\ t # Worker
  BY DEF PostInv, SendReturn, At, InClient, Client
<1>2. /\ pc' = [pc EXCEPT ![t] = "idle"] /\ mail' = [mail EXCEPT ![t] = NoMail]
      /\ currThread' = [currThread EXCEPT ![SendLock] = NoThread]
      /\ isLocked' = [isLocked EXCEPT ![SendLock] = FALSE]
      /\ UNCHANGED <<value, blockedIn, pending, socket, inbox, sends>>
  BY DEF SendReturn, Goto, Release, Unlock
<1>3. /\ DOMAIN pc' = Thread /\ pc'[t] = "idle" /\ \A u \in Thread \ {t} : pc'[u] = pc[u]
      /\ DOMAIN mail' = Thread /\ \A u \in Thread \ {t} : mail'[u] = mail[u]
  BY <1>1, <1>2 DEF CallsOK
<1>4. CallsOK'
  BY <1>1, <1>2, <1>3, PostObjects DEF CallsOK, Client, ClientLabel, Sending
<1>5. /\ isLocked'[SendLock] = FALSE /\ currThread'[SendLock] = NoThread
      /\ isLocked' \in [Lock -> BOOLEAN] /\ currThread' \in [Lock -> Thread \cup {NoThread}]
  BY <1>1, <1>2, PostObjects DEF ObjectsOK
<1>6. \A u \in Thread : Sleeps(u, pc'[u], blockedIn[u])
  BY <1>1, <1>3 DEF ObjectsOK, Sleeps
<1>7. ObjectsOK'
  BY <1>1, <1>2, <1>5, <1>6 DEF ObjectsOK
<1>8. HasLock(t) /\ ~Waits(t) /\ ~HasLock(t)' /\ ~Waits(t)'
  BY <1>1, <1>3, PostObjects DEF HasLock, Waits
<1>9. /\ \A u \in Thread \ {t} : ~HasLock(u) /\ ~Waits(u)
      /\ value[MessageSent] = 0 /\ pending = 0
  BY <1>1, <1>8, OneSender
<1>10. \A u \in Thread : ~HasLock(u)' /\ ~Waits(u)'
  BY <1>2, <1>3, <1>8, <1>9 DEF HasLock, Waits
<1>11. SendInv'
  BY <1>2, <1>5, <1>9, <1>10, NoThreadAssumption DEF SendInv
<1>12. WorkerInv'
  BY <1>1, <1>2, <1>3, PostObjects DEF PostInv, WorkerInv, Told
<1> QED
  BY <1>4, <1>7, <1>11, <1>12 DEF PostInv

\* Receive and Get touch neither the network nor the senders.
LEMMA ReceiverKeeps ==
  ASSUME PostInv, NEW t \in Client, (\E b \in Box : Receive(t, b)) \/ Get(t)
  PROVE  PostInv'
<1>1. CallsOK /\ t \in Thread /\ t # Worker
  BY DEF PostInv, Client
<1>2. /\ pc[t] \in {"idle", "Get"}
      /\ pc' = [pc EXCEPT ![t] = "Get"] \/ pc' = [pc EXCEPT ![t] = "idle"]
      /\ UNCHANGED <<objects, blockedIn, pending, mail, socket, inbox, sends>>
  BY DEF Receive, Get, At, Goto, vars
<1>3. /\ DOMAIN pc' = Thread /\ pc'[t] \in {"idle", "Get"}
      /\ \A u \in Thread \ {t} : pc'[u] = pc[u]
  BY <1>1, <1>2 DEF CallsOK
<1>4. CallsOK'
  BY <1>1, <1>2, <1>3, PostObjects DEF CallsOK, Client, ClientLabel, Sending
<1> QED
  BY <1>2, <1>3, <1>4, SameKeeps

LEMMA NetworkReceivePreserves ==
  ASSUME PostInv, NetworkReceive
  PROVE  PostInv'
<1>1. /\ CallsOK /\ ObjectsOK /\ Told /\ Worker \in Thread
      /\ Thread = Client \cup {Worker} /\ Worker \notin Client
  BY PostObjects DEF PostInv, NetworkReceive, At, InClient, Told, Client
<1>2. /\ pc' = [pc EXCEPT ![Worker] = "Put"] /\ inbox' = NoMail
      /\ DOMAIN mail' = Thread /\ \A u \in Client : mail'[u] = mail[u]
      /\ UNCHANGED <<value, isLocked, currThread, blockedIn, pending, socket, sends>>
  BY <1>1 DEF NetworkReceive, Goto, vars, objects, CallsOK
<1>3. DOMAIN pc' = Thread /\ pc'[Worker] = "Put" /\ \A u \in Client : pc'[u] = pc[u]
  BY <1>1, <1>2 DEF CallsOK
<1>4. CallsOK'
  BY <1>1, <1>2, <1>3 DEF CallsOK, WorkerLabel
<1>5. \A u \in Thread : Sleeps(u, pc'[u], blockedIn[u])
  BY <1>1, <1>3 DEF ObjectsOK, Sleeps, Told
<1>6. ObjectsOK'
  BY <1>1, <1>2, <1>5 DEF ObjectsOK
<1>7. \A u \in Thread : (HasLock(u)' <=> HasLock(u)) /\ (Waits(u)' <=> Waits(u))
  BY <1>1, <1>2, <1>3, PostObjects DEF HasLock, Waits, Told, CallsOK, WorkerLabel, PostInv, SendInv
<1>8. SendInv'
  BY <1>2, <1>7 DEF PostInv, SendInv
<1>9. value[MessageAvailable] \in Nat /\ ~Told'
  BY <1>1, <1>3, PostObjects DEF ObjectsOK, Told
<1>10. value[MessageAvailable] + 1 = IF inbox = NoMail THEN 0 ELSE 1
  BY <1>1 DEF PostInv, WorkerInv
<1>11. WorkerInv'
  BY <1>2, <1>9, <1>10 DEF WorkerInv
<1> QED
  BY <1>4, <1>6, <1>8, <1>11 DEF PostInv

LEMMA PutKeeps ==
  ASSUME PostInv, Put
  PROVE  PostInv'
<1>1. CallsOK /\ pc[Worker] = "Put" /\ Worker \in Thread
  BY PostObjects DEF PostInv, Put, At
<1>2. /\ pc' = [pc EXCEPT ![Worker] = "AwaitMessage"]
      /\ UNCHANGED <<objects, blockedIn, pending, mail, socket, inbox, sends>>
  BY DEF Put, Goto, vars
<1>3. /\ DOMAIN pc' = Thread /\ pc'[Worker] = "AwaitMessage"
      /\ \A u \in Thread \ {Worker} : pc'[u] = pc[u]
  BY <1>1, <1>2 DEF CallsOK
<1>4. CallsOK'
  BY <1>1, <1>2, <1>3 DEF CallsOK, Client, WorkerLabel
<1> QED
  BY <1>1, <1>2, <1>3, <1>4, SameKeeps

LEMMA SendDoneKeeps ==
  ASSUME PostInv, SendDone
  PROVE  PostInv'
<1>1. CallsOK /\ ObjectsOK
  BY DEF PostInv
<1>2. /\ pending > 0 /\ pending' = pending - 1
      /\ value' = [value EXCEPT ![MessageSent] = @ + 1]
      /\ UNCHANGED <<isLocked, currThread, blockedIn, pc, mail, socket, inbox, sends>>
  BY DEF SendDone, VBody
<1>3. /\ value[MessageSent] \in Nat /\ value' \in [Semaphore -> Nat]
      /\ value'[MessageSent] = value[MessageSent] + 1
      /\ value'[MessageAvailable] = value[MessageAvailable]
      /\ pending \in Nat /\ pending' \in Nat
  BY <1>1, <1>2, PostObjects DEF ObjectsOK
<1>4. value'[MessageSent] + pending' = value[MessageSent] + pending
  BY <1>2, <1>3
<1>5. CallsOK'
  BY <1>1, <1>2 DEF CallsOK
<1>6. ObjectsOK'
  BY <1>1, <1>2, <1>3 DEF ObjectsOK
<1>7. \A u \in Thread : (HasLock(u)' <=> HasLock(u)) /\ (Waits(u)' <=> Waits(u))
  BY <1>2 DEF HasLock, Waits
<1>8. SendInv'
  BY <1>2, <1>4, <1>7 DEF PostInv, SendInv
<1>9. WorkerInv'
  BY <1>2, <1>3 DEF PostInv, WorkerInv, Told
<1> QED
  BY <1>5, <1>6, <1>8, <1>9 DEF PostInv

LEMMA CheckPktAvailKeeps ==
  ASSUME PostInv, CheckPktAvail
  PROVE  PostInv'
<1>1. CallsOK /\ ObjectsOK
  BY DEF PostInv
<1>2. /\ inbox = NoMail /\ socket # << >> /\ inbox' = Head(socket) /\ socket' = Tail(socket)
      /\ value' = [value EXCEPT ![MessageAvailable] = @ + 1]
      /\ UNCHANGED <<isLocked, currThread, blockedIn, pending, pc, mail, sends>>
  BY DEF CheckPktAvail, VBody
<1>3. Head(socket) \in Mail /\ Tail(socket) \in Seq(Mail)
  BY <1>1, <1>2, HeadTailProperties DEF CallsOK
<1>4. CallsOK'
  BY <1>1, <1>2, <1>3 DEF CallsOK
<1>5. /\ value[MessageAvailable] \in Nat /\ value' \in [Semaphore -> Nat]
      /\ value'[MessageAvailable] = value[MessageAvailable] + 1
      /\ value'[MessageSent] = value[MessageSent]
  BY <1>1, <1>2, PostObjects DEF ObjectsOK
<1>6. ObjectsOK'
  BY <1>1, <1>2, <1>5 DEF ObjectsOK
<1>7. \A u \in Thread : (HasLock(u)' <=> HasLock(u)) /\ (Waits(u)' <=> Waits(u))
  BY <1>2 DEF HasLock, Waits
<1>8. SendInv'
  BY <1>2, <1>5, <1>7 DEF PostInv, SendInv
<1>9. inbox' # NoMail /\ (Told' <=> Told)
  BY <1>2, <1>3, PostObjects DEF Told
<1>10. value[MessageAvailable] + (IF Told THEN 1 ELSE 0) = 0
  BY <1>2 DEF PostInv, WorkerInv
<1>11. value[MessageAvailable] = 0 /\ ~Told
  BY <1>5, <1>10
<1>12. WorkerInv'
  BY <1>5, <1>9, <1>11 DEF WorkerInv
<1> QED
  BY <1>4, <1>6, <1>8, <1>12 DEF PostInv

LEMMA KernelKeeps ==
  ASSUME PostInv, NEW t \in Thread, Kernel(t)
  PROVE  PostInv'
<1>1. /\ CallsOK /\ ObjectsOK /\ (Resume(t) \/ YieldCPU(t))
      /\ UNCHANGED <<pc, mail, socket, inbox, sends>>
  BY DEF PostInv, Kernel
<1>2. CallsOK'
  BY <1>1 DEF CallsOK
<1>3. CASE YieldCPU(t)
  BY <1>1, <1>2, <1>3, SameKeeps DEF YieldCPU
<1>4. CASE Resume(t)
  <2>1. blockedIn[t] # NoObject
    BY <1>4, SynchAssumption DEF Resume, Object
  <2>2. CASE pc[t] = "NetworkSend" /\ blockedIn[t] = SendLock
    <3>1. AcquireLoop(t, SendLock)
      BY <1>4, <2>2, PostObjects DEF Resume
    <3>2. t \in Client /\ ~HasLock(t) /\ ~Waits(t)
      BY <1>1, <2>2, PostObjects, Threads DEF HasLock, Waits, ClientLabel, Sending
    <3> QED
      BY <1>1, <1>2, <2>2, <3>1, <3>2, AcquireKeeps
  <2>3. CASE pc[t] = "Sent" /\ blockedIn[t] = MessageSent
    <3>1. PLoop(t, MessageSent)
      BY <1>4, <2>3, PostObjects DEF Resume
    <3>2. t \in Client /\ Waits(t)
      BY <1>1, <2>3, Threads DEF Waits, ClientLabel, Sending
    <3> QED
      BY <1>1, <1>2, <2>3, <3>1, <3>2, AwaitSentKeeps
  <2>4. CASE t = Worker /\ pc[t] = "NetworkReceive" /\ blockedIn[t] = MessageAvailable
    <3>1. PLoop(Worker, MessageAvailable)
      BY <1>4, <2>4, PostObjects DEF Resume
    <3>2. ~Told
      BY <2>4, PostObjects DEF Told
    <3> QED
      BY <1>1, <1>2, <2>4, <3>1, <3>2, AwaitMessageKeeps
  <2> QED
    BY <1>1, <2>1, <2>2, <2>3, <2>4 DEF ObjectsOK, Sleeps
<1> QED
  BY <1>1, <1>3, <1>4

LEMMA PostStepKeeps ==
  ASSUME PostInv, [PostNext]_postVars
  PROVE  PostInv'
<1>1. CallsOK
  BY DEF PostInv
<1>2. ASSUME NEW t \in Client, NEW b \in Box, Send(t, b) PROVE PostInv'
  BY <1>2, SendKeeps
<1>3. ASSUME NEW t \in Client, (\E b \in Box : Receive(t, b)) \/ Get(t) PROVE PostInv'
  BY <1>3, ReceiverKeeps
<1>4. ASSUME NEW t \in Client, NetworkSend(t) PROVE PostInv'
  BY <1>4, NetworkSendKeeps
<1>5. ASSUME NEW t \in Client, AwaitSent(t) PROVE PostInv'
  <2>1. /\ pc[t] = "AwaitSent" /\ pc' = [pc EXCEPT ![t] = "Sent"] /\ PLoop(t, MessageSent)
        /\ UNCHANGED <<mail, socket, inbox, sends>>
    BY <1>5 DEF AwaitSent, At, P, Goto
  <2>2. /\ DOMAIN pc' = Thread /\ pc'[t] = "Sent" /\ \A u \in Thread \ {t} : pc'[u] = pc[u]
    BY <1>1, <2>1 DEF CallsOK, Client
  <2>3. CallsOK'
    BY <1>1, <2>1, <2>2, PostObjects DEF CallsOK, Client, ClientLabel, Sending
  <2>4. Waits(t)
    BY <2>1 DEF Waits
  <2> QED
    BY <2>1, <2>2, <2>3, <2>4, AwaitSentKeeps
<1>6. ASSUME NEW t \in Client, SendReturn(t) PROVE PostInv'
  BY <1>6, SendReturnKeeps
<1>7. CASE AwaitMessage
  <2>1. /\ pc[Worker] = "AwaitMessage" /\ pc' = [pc EXCEPT ![Worker] = "NetworkReceive"]
        /\ PLoop(Worker, MessageAvailable) /\ UNCHANGED <<mail, socket, inbox, sends>>
    BY <1>7 DEF AwaitMessage, At, P, Goto
  <2>2. /\ DOMAIN pc' = Thread /\ pc'[Worker] = "NetworkReceive"
        /\ \A u \in Client : pc'[u] = pc[u]
    BY <1>1, <2>1, PostObjects DEF CallsOK, Client
  <2>3. CallsOK'
    BY <1>1, <2>1, <2>2 DEF CallsOK, WorkerLabel
  <2>4. ~Told
    BY <2>1 DEF Told
  <2> QED
    BY <2>1, <2>2, <2>3, <2>4, AwaitMessageKeeps
<1>8. CASE NetworkReceive
  BY <1>8, NetworkReceivePreserves
<1>9. CASE Put
  BY <1>9, PutKeeps
<1>10. CASE SendDone
  BY <1>10, SendDoneKeeps
<1>11. CASE CheckPktAvail
  BY <1>11, CheckPktAvailKeeps
<1>12. ASSUME NEW t \in Thread, Kernel(t) PROVE PostInv'
  BY <1>12, KernelKeeps
<1>13. CASE WakeMachine \/ UNCHANGED postVars
  <2>1. UNCHANGED <<objects, blockedIn, pending, pc, mail, socket, inbox, sends>>
    BY <1>13 DEF WakeMachine, LeaveIdle, postVars, vars
  <2>2. CallsOK'
    BY <1>1, <2>1 DEF CallsOK
  <2> QED
    BY <2>1, <2>2, SameKeeps
<1> QED
  BY <1>2, <1>3, <1>4, <1>5, <1>6, <1>7, <1>8, <1>9, <1>10, <1>11, <1>12, <1>13
     DEF PostNext, SendStep, Delivery

LEMMA PostInvariant == PostSpec => []PostInv
BY PostInitially, PostStepKeeps, PTL DEF PostSpec
-----------------------------------------------------------------------------
\* The lock of PostOffice::Send keeps packets apart in the network, though
\* sendBusy is never set; Send returns after the interrupt for its own packet;
\* and when the worker calls Network::Receive there is a packet in the inbox: for
\* any number of threads, boxes and messages.
THEOREM OnePacketAtATimeAlways == PostSpec => []OnePacketAtATime
<1>1. ASSUME PostInv PROVE OnePacketAtATime
  <2>1. \A t \in Client : At(t, "NetworkSend") \/ At(t, "Sent") => HasLock(t) /\ ~Waits(t)
    BY PostObjects DEF At, InClient, HasLock, Waits
  <2>2. \A t \in Client : At(t, "NetworkSend") \/ At(t, "Sent") =>
                            value[MessageSent] = 0 /\ pending = 0
    BY <1>1, <2>1, OneSender DEF Client
  <2>3. value[MessageSent] \in Nat /\ pending \in Nat /\ value[MessageSent] + pending <= 1
    BY <1>1, PostObjects DEF PostInv, ObjectsOK, SendInv
  <2>4. pending <= 1
    BY <2>3
  <2> QED
    BY <1>1, <2>2, <2>4 DEF OnePacketAtATime, PostInv, WorkerInv, Told
<1> QED
  BY <1>1, PostInvariant, PTL
=============================================================================
