------------------------------- MODULE Console -------------------------------
(***************************************************************************)
(* The console, machine/console.cc, with its buffer of one character, and  *)
(* the ConsoleTest of userprog/progtest.cc, which echoes what is typed.    *)
(*                                                                         *)
(* ConsoleTest's semaphores are their values: it is the only thread to     *)
(* wait, and Synch is about waiting.                                       *)
(***************************************************************************)
EXTENDS Integers, Sequences

CONSTANTS
  EOF,
  Char,        \* characters that are typed
  Typed        \* texts that are typed

ASSUME ConsoleAssumption == Typed \subseteq Seq(Char) /\ EOF \notin Char

VARIABLES
  text,        \* what is typed
  unread,      \* what the console has not read of it
  incoming,    \* Console::incoming
  putBusy,     \* Console::putBusy
  display,     \* what the console has written
  readAvail,   \* value of the semaphore readAvail
  writeDone,   \* value of the semaphore writeDone
  testAt       \* where ConsoleTest is: "readAvail->P", "echo", "writeDone->P",
               \* "done"

consoleVars == <<text, unread, incoming, putBusy, display, readAvail, writeDone, testAt>>

\* Mutant of CheckCharAvail: the buffered character is not looked at.
CheckCharAvailOverwrites ==
  /\ \/ UNCHANGED <<unread, incoming, readAvail>>
     \/ /\ unread # << >>
        /\ incoming' = Head(unread)
        /\ unread' = Tail(unread)
        /\ readAvail' = readAvail + 1
  /\ UNCHANGED <<text, putBusy, display, writeDone, testAt>>

\* CheckCharAvail, and ConsoleTest's ReadAvail: nothing is read while a
\* character is buffered, or if none has been typed yet.
CheckCharAvail ==
  /\ \/ UNCHANGED <<unread, incoming, readAvail>>
     \/ /\ incoming = EOF
        /\ unread # << >>
        /\ incoming' = Head(unread)
        /\ unread' = Tail(unread)
        /\ readAvail' = readAvail + 1
  /\ UNCHANGED <<text, putBusy, display, writeDone, testAt>>

\* Console::WriteDone, and that of ConsoleTest.
WriteDone ==
  /\ putBusy' = FALSE
  /\ writeDone' = writeDone + 1
  /\ UNCHANGED <<text, unread, incoming, display, readAvail, testAt>>
-----------------------------------------------------------------------------
AwaitChar ==
  /\ testAt = "readAvail->P"
  /\ readAvail > 0
  /\ readAvail' = readAvail - 1
  /\ testAt' = "echo"
  /\ UNCHANGED <<text, unread, incoming, putBusy, display, writeDone>>

\* GetChar and PutChar: no interrupt can come between them.
Echo ==
  /\ testAt = "echo"
  /\ display' = Append(display, incoming)
  /\ incoming' = EOF
  /\ putBusy' = TRUE
  /\ testAt' = "writeDone->P"
  /\ UNCHANGED <<text, unread, readAvail, writeDone>>

AwaitWritten ==
  /\ testAt = "writeDone->P"
  /\ writeDone > 0
  /\ writeDone' = writeDone - 1
  /\ testAt' = IF display[Len(display)] = "q" THEN "done" ELSE "readAvail->P"
  /\ UNCHANGED <<text, unread, incoming, putBusy, display, readAvail>>

\* ConsoleTest does not run: it waits in a P, or has returned.
TestAsleep ==
  \/ testAt = "readAvail->P" /\ readAvail = 0
  \/ testAt = "writeDone->P" /\ writeDone = 0
  \/ testAt = "done"

ConsoleInit ==
  /\ text \in Typed
  /\ unread = text
  /\ incoming = EOF
  /\ putBusy = FALSE
  /\ display = << >>
  /\ readAvail = 0 /\ writeDone = 0
  /\ testAt = "readAvail->P"
-----------------------------------------------------------------------------
Buffered == IF incoming = EOF THEN << >> ELSE <<incoming>>

\* Whatever the interrupts find the test doing, each character typed is echoed
\* once and in order, up to a q and no further: the polls overwrite no character
\* the test has not taken, a character is there when readAvail->P returns, and
\* PutChar finds the display free (its ASSERT).
EchoesAll ==
  /\ text = display \o Buffered \o unread
  /\ readAvail + (IF testAt = "echo" THEN 1 ELSE 0) = Len(Buffered)
  /\ testAt = "echo" => ~putBusy
  /\ \A i \in 1..Len(display) - 1 : display[i] # "q"
=============================================================================
