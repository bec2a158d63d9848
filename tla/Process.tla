------------------------------- MODULE Process -------------------------------
(***************************************************************************)
(* Processes: the system calls Exec, Join and Exit of userprog/exception.cc *)
(* and the table of processes, threads/table.cc, over ThreadLife.          *)
(*                                                                         *)
(* Exec makes a joinable thread, enters it in the table under a lock and   *)
(* forks it.  An identifier is the index of an entry plus one.  The memory *)
(* of the table is not cleared when it is allocated, so an entry may hold  *)
(* anything at the start; entries are never given back (nobody calls       *)
(* Table::Release).  The scan of Alloc goes on beyond the end of the table; *)
(* what it finds there is left open.                                       *)
(***************************************************************************)
EXTENDS ThreadLife, FiniteSetsExt

CONSTANTS
  TableLock,       \* Table::access_lock
  MAX_PROGS,       \* the size of the table
  NULL, Garbage    \* an empty entry, and one that was never written

ASSUME ProcessAssumption ==
  /\ TableLock \in Lock
  /\ MAX_PROGS \in Nat \ {0}
  /\ NULL \notin Thread /\ Garbage \notin Thread /\ NULL # Garbage

VARIABLES
  backing,       \* Table::backing
  lastElement,   \* Table::last_element
  call,          \* where each process is in Exec, with its locals
  children,      \* what Exec has returned to each process, and for which thread
  overran        \* history: Alloc has read beyond the table

tableVars == <<backing, lastElement, call, children, overran>>
processVars == <<lifeVars, tableVars>>

InUser == [at |-> "user", child |-> NoThread, slot |-> 0]

InCall(t, at) == InBody(t) /\ call[t].at = at

\* Exec: the executable is there, and its thread is constructed.
Exec(t) ==
  /\ InCall(t, "user")
  /\ MayCreate
  /\ NewThread(t, NextThread, TRUE)
  /\ call' = [call EXCEPT ![t] = [at |-> "alloc", child |-> NextThread, slot |-> 0]]
  /\ UNCHANGED <<backing, lastElement, children, overran>>

\* AddrSpace::Initialize finds that the file is no program: an ASSERT.  (Its
\* caller is ready for a NULL that never comes; a file that does not exist makes
\* Exec return 0 before anything happens.)
ExecAborts(t) ==
  /\ InCall(t, "alloc")
  /\ aborted' = TRUE
  /\ UNCHANGED <<vars, joining, phase, target, joined, tableVars>>

\* Table::Alloc up to the return of Acquire, which fails an ASSERT if the lock
\* was kept by an earlier Alloc of the same process.
AllocAcquire(t) ==
  /\ InCall(t, "alloc")
  /\ \/ Acquire(t, TableLock) /\ UNCHANGED life
     \/ /\ Holds(t, TableLock)
        /\ aborted' = TRUE
        /\ UNCHANGED <<vars, joining, phase, target, joined>>
  /\ call' = [call EXCEPT ![t].at = "scan"]
  /\ UNCHANGED <<backing, lastElement, children, overran>>

\* The empty entries from last_element on.
Empty == {i \in lastElement..MAX_PROGS - 1 : backing[i] = NULL}

StoreAt(t, i) ==
  /\ Release(t, TableLock)
  /\ UNCHANGED life
  /\ call' = [call EXCEPT ![t].at = "stored", ![t].slot = i]

\* Mutant of AllocScan: the entry at last_element is taken to be free.
AllocScanBlind(t) ==
  /\ InCall(t, "scan")
  /\ lastElement < MAX_PROGS
  /\ backing' = [backing EXCEPT ![lastElement] = call[t].child]
  /\ StoreAt(t, lastElement)
  /\ UNCHANGED <<lastElement, children, overran>>

\* Mutant of AllocScan: the lock is kept when an entry is found, too.
AllocScanKeepsLock(t) ==
  /\ InCall(t, "scan")
  /\ Empty # {}
  /\ backing' = [backing EXCEPT ![Min(Empty)] = call[t].child]
  /\ call' = [call EXCEPT ![t].at = "stored", ![t].slot = Min(Empty)]
  /\ UNCHANGED <<lifeVars, lastElement, children, overran>>

\* The loop of Alloc, which takes the first empty entry and releases the lock.
\* It ends max_elements entries further on, wherever it began: beyond the table
\* it may find a word that is zero and take it for an entry, or find none and
\* return -1 with the lock held.
AllocScan(t) ==
  /\ InCall(t, "scan")
  /\ \/ /\ Empty # {}
        /\ backing' = [backing EXCEPT ![Min(Empty)] = call[t].child]
        /\ StoreAt(t, Min(Empty))
        /\ UNCHANGED overran
     \/ /\ Empty = {}
        /\ overran' = TRUE
        /\ \/ \E i \in Max({lastElement, MAX_PROGS})..MAX_PROGS + lastElement - 1 :
                StoreAt(t, i)
           \/ /\ call' = [call EXCEPT ![t].at = "full"]
              /\ UNCHANGED lifeVars
        /\ UNCHANGED backing
  /\ UNCHANGED <<lastElement, children>>

\* Alloc returns, writing last_element without the lock; Exec forks the thread
\* whatever Alloc returned.
ExecReturn(t) ==
  LET c == call[t]
  IN  /\ c.at \in {"stored", "full"}
      /\ Fork(t, c.child)
      /\ lastElement' = IF c.at = "stored" THEN c.slot + 1 ELSE lastElement
      /\ children' = IF c.at = "stored"
                     THEN [children EXCEPT ![t] = @ \cup {[id |-> c.slot + 1, child |-> c.child]}]
                     ELSE children
      /\ call' = [call EXCEPT ![t] = InUser]
      /\ UNCHANGED <<backing, overran>>

\* Join of any identifier, whoever Exec returned it to: Table::Get, without the
\* lock, and Thread::Join.
JoinProcess(t) ==
  /\ InCall(t, "user")
  /\ \E id \in 1..MAX_PROGS :
       /\ backing[id - 1] \in Thread
       /\ JoinWait(t, backing[id - 1])
  /\ UNCHANGED tableVars

\* The entry of the identifier is no thread, or the caller itself, an ASSERT of
\* Join; or the thread was joined before, and may be deleted.  None of these is
\* followed any further, and neither is an identifier beyond the table.
JoinStray(t) ==
  /\ InCall(t, "user")
  /\ \E id \in 1..MAX_PROGS : backing[id - 1] \notin Thread \ ({t} \cup joined)
  /\ aborted' = TRUE
  /\ UNCHANGED <<vars, joining, phase, target, joined, tableVars>>

\* Exit, and the exceptions that end a process.
Exit(t) == InCall(t, "user") /\ Finish(t) /\ UNCHANGED tableVars

ProcessInit ==
  /\ LifeInit
  /\ backing \in [0..MAX_PROGS - 1 -> {NULL, Garbage}]
  /\ lastElement = 0
  /\ call = [t \in Thread |-> InUser]
  /\ children = [t \in Thread |-> {}]
  /\ overran = FALSE

\* The steps of Thread that are going on behind the system calls.
ProcessBackground(t) ==
  /\ JoinRelease(t) \/ FinishWait(t) \/ FinishDie(t) \/ ResumeP(t) \/ Preempt(t)
  /\ UNCHANGED tableVars

ProcessStep(t) ==
  \/ Exec(t) \/ ExecAborts(t) \/ AllocAcquire(t) \/ AllocScan(t) \/ ExecReturn(t)
  \/ JoinProcess(t) \/ JoinStray(t)
  \/ Exit(t)
  \/ ProcessBackground(t)

ProcessNext == ~aborted /\ \E t \in Thread : ProcessStep(t)

ProcessSpec == ProcessInit /\ [][ProcessNext]_processVars
-----------------------------------------------------------------------------
\* As long as there was room, an identifier that Exec has returned names the
\* thread it was returned for, also if several processes were in Exec at once
\* and last_element was written late or out of order; and that thread exists
\* until it has been joined.  Alloc looks beyond the table only when no entry is
\* left, so that none was skipped; until then nobody keeps the table's lock.
IdNamesProcess ==
  /\ ~overran =>
       \A t \in Thread :
         /\ Holds(t, TableLock) => call[t].at = "scan"
         /\ \A c \in children[t] :
              /\ backing[c.id - 1] = c.child
              /\ sched.status[c.child] = "DELETED" => c.child \in joined
  /\ overran => \A i \in 0..MAX_PROGS - 1 : backing[i] # NULL
=============================================================================
