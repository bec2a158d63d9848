---------------------------- MODULE VirtualMemory ----------------------------
(***************************************************************************)
(* Demand paging: userprog/addrspace.cc, memmanage.cc, backingstore.cc and *)
(* the part of machine/translate.cc that sets the use and dirty bits.      *)
(*                                                                         *)
(* Processes are created (Exec), read and write their pages, fault, and    *)
(* exit.  A fault is handled without interruption: with the UNIX files of  *)
(* FILESYS_STUB nothing in the handler enables interrupts.  The backing    *)
(* file of a process is named after the size of the process; inodes stand  *)
(* for the UNIX files behind the names.                                    *)
(***************************************************************************)
EXTENDS Executable, FiniteSets

CONSTANTS
  Process,
  NumPhysPages,   \* page frames of the machine
  Store,          \* what a process stores: a place on a page and a byte
  MaxPages        \* bound: pages of all address spaces together

ASSUME VirtualMemoryAssumption ==
  /\ NumPhysPages \in Nat \ {0}
  /\ \A s \in Store : s.place \in 1..PageSize
  /\ \A c \in Coff : SizeInPages(Coff2Noff(c)) \in Nat

VARIABLES
  useFifo,     \* use_fifo, the flag -b
  state,       \* of each process: "none", "running", "exited", "deleted"
  executable,  \* the NOFF file of each process, NoFile if it has none
  pageTable,   \* the page table of each process
  clockHand,   \* AddrSpace::clock_hand
  allocated,   \* MemoryManager::bmap, the frames in use
  mainMemory,  \* machine->mainMemory, by frame
  directory,   \* the inode of each backing file name, NoFile if there is none
  backing,     \* the inode each process has open
  inode,       \* the contents of each UNIX file, a sequence of pages
  hung,        \* the kernel is in the endless loop of ClearPage, or has taken
               \* what is beyond a page table for an entry
  wrote,       \* history: what is to be on each page of each process
  shared       \* history: processes whose backing file was another's as well

vmVars == <<useFifo, state, executable, pageTable, clockHand, allocated, mainMemory,
            directory, backing, inode, hung, wrote, shared>>

NoFile == [ok |-> FALSE]
NoInode == "NoInode"

\* AddrSpace::numPages, and with it the name of the backing file.
NumPages(p) == Cardinality(DOMAIN pageTable[p])
Page(p) == DOMAIN pageTable[p]
Frame == 0..NumPhysPages - 1
FileName == {SizeInPages(Coff2Noff(c)) : c \in Coff}
ZeroPage == [i \in 1..PageSize |-> 0]

Entry(phys, valid, use, dirty) ==
  [physicalPage |-> phys, valid |-> valid, use |-> use, dirty |-> dirty]

EmptyTable(pages) == [v \in 0..pages - 1 |-> Entry(-1, FALSE, FALSE, FALSE)]
-----------------------------------------------------------------------------
\* UNIX files.  Writing beyond the end leaves a hole of zeros; reading there
\* transfers nothing.
WriteAt(file, page, datum) ==
  [i \in 1..Max({Len(file), page + 1}) |->
     IF i = page + 1 THEN datum ELSE IF i <= Len(file) THEN file[i] ELSE ZeroPage]

ReadAt(file, page, old) == IF page < Len(file) THEN file[page + 1] ELSE old

\* MemoryManager::AllocPage takes the first free frame, -1 if there is none.
AllocPage(used) == IF used = Frame THEN -1 ELSE Min(Frame \ used)
-----------------------------------------------------------------------------
\* The BackingStore constructor: Create truncates a file of the name or makes
\* one, and Open opens it.
BackingFile(p, name) == IF directory[name] = NoInode THEN p ELSE directory[name]

\* Running processes that have a file open.
Users(file) == {q \in Process : state[q] = "running" /\ backing[q] = file}

\* AddrSpace::Initialize.  clock_hand is not initialised: it may be on any page,
\* or, for which size stands, beyond the page table.
Exec(p, coff) ==
  LET noff == Coff2Noff(coff)
      size == SizeInPages(noff)
      file == BackingFile(p, size)
  IN  /\ ~hung
      /\ state[p] = "none"
      /\ noff.ok
      /\ size + MapThenSumSet(NumPages, Process) <= MaxPages
      /\ state' = [state EXCEPT ![p] = "running"]
      /\ executable' = [executable EXCEPT ![p] = noff]
      /\ pageTable' = [pageTable EXCEPT ![p] = EmptyTable(size)]
      /\ \E hand \in 0..size : clockHand' = [clockHand EXCEPT ![p] = hand]
      /\ directory' = [directory EXCEPT ![size] = file]
      /\ backing' = [backing EXCEPT ![p] = file]
      /\ inode' = [inode EXCEPT ![file] = << >>]
      /\ wrote' = [wrote EXCEPT ![p] = [v \in 0..size - 1 |-> LinkedPage(coff, v)]]
      /\ shared' = IF Users(file) = {} THEN shared ELSE shared \cup Users(file) \cup {p}
      /\ UNCHANGED <<allocated, mainMemory, hung>>

\* An instruction reads or writes a page that is valid: Translate sets the use
\* bit and, for a write, the dirty bit.
Read(p, v) ==
  /\ ~hung
  /\ state[p] = "running"
  /\ pageTable[p][v].valid
  /\ pageTable' = [pageTable EXCEPT ![p][v].use = TRUE]
  /\ UNCHANGED <<state, executable, clockHand, allocated, mainMemory, directory, backing,
                 inode, hung, wrote, shared>>

Write(p, v, s) ==
  /\ ~hung
  /\ state[p] = "running"
  /\ pageTable[p][v].valid
  /\ pageTable' = [pageTable EXCEPT ![p][v].use = TRUE, ![p][v].dirty = TRUE]
  /\ mainMemory' = [mainMemory EXCEPT ![pageTable[p][v].physicalPage][s.place] = s.byte]
  /\ wrote' = [wrote EXCEPT ![p][v][s.place] = s.byte]
  /\ UNCHANGED <<state, executable, clockHand, allocated, directory, backing, inode, hung,
                 shared>>
-----------------------------------------------------------------------------
\* Where the clock of ClearPage starts in the page table: at clock_hand, or, if
\* that is beyond the table and the loop moves on from there, anywhere.
Hands(p) == IF clockHand[p] \in Page(p) THEN {clockHand[p]} ELSE Page(p)

\* Where it is after k moves, and where it has been.
HandAfter(p, hand, k) == (hand + k) % NumPages(p)
Passed(p, hand, k) == {HandAfter(p, hand, i) : i \in 0..k - 1}

\* Mutant of Evictable: the use bits stay set as the hand passes.
EvictableUnused(p, hand, k) ==
  LET e == pageTable[p][HandAfter(p, hand, k)]
  IN  e.valid /\ (~e.use \/ useFifo) /\ e.physicalPage >= 0

\* The page at the hand after k moves can be evicted; every move clears the use
\* bit it passes.
Evictable(p, hand, k) ==
  LET v == HandAfter(p, hand, k)
      e == pageTable[p][v]
  IN  /\ e.valid
      /\ ~e.use \/ v \in Passed(p, hand, k) \/ useFifo
      /\ e.physicalPage >= 0

\* When the loop can stop.  Two rounds show whether it ever does: in the second
\* no use bit is set.
Moves(p, hand) == {k \in 0..2 * NumPages(p) - 1 : Evictable(p, hand, k)}
Victim(p, hand) == HandAfter(p, hand, Min(Moves(p, hand)))

\* ClearPage and BackingStore::PageOut, with page table, used frames and file
\* after the eviction.
Evict(p, hand) ==
  LET victim == Victim(p, hand)
      entry  == pageTable[p][victim]
      passed == Passed(p, hand, Min(Moves(p, hand)))
  IN  [hand  |-> victim,
       table |-> [v \in Page(p) |->
                    IF v = victim
                    THEN [entry EXCEPT !.valid = FALSE, !.use = @ /\ v \notin passed]
                    ELSE [pageTable[p][v] EXCEPT !.use = @ /\ v \notin passed]],
       used  |-> allocated \ {entry.physicalPage},
       file  |-> IF entry.dirty
                 THEN WriteAt(inode[backing[p]], victim, mainMemory[entry.physicalPage])
                 ELSE inode[backing[p]]]

\* Nothing to evict is needed while a frame is free.
NoEviction(p) ==
  [hand |-> clockHand[p], table |-> pageTable[p], used |-> allocated,
   file |-> inode[backing[p]]]

\* The end of demandpage: a page that was resident before (it has a frame
\* number) is read from the backing file and is clean, another one comes from
\* the executable and is dirty, as the file does not have it yet.
LoadClean(p, v, e) ==
  LET frame  == AllocPage(e.used)
      before == e.table[v].physicalPage >= 0
      datum  == IF before THEN ReadAt(e.file, v, mainMemory[frame]) ELSE LoadPage(executable[p], v, mainMemory[frame])
  IN  /\ pageTable' = [pageTable EXCEPT ![p] =
                         [e.table EXCEPT ![v] = Entry(frame, TRUE, @.use, FALSE)]]
      /\ clockHand' = [clockHand EXCEPT ![p] = e.hand]
      /\ allocated' = e.used \cup {frame}
      /\ mainMemory' = [mainMemory EXCEPT ![frame] = datum]
      /\ inode' = [inode EXCEPT ![backing[p]] = e.file]

Load(p, v, e) ==
  LET frame  == AllocPage(e.used)
      before == e.table[v].physicalPage >= 0
      datum  == IF before THEN ReadAt(e.file, v, mainMemory[frame]) ELSE LoadPage(executable[p], v, mainMemory[frame])
  IN  /\ pageTable' = [pageTable EXCEPT ![p] =
                         [e.table EXCEPT ![v] = Entry(frame, TRUE, @.use, ~before)]]
      /\ clockHand' = [clockHand EXCEPT ![p] = e.hand]
      /\ allocated' = e.used \cup {frame}
      /\ mainMemory' = [mainMemory EXCEPT ![frame] = datum]
      /\ inode' = [inode EXCEPT ![backing[p]] = e.file]

\* demandpage, on a reference to a page that is not valid.
PageFault(p, v) ==
  /\ ~hung
  /\ state[p] = "running"
  /\ ~pageTable[p][v].valid
  /\ \/ AllocPage(allocated) >= 0 /\ Load(p, v, NoEviction(p))
     \/ /\ AllocPage(allocated) < 0
        /\ \E hand \in Hands(p) : Moves(p, hand) # {} /\ Load(p, v, Evict(p, hand))
  /\ UNCHANGED <<state, executable, directory, backing, hung, wrote, shared>>

\* ClearPage finds no page of the process to evict and looks for ever; or it
\* starts beyond the page table, and reads what is there as an entry, for a frame
\* that is another's or a fault of Nachos itself.
PageFaultHangs(p, v) ==
  /\ ~hung
  /\ state[p] = "running"
  /\ ~pageTable[p][v].valid
  /\ AllocPage(allocated) < 0
  /\ clockHand[p] \in Page(p) => Moves(p, clockHand[p]) = {}
  /\ hung' = TRUE
  /\ UNCHANGED <<state, executable, pageTable, clockHand, allocated, mainMemory,
                 directory, backing, inode, wrote, shared>>
-----------------------------------------------------------------------------
\* The frames ClearState frees.
ClearStateButLast(p) ==
  {pageTable[p][v].physicalPage :
     v \in {w \in 0..NumPages(p) - 2 : pageTable[p][w].valid /\ pageTable[p][w].physicalPage >= 0}}

ClearState(p) ==
  {pageTable[p][v].physicalPage :
     v \in {w \in Page(p) : pageTable[p][w].valid /\ pageTable[p][w].physicalPage >= 0}}

\* Exit, and the exceptions that end a process: ClearState frees the frames.
Exit(p) ==
  /\ ~hung
  /\ state[p] = "running"
  /\ state' = [state EXCEPT ![p] = "exited"]
  /\ allocated' = allocated \ ClearState(p)
  /\ wrote' = [wrote EXCEPT ![p] = << >>]
  /\ UNCHANGED <<executable, pageTable, clockHand, mainMemory, directory, backing, inode,
                 hung, shared>>

\* Scheduler::Run deletes the thread, the thread its address space, and that
\* its page table and BackingStore: the file is closed and its name removed.
\* UNIX keeps a file as long as a name or an open file refers to it.
Delete(p) ==
  /\ ~hung
  /\ state[p] = "exited"
  /\ state' = [state EXCEPT ![p] = "deleted"]
  /\ executable' = [executable EXCEPT ![p] = NoFile]
  /\ pageTable' = [pageTable EXCEPT ![p] = EmptyTable(0)]
  /\ clockHand' = [clockHand EXCEPT ![p] = 0]
  /\ directory' = [directory EXCEPT ![NumPages(p)] = NoInode]
  /\ backing' = [backing EXCEPT ![p] = NoInode]
  /\ inode' = [i \in Process |->
                 IF i \in Range(directory') \cup Range(backing') THEN inode[i] ELSE << >>]
  /\ UNCHANGED <<allocated, mainMemory, hung, wrote, shared>>

VMInit ==
  /\ useFifo \in BOOLEAN
  /\ state = [p \in Process |-> "none"]
  /\ executable = [p \in Process |-> NoFile]
  /\ pageTable = [p \in Process |-> EmptyTable(0)]
  /\ clockHand = [p \in Process |-> 0]
  /\ allocated = {}
  /\ mainMemory = [f \in Frame |-> ZeroPage]
  /\ directory = [n \in FileName |-> NoInode]
  /\ backing = [p \in Process |-> NoInode]
  /\ inode = [p \in Process |-> << >>]
  /\ hung = FALSE
  /\ wrote = [p \in Process |-> << >>]
  /\ shared = {}

VMStep ==
  \E p \in Process :
    \/ \E c \in Coff : Exec(p, c)
    \/ Exit(p) \/ Delete(p)
    \/ \E v \in Page(p) :
         \/ Read(p, v)
         \/ \E s \in Store : Write(p, v, s)
         \/ PageFault(p, v)
         \/ PageFaultHangs(p, v)

VMNext == VMStep /\ UNCHANGED useFifo

VMSpec == VMInit /\ [][VMNext]_vmVars
-----------------------------------------------------------------------------
Resident(p) == {v \in Page(p) : pageTable[p][v].valid}
FramesOf(p) == {pageTable[p][v].physicalPage : v \in Resident(p)}

\* The frames the memory manager holds as allocated are exactly those that
\* valid pages of running processes are in, no frame serves two pages, and none
\* is leaked by evictions and exits.
FramesAccounted ==
  LET running == {p \in Process : state[p] = "running"}
  IN  /\ allocated = UNION {FramesOf(p) : p \in running}
      /\ \A p, q \in running : \A v \in Resident(p), w \in Resident(q) :
           pageTable[p][v].physicalPage = pageTable[q][w].physicalPage => p = q /\ v = w

\* A process finds on each of its pages what the linker put there or it stored
\* there last, however often the page was evicted in between, clean or dirty,
\* and loaded again, whatever sections meet on the page, and whoever had the
\* frame or the backing file before.  This holds for a process that was never
\* running together with another of its size: two such share one file.
PagesKeepData ==
  \A p \in Process :
    state[p] = "running" /\ p \notin shared =>
      \A v \in Resident(p) : \A i \in 1..PageSize :
        wrote[p][v][i] # NotSet =>
          mainMemory[pageTable[p][v].physicalPage][i] = wrote[p][v][i]

\* The clock of ClearPage stops within two rounds, whatever the use bits and
\* wherever in the page table it starts, if the faulting process has a page in
\* memory; and unless it works first in, first out, it takes a page that was used
\* since the hand last passed it only if all pages in memory were.  (A process
\* that has none, while all frames are taken, loops for ever: PageFaultHangs.)
ClockFindsVictim ==
  \A p \in Process : \A hand \in Hands(p) :
    state[p] = "running" /\ Resident(p) # {} =>
      /\ Moves(p, hand) # {}
      /\ ~useFifo /\ pageTable[p][Victim(p, hand)].use =>
           \A v \in Resident(p) : pageTable[p][v].use
=============================================================================
