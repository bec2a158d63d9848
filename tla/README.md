# A TLA+ model of the Jalepenos Nachos kernel

This directory specifies the kernel in `code/`: a Nachos instructional
operating system (threads, synchronisation, simulated machine and devices,
demand paging, a file system, a post office) in C++, with the tools in `bin/` that
make and run its user programs. The modules are model-checked with TLC on small
instances. Six parts are also proved with TLAPS, for every size: the
synchronisation primitives over the scheduler, the interrupt machinery with the
console, the synchronous disk, the synchronised list, the frames and the clock of
demand paging, and the sending side of the post office.

## The system's parts

| part | code | model |
| --- | --- | --- |
| lists, the queues of everything else | `threads/list.cc` | `List` |
| scheduler and context switch | `threads/scheduler.cc`, `thread.cc` (Yield, Sleep) | `Scheduler` |
| semaphores, locks, conditions | `threads/synch.cc` | `Synch` |
| threads: construct, Fork, Join, Finish, delete | `threads/thread.cc` | `ThreadLife` over `Synch` |
| mailbox | `threads/synch.cc` | `Mailbox` over `Synch` |
| whales | `threads/synch.cc` | `Whale` over `Synch` |
| synchronised list | `threads/synchlist.cc` | `SynchList` over `Synch`, implementing `Channel` |
| interrupts, simulated time, timer | `machine/interrupt.cc`, `timer.cc`, `threads/system.cc` | `Interrupt` |
| disk: when requests are done | `machine/disk.cc` | `DiskHead` |
| console, and its test | `machine/console.cc`, `userprog/progtest.cc` | `Console` |
| the devices on the interrupt machinery | the same | `Devices`, composing the three above |
| disk requests and synchronous disk | `machine/disk.cc`, `filesys/synchdisk.cc` | `SynchDisk` over `Synch`, implementing `AtomicDisk` |
| object files | `bin/coff2noff.c`, `noff.h`, loading in `userprog/addrspace.cc` | `Executable` |
| demand paging | `userprog/addrspace.cc`, `memmanage.cc`, `backingstore.cc`, `machine/translate.cc`, parts of `exception.cc` | `VirtualMemory` over `Executable` |
| processes: Exec, Join, Exit, the process table | `userprog/exception.cc`, `threads/table.cc` | `Process` over `ThreadLife` |
| thread tests | `threads/threadtest.cc` | `ThreadTest` over `ThreadLife` |
| what main starts | `threads/main.cc` | `Nachos`, composing the two above |
| MIPS simulator, traps, user registers | `machine/mipssim.cc`, `machine.cc`, `translate.cc`, `userprog/exception.cc`, `threads/thread.cc` (SaveUserState) | `Mips`, `Machine` |
| the other MIPS simulator | `bin/execute.c`, `encode.h`, `instr.h` | `Interpreter` |
| disassembler and trace | `bin/d.c`, `opstrings.c`, `machine/mipssim.h` | `Disassembler` |
| both simulators side by side | | `Simulators`, composing the three above |
| file system and bitmap | `filesys/*.cc`, `userprog/bitmap.cc` | `FileSystem` |
| network device and post office | `machine/network.cc`, `network/post.cc` | `PostOffice` over `Synch`, with mailboxes as `Channel` |
| synchronous console, UNIX wrappers, other tools | `userprog/SynchConsole.cc`, `machine/sysdep.cc`, `bin/`, ... | not modelled |

How they interact: every kernel routine protects itself by turning interrupts
off. The machine has one processor, so the code from `SetLevel(IntOff)` to
`SetLevel(oldLevel)`, or to `Sleep()`, runs without anybody else. Simulated
time passes only when interrupts are turned on again and after each user
instruction (`OneTick`); handlers and time slices happen there, or while the
machine idles in `Sleep`. Everything above that (locks, mailbox, lists, disk)
is built from `Semaphore`, `Lock` and `Condition`, which sleep on sorted lists
and wake by moving a thread to the ready list.

## Conventions of the models

* A stretch of code with interrupts off is one step. Between two such stretches
  any other thread may run: `YieldCPU` stands for `Thread::Yield` and for the
  time slices of `nachos -rs`.
* The scheduler's state is one record, `sched`; the routines of `scheduler.cc`
  and `thread.cc` are functions on it (`ReadyToRun(s, t)`, `Run`, `Yield`,
  `Sleep`), so that a routine that calls several of them is still one step.
* A thread that went to sleep in a `while` loop goes on with the test of the
  loop when it is switched to. `blockedIn[t]` names the object whose loop that
  is, and `Resume(t)` is the test. While it is set for the running thread,
  nothing else can happen, as interrupts are still off.
* Modules over `Synch` reuse its actions. They add a program counter `pc[t]`,
  and each of their steps ends in at most one kernel routine.
* An `ASSERT` on what the caller must do is a guard (`Release` by the owner);
  one on what the kernel must have done is part of a property.
* Definitions named as mutants are changed versions of the definition that
  follows them. They show that each property notices an error in the code.

## Modules

`List`. A list is a sequence of records with `item` and `key`. `SortedInsert`
puts an item before the first element with a strictly greater key.
`First`/`Rest` are `Remove` and `SortedRemove`.

`Scheduler`. Fields of the state: `current`, `ready`, `status`, `key` (the
priority), `fresh` (threads that start at `ThreadRoot`) and `carcass`
(`threadToBeDestroyed`). `Run` deletes the carcass only if the thread switched
to returns from `SWITCH`, as the code does.

`Synch`. One action per routine: `P`, `V`, `Acquire`, `Release`, `Wait`,
`Signal`, `Broadcast` (its loop, step by step, in `BroadcastLoop`), plus
`Resume`, `YieldCPU`, `SetPriority`, and devices: `Schedule` puts an interrupt
on the pending list, `DeviceInterrupt` delivers it as a `V`, while a thread runs
or the machine idles; `LeaveIdle` is the end of the idle loop of `Sleep`. The
client is the most general one: any thread calls anything it may.

`ThreadLife`. `NewThread`, `Fork`, `JoinWait` and `JoinRelease` (the two halves
of `Join`, with interrupts enabled in between), `Finish`, `FinishWait` and
`FinishDie` (its three steps, interrupts off throughout), `Prioritise`,
`Preempt`. The two semaphores of each thread are objects of `Synch`.

`Mailbox`, `Whale`, `SynchList`. The routines between two kernel calls.
`Whale` models `Male` and `Female` once, with the sex as a parameter, because
the code is the same with the names exchanged.

`Channel` is what `SynchList` promises: a FIFO queue with calls that take
effect at one moment. The refinement maps `list` to the queue and each
thread's `pc` to the state of its call.

`Interrupt`. `SetLevelOff`, `SetLevelOn`, `UserInstruction`, `SetStatus`,
`Schedule`, `Idle`, `Halt`, and the loops over `CheckIfDue` in `OneTick` and in
`Idle` as single deliveries: `Deliver`, `EndTick`, `EndIdle`. `Fire` calls the
handler: the timer's, a polling device's (console input, network input) or a
request's (disk, console output, network output).

`DiskHead`. `ComputeLatency` and `UpdateLast` as in the code, from the track of the
last request, the time and `bufferInit`. The reference is `DoneAt`: sector `s` of a
track passes the head in every rotation period whose number is `s` modulo the
sectors of the track, and a request is done at the end of the first whole pass.

`Console`. `CheckCharAvail`, `WriteDone`, and `ConsoleTest` in steps from one `P` to
the next. `Devices` says when they happen: `Handle` is the handler of the
interrupt that `Interrupt` delivers, `Request` and `ConsoleTest` schedule new ones.

`SynchDisk`. `Enter` (Acquire), `DiskRequest`, `Await` (P), `Done` (Release)
and `HandleInterrupt`. `AtomicDisk` is what it promises: reads and writes take
effect at one moment.

`Process`. `Exec` makes a thread, `AllocAcquire` and `AllocScan` are `Table::Alloc`,
`ExecReturn` writes `last_element` and forks, `JoinProcess` and `JoinStray` are `Join` by any identifier,
`Exit` ends in `Finish`. The table's memory is not cleared, so an entry may hold
anything at the start; what the scan finds beyond the end of the table is left open.

`ThreadTest`. Each test of `threadtest.cc` is a sequence of operations per thread,
each one kernel routine. Without `-rs` a test has one behaviour; with it a time
slice may end after any routine.

`Nachos` starts a test, a first process, or threads that use `ThreadLife` at will.

`Executable`. `Coff2Noff` copies the sections of a COFF file as `coff2noff` does and
refuses what it refuses; `LoadPage` is the loading part of `demandpage`, byte by
byte. `LinkedPage` is the reference: what the linker meant each byte to be.

`VirtualMemory`. `Exec`, `Read`, `Write`, `PageFault`, `PageFaultHangs`,
`Exit`, `Delete`. `Evict` is the clock of `ClearPage` with `PageOut`; `Load` is
the rest of `demandpage`, with `PageIn`. Pages are bytes. A UNIX file is an inode, so
that two processes may share one by name, and one may be unlinked while open. The
uninitialised `clock_hand` is any page of the process at the start or beyond the page
table. In the second case the first eviction takes what lies there for an entry, and is
not followed any further (it ends as a hang does), or the loop moves on from there into
the table, at any page (`Hands`). `Evictable` looks at a use bit as the moves before
have left it (`Passed`).

`Mips` has the instructions as functions on the registers: `Result`,
`HiLoResult` with the loop of `Mult`, `Taken` and `PcAfter` for branches,
`LoadedValue` and `StoredValue` for memory, `DelayedLoad`, and `Completed` for the
whole of an instruction that meets no exception. A byte has `ByteBits` bits, a
word four bytes, so wrap-around, sign and the double word are as in the code.
Two instructions are as the code has them and not as the architecture: `OR` takes
`rs` twice and `SRL`/`SRLV` keep the sign.

`Machine` runs processes on one register file: `Execute`, `PageFault`, `Fatal`
(the exceptions that end a process), `Abort` (an `ASSERT`), `Syscall`,
`SyscallReturn`, `CheckIfDue` and `Switch`. An interrupt finishes the load in progress
before its handler runs (`Interrupted`), so a time slice never has one to save; what
else interrupts do is in `Interrupt`. A fault is handled in one step, as nothing in the
handler lets another thread run; a system call may block, so it has two. The
history variable `alone` runs the same program with all pages resident and
nobody else. `WellFormed` is the environment assumption: programs keep the rules
of the architecture on load delay slots, and neither read their text nor run their data.

`Interpreter` is the loop of `execute.c` on the same words: its own table of opcodes,
its own decoding, no delayed loads. `Disassembler` is the line that `dump_ascii`
prints of a word, and the one that `mipssim.cc` traces: the name, the registers and the
number in it. `Simulators` gives each instruction that a program completes on
`Machine` to both.

`FileSystem`. Sectors hold a header, the free map, a part of the directory or
of a file. A directory entry has 20 bytes and a sector 128, so inUse and sector of the
seventh entry are in another sector than its name; `HeadIn` and `NameIn` say for each
entry where the two are. Of the table a directory sector was written from, `TableOn`
reads the fields that lie in it. The names of entries never used are garbage of
the heap, taken to be no file's name. `Create`, `Open`, `Close`, `Remove`, `Seek`, `Read` and `Write` compute the
list of sector writes the code makes, in its order, and `WriteNext` does one of
them. Nachos may exit between any two: that is a state like any other, and
`HaltKeepsOthers` is about all of them. An exit in the middle of a `Create` may leave an
entry torn, in use under the name it had before; that name may be a file's again, but
`FindIndex` meets the file's own entry first: `Add` takes the first free entry (`Slot`),
so the file can have got a later one only while the torn one was another's, under
another name.
Before the next operation all have been
written, as the code says it has no concurrent users. `Remove` may take away a
file that is open; its handle goes on writing to the sectors it knows, and once it
has written where another file is now (`spoiled`) nothing is promised any more.

`PostOffice`. `Send` with `NetworkSend`, `AwaitSent` and `SendReturn`; `Receive`
with `Get`; the postal worker, `AwaitMessage`, `NetworkReceive`, `Put`; and the
interrupts `SendDone` and `CheckPktAvail`, which polls the one-packet buffer. The
network loses any packet. The machine sends to its own address, so one model
has both ends.

`ListProofs`, `SchedulerProofs`, `SynchProofs`, `DevicesProofs`, `SynchDiskProofs`,
`SynchListProofs`, `VirtualMemoryProofs` and `PostOfficeProofs` hold the theorems.
The `MC` modules give the constants their values.

## Runs

| run | instance | what it shows |
| --- | --- | --- |
| `synch` | 3 threads, 1 semaphore, 1 lock, 1 condition, 2 priorities, values up to 2, 1 device request | `ThreadPlacement`: each thread is in one place. `MutualExclusion`: one thread inside a lock. `NoLostWakeup`: nobody sleeps beside a unit or a free lock that no woken thread is about to take. `WakeupOrder`: queues are served by priority, then first come first served. |
| `nachos` | threads at will: up to 4; processes: a table of 2 entries; tests: their own threads, up to 10, and up to 2 time slices | A deleted thread is referred to by nobody; `Join` gets past its wait only after `Finish`, and returns once its thread finishes. `IdNamesProcess`: an identifier names the process it was returned for, and nobody keeps the table's lock, until the table is full. Every test ends and prints what it should when there are no time slices; readers exclude writers with them, too. |
| `mailbox` | 4 threads, up to 3 Sends and 3 Receives, 2 priorities | Messages arrive once, in order; a Send returns only with a Receive; the two never both sleep in the box. |
| `whale_match` (violated) | 4 threads, 2 calls of each routine | A matchmaker leaves too early, see Findings. |
| `synchlist` | 3 threads, 5 calls, 2 items | `SynchList` implements `Channel`; no Remove sleeps for ever over an item. |
| `interrupt` | timer, disk, display, a network sender, keyboard and network polling (present or not); delays of 1 to 3 ticks, two tracks of three sectors, time up to 12; three texts | Interrupts that are due are delivered once, in time and in order, whatever `CheckIfDue` removes and puts back; the machine halts only when nothing can happen. `InterruptsWhenPassed`: a disk request is done when its sector has passed the head. `EchoesAll`: `ConsoleTest` echoes each character once. |
| `synchdisk` | 3 threads, 3 calls, 2 sectors | One request at a time, and a call returns after its own interrupt; `SynchDisk` implements `AtomicDisk`; every call returns. |
| `virtual_memory` | 2 processes, object files of 1, 2 and 3 pages and one that `coff2noff` refuses, pages of 2 bytes, 2 frames, clock and FIFO | Frames are neither leaked nor shared; each byte of a page is what was last written to it or what the linker put there, through any number of evictions, unless a process of the same size has used the same backing file; the clock finds a page to evict whenever the process has one in memory, and an unused one if there is any. |
| `file_system` | 11 sectors of 2 bytes, 2 directory entries in 3 sectors, 2 names, files of 1 and 3 bytes, 1 open file | The free map has exactly the sectors of the files and they are disjoint; files keep what was written at any offset, also beside files that were removed while open; an exit between two sector writes leaves the other files alone and where they are found, also when it tears a directory entry. |
| `post_office` | 3 threads with the worker, 2 boxes, 2 Sends, 2 Receives | Mail that was not lost arrives once and in order; one packet is sent at a time, and the worker is woken exactly for packets that are there; `Send` returns even if the packet is lost; mail that is not lost gets to its box. |
| `machine` | 2 processes, 4 instructions on 2 pages of text, 2 pages of data, 12-bit words, 4 instructions each | Page faults, interrupts and context switches are invisible to a program, and a system call sees the loads before it; `Mult` computes the double-length product. `SimulatorsAgree`: `execute.c` does the same with every instruction, apart from listed differences, and disassembly and trace show what is executed. |
| `syscall_return` (violated) | the same | The instruction after a system call runs twice, see Findings. |

Why the bounds are enough. Barging takes three threads: one that waits, one
that releases or signals, one that comes in between; every run has at least
three. Two priorities give both orders of a sorted queue and, with three
threads, two equals. The device request of `synch` lets a thread be woken while
it is itself idling on the processor. In `nachos` a carcass that is
overwritten needs two finishing threads, a new one and the one that switches.
Four threads in `mailbox` let two Sends meet two Receives.
A full table with two entries takes three calls of `Exec`, by two processes if they are
to meet in it. In `interrupt` a request may come at every moment of a rotation, on the
track of the last one or on the other; a text with a `q` in the middle and one without
end `ConsoleTest` and leave it waiting.
`virtual_memory` has fewer frames than the larger process has pages, so that it
evicts its own pages, and the other process comes and goes in between, under
the clock and, as with the flag `-b`, under FIFO; both may run the same object
file, and then share a backing file. In `file_system` a file of 3 bytes takes two sectors, so writes begin
and end inside a sector, at its edge and in different sectors; two names fill the
directory, each entry lies across two sectors, so that either can be torn while the other
is in use, and the disk is too small for two large files.
Two messages in `post_office` are enough for one to arrive while the other is in
the buffer, in the worker's hands, or lost. The programs of `machine` are the
sequences of four instructions out of two loads, a partial load, a store and a
system call (with no whole-word load in the last place), a choice of others, every instruction after a load, and every operation
on small, negative, large and the most negative operands; the text
crosses a page, so that a fetch can fault in a delay slot. `CHECK_DEADLOCK` is off everywhere: the client may stop
calling, calls are bounded, and Nachos halts when nothing is left to do.

Named bounds: `MaxValue`, `MaxPending`, `MaxCalls`, `MaxTime`, `MaxSends`,
`MaxReceives`, `MaxSteps`, `MaxThreads`, `MaxSlices`, `MaxPages`. They stop the
client or the clock, never the kernel, except that a device delivers a `V` only
below `MaxValue` (in `SynchDisk` the value never gets there).

## Fairness

Liveness is checked in `nachos`, `synchlist`, `synchdisk` and `post_office`.

* Steps that run with interrupts off (`Resume`, `FinishWait`, `FinishDie`)
  cannot be preempted: weak fairness.
* `nachos -rs` delivers timer interrupts for ever, each followed by a `Yield`.
  So a thread in its own code is preempted again and again. This is the fairness
  of `YieldCPU` (strong, as it is disabled whenever the thread does not run).
* A thread that gets the processor infinitely often goes on in its call, though
  a time slice may end just before any one step: strong fairness on the steps of
  a call. Nobody is obliged to begin a call, to finish or to join.
* In `post_office` the calls are bounded and the two fairness conditions are on
  "the worker or a sender goes on" and on "an interrupt is delivered"; both
  follow from time slices and from the polling of the network.
* The disk answers, and an idle machine goes on when a thread is ready: weak
  fairness on the handler and on `LeaveIdle`.

Threads have one priority in these runs. With several, a thread of lower
priority is never run while the others yield to each other: `Yield` does not put
a thread "on the end of the ready list" (`code/threads/thread.cc:180`) but behind
its equals. Also, locks are not handed over: an endless stream of callers can
keep a woken thread from a lock, so liveness is about bounded numbers of calls.

## Findings

* `whale_match`: the matchmaker's second loop uses `&&` where both whales are
  needed, so it returns when one has mated.
* `syscall_return`: `ExceptionHandler` adds 4 to `PCReg` and leaves `NextPCReg`,
  which was there already. The instruction after the system call is executed
  twice; if it is the jump back from the stub, so is the one jumped to.

Defects that the properties are stated around:

* `Scheduler::Run` deletes `threadToBeDestroyed` after `SWITCH`, but a thread that
  runs for the first time starts in `ThreadRoot` and never comes there. If it
  finishes before some thread returns from `SWITCH`, the pointer is overwritten
  and the first thread leaks. No property excludes it; `NoDanglingThread` says that no
  thread is deleted too early.
* `ClearPage` evicts pages of the faulting process only, and loops for ever if it
  has none (`PageFaultHangs`; `ClockFindsVictim` says that it ends otherwise).
  `clock_hand` is not initialised, and a value beyond the page table makes the first
  eviction read outside it (also `PageFaultHangs`).
* `SC_Join` takes any number: that of the caller, of no process, or of one that was
  joined before and is deleted or about to be. `JoinStray` goes there, and nothing is
  followed after it.
* The backing file is named after the size of the process, so processes of one
  size share it and lose each other's pages. The instance has such processes;
  `PagesKeepData` is about the processes that never ran beside one of their size.
* `Table::Alloc` keeps its lock when it finds no slot, and scans beyond the end of
  its array. `IdNamesProcess` says that nothing goes wrong until the table is full.
* The handle of a file that was removed while open still writes to its old sectors,
  which may belong to another file by then (`spoiled`).
* With `-rs` a writer of the readers-and-writers test can be left asleep for ever, and
  the order that `PriorityLockOrder` prints is not the announced one. `TestsEnd`
  and `ExpectedOrder` are about runs without time slices.
* The two simulators differ, and `SimulatorsAgree` lists where. `mipssim.cc`: `OR`
  takes `rs` twice, `SRL` and `SRLV` keep the sign, `JALR` links before it reads its
  target, a division by zero gives 0. `execute.c`: `ANDI`, `ORI` and `XORI` extend
  the sign of the immediate, `MULT` and `MULTU` lose carries into Hi, `LWL` and
  `LWR` merge differently, `SWL` and `SWR` are refused, and targets and links in
  delay slots come from the wrong counter. `d.c` prints `rs` in place of `rd` for
  `MFLO`, `rd` in place of `rs` for `MTHI`, only `rs` for `JALR` and no operands for
  `BLEZ` and `BGTZ`.

Seen while modelling, not checked by a run: a load completed early by a page fault
or an interrupt is visible to a program that uses the old value in the delay slot; a second `Join`
of one thread uses semaphores that may be deleted; a joinable thread nobody joins
never dies; `AddrSpace::Initialize` never reports that it failed; `noff.h` says that
uninitialised data "should be zero'ed before use", but `demandpage` leaves the rest
of the last page as the frame was; `coff2noff.c` refuses a `.bss` that begins exactly
where `.sbss` ends, the case its comment asks for; `Network::Send` never sets
`sendBusy`; the character 0xff is `EOF` to the console; the exit status a process
passes to `Exit` is replaced by 0.

## Proofs

Every theorem holds for all values of the constants that satisfy the assumptions named
with it, and the bounds on calls, values and time may be any.

| theorem | statement |
| --- | --- |
| `SynchProofs`: `TypeCorrect` | `Spec => []TypeOK` |
| `ThreadPlacementAlways` | `Spec => []ThreadPlacement` |
| `MutualExclusionAlways` | `Spec => []MutualExclusion` |
| `NoLostWakeups` | `Spec => []NoLostWakeup` |
| `WakeupOrderHolds` | `Spec => WakeupOrder` |
| `DevicesProofs`: `InterruptsComeOnce` | `DevicesSpec => []EachInterruptOnce` |
| `HandlersInOrder` | `DevicesSpec => FiresInOrder` |
| `HaltsOnlyWhenDone` | `DevicesSpec => []HaltsWhenDone` |
| `ConsoleEchoes` | `DevicesSpec => []EchoesAll` |
| `SynchDiskProofs`: `OneRequestAtATimeAlways` | `DiskSpec => []OneRequestAtATime` |
| `ImplementsAtomicDiskAlways` | `DiskSpec => ImplementsAtomicDisk` |
| `SynchListProofs`: `ImplementsChannelAlways` | `ListSpec => ImplementsChannel` |
| `VirtualMemoryProofs`: `FramesAccountedAlways` | `VMSpec => []FramesAccounted` |
| `ClockAlwaysFindsVictim` | `VMSpec => []ClockFindsVictim` |
| `PostOfficeProofs`: `OnePacketAtATimeAlways` | `PostSpec => []OnePacketAtATime` |

### Threads and synchronisation

The theorems of `SynchProofs` hold for all sets of threads, semaphores, locks and
conditions, all priorities and all bounds. They assume `SynchAssumption` and
`NoThreadAssumption` only: the kinds of objects are disjoint, each condition is
used with one lock, initial values are natural numbers, and there are finitely
many threads (which the counting of woken threads needs).

The argument. `ThreadPlacement` is not inductive by itself in a usable form, so
the invariant `Inv` states it from the side of the data structures:
`Consistent(sched)` (the ready list has no duplicates and holds the READY
threads, only the current thread is RUNNING, and no carcass waits) and
`Placed(queue, blockedIn, sched)` (a thread is in the queue of `o` exactly if it
is BLOCKED and `blockedIn` says `o`), together with `TypeOK` and
`MutualExclusion`. `ListProofs` shows what `SortedInsert` and `Remove` do to the
items, the order and the absence of duplicates; `SchedulerProofs` shows that
`ReadyToRun`, `Yield`, `Sleep` and `Dispatch` keep `Consistent`; `SynchProofs`
lifts this to waking and sleeping (`WakePlaced`, `SleepPlaced`) and then goes
through the actions. `NoLost` restates `NoLostWakeup` with the
statuses of threads in place of the queues; it is inductive relative to `Inv`.
The delicate steps are a `P` by a thread that barges in, which lowers the value
and leaves the woken thread one to be counted with it, and a woken thread that
finds its loop's condition false and goes back to sleep. `WakeupOrder` follows from
`SortedQueues` and from what one step can do to one queue: nothing, `Remove`, or
a `SortedInsert` of a thread that was not there.

### Interrupts and console

`DevicesProofs` assumes `InterruptAssumption`, `ConsoleAssumption` and
`DevicesAssumption`: the devices are distinct, ticks and delays are positive, and
`EOF` is no character. The invariant of the interrupt machinery (`IntInv`) says that
the pending list is sorted by time and has nothing older than the handler that ran
last, that nothing in it is overdue while code runs (but for the timer, which `Idle`
may leave so while interrupts are off), and that whatever polls is on it.
`CheckIfDue` removes an item to look at it and
inserts it again, which keeps this because the list is sorted and stable. The
invariant of the console (`ConsoleInv`) says that the display is busy exactly while its
interrupt is pending, and that the typed text is what is displayed, then the
character in the buffer or in the test's hands, then what is unread.

### Disk, list and post office

`SynchDiskAssumption`, `SynchListAssumption` and `PostOfficeAssumption` name the
objects each uses, of the right kind and with the right initial value, and a value
that is no call, item or mail. `DiskInv` and `PostInv` have the same core: the thread
between `Acquire` and `Release` is the owner of the lock, so there is at most one;
while it waits for its request, the interrupts that are pending and the units of the
semaphore are one together, and otherwise none. Without the second half a unit
left over by an earlier request could not be excluded. For the postal worker the
units of `messageAvailable`, and one more if the worker has been told, are as many
as the packets in the inbox. `ListInv` says which item each call has; that
`SynchList` implements `Channel` needs no more, because `Append` and `Remove` touch the
list in one step. The refinement mappings are those that the runs check.

### Frames and clock

`VirtualMemoryProofs` assumes `VirtualMemoryAssumption` and `ExecutableAssumption`: at
least one frame, and object files whose size in pages is a natural number. `VMInv`
says that every page table is a function on an initial segment of the numbers,
and accounts for frames one by one: a frame is allocated
exactly if one valid page of one running process is in it, and no two are
(`Accounted`). Eviction and loading are two changes of that account, `Freed` and
`Added`, that a fault makes one after the other. That the clock ends is arithmetic: a
hand that has gone around once has passed every valid page, and so cleared its use bit,
and stops at the latest one round later (`Reaches`). An unused page is found in the first
round, in which no page is met twice (`Distinct`), so the victim is unused as well.

## Only model-checked

The lives of threads, processes and the thread tests; the mailbox; the contents of
pages (`PagesKeepData`); the latency of the disk; the file system; the order of
mail; the machine and its simulators. These need induction over data (sequences,
bytes, programs), or were left to TLC as their instances already have the
cases. Liveness is out of the prover's reach and stays with TLC.

## Not modelled, and why

* The debugger of the machine and the TLB of `Translate`, which this configuration
  does not compile.
* `SynchConsole.cc`: no Makefile has it, and it would not compile.
* In `bin/`: the COFF loaders of `main.c` and `disasm.c` use a library of the
  DECstation, `system.c` passes system calls to UNIX, and `coff2flat` and `out` are not
  used to run programs.
* Debugging output, statistics, the command line's parsing and UNIX wrappers
  (`utility.cc`, `sysdep.cc`): no state of the kernel.
* The assembly of `SWITCH` and stacks: what they do is the change of `currentThread`.
* User programs and the C++ examples, which are not part of the kernel.
* Concurrent calls of the file system: its code says that there are none
  (`code/filesys/filesys.cc:167`).
* The lengths of messages and the exit statuses are data that no property tells
  apart.
