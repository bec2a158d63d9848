------------------------------- MODULE Machine -------------------------------
(***************************************************************************)
(* User programs on the simulated machine: Machine::Run and OneInstruction *)
(* (machine/mipssim.cc), Translate (translate.cc), RaiseException          *)
(* (machine.cc), the ExceptionHandler of userprog/exception.cc, and the     *)
(* saving and restoring of user registers on a context switch.             *)
(*                                                                         *)
(* All processes share one register file.  An instruction can be cut short *)
(* by a page fault at any of its memory accesses and is started again from *)
(* the beginning.  Interrupts come between instructions; a process loses   *)
(* the processor in one and inside the system calls that block.  That      *)
(* pages keep their contents is the business of VirtualMemory, so memory   *)
(* is by virtual address here.                                             *)
(* PrevPCReg is for debugging and BadVAddrReg is read where it is written: *)
(* neither is kept.                                                        *)
(***************************************************************************)
EXTENDS Mips, FiniteSets

CONSTANTS
  Process,
  GPReg,        \* the general registers that the programs use
  Executables,  \* what the processes run: each a program (a function from word
                \* numbers to instruction words) for every process
  CodeBytes,    \* where the text of an address space ends
  NumPages,     \* AddrSpace::numPages
  PageSize,
  Data,         \* the initial data, a function on Process
  MaxSteps      \* bound: instructions a process completes

Regs == GPReg \cup {HiReg, LoReg, PCReg, NextPCReg, LoadReg, LoadValueReg}
Pages == 0..NumPages - 1
DataBytes == CodeBytes..NumPages * PageSize - 1

ASSUME MachineAssumption ==
  /\ {0, 2, 4, StackReg, R31} \subseteq GPReg /\ GPReg \subseteq 0..31
  /\ NumPages \in Nat \ {0} /\ PageSize \in Nat \ {0} /\ PageSize % 4 = 0
  /\ CodeBytes \in 0..NumPages * PageSize
  /\ \A run \in Executables : \A p \in Process : \A w \in 0..(CodeBytes \div 4) - 1 :
       Decode(run[p][w]).op \in OpCode
  /\ Data \in [Process -> [DataBytes -> 0..2^ByteBits - 1]]

VARIABLES
  code,           \* the program of each process
  current,        \* currentThread
  registers,      \* machine->registers
  userRegisters,  \* Thread::userRegisters
  memory,         \* the data of each address space
  resident,       \* the valid pages of each page table
  mode,           \* of each process: "user", "syscall" (in the kernel), "exited"
  trap,           \* type and argument the system call of a process has read
  halted,         \* the machine has stopped, by Halt or an ASSERT
  steps,          \* instructions completed by each process
  alone           \* history: registers and memory of the same program on a
                  \* machine of its own, with all its pages resident

machineVars == <<code, current, registers, userRegisters, memory, resident, mode,
                 trap, halted, steps, alone>>

\* SC_Halt, SC_Exit, ...: the system calls of syscall.h the handler knows.
SC_Halt == 0
SC_Exit == 1
SC_Exec == 2
SC_Join == 3
SC_Write == 7

InitRegisters ==
  [r \in Regs |-> CASE r = NextPCReg -> 4
                    [] r = StackReg  -> ToWord(NumPages * PageSize - 16)
                    [] OTHER         -> 0]
-----------------------------------------------------------------------------
\* Translate, with the page table of p: no page is read-only, and the frame of
\* a valid page exists.
Translate(p, addr, size) ==
  LET vpn == addr \div PageSize
  IN  IF addr % size # 0 \/ vpn >= NumPages THEN "AddressError"
      ELSE IF vpn \notin resident[p] THEN "PageFault"
      ELSE "None"

\* The instruction the program counter of p is at.
Fetched(p) == Decode(code[p][registers[PCReg] \div 4])

\* LWL, LWR, SWL and SWR are asserted to be aligned; the host traps on the one
\* quotient that is too large.
Aborts(i, r) ==
  \/ i.op \in {"LWL", "LWR", "SWL", "SWR"} /\ Address(i, r) % 4 # 0
  \/ i.op = "DIV" /\ r[i.rs] = SIGN_BIT /\ Signed(r[i.rt]) = -1

\* The exception that ends the instruction of p before it has changed anything.
Exception(p) ==
  LET fetch == Translate(p, registers[PCReg], 4)
      i     == Fetched(p)
  IN  IF fetch # "None" THEN fetch
      ELSE IF Aborts(i, registers) THEN "Abort"
      ELSE IF Overflows(i, registers) THEN "Overflow"
      ELSE IF i.op \in Load \cup Store
      THEN Translate(p, Address(i, registers), Size(i.op))
      ELSE IF i.op = "SYSCALL" THEN "Syscall"
      ELSE IF i.op \in {"RES", "UNIMP"} THEN "IllegalInstr"
      ELSE "None"

\* The address a page fault of p is for, BadVAddrReg.
BadVAddr(p) ==
  IF Translate(p, registers[PCReg], 4) # "None" THEN registers[PCReg]
  ELSE Address(Fetched(p), registers)

\* Mutant of Trapped: the load in progress is left for later.
TrappedEarly(r) == r

\* RaiseException finishes the load in progress before the kernel runs.
Trapped(r) == DelayedLoad(r, 0, 0)
-----------------------------------------------------------------------------
\* The rules of the architecture for what a compiler may emit: the instruction
\* after a load neither reads nor writes the register loaded (LWL and LWR may
\* load it again, a system call finds it loaded), and programs neither read
\* their text nor run their data.
Reads(i) ==
  IF i.op \in {"J", "JAL", "LUI", "MFHI", "MFLO", "SYSCALL", "RES", "UNIMP"} THEN {}
  ELSE IF i.op \in Immediate \cup Load \cup {"JR", "JALR", "MTHI", "MTLO"}
                   \cup {"BGEZ", "BGTZ", "BLEZ", "BLTZ"} \cup BranchAndLink
  THEN {i.rs}
  ELSE {i.rs, i.rt}

Writes(i) ==
  IF i.op \in ThreeRegister \cup {"JALR"} THEN {i.rd}
  ELSE IF i.op \in Immediate \cup (Load \ {"LWL", "LWR"}) THEN {i.rt}
  ELSE IF i.op \in BranchAndLink \cup {"JAL"} THEN {R31} ELSE {}

WellFormed(p) ==
  LET r == alone[p].registers
      i == Decode(code[p][r[PCReg] \div 4])
  IN  /\ r[PCReg] \notin DataBytes
      /\ r[PCReg] < CodeBytes /\ r[PCReg] % 4 = 0 =>
           /\ r[LoadReg] # 0 => r[LoadReg] \notin Reads(i) \cup Writes(i)
           /\ i.op \in Load \cup Store => Address(i, r) >= CodeBytes

Runs(p) ==
  /\ ~halted /\ current = p /\ mode[p] = "user" /\ steps[p] < MaxSteps
  /\ WellFormed(p)

\* An instruction that meets no exception.
Execute(p) ==
  LET own == alone[p]
      i   == Decode(code[p][own.registers[PCReg] \div 4])
  IN  /\ Runs(p)
      /\ Exception(p) = "None"
      /\ registers' = Completed(Fetched(p), registers, memory[p])
      /\ memory' = [memory EXCEPT ![p] = StoredMemory(Fetched(p), registers, @)]
      /\ steps' = [steps EXCEPT ![p] = @ + 1]
      /\ alone' = [alone EXCEPT ![p] =
                     [registers |-> Completed(i, own.registers, own.memory),
                      memory    |-> StoredMemory(i, own.registers, own.memory)]]
      /\ UNCHANGED <<code, current, userRegisters, resident, mode, trap, halted>>

\* A page fault: the handler moves the program counter on and back, brings the
\* page in, at the cost of another one if no frame is free, and the instruction
\* starts again.
PageFault(p) ==
  /\ Runs(p)
  /\ Exception(p) = "PageFault"
  /\ registers' = Trapped(registers)
  /\ \E victims \in SUBSET resident[p] :
       /\ Cardinality(victims) <= 1
       /\ resident' = [resident EXCEPT ![p] =
                         (@ \ victims) \cup {BadVAddr(p) \div PageSize}]
  /\ UNCHANGED <<code, current, userRegisters, memory, mode, trap, halted, steps, alone>>

\* The other exceptions end the process: Destroy.
Fatal(p) ==
  /\ Runs(p)
  /\ Exception(p) \in {"AddressError", "Overflow", "IllegalInstr"}
  /\ registers' = [Trapped(registers) EXCEPT ![PCReg] = ToWord(@ + 4)]
  /\ mode' = [mode EXCEPT ![p] = "exited"]
  /\ UNCHANGED <<code, current, userRegisters, memory, resident, trap, halted, steps,
                 alone>>

Abort(p) ==
  /\ Runs(p)
  /\ Exception(p) = "Abort"
  /\ halted' = TRUE
  /\ UNCHANGED <<code, current, registers, userRegisters, memory, resident, mode, trap,
                 steps, alone>>
-----------------------------------------------------------------------------
NoTrap == [type |-> 0, arg |-> 0]

\* The handler moves PCReg, and only PCReg, past the system call.
Skipped(r) == [r EXCEPT ![PCReg] = ToWord(@ + 4)]

\* Exec reads the file name at addr byte by byte.  Does it run off the address
\* space before a zero, for an AddressError that ends the process?  (The bytes
\* of the text are not modelled: a name that begins there may end there.)
NameRunsOff(p, addr) ==
  IF \E a \in DataBytes : a >= addr /\ memory[p][a] = 0 THEN {FALSE}
  ELSE IF addr < CodeBytes THEN BOOLEAN
  ELSE {TRUE}

\* A system call enters the kernel; the types the handler does not know fail
\* its ASSERT.  The reads of Exec can bring pages in and out.
Syscall(p) ==
  LET r    == Skipped(Trapped(registers))
      own  == Skipped(DelayedLoad(alone[p].registers, 0, 0))
      type == r[2]
  IN  /\ Runs(p)
      /\ Exception(p) = "Syscall"
      /\ registers' = r
      /\ trap' = [trap EXCEPT ![p] = [type |-> type, arg |-> r[4]]]
      /\ alone' = [alone EXCEPT ![p].registers = own]
      /\ halted' = (type \notin {SC_Exit, SC_Exec, SC_Join, SC_Write})
      /\ \E dies \in IF type = SC_Exec THEN NameRunsOff(p, r[4])
                     ELSE {type \in {SC_Exit, SC_Write}} :
           mode' = [mode EXCEPT ![p] = IF dies THEN "exited" ELSE "syscall"]
      /\ \E pages \in SUBSET Pages :
           /\ type # SC_Exec => pages = resident[p]
           /\ resident' = [resident EXCEPT ![p] = pages]
      /\ UNCHANGED <<code, current, userRegisters, memory, steps>>

\* Exec returns a process number, 0 if there is no such program, -1 if the
\* process table is full; Join the exit status, which is always 0.
SyscallReturn(p) ==
  /\ ~halted /\ current = p /\ mode[p] = "syscall"
  /\ \E result \in {0, 1, ToWord(-1)} :
       /\ trap[p].type = SC_Join => result = 0
       /\ registers' = [registers EXCEPT ![2] = result]
       /\ alone' = [alone EXCEPT ![p].registers[2] = result]
  /\ mode' = [mode EXCEPT ![p] = "user"]
  /\ trap' = [trap EXCEPT ![p] = NoTrap]
  /\ steps' = [steps EXCEPT ![p] = @ + 1]
  /\ UNCHANGED <<code, current, userRegisters, memory, resident, halted>>

\* After an instruction CheckIfDue calls the handler of an interrupt, and before
\* that it finishes the load in progress.
Interrupted(r) == DelayedLoad(r, 0, 0)

CheckIfDue(p) ==
  /\ ~halted /\ current = p /\ mode[p] = "user"
  /\ registers' = Interrupted(registers)
  /\ UNCHANGED <<code, current, userRegisters, memory, resident, mode, trap, halted, steps,
                 alone>>

\* Mutant of SaveUserState: only the general registers are saved.
SaveUserStateGP(r) == [x \in DOMAIN r |-> IF x \in GPReg THEN r[x] ELSE userRegisters[current][x]]

SaveUserState(r) == r

\* A context switch, by the handler of the timer interrupt or in the kernel,
\* where no load is in progress either.  A new process sets its registers itself.
Switch(q) ==
  /\ ~halted /\ q # current /\ mode[q] # "exited"
  /\ current' = q
  /\ userRegisters' = [userRegisters EXCEPT ![current] = SaveUserState(Interrupted(registers))]
  /\ registers' = IF mode[q] = "new" THEN InitRegisters ELSE userRegisters[q]
  /\ mode' = [mode EXCEPT ![q] = IF @ = "new" THEN "user" ELSE @]
  /\ UNCHANGED <<code, memory, resident, trap, halted, steps, alone>>

MachineInit ==
  /\ code \in Executables
  /\ current \in Process
  /\ registers = InitRegisters
  /\ userRegisters = [p \in Process |-> [r \in Regs |-> 0]]
  /\ memory = Data
  /\ resident = [p \in Process |-> {}]
  /\ mode = [p \in Process |-> IF p = current THEN "user" ELSE "new"]
  /\ trap = [p \in Process |-> NoTrap]
  /\ halted = FALSE
  /\ steps = [p \in Process |-> 0]
  /\ alone = [p \in Process |-> [registers |-> InitRegisters, memory |-> Data[p]]]

MachineNext ==
  \E p \in Process :
    \/ Execute(p)
    \/ PageFault(p)
    \/ Fatal(p)
    \/ Abort(p)
    \/ Syscall(p)
    \/ SyscallReturn(p)
    \/ CheckIfDue(p)
    \/ Switch(p)

MachineSpec == MachineInit /\ [][MachineNext]_machineVars
-----------------------------------------------------------------------------
RegistersOf(p) == IF p = current THEN registers ELSE userRegisters[p]

\* Page faults, at the fetch or at the data of an instruction, interrupts, and
\* context switches between any two instructions or inside a system call are
\* invisible to a well-formed program: its registers and memory are those of a run
\* alone with all pages resident, up to a load that was completed early; and a
\* system call gets the type and argument it has put into r2 and r4, also if the
\* instruction before was the load of one of them.
FaultsInvisible ==
  \A p \in Process : mode[p] \in {"user", "syscall"} =>
    /\ DelayedLoad(RegistersOf(p), 0, 0) = DelayedLoad(alone[p].registers, 0, 0)
    /\ memory[p] = alone[p].memory
    /\ mode[p] = "syscall" =>
         trap[p] = [type |-> alone[p].registers[2], arg |-> alone[p].registers[4]]

\* After MULT and MULTU, Hi and Lo hold the double-length product, for signs of
\* all kinds and the most negative number: what the shift-and-add loop of Mult
\* and its final complement are to compute.
MultIsProduct ==
  [][\A p \in Process :
       steps'[p] # steps[p] /\ mode[p] = "user" =>
         LET i     == Fetched(p)
             s     == registers[i.rs]
             t     == registers[i.rt]
             whole == [hi |-> registers'[HiReg], lo |-> registers'[LoReg]]
         IN  /\ i.op = "MULTU" => whole.hi * 2^WordBits + whole.lo = s * t
             /\ i.op = "MULT" =>
                  Signed(whole.hi) * 2^WordBits + whole.lo = Signed(s) * Signed(t)]_machineVars

\* What mipssim.cc asks of the kernel: after a system call execution goes on at
\* the next instruction, and as always the two instructions in the pipeline
\* (PCReg and NextPCReg) are different ones.
NoInstructionTwice ==
  \A p \in Process : mode[p] = "user" =>
    RegistersOf(p)[NextPCReg] # RegistersOf(p)[PCReg]
=============================================================================
