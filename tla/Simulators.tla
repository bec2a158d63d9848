------------------------------ MODULE Simulators ------------------------------
(***************************************************************************)
(* The two simulators of the repository, machine/mipssim.cc and            *)
(* bin/execute.c, and the disassembler side by side: each instruction that *)
(* a program completes on the machine is given to the others as well.      *)
(***************************************************************************)
EXTENDS Machine, Disassembler

\* A factor of half a word, up to its sign if MULT takes it to have one.
Small(op, x) == x < 2^HalfBits \/ (op = "MULT" /\ ToWord(-x) < 2^HalfBits)

\* Where they are known to differ.  mipssim.cc takes rs twice in OR, shifts
\* signs in with SRL and SRLV, links before it jumps in JALR, and answers a
\* division by zero.  execute.c extends the sign of the operand of ANDI, ORI and
\* XORI, drops carries of large products, merges differently in LWL and LWR, and
\* reckons targets and links from the instruction at hand also when the next one
\* is elsewhere (a transfer of control in a delay slot, or after a system call).
Differ(i, r) ==
  \/ i.op = "OR" /\ i.rs # i.rt
  \/ i.op \in {"SRL", "SRLV"} /\ Negative(r[i.rt])
  \/ i.op \in {"ANDI", "ORI", "XORI"} /\ i.extra < 0
  \/ i.op \in {"MULT", "MULTU"} /\ ~(Small(i.op, r[i.rs]) /\ Small(i.op, r[i.rt]))
  \/ i.op \in {"DIV", "DIVU"} /\ r[i.rt] = 0
  \/ i.op \in {"LWL", "LWR"}
  \/ i.op \in Branch \cup Jump /\ r[NextPCReg] # ToWord(r[PCReg] + 4)
  \/ i.op \in {"J", "JAL"} /\ ToWord(r[PCReg] + 8) \div JumpSpan # r[PCReg] \div JumpSpan
  \/ i.op = "JALR" /\ i.rs = i.rd

\* The instructions of which dump_ascii does not print the register they write:
\* rs instead of rd of MFLO, rs alone of JALR.
Hidden == {"MFLO", "JALR"}

\* Both simulators do the same to registers, memory and program counters with
\* every other instruction, whichever way its word is decoded, for well-formed
\* programs, and although one of them delays loads and the other does not.  The
\* disassembly and the trace of it name the instruction that is executed and the
\* registers that change, links apart, and the disassembly says where a branch
\* that it prints operands of goes.
SimulatorsAgree ==
  [][\A p \in Process :
       steps'[p] # steps[p] /\ mode[p] = "user" =>
         LET word == code[p][registers[PCReg] \div 4]
             i    == Fetched(p)
             r    == DelayedLoad(registers, 0, 0)
             next == IStep(word, r, memory[p])
             line == dump_ascii(word, r[PCReg])
             done == DelayedLoad(registers', 0, 0)
             link == IF i.op \in BranchAndLink \cup {"JAL"} THEN {R31} ELSE {}
             changed == {g \in GPReg \ link : done[g] # r[g]}
         IN  Interpreted(word) /\ ~Differ(i, r) =>
               /\ done = [next.registers EXCEPT ![0] = 0]
               /\ memory'[p] = next.memory
               /\ line.name = IF IsNop(word) THEN "NOP" ELSE i.op
               /\ \A g \in changed :
                    /\ \E n \in DOMAIN Trace(i).regs : Trace(i).regs[n] = g
                    /\ i.op \in Hidden \/ \E n \in DOMAIN line.regs : line.regs[n] = g
               /\ done[NextPCReg] # ToWord(r[NextPCReg] + 4) =>
                    i.op \in {"JR", "JALR", "BLEZ", "BGTZ"} \/ line.number = done[NextPCReg]]_machineVars
=============================================================================
