------------------------------ MODULE MCMachine ------------------------------
(***************************************************************************)
(* Two processes with two pages of text, of two instructions each, and two *)
(* pages of data.  Words have twelve bits.  The processes run the same     *)
(* program, on different data: a Sequence of four of MemoryAndTraps,       *)
(* one of the Mixed programs, each instruction after a load, or, beside    *)
(* a process that soon dies, each on operands of all kinds.                *)
(***************************************************************************)
EXTENDS Simulators

\* The word of an instruction, as the assembler encodes it; 63 is reserved.
Encoded(op, funct, rs, rt, rd, extra) ==
  [op |-> op, funct |-> funct, rs |-> rs, rt |-> rt, rd |-> rd, shamt |-> extra % WordBits,
   immed |-> extra % 2^HalfBits, target |-> extra % (JumpSpan \div 4)]

I(op, rs, rt, rd, extra) ==
  CASE op \in DOMAIN SpecialOps -> Encoded(I_SPECIAL, SpecialOps[op], rs, rt, rd, extra)
    [] op \in DOMAIN BcondOps -> Encoded(I_BCOND, 0, rs, BcondOps[op], rd, extra)
    [] op \in DOMAIN NormalOps -> Encoded(NormalOps[op], 0, rs, rt, rd, extra)
    [] OTHER -> Encoded(63, 0, rs, rt, rd, extra)

LwArg  == I("LW", StackReg, 4, 0, 0)
LwType == I("LW", StackReg, 2, 0, 4)
SwArg  == I("SW", StackReg, 4, 0, 8)
AddArg == I("ADD", 4, 4, 4, 0)
LwrArg == I("LWR", StackReg, 4, 0, 4)
Bne    == I("BNE", 4, 0, 0, 1)
Sys    == I("SYSCALL", 0, 0, 0, 0)
Nop    == I("SLL", 0, 0, 0, 0)

MemoryAndTraps == {LwArg, LwType, SwArg, LwrArg, Sys}

\* One load is enough in the last place: nothing comes after it.
Sequence == {s \in [1..4 -> MemoryAndTraps] : s[4] \notin {LwArg, LwType}}

Program(s) == [w \in 0..3 |-> s[w + 1]]

Mixed ==
  {<<LwArg, I("ADDIU", 0, 2, 0, SC_Exec), Sys, AddArg>>,
   <<I("ADDIU", 0, 2, 0, SC_Exec), Sys, AddArg, LwArg>>,
   <<I("ADDIU", 0, 2, 0, SC_Exec), Sys, I("JR", R31, 0, 0, 0), LwArg>>, <<LwArg, Nop, Bne, SwArg>>, <<LwType, AddArg, AddArg, AddArg>>,
   <<I("LB", StackReg, 4, 0, 2), Nop, I("SH", StackReg, 4, 0, 6), I("LHU", StackReg, 1, 0, 6)>>,
   <<I("LW", StackReg, 4, 0, 0), I("ADDI", 0, 1, 0, -3), I("MULT", 1, 4, 0, 0), I("MFHI", 0, 0, 1, 0)>>,
   <<I("JAL", 0, 0, 0, 3), LwArg, I("DIV", 4, 2, 0, 0), I("JR", R31, 0, 0, 0)>>,
   <<I("LH", StackReg, 1, 0, 4), I("LUI", 0, 2, 0, 8), I("SWR", StackReg, 1, 0, 8), I("SUB", 2, 1, 2, 0)>>,
   <<I("LW", StackReg, 4, 0, 1), Nop, Nop, Nop>>,
   <<I("LWL", StackReg, 4, 0, 2), Nop, Nop, Nop>>,
   <<I("BLTZAL", 4, 0, 0, 0), LwArg, I("SLT", R31, 0, 1, 0), I("JALR", R31, 0, 1, 0)>>}

\* Every instruction, after a load.
EachOp ==
  {<<LwArg, Nop, I(op, 4, 4, 1, 1), Nop>> :
     op \in ThreeRegister \cup Immediate \cup HiLo \cup Branch \cup Jump} \cup
  {<<LwArg, Nop, I(op, StackReg, 4, 0, 4), Nop>> : op \in Load \cup Store}

\* Every operation on operands of all kinds: 1, 7, -1, a large one and the most
\* negative word.
Operands ==
  {I("ADDIU", 0, 0, 0, n) : n \in {1, 7, -1}} \cup {I("LUI", 0, 0, 0, n) : n \in {13, 32}}

OnOperands ==
  {<<[a EXCEPT !.rt = 1], [b EXCEPT !.rt = 4], I(op, 1, 4, 2, n), Nop>> :
     a \in Operands, b \in Operands, n \in {3},
     op \in ThreeRegister \cup HiLo \cup {"BEQ", "BNE", "BGTZ", "BLEZ"}} \cup
  {<<[a EXCEPT !.rt = 1], I(op, 1, 4, 2, n), Nop, Nop>> :
     a \in Operands, op \in Immediate \cup {"BGEZ", "BLTZ", "BGEZAL", "BLTZAL"}, n \in {2, -3}}

Reserved == <<I("RES", 0, 0, 0, 0), Nop, Nop, Nop>>

FirstProcess == CHOOSE q \in Process : TRUE

MCData ==
  [p \in Process |->
     LET bytes == IF p = FirstProcess
                  THEN <<1, 0, 0, 3, 3, 0, 0, 0>> ELSE <<2, 1, 2, 1, 1, 0, 0, 0>>
     IN  [a \in DataBytes |-> bytes[((a - CodeBytes) % 8) + 1]]]

MCExecutables ==
  {[p \in Process |-> Program(s)] : s \in Sequence \cup Mixed \cup EachOp}
    \cup {[p \in Process |-> Program(IF p = FirstProcess THEN s ELSE Reserved)] : s \in OnOperands}
=============================================================================
