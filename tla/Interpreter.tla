----------------------------- MODULE Interpreter -----------------------------
(***************************************************************************)
(* bin/execute.c: the loop of runprogram, the interpreter of MIPS programs *)
(* that comes with the object file tools.  It has its own encodings        *)
(* (encode.h), its own decoding (instr.h) and no delayed loads.            *)
(*                                                                         *)
(* Its registers are named as those of Mips, with pc and npc in PCReg and  *)
(* NextPCReg.  Overflows of an int wrap around and shift counts are taken  *)
(* modulo the width of a word, as by the instructions they compile to.     *)
(***************************************************************************)
EXTENDS Mips

\* encode.h.
I_SPECIAL == 0
I_BCOND == 1
SpecialOps ==
  [SLL |-> 0, SRL |-> 2, SRA |-> 3, SLLV |-> 4, SRLV |-> 6, SRAV |-> 7, JR |-> 8,
   JALR |-> 9, SYSCALL |-> 12, BREAK |-> 13, MFHI |-> 16, MTHI |-> 17, MFLO |-> 18,
   MTLO |-> 19, MULT |-> 24, MULTU |-> 25, DIV |-> 26, DIVU |-> 27, ADD |-> 32,
   ADDU |-> 33, SUB |-> 34, SUBU |-> 35, AND |-> 36, OR |-> 37, XOR |-> 38, NOR |-> 39,
   SLT |-> 42, SLTU |-> 43]
BcondOps == [BLTZ |-> 0, BGEZ |-> 1, BLTZAL |-> 16, BGEZAL |-> 17]
NormalOps ==
  [J |-> 2, JAL |-> 3, BEQ |-> 4, BNE |-> 5, BLEZ |-> 6, BGTZ |-> 7, ADDI |-> 8,
   ADDIU |-> 9, SLTI |-> 10, SLTIU |-> 11, ANDI |-> 12, ORI |-> 13, XORI |-> 14,
   LUI |-> 15, LB |-> 32, LH |-> 33, LWL |-> 34, LW |-> 35, LBU |-> 36, LHU |-> 37,
   LWR |-> 38, SB |-> 40, SH |-> 41, SWL |-> 42, SW |-> 43, SWR |-> 46]

\* The case of the switches a word is for; "exit" for u() and the coprocessors.
CaseOf(word) ==
  LET Named(ops, n) == IF \E op \in DOMAIN ops : ops[op] = n
                       THEN CHOOSE op \in DOMAIN ops : ops[op] = n ELSE "exit"
  IN  IF word.op = I_SPECIAL THEN Named(SpecialOps, word.funct)
      ELSE IF word.op = I_BCOND THEN Named(BcondOps, word.rt)
      ELSE Named(NormalOps, word.op)

\* Mutant of Immed: it is not extended.
ImmedUnsigned(word) == word.immed

Immed(word) == ToWord(SignExtend(word.immed, HalfBits))

\* MULT and MULTU: the high word is put together from half words, without the
\* carries of the lower ones.
IMult(a, b, neg) ==
  LET ah == a \div 2^HalfBits
      bh == b \div 2^HalfBits
      High(n) == ShiftRight(ToWord(n), HalfBits)
      lo == ToWord(a * b)
      hi == ToWord(ah * bh + High(ah * LowHalf(b)) + High(bh * LowHalf(a)))
  IN  IF neg THEN LET c == ToWord(Complement(lo) + 1)
                  IN  [hi |-> ToWord(Complement(hi) + Bool(c = 0)), lo |-> c]
      ELSE [hi |-> hi, lo |-> lo]

\* What an instruction leaves in rd or rt: shifts, other register operations,
\* immediate operations and loads.
IShift(op, word, t, by) ==
  CASE op = "SLL"  -> ShiftLeft(t, word.shamt)
    [] op = "SRL"  -> t \div 2^word.shamt
    [] op = "SRA"  -> ShiftRight(t, word.shamt)
    [] op = "SLLV" -> ShiftLeft(t, by)
    [] op = "SRLV" -> t \div 2^by
    [] op = "SRAV" -> ShiftRight(t, by)

IArith(op, s, t) ==
  CASE op \in {"ADD", "ADDU"} -> ToWord(s + t)
    [] op \in {"SUB", "SUBU"} -> ToWord(s - t)
    [] op = "AND"  -> s & t
    [] op = "OR"   -> s | t
    [] op = "XOR"  -> s ^^ t
    [] op = "NOR"  -> Complement(s | t)
    [] op = "SLT"  -> Bool(Signed(s) < Signed(t))
    [] op = "SLTU" -> Bool(s < t)

IImmediate(op, word, s, im) ==
  CASE op \in {"ADDI", "ADDIU"} -> ToWord(s + im)
    [] op = "SLTI"  -> Bool(Signed(s) < Signed(im))
    [] op = "SLTIU" -> Bool(s < im)
    [] op = "ANDI"  -> s & im
    [] op = "ORI"   -> s | im
    [] op = "XORI"  -> s ^^ im
    [] op = "LUI"   -> ShiftLeft(word.immed, HalfBits)

ILoaded(op, t, i, mem) ==
  LET Fetch(size) == ReadBytes(mem, i, size)
      aligned == ReadBytes(mem, i - (i % 4), 4)
  IN  CASE op = "LB"  -> SignExtend(Fetch(1), ByteBits)
        [] op = "LH"  -> SignExtend(Fetch(2), HalfBits)
        [] op = "LBU" -> Fetch(1)
        [] op = "LHU" -> Fetch(2)
        [] op = "LW"  -> Fetch(4)
        [] op = "LWL" -> t | ShiftLeft(aligned, ByteBits * (i % 4))
        [] op = "LWR" ->
             (IF i % 4 = 0 THEN 0 ELSE t - (t % 2^(ByteBits * (i % 4))))
               | ShiftRight(aligned, ByteBits * ((4 - (i % 4)) % 4))

IValue(op, word, r, mem) ==
  LET s  == r[word.rs]
      t  == r[word.rt]
      im == Immed(word)
  IN  CASE op \in {"SLL", "SRL", "SRA", "SLLV", "SRLV", "SRAV"} ->
             IShift(op, word, t, s % WordBits)
        [] op = "MFHI" -> r[HiReg]
        [] op = "MFLO" -> r[LoReg]
        [] op \in Immediate -> IImmediate(op, word, s, im)
        [] op \in Load -> ILoaded(op, t, ToWord(s + im), mem)
        [] OTHER -> IArith(op, s, t)

\* HI and LO; a division by zero, which ends the interpreter, is not followed.
IHiLo(op, word, r) ==
  LET s == r[word.rs]
      t == r[word.rt]
      Magnitude(x) == IF Negative(x) THEN ToWord(-x) ELSE x
  IN  CASE op = "MULT"  -> IMult(Magnitude(s), Magnitude(t), Negative(s) # Negative(t))
        [] op = "MULTU" -> IMult(s, t, FALSE)
        [] op = "DIV"   -> Div(Signed(s), Signed(t))
        [] op = "DIVU"  -> Div(s, t)
        [] op = "MTHI"  -> [hi |-> s, lo |-> r[LoReg]]
        [] op = "MTLO"  -> [hi |-> r[HiReg], lo |-> s]

\* npc, from xpc; links are written before the condition is tested.
INext(op, word, r, xpc) ==
  LET s      == IF op \in BranchAndLink /\ word.rs = R31 THEN ToWord(xpc + 8) ELSE r[word.rs]
      t      == r[word.rt]
      branch == CASE op = "BEQ" -> s = t
                  [] op = "BNE" -> s # t
                  [] op \in {"BLTZ", "BLTZAL"} -> Negative(s)
                  [] op \in {"BGEZ", "BGEZAL"} -> ~Negative(s)
                  [] op = "BLEZ" -> Signed(s) <= 0
                  [] op = "BGTZ" -> Signed(s) > 0
                  [] OTHER -> FALSE
  IN  CASE op \in Branch /\ branch  -> ToWord(xpc + 4 + IndexToAddr(Signed(Immed(word))))
        [] op \in {"J", "JAL"}      -> (xpc - (xpc % JumpSpan)) + IndexToAddr(word.target)
        [] op \in {"JR", "JALR"}    -> s
        [] OTHER                    -> ToWord(r[NextPCReg] + 4)

\* The instructions it refuses, and those that go to the UNIX system calls of
\* system.c, are not followed.
Interpreted(word) == CaseOf(word) \notin {"exit", "SWL", "SWR", "SYSCALL", "BREAK"}

IStored(op, word, r, mem) ==
  IF op \in {"SB", "SH", "SW"}
  THEN WriteBytes(mem, ToWord(r[word.rs] + Immed(word)), Size(op), r[word.rt])
  ELSE mem

\* An instruction of runprogram's loop: Reg[0] is cleared before it.
IStep(word, reg, mem) ==
  LET r    == [reg EXCEPT ![0] = 0]
      op   == CaseOf(word)
      xpc  == r[PCReg]
      link == ToWord(xpc + 8)
      moved == [r EXCEPT ![PCReg] = r[NextPCReg], ![NextPCReg] = INext(op, word, r, xpc)]
  IN  [registers |->
         CASE op \in ThreeRegister -> [moved EXCEPT ![word.rd] = IValue(op, word, r, mem)]
           [] op \in Immediate \cup Load -> [moved EXCEPT ![word.rt] = IValue(op, word, r, mem)]
           [] op \in HiLo -> [moved EXCEPT ![HiReg] = IHiLo(op, word, r).hi,
                                           ![LoReg] = IHiLo(op, word, r).lo]
           [] op \in BranchAndLink \cup {"JAL"} -> [moved EXCEPT ![R31] = link]
           [] op = "JALR" -> [moved EXCEPT ![word.rd] = link]
           [] OTHER -> moved,
       memory |-> IStored(op, word, r, mem)]
=============================================================================
