-------------------------------- MODULE Mips --------------------------------
(***************************************************************************)
(* The instructions of the simulated R2000/R3000: the switch of            *)
(* machine/mipssim.cc OneInstruction, DelayedLoad and Mult, as functions   *)
(* from the registers to the registers.                                    *)
(*                                                                         *)
(* A word has four bytes, of ByteBits bits each (8 on the real machine), so *)
(* that the arithmetic wraps and changes sign as it does in the code.      *)
(* An instruction word is a record of the fields that the formats cut it   *)
(* into: op, rs, rt, rd, shamt, funct, immed and target.                   *)
(***************************************************************************)
EXTENDS Integers, Sequences, Bitwise

CONSTANTS
  ByteBits,   \* bits of a byte
  JumpSpan    \* addresses that the target field of J and JAL can tell apart

ASSUME MipsAssumption == ByteBits \in Nat \ {0} /\ JumpSpan \in Nat \ {0}

HalfBits == 2 * ByteBits
WordBits == 4 * ByteBits
Word == 0..2^WordBits - 1
SIGN_BIT == 2^(WordBits - 1)

HiReg == 32
LoReg == 33
PCReg == 34
NextPCReg == 35
LoadReg == 37
LoadValueReg == 38
StackReg == 29
R31 == 31

\* A register as a signed number, and a number cut to the width of a register.
Signed(x) == IF x >= SIGN_BIT THEN x - 2^WordBits ELSE x
ToWord(n) == n % 2^WordBits
Negative(x) == x >= SIGN_BIT
Complement(x) == 2^WordBits - 1 - x

SignExtend(x, bits) == IF x >= 2^(bits - 1) THEN ToWord(x - 2^bits) ELSE x
LowHalf(n) == n % 2^HalfBits
Bool(b) == IF b THEN 1 ELSE 0
IndexToAddr(x) == 4 * x

\* The shifts of the code; >> on an int keeps the sign, for SRL and SRLV too.
ShiftLeft(x, n) == ToWord(x * 2^n)
ShiftRight(x, n) == ToWord(Signed(x) \div 2^n)
-----------------------------------------------------------------------------
\* Mult: one bit of a at a time.  After i rounds bHi:bLo is b shifted by i and
\* hi:lo the sum so far.  (The loop may stop when a has no bits left.)
MultRounds(a, b) ==
  LET round[i \in 0..WordBits] ==
        IF i = 0 THEN [a |-> a, bLo |-> b, bHi |-> 0, lo |-> 0, hi |-> 0]
        ELSE LET r  == round[i - 1]
                 lo == IF r.a % 2 = 1 THEN ToWord(r.lo + r.bLo) ELSE r.lo
             IN  [a   |-> ShiftRight(r.a, 1),
                  bLo |-> ShiftLeft(r.bLo, 1),
                  bHi |-> ToWord(2 * r.bHi + Bool(Negative(r.bLo))),
                  lo  |-> lo,
                  hi  |-> IF r.a % 2 = 1
                          THEN ToWord(r.hi + Bool(lo < r.bLo) + r.bHi) ELSE r.hi]
  IN  round[WordBits]

\* Mutant of Mult: the carry out of the low word of the negated product is lost.
MultNoCarry(a, b, signedArith) ==
  LET Magnitude(x) == IF signedArith /\ Negative(x) THEN ToWord(-x) ELSE x
      m == MultRounds(Magnitude(a), Magnitude(b))
  IN  IF a = 0 \/ b = 0 THEN [hi |-> 0, lo |-> 0]
      ELSE IF signedArith /\ Negative(a) # Negative(b)
      THEN [hi |-> Complement(m.hi), lo |-> ToWord(Complement(m.lo) + 1)]
      ELSE [hi |-> m.hi, lo |-> m.lo]

Mult(a, b, signedArith) ==
  LET Magnitude(x) == IF signedArith /\ Negative(x) THEN ToWord(-x) ELSE x
      m  == MultRounds(Magnitude(a), Magnitude(b))
      lo == ToWord(Complement(m.lo) + 1)
  IN  IF a = 0 \/ b = 0 THEN [hi |-> 0, lo |-> 0]
      ELSE IF signedArith /\ Negative(a) # Negative(b)
      THEN [hi |-> ToWord(Complement(m.hi) + Bool(lo = 0)), lo |-> lo]
      ELSE [hi |-> m.hi, lo |-> m.lo]

\* DIV and DIVU, which truncate towards zero; nothing is raised for zero.
Div(a, b) ==
  IF b = 0 THEN [hi |-> 0, lo |-> 0]
  ELSE LET Abs(n) == IF n < 0 THEN -n ELSE n
           sign   == IF (a < 0) = (b < 0) THEN 1 ELSE -1
           q      == sign * (Abs(a) \div Abs(b))
       IN  [hi |-> ToWord(a - b * q), lo |-> ToWord(q)]
-----------------------------------------------------------------------------
ThreeRegister == {"ADD", "ADDU", "AND", "NOR", "OR", "SLLV", "SLT", "SLTU", "SRAV",
                  "SRLV", "SUB", "SUBU", "XOR", "SLL", "SRA", "SRL", "MFHI", "MFLO"}
Immediate == {"ADDI", "ADDIU", "ANDI", "LUI", "ORI", "SLTI", "SLTIU", "XORI"}
BranchAndLink == {"BGEZAL", "BLTZAL"}
Branch == {"BEQ", "BNE", "BGEZ", "BGTZ", "BLEZ", "BLTZ"} \cup BranchAndLink
Jump == {"J", "JAL", "JR", "JALR"}
Load == {"LB", "LBU", "LH", "LHU", "LW", "LWL", "LWR"}
Store == {"SB", "SH", "SW", "SWL", "SWR"}
HiLo == {"MULT", "MULTU", "DIV", "DIVU", "MTHI", "MTLO"}
OpCode == ThreeRegister \cup Immediate \cup Branch \cup Jump \cup Load \cup Store
            \cup HiLo \cup {"SYSCALL", "RES", "UNIMP"}

\* opTable and specialTable.
OpTable ==
  <<"SPECIAL", "BCOND", "J", "JAL", "BEQ", "BNE", "BLEZ", "BGTZ",
    "ADDI", "ADDIU", "SLTI", "SLTIU", "ANDI", "ORI", "XORI", "LUI",
    "UNIMP", "UNIMP", "UNIMP", "UNIMP", "RES", "RES", "RES", "RES",
    "RES", "RES", "RES", "RES", "RES", "RES", "RES", "RES",
    "LB", "LH", "LWL", "LW", "LBU", "LHU", "LWR", "RES",
    "SB", "SH", "SWL", "SW", "RES", "RES", "SWR", "RES",
    "UNIMP", "UNIMP", "UNIMP", "UNIMP", "RES", "RES", "RES", "RES",
    "UNIMP", "UNIMP", "UNIMP", "UNIMP", "RES", "RES", "RES", "RES">>

SpecialTable ==
  <<"SLL", "RES", "SRL", "SRA", "SLLV", "RES", "SRLV", "SRAV",
    "JR", "JALR", "RES", "RES", "SYSCALL", "UNIMP", "RES", "RES",
    "MFHI", "MTHI", "MFLO", "MTLO", "RES", "RES", "RES", "RES",
    "MULT", "MULTU", "DIV", "DIVU", "RES", "RES", "RES", "RES",
    "ADD", "ADDU", "SUB", "SUBU", "AND", "OR", "XOR", "NOR",
    "RES", "RES", "SLT", "SLTU", "RES", "RES", "RES", "RES",
    "RES", "RES", "RES", "RES", "RES", "RES", "RES", "RES",
    "RES", "RES", "RES", "RES", "RES", "RES", "RES", "RES">>

\* Decode: what the instruction is, and extra, by the format of the word.
Decode(word) ==
  LET entry == OpTable[word.op + 1]
      op    == CASE entry = "SPECIAL" -> SpecialTable[word.funct + 1]
                 [] entry = "BCOND" -> CASE word.rt = 0  -> "BLTZ"
                                         [] word.rt = 1  -> "BGEZ"
                                         [] word.rt = 16 -> "BLTZAL"
                                         [] word.rt = 17 -> "BGEZAL"
                                         [] OTHER        -> "UNIMP"
                 [] OTHER -> entry
      extra == CASE entry = "SPECIAL"      -> word.shamt
                 [] entry \in {"J", "JAL"} -> word.target
                 [] OTHER                  -> Signed(SignExtend(word.immed, HalfBits))
  IN  [op |-> op, rs |-> word.rs, rt |-> word.rt, rd |-> word.rd, extra |-> extra]

\* The bytes an access moves.
Size(op) ==
  IF op \in {"LB", "LBU", "SB"} THEN 1 ELSE IF op \in {"LH", "LHU", "SH"} THEN 2 ELSE 4

\* tmp, the address of a load or store.
Address(i, r) == ToWord(r[i.rs] + i.extra)

\* What the arithmetic, logical and shift instructions leave in rd or rt.
\* (OR takes rs twice.)
Result(i, r) ==
  LET s == r[i.rs]
      t == r[i.rt]
      shift == s % WordBits
  IN  CASE i.op \in {"ADD", "ADDU"}   -> ToWord(s + t)
        [] i.op \in {"ADDI", "ADDIU"} -> ToWord(s + i.extra)
        [] i.op \in {"SUB", "SUBU"}   -> ToWord(s - t)
        [] i.op = "AND"   -> s & t
        [] i.op = "ANDI"  -> s & LowHalf(i.extra)
        [] i.op = "OR"    -> s | s
        [] i.op = "ORI"   -> s | LowHalf(i.extra)
        [] i.op = "XOR"   -> s ^^ t
        [] i.op = "XORI"  -> s ^^ LowHalf(i.extra)
        [] i.op = "NOR"   -> Complement(s | t)
        [] i.op = "LUI"   -> ShiftLeft(i.extra, HalfBits)
        [] i.op = "SLL"   -> ShiftLeft(t, i.extra)
        [] i.op = "SLLV"  -> ShiftLeft(t, shift)
        [] i.op \in {"SRA", "SRL"}   -> ShiftRight(t, i.extra)
        [] i.op \in {"SRAV", "SRLV"} -> ShiftRight(t, shift)
        [] i.op = "SLT"   -> Bool(Signed(s) < Signed(t))
        [] i.op = "SLTI"  -> Bool(Signed(s) < i.extra)
        [] i.op = "SLTIU" -> Bool(s < ToWord(i.extra))
        [] i.op = "SLTU"  -> Bool(s < t)
        [] i.op = "MFHI"  -> r[HiReg]
        [] i.op = "MFLO"  -> r[LoReg]

\* The checks of ADD, ADDI and SUB: operands of one sign (of two, for SUB) and
\* a result of the other.
Overflows(i, r) ==
  LET s == r[i.rs]
  IN  \/ /\ i.op = "ADD"
         /\ Negative(s) = Negative(r[i.rt])
         /\ Negative(s) # Negative(Result(i, r))
      \/ /\ i.op = "ADDI"
         /\ Negative(s) = (i.extra < 0)
         /\ Negative(s) # Negative(Result(i, r))
      \/ /\ i.op = "SUB"
         /\ Negative(s) # Negative(r[i.rt])
         /\ Negative(s) # Negative(Result(i, r))

\* The double-word results and moves to Hi and Lo.
HiLoResult(i, r) ==
  LET s == r[i.rs]
      t == r[i.rt]
  IN  CASE i.op = "MULT"  -> Mult(s, t, TRUE)
        [] i.op = "MULTU" -> Mult(s, t, FALSE)
        [] i.op = "DIV"   -> Div(Signed(s), Signed(t))
        [] i.op = "DIVU"  -> Div(s, t)
        [] i.op = "MTHI"  -> [hi |-> s, lo |-> r[LoReg]]
        [] i.op = "MTLO"  -> [hi |-> r[HiReg], lo |-> s]

\* The condition of a branch.  BGEZAL and BLTZAL write R31 before they test rs.
Taken(i, r) ==
  LET s == IF i.op \in BranchAndLink /\ i.rs = R31
           THEN ToWord(r[NextPCReg] + 4) ELSE r[i.rs]
  IN  CASE i.op = "BEQ" -> s = r[i.rt]
        [] i.op = "BNE" -> s # r[i.rt]
        [] i.op \in {"BGEZ", "BGEZAL"} -> ~Negative(s)
        [] i.op \in {"BLTZ", "BLTZAL"} -> Negative(s)
        [] i.op = "BGTZ" -> Signed(s) > 0
        [] i.op = "BLEZ" -> Signed(s) <= 0

\* pcAfter.  JALR writes its link register before it reads the target.
PcAfter(i, r) ==
  LET next == ToWord(r[NextPCReg] + 4)
  IN  IF i.op \in Branch
      THEN IF Taken(i, r) THEN ToWord(r[NextPCReg] + IndexToAddr(i.extra)) ELSE next
      ELSE IF i.op \in {"J", "JAL"}
      THEN (next - (next % JumpSpan)) + IndexToAddr(i.extra)
      ELSE IF i.op = "JR" \/ (i.op = "JALR" /\ i.rs # i.rd) THEN r[i.rs]
      ELSE next
-----------------------------------------------------------------------------
\* Memory is a function from byte addresses to bytes, least byte first.
ReadBytes(mem, addr, size) ==
  LET sum[k \in 0..size] ==
        IF k = 0 THEN 0 ELSE sum[k - 1] + mem[addr + k - 1] * 2^(ByteBits * (k - 1))
  IN  sum[size]

WriteBytes(mem, addr, size, value) ==
  [a \in DOMAIN mem |->
     IF a \in addr..addr + size - 1
     THEN (value \div 2^(ByteBits * (a - addr))) % 2^ByteBits
     ELSE mem[a]]

\* nextLoadValue.  LWR takes the register from the load in progress, if that
\* load is to the same register; both are only run on aligned addresses.
LoadedValue(i, r, mem) ==
  LET value == ReadBytes(mem, Address(i, r), Size(i.op))
      old   == IF r[LoadReg] = i.rt THEN r[LoadValueReg] ELSE r[i.rt]
  IN  CASE i.op = "LB" -> SignExtend(value, ByteBits)
        [] i.op = "LH" -> SignExtend(value, HalfBits)
        [] i.op = "LWR" -> (old - (old % 2^ByteBits)) + (value \div 2^(3 * ByteBits))
        [] OTHER -> value

StoredValue(i, r, mem) ==
  LET t == r[i.rt]
  IN  IF i.op = "SWR"
      THEN (ReadBytes(mem, Address(i, r), 4) % 2^(3 * ByteBits))
             + ShiftLeft(t, 3 * ByteBits)
      ELSE t

\* DelayedLoad: the load in progress reaches its register, the next one starts.
DelayedLoad(r, nextReg, nextValue) ==
  [r EXCEPT ![r[LoadReg]] = r[LoadValueReg],
            ![LoadReg] = nextReg,
            ![LoadValueReg] = nextValue,
            ![0] = 0]

\* The registers an instruction writes itself.
Written(i, r) ==
  IF i.op \in ThreeRegister THEN [r EXCEPT ![i.rd] = Result(i, r)]
  ELSE IF i.op \in Immediate THEN [r EXCEPT ![i.rt] = Result(i, r)]
  ELSE IF i.op \in HiLo
  THEN [r EXCEPT ![HiReg] = HiLoResult(i, r).hi, ![LoReg] = HiLoResult(i, r).lo]
  ELSE IF i.op \in BranchAndLink \cup {"JAL"} THEN [r EXCEPT ![R31] = ToWord(r[NextPCReg] + 4)]
  ELSE IF i.op = "JALR" THEN [r EXCEPT ![i.rd] = ToWord(r[NextPCReg] + 4)]
  ELSE r

\* The end of OneInstruction: delayed loads are done, the program counters
\* advance.
Completed(i, r, mem) ==
  LET done == IF i.op \in Load
              THEN DelayedLoad(Written(i, r), i.rt, LoadedValue(i, r, mem))
              ELSE DelayedLoad(Written(i, r), 0, 0)
  IN  [done EXCEPT ![PCReg] = r[NextPCReg], ![NextPCReg] = PcAfter(i, r)]

StoredMemory(i, r, mem) ==
  IF i.op \in Store
  THEN WriteBytes(mem, Address(i, r), Size(i.op), StoredValue(i, r, mem))
  ELSE mem
=============================================================================
