---------------------------- MODULE Disassembler ----------------------------
(***************************************************************************)
(* What is printed of an instruction: dump_ascii of bin/d.c, which the     *)
(* disassembler calls for each word of the text, and the trace that        *)
(* mipssim.cc prints with nachos -d m.  A line is the name, the registers  *)
(* and the number in it; the layout is left out.                           *)
(***************************************************************************)
EXTENDS Interpreter

Line(name, regs, number) == [name |-> name, regs |-> regs, number |-> number]

\* opstrings.c; "-" for the entries that are the number of the entry.
normalops ==
  <<"special", "bcond", "J", "JAL", "BEQ", "BNE", "BLEZ", "BGTZ",
    "ADDI", "ADDIU", "SLTI", "SLTIU", "ANDI", "ORI", "XORI", "LUI",
    "cop0", "cop1", "cop2", "cop3">> \o [n \in 1..12 |-> "-"] \o
  <<"LB", "LH", "LWL", "LW", "LBU", "LHU", "LWR", "-",
    "SB", "SH", "SWL", "SW", "-", "-", "SWR", "-",
    "lwc0", "lwc1", "lwc2", "lwc3", "-", "-", "-", "-",
    "swc0", "swc1", "swc2", "swc3", "-", "-", "-", "-">>

specialops ==
  <<"SLL", "-", "SRL", "SRA", "SLLV", "-", "SRLV", "SRAV",
    "JR", "JALR", "-", "-", "SYSCALL", "BREAK", "-", "-",
    "MFHI", "MTHI", "MFLO", "MTLO", "-", "-", "-", "-",
    "MULT", "MULTU", "DIV", "DIVU", "-", "-", "-", "-",
    "ADD", "ADDU", "SUB", "SUBU", "AND", "OR", "XOR", "NOR",
    "-", "-", "SLT", "SLTU">> \o [n \in 1..20 |-> "-"]

IsNop(word) == \A field \in DOMAIN word : word[field] = 0

\* Mutant of off16: the offset is taken from the instruction itself.
off16FromHere(word, pc) == ToWord(pc + IndexToAddr(Signed(Immed(word))))

off16(word, pc) == ToWord(pc + 4 + IndexToAddr(Signed(Immed(word))))

dump_special(word) ==
  LET op   == CaseOf(word)
      name == specialops[word.funct + 1]
  IN  CASE op \in {"SLL", "SRL", "SRA"} -> Line(name, <<word.rd, word.rt>>, word.shamt)
        [] op \in {"SLLV", "SRLV", "SRAV"} -> Line(name, <<word.rd, word.rt, word.rs>>, 0)
        [] op \in {"JR", "JALR", "MFLO", "MTLO"} -> Line(name, <<word.rs>>, 0)
        [] op \in {"MFHI", "MTHI"} -> Line(name, <<word.rd>>, 0)
        [] op \in {"MULT", "MULTU", "DIV", "DIVU"} -> Line(name, <<word.rs, word.rt>>, 0)
        [] op \in {"SYSCALL", "BREAK", "exit"} -> Line(name, << >>, 0)
        [] OTHER -> Line(name, <<word.rd, word.rs, word.rt>>, 0)

\* BLEZ and BGTZ have no case of their own and are printed without operands.
dump_normal(word, pc) ==
  LET op   == CaseOf(word)
      name == normalops[word.op + 1]
  IN  CASE op \in {"J", "JAL"} ->
             Line(name, << >>, (pc - (pc % JumpSpan)) + IndexToAddr(word.target))
        [] op \in {"BEQ", "BNE"} -> Line(name, <<word.rt, word.rs>>, off16(word, pc))
        [] op = "LUI" -> Line(name, <<word.rt>>, Immed(word))
        [] op \in (Immediate \ {"LUI"}) \cup Load \cup Store ->
             Line(name, <<word.rt, word.rs>>, Immed(word))
        [] OTHER -> Line(name, << >>, 0)

dump_ascii(word, pc) ==
  IF IsNop(word) THEN Line("NOP", << >>, 0)
  ELSE IF word.op = I_SPECIAL THEN dump_special(word)
  ELSE IF word.op = I_BCOND THEN
    Line(IF CaseOf(word) = "exit" THEN "bcond" ELSE CaseOf(word), <<word.rs>>, off16(word, pc))
  ELSE dump_normal(word, pc)

\* opStrings, and the registers TypeToReg takes from the decoded instruction.
Trace(i) ==
  LET op == i.op
      regs ==
        CASE op \in {"SLL", "SRA", "SRL"} -> <<i.rd, i.rt>>
          [] op \in {"SLLV", "SRAV", "SRLV"} -> <<i.rd, i.rt, i.rs>>
          [] op \in {"MFHI", "MFLO"} -> <<i.rd>>
          [] op \in ThreeRegister \ {"SLL", "SRA", "SRL", "SLLV", "SRAV", "SRLV", "MFHI", "MFLO"} ->
               <<i.rd, i.rs, i.rt>>
          [] op \in {"JALR", "JR"} -> <<i.rd, i.rs>>
          [] op = "LUI" -> <<i.rt>>
          [] op \in (Immediate \ {"LUI"}) \cup Load \cup Store -> <<i.rt, i.rs>>
          [] op \in {"BEQ", "BNE", "DIV", "DIVU", "MULT", "MULTU"} -> <<i.rs, i.rt>>
          [] op \in (Branch \ {"BEQ", "BNE"}) \cup {"MTHI", "MTLO"} -> <<i.rs>>
          [] OTHER -> << >>
  IN  Line(op, regs, i.extra)
=============================================================================
