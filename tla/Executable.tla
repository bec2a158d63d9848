------------------------------ MODULE Executable ------------------------------
(***************************************************************************)
(* Executables: bin/coff2noff.c makes a NOFF file of the COFF file that    *)
(* the linker leaves, and userprog/addrspace.cc loads pages from it.       *)
(*                                                                         *)
(* A COFF file is a sequence of sections, each with its name, its address  *)
(* and its bytes (the bytes of .bss are zeros that the file does not       *)
(* hold).  Places in a NOFF file are counted from the end of its header.   *)
(***************************************************************************)
EXTENDS Integers, Sequences, SequencesExt

CONSTANTS
  PageSize, UserStackSize,
  Coff            \* the object files

ASSUME ExecutableAssumption ==
  /\ PageSize \in Nat \ {0} /\ UserStackSize \in Nat \ {0}
  /\ \A c \in Coff : \A i \in DOMAIN c : c[i].paddr \in Nat

Segment(virtualAddr, inFileAddr, size) ==
  [virtualAddr |-> virtualAddr, inFileAddr |-> inFileAddr, size |-> size]

EmptyNoff ==
  [ok |-> TRUE, code |-> Segment(0, 0, 0), initData |-> Segment(0, 0, 0),
   uninitData |-> Segment(0, 0, 0), file |-> << >>]

Rejected(noff) == [noff EXCEPT !.ok = FALSE]

\* A section goes to the end of the file.
CopiedFrom(noff, section) == Segment(section.paddr, Len(noff.file), Len(section.bytes))

CopySection(noff, section) ==
  LET size == Len(section.bytes)
      bss  == noff.uninitData
  IN  CASE size = 0 -> noff
        [] size # 0 /\ section.name = ".text" ->
             [noff EXCEPT !.code = CopiedFrom(noff, section), !.file = @ \o section.bytes]
        [] size # 0 /\ section.name \in {".data", ".rdata"} ->
             IF noff.initData.size # 0 THEN Rejected(noff)
             ELSE [noff EXCEPT !.initData = CopiedFrom(noff, section),
                               !.file = @ \o section.bytes]
        [] size # 0 /\ section.name \in {".bss", ".sbss"} ->
             IF bss.size = 0 THEN [noff EXCEPT !.uninitData = Segment(section.paddr, 0, size)]
             ELSE IF section.paddr = bss.virtualAddr + bss.size THEN Rejected(noff)
             ELSE [noff EXCEPT !.uninitData.size = @ + size]
        [] OTHER -> Rejected(noff)

\* coff2noff: the sections are copied one by one until one is rejected.
Coff2Noff(coff) ==
  FoldLeft(LAMBDA noff, section : IF noff.ok THEN CopySection(noff, section) ELSE noff,
           EmptyNoff, coff)

\* AddrSpace::Initialize: "how big is address space?"
DivRoundUp(n, s) == (n \div s) + (IF n % s > 0 THEN 1 ELSE 0)

SizeInPages(noff) ==
  DivRoundUp(noff.code.size + noff.initData.size + noff.uninitData.size + UserStackSize,
             PageSize)
-----------------------------------------------------------------------------
InSegment(segment, addr) ==
  segment.virtualAddr <= addr /\ addr < segment.virtualAddr + segment.size

\* OpenFile::ReadAt of a page: beyond the end of the file the buffer, a page of
\* memory, stays as it was.
ReadPageAt(file, position, memory) ==
  [i \in 1..PageSize |-> IF position + i <= Len(file) THEN file[position + i] ELSE memory[i]]

\* demandpage, for a page that comes from the executable, into a page of memory.
LoadPage(noff, page, memory) ==
  LET addr == page * PageSize
      From(segment) ==
        ReadPageAt(noff.file, segment.inFileAddr + addr - segment.virtualAddr, memory)
  IN  IF InSegment(noff.code, addr) THEN From(noff.code)
      ELSE IF InSegment(noff.initData, addr) THEN From(noff.initData)
      ELSE [i \in 1..PageSize |-> 0]
-----------------------------------------------------------------------------
\* What the linker meant to be on a page: the bytes of the sections at their
\* addresses and zeros elsewhere.  NotSet stands for the bytes behind the last
\* byte of the file on the same page, which the loader never sets.
NotSet == -1

LinkedByte(coff, addr) ==
  LET At(i) == addr \in coff[i].paddr..coff[i].paddr + Len(coff[i].bytes) - 1
  IN  IF \E i \in DOMAIN coff : At(i)
      THEN LET i == CHOOSE j \in DOMAIN coff : At(j) IN coff[i].bytes[addr - coff[i].paddr + 1]
      ELSE 0

EndOfFile(coff) ==
  LET Ends == {coff[i].paddr + Len(coff[i].bytes) :
                 i \in {j \in DOMAIN coff : coff[j].name \notin {".bss", ".sbss"}}}
  IN  Max(Ends)

LinkedPage(coff, page) ==
  LET first == page * PageSize
  IN  [i \in 1..PageSize |->
         IF first < EndOfFile(coff) /\ first + i - 1 >= EndOfFile(coff) THEN NotSet
         ELSE LinkedByte(coff, first + i - 1)]
=============================================================================
