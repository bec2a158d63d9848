--------------------------- MODULE MCVirtualMemory ---------------------------
(* An instance of VirtualMemory for TLC. *)
EXTENDS VirtualMemory

CONSTANTS p1, p2

MCProcess == {p1, p2}
MCProcesses == Permutations(MCProcess)

Section(name, paddr, bytes) == [name |-> name, paddr |-> paddr, bytes |-> bytes]

\* One page of code; a program whose data begin on the page of its code and end
\* on the page where its stack begins; one of three pages, of code, of code and
\* data, and of .bss; and one that coff2noff rejects.
MCCoff ==
  {<<Section(".text", 0, <<1>>)>>,
   <<Section(".text", 0, <<1>>), Section(".rdata", 1, << >>), Section(".data", 1, <<1, 1>>)>>,
   <<Section(".text", 0, <<1, 0, 1>>), Section(".rdata", 3, <<1>>), Section(".bss", 4, <<0>>)>>,
   <<Section(".text", 0, <<1>>), Section(".sbss", 1, <<0>>), Section(".bss", 2, <<0>>)>>}

MCStore == {[place |-> 2, byte |-> 2]}
=============================================================================
