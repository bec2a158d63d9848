------------------------ MODULE VirtualMemoryProofs ------------------------
(***************************************************************************)
(* Proofs about demand paging, for any number of processes and frames and  *)
(* any executables: page frames are neither leaked nor shared, and the     *)
(* clock finds a page to evict.                                            *)
(***************************************************************************)
EXTENDS VirtualMemory, FiniteSetTheorems, WellFoundedInduction, TLAPS

\* Page v of p is in memory, according to states st and page tables tab.
InMemory(st, tab, p, v) ==
  st[p] = "running" /\ v \in DOMAIN tab[p] /\ tab[p][v].valid = TRUE

\* FramesAccounted, frame by frame, for states st, page tables tab and frames
\* used.
Accounted(st, tab, used) ==
  /\ used \subseteq Frame
  /\ \A p \in Process : \A v \in DOMAIN tab[p] :
       InMemory(st, tab, p, v) => tab[p][v].physicalPage \in used
  /\ \A f \in used : \E p \in Process : \E v \in DOMAIN tab[p] :
       InMemory(st, tab, p, v) /\ tab[p][v].physicalPage = f
  /\ \A p, q \in Process : \A v \in DOMAIN tab[p], w \in DOMAIN tab[q] :
       /\ InMemory(st, tab, p, v) /\ InMemory(st, tab, q, w)
       /\ tab[p][v].physicalPage = tab[q][w].physicalPage
       => p = q /\ v = w

EntryType ==
  [physicalPage : Frame \cup {-1}, valid : BOOLEAN, use : BOOLEAN, dirty : BOOLEAN]

\* A page table has its pages from 0 on.
TableOK(table) == \E n \in Nat : table \in [0..n - 1 -> EntryType]

\* The inductive invariant.
VMInv ==
  /\ DOMAIN state = Process /\ DOMAIN pageTable = Process
  /\ \A p \in Process : TableOK(pageTable[p])
  /\ Accounted(state, pageTable, allocated)
-----------------------------------------------------------------------------
\* A set of natural numbers has a least element, which Min returns.
LEMMA Smallest ==
  ASSUME NEW S, S \subseteq Nat, S # {}
  PROVE  \E x \in S : \A y \in S : x <= y
<1>1. \E R : IsWellFoundedOn(R, Nat) /\ \A x, y \in Nat : <<y, x>> \in R <=> y < x
  <2>1. \A x, y \in Nat : <<y, x>> \in OpToRel(<, Nat) <=> y < x
    BY DEF OpToRel
  <2> QED
    BY <2>1, NatLessThanWellFounded, Zenon
<1>2. PICK R : IsWellFoundedOn(R, Nat) /\ \A x, y \in Nat : <<y, x>> \in R <=> y < x
  BY <1>1, Zenon
<1>3. PICK x \in S : \A y \in S : ~(<<y, x>> \in R)
  BY <1>2, WFMin
<1>4. \A y \in S : ~(y < x)
  BY <1>2, <1>3
<1> QED
  BY <1>4

LEMMA MinOfNat ==
  ASSUME NEW S, S \subseteq Nat, S # {}
  PROVE  Min(S) \in S
BY Smallest DEF Min

LEMMA LeastOfNat ==
  ASSUME NEW S, S \subseteq Nat, NEW k \in S
  PROVE  Min(S) \in S /\ Min(S) <= k
BY Smallest DEF Min

\* AllocPage returns a free frame, or -1 when all are taken.
LEMMA AllocPageFree ==
  ASSUME NEW used, used \subseteq Frame
  PROVE  /\ AllocPage(used) >= 0 => AllocPage(used) \in Frame \ used
         /\ used # Frame => AllocPage(used) >= 0
<1>1. CASE used = Frame
  BY <1>1 DEF AllocPage
<1>2. CASE used # Frame
  <2>1. Frame \ used \subseteq Nat /\ Frame \ used # {}
    <3>1. Frame \subseteq Nat
      BY VirtualMemoryAssumption DEF Frame
    <3>2. \E f \in Frame : f \notin used
      BY <1>2
    <3> QED
      BY <3>1, <3>2
  <2>2. AllocPage(used) \in Frame \ used
    BY <1>2, <2>1, MinOfNat DEF AllocPage
  <2>3. AllocPage(used) \in Nat
    BY <2>1, <2>2
  <2> QED
    BY <2>2, <2>3
<1> QED
  BY <1>1, <1>2
-----------------------------------------------------------------------------
\* What is in memory does not change.
Same(st, tab, st2, tab2) ==
  \A p \in Process : \A v :
    /\ InMemory(st2, tab2, p, v) <=> InMemory(st, tab, p, v)
    /\ InMemory(st, tab, p, v) => tab2[p][v].physicalPage = tab[p][v].physicalPage

LEMMA SameFrames ==
  ASSUME NEW st, NEW tab, NEW used, Accounted(st, tab, used), NEW st2, NEW tab2,
         Same(st, tab, st2, tab2)
  PROVE  Accounted(st2, tab2, used)
<1>1. \A p \in Process : \A v : InMemory(st, tab, p, v) => v \in DOMAIN tab2[p] /\ v \in DOMAIN tab[p]
  BY DEF InMemory, Same
<1>2. \A p \in Process : \A v \in DOMAIN tab2[p] :
        InMemory(st2, tab2, p, v) => tab2[p][v].physicalPage \in used
  BY <1>1 DEF Accounted, Same
<1>3. \A f \in used : \E p \in Process : \E v \in DOMAIN tab2[p] :
        InMemory(st2, tab2, p, v) /\ tab2[p][v].physicalPage = f
  BY <1>1 DEF Accounted, Same
<1>4. \A p, q \in Process : \A v \in DOMAIN tab2[p], w \in DOMAIN tab2[q] :
       /\ InMemory(st2, tab2, p, v) /\ InMemory(st2, tab2, q, w)
       /\ tab2[p][v].physicalPage = tab2[q][w].physicalPage
       => p = q /\ v = w
  BY <1>1 DEF Accounted, Same
<1> QED
  BY <1>2, <1>3, <1>4 DEF Accounted

\* One page more is in memory, in a frame that was free.
Added(st, tab, tab2, p, v) ==
  /\ ~InMemory(st, tab, p, v) /\ InMemory(st, tab2, p, v)
  /\ \A q \in Process : \A w :
       q # p \/ w # v =>
         /\ InMemory(st, tab2, q, w) <=> InMemory(st, tab, q, w)
         /\ InMemory(st, tab, q, w) => tab2[q][w].physicalPage = tab[q][w].physicalPage

LEMMA OneMore ==
  ASSUME NEW st, NEW tab, NEW used, Accounted(st, tab, used), NEW tab2,
         NEW p \in Process, NEW v, Added(st, tab, tab2, p, v),
         tab2[p][v].physicalPage \in Frame \ used
  PROVE  Accounted(st, tab2, used \cup {tab2[p][v].physicalPage})
<1>1. \A q \in Process : \A w :
        /\ InMemory(st, tab, q, w) =>
             /\ w \in DOMAIN tab[q] /\ InMemory(st, tab2, q, w)
             /\ tab2[q][w].physicalPage = tab[q][w].physicalPage
        /\ InMemory(st, tab2, q, w) => w \in DOMAIN tab2[q]
  BY DEF InMemory, Added
<1>2. \A q \in Process : \A w : InMemory(st, tab2, q, w) /\ (q # p \/ w # v) =>
        /\ InMemory(st, tab, q, w) /\ tab2[q][w].physicalPage \in used
  BY <1>1 DEF Accounted, Added
<1>3. \A q \in Process : \A w \in DOMAIN tab2[q] : InMemory(st, tab2, q, w) =>
        tab2[q][w].physicalPage \in used \cup {tab2[p][v].physicalPage}
  BY <1>2
<1>4. \A f \in used \cup {tab2[p][v].physicalPage} :
        \E q \in Process : \E w \in DOMAIN tab2[q] :
          InMemory(st, tab2, q, w) /\ tab2[q][w].physicalPage = f
  <2>1. ASSUME NEW f \in used
        PROVE  \E q \in Process : \E w \in DOMAIN tab2[q] :
                 InMemory(st, tab2, q, w) /\ tab2[q][w].physicalPage = f
    BY <1>1, <2>1 DEF Accounted
  <2> QED
    BY <1>1, <2>1 DEF Added
<1>5. \A q, r \in Process : \A w \in DOMAIN tab2[q], x \in DOMAIN tab2[r] :
        /\ InMemory(st, tab2, q, w) /\ InMemory(st, tab2, r, x)
        /\ tab2[q][w].physicalPage = tab2[r][x].physicalPage
        => q = r /\ w = x
  <2>1. SUFFICES ASSUME NEW q \in Process, NEW r \in Process, NEW w, NEW x,
                        InMemory(st, tab2, q, w), InMemory(st, tab2, r, x),
                        tab2[q][w].physicalPage = tab2[r][x].physicalPage
                 PROVE  q = r /\ w = x
    OBVIOUS
  <2>2. CASE (q = p /\ w = v) \/ (r = p /\ x = v)
    BY <1>2, <2>1, <2>2
  <2>3. CASE ~(q = p /\ w = v) /\ ~(r = p /\ x = v)
    BY <1>1, <1>2, <2>1, <2>3 DEF Accounted
  <2> QED
    BY <2>2, <2>3
<1>6. used \cup {tab2[p][v].physicalPage} \subseteq Frame
  BY DEF Accounted
<1> QED
  BY <1>3, <1>4, <1>5, <1>6 DEF Accounted

\* Pages are in memory no more, and their frames are free.
Freed(st, tab, st2, tab2, free) ==
  /\ \A q \in Process : \A w :
       /\ InMemory(st2, tab2, q, w) =>
            InMemory(st, tab, q, w) /\ tab2[q][w].physicalPage = tab[q][w].physicalPage
       /\ InMemory(st, tab, q, w) /\ ~InMemory(st2, tab2, q, w) =>
            tab[q][w].physicalPage \in free
  /\ \A f \in free : \E q \in Process : \E w :
       /\ InMemory(st, tab, q, w) /\ ~InMemory(st2, tab2, q, w)
       /\ tab[q][w].physicalPage = f

LEMMA SomeLess ==
  ASSUME NEW st, NEW tab, NEW used, Accounted(st, tab, used), NEW st2, NEW tab2, NEW free,
         Freed(st, tab, st2, tab2, free)
  PROVE  Accounted(st2, tab2, used \ free)
<1>1. \A q \in Process : \A w :
        /\ InMemory(st2, tab2, q, w) => w \in DOMAIN tab2[q]
        /\ InMemory(st, tab, q, w) => w \in DOMAIN tab[q]
  BY DEF InMemory
<1>2. \A q \in Process : \A w : InMemory(st2, tab2, q, w) =>
        tab2[q][w].physicalPage \in used \ free
  <2>1. SUFFICES ASSUME NEW q \in Process, NEW w, InMemory(st2, tab2, q, w)
                 PROVE  tab2[q][w].physicalPage \in used \ free
    OBVIOUS
  <2>2. /\ InMemory(st, tab, q, w) /\ w \in DOMAIN tab[q]
        /\ tab2[q][w].physicalPage = tab[q][w].physicalPage
    BY <1>1, <2>1 DEF Freed
  <2>3. tab[q][w].physicalPage \in used
    BY <2>2 DEF Accounted
  <2>4. ASSUME tab[q][w].physicalPage \in free PROVE FALSE
    <3>1. PICK r \in Process : \E x :
            /\ InMemory(st, tab, r, x) /\ ~InMemory(st2, tab2, r, x)
            /\ tab[r][x].physicalPage = tab[q][w].physicalPage
      BY <2>4 DEF Freed
    <3>2. PICK x : /\ InMemory(st, tab, r, x) /\ ~InMemory(st2, tab2, r, x)
                   /\ tab[r][x].physicalPage = tab[q][w].physicalPage
      BY <3>1
    <3>3. r = q /\ x = w
      BY <1>1, <2>2, <3>2 DEF Accounted
    <3> QED
      BY <2>1, <3>2, <3>3
  <2> QED
    BY <2>2, <2>3, <2>4
<1>3. \A f \in used \ free : \E q \in Process : \E w \in DOMAIN tab2[q] :
        InMemory(st2, tab2, q, w) /\ tab2[q][w].physicalPage = f
  <2>1. SUFFICES ASSUME NEW f \in used \ free
                 PROVE  \E q \in Process : \E w \in DOMAIN tab2[q] :
                          InMemory(st2, tab2, q, w) /\ tab2[q][w].physicalPage = f
    OBVIOUS
  <2>2. PICK q \in Process : \E w \in DOMAIN tab[q] :
          InMemory(st, tab, q, w) /\ tab[q][w].physicalPage = f
    BY <2>1 DEF Accounted
  <2>3. PICK w \in DOMAIN tab[q] :
          InMemory(st, tab, q, w) /\ tab[q][w].physicalPage = f
    BY <2>2
  <2>4. InMemory(st2, tab2, q, w)
    BY <2>1, <2>3 DEF Freed
  <2> QED
    BY <1>1, <2>3, <2>4 DEF Freed
<1>4. \A q, r \in Process : \A w \in DOMAIN tab2[q], x \in DOMAIN tab2[r] :
        /\ InMemory(st2, tab2, q, w) /\ InMemory(st2, tab2, r, x)
        /\ tab2[q][w].physicalPage = tab2[r][x].physicalPage
        => q = r /\ w = x
  BY <1>1 DEF Accounted, Freed
<1>5. used \ free \subseteq Frame
  BY DEF Accounted
<1> QED
  BY <1>2, <1>3, <1>4, <1>5 DEF Accounted
-----------------------------------------------------------------------------
\* The size of a page table.
LEMMA TableSize ==
  ASSUME VMInv, NEW p \in Process, Page(p) # {}
  PROVE  /\ NumPages(p) \in Nat /\ NumPages(p) > 0
         /\ Page(p) = 0..NumPages(p) - 1
         /\ pageTable[p] \in [Page(p) -> EntryType]
<1>1. PICK n \in Nat : pageTable[p] \in [0..n - 1 -> EntryType]
  BY DEF VMInv, TableOK
<1>2. Page(p) = 0..n - 1
  BY <1>1 DEF Page
<1>3. n > 0
  BY <1>2
<1>4. Cardinality(0..n - 1) = n
  BY <1>3, FS_Interval
<1>5. NumPages(p) = n
  BY <1>2, <1>4 DEF NumPages, Page
<1> QED
  BY <1>1, <1>2, <1>3, <1>5

\* The remainder of x after n, up to twice around.
LEMMA Remainder ==
  ASSUME NEW n \in Nat, n > 0, NEW x \in Nat
  PROVE  x % n \in 0..n - 1
OBVIOUS

LEMMA TwiceAround ==
  ASSUME NEW n \in Nat, n > 0, NEW v \in 0..n - 1
  PROVE  (v + n) % n = v /\ (v + 2 * n) % n = v
OBVIOUS

\* The clock is on a page of the process from its first move in the table on.
LEMMA HandIn ==
  ASSUME VMInv, NEW p \in Process, Page(p) # {}, NEW hand \in Hands(p), NEW k \in Nat
  PROVE  HandAfter(p, hand, k) \in Page(p)
<1>1. hand \in Page(p)
  BY DEF Hands
<1>2. hand + k \in Nat
  BY <1>1, TableSize
<1> QED
  BY <1>2, TableSize, Remainder DEF HandAfter

\* ClearPage: a page of the process is gone from memory, its frame is free, and
\* the hand is at it.
LEMMA EvictKeeps ==
  ASSUME VMInv, NEW p \in Process, state[p] = "running", Page(p) # {},
         NEW hand \in Hands(p), Moves(p, hand) # {}
  PROVE  /\ Evict(p, hand).table \in [Page(p) -> EntryType]
         /\ AllocPage(Evict(p, hand).used) >= 0
         /\ Accounted(state, [pageTable EXCEPT ![p] = Evict(p, hand).table], Evict(p, hand).used)
         /\ \A v \in Page(p) : pageTable[p][v].valid = FALSE => Evict(p, hand).table[v].valid = FALSE
<1> DEFINE k == Min(Moves(p, hand))
           victim == HandAfter(p, hand, k)
           entry == pageTable[p][victim]
           passed == Passed(p, hand, k)
           table == [v \in Page(p) |->
                       IF v = victim
                       THEN [entry EXCEPT !.valid = FALSE, !.use = @ /\ v \notin passed]
                       ELSE [pageTable[p][v] EXCEPT !.use = @ /\ v \notin passed]]
<1>1. k \in Moves(p, hand) /\ k \in Nat
  <2>1. Moves(p, hand) \subseteq Nat
    BY TableSize DEF Moves
  <2> QED
    BY <2>1, MinOfNat
<1>2. victim \in Page(p)
  BY <1>1, HandIn
<1>3. Evictable(p, hand, k)
  BY <1>1 DEF Moves
<1>4. entry.valid /\ entry \in EntryType
  BY <1>2, <1>3, TableSize DEF Evictable
<1>5. /\ Evict(p, hand).table = table
      /\ Evict(p, hand).used = allocated \ {entry.physicalPage}
  BY DEF Evict, Victim
<1> HIDE DEF k, victim, passed
<1>6. pageTable[p] \in [Page(p) -> EntryType]
  BY TableSize
<1>7. ASSUME NEW v \in Page(p)
      PROVE  /\ table[v] \in EntryType
             /\ table[v].physicalPage = pageTable[p][v].physicalPage
             /\ v = victim => table[v].valid = FALSE
             /\ v # victim => table[v].valid = pageTable[p][v].valid
  BY <1>4, <1>6, <1>7 DEF EntryType
<1>8. table \in [Page(p) -> EntryType]
  BY <1>7
<1> HIDE DEF table
<1>9. DOMAIN table = Page(p)
  BY <1>8
<1> DEFINE tab2 == [pageTable EXCEPT ![p] = table]
<1>10. /\ tab2[p] = table
       /\ \A q \in Process \ {p} : tab2[q] = pageTable[q]
  BY DEF VMInv
<1>11. InMemory(state, pageTable, p, victim)
  BY <1>2, <1>4 DEF InMemory, Page, EntryType
<1>12. ASSUME NEW q \in Process, NEW w
       PROVE  /\ InMemory(state, tab2, q, w) <=>
                   InMemory(state, pageTable, q, w) /\ ~(q = p /\ w = victim)
              /\ InMemory(state, tab2, q, w) =>
                   tab2[q][w].physicalPage = pageTable[q][w].physicalPage
  <2>1. CASE q # p
    BY <1>10, <2>1 DEF InMemory
  <2>2. CASE q = p /\ w \in Page(p)
    BY <1>7, <1>9, <1>10, <2>2 DEF InMemory, Page
  <2>3. CASE q = p /\ w \notin Page(p)
    BY <1>9, <1>10, <2>3 DEF InMemory, Page
  <2> QED
    BY <2>1, <2>2, <2>3
<1>13. Accounted(state, pageTable, allocated)
  BY DEF VMInv
<1> HIDE DEF tab2
<1>14. \A f \in {entry.physicalPage} : \E q \in Process : \E w :
         /\ InMemory(state, pageTable, q, w) /\ ~InMemory(state, tab2, q, w)
         /\ pageTable[q][w].physicalPage = f
  BY <1>11, <1>12
<1>15. Accounted(state, tab2, allocated \ {entry.physicalPage})
  <2>1. Freed(state, pageTable, state, tab2, {entry.physicalPage})
    BY <1>12, <1>14 DEF Freed
  <2> QED
    BY <1>13, <2>1, SomeLess
<1>16. entry.physicalPage \in Frame /\ allocated \subseteq Frame
  BY <1>11, <1>13 DEF Accounted, InMemory
<1>17. AllocPage(allocated \ {entry.physicalPage}) >= 0
  <2>1. allocated \ {entry.physicalPage} # Frame /\ allocated \ {entry.physicalPage} \subseteq Frame
    BY <1>16
  <2> QED
    BY <2>1, AllocPageFree
<1> QED
  BY <1>2, <1>5, <1>7, <1>8, <1>15, <1>17 DEF tab2

\* The end of demandpage: the page gets a frame that is free.
LEMMA LoadKeeps ==
  ASSUME VMInv, NEW p \in Process, NEW v \in Page(p), NEW e, state[p] = "running",
         state' = state, e.table \in [Page(p) -> EntryType],
         AllocPage(e.used) >= 0, e.table[v].valid = FALSE,
         Accounted(state, [pageTable EXCEPT ![p] = e.table], e.used),
         Load(p, v, e)
  PROVE  VMInv'
<1> DEFINE frame == AllocPage(e.used)
           tab1 == [pageTable EXCEPT ![p] = e.table]
<1>1. PICK d \in BOOLEAN :
        /\ pageTable' = [pageTable EXCEPT ![p] =
                           [e.table EXCEPT ![v] = Entry(frame, TRUE, @.use, d)]]
        /\ allocated' = e.used \cup {frame}
  BY DEF Load
<1>2. frame \in Frame \ e.used
  BY AllocPageFree DEF Accounted
<1> HIDE DEF frame
<1>3. Entry(frame, TRUE, e.table[v].use, d) \in EntryType
  BY <1>2 DEF Entry, EntryType
<1>4. /\ pageTable'[p] \in [Page(p) -> EntryType]
      /\ pageTable'[p][v] = Entry(frame, TRUE, e.table[v].use, d)
      /\ \A w \in Page(p) \ {v} : pageTable'[p][w] = e.table[w]
      /\ \A q \in Process \ {p} : pageTable'[q] = pageTable[q]
      /\ DOMAIN pageTable' = Process
  BY <1>1, <1>3 DEF VMInv
<1>5. /\ tab1[p] = e.table
      /\ \A q \in Process \ {p} : tab1[q] = pageTable[q]
  BY DEF VMInv
<1> HIDE DEF tab1
<1>6. pageTable'[p][v].valid = TRUE /\ pageTable'[p][v].physicalPage = frame
  BY <1>4 DEF Entry
<1>7. Added(state, tab1, pageTable', p, v)
  <2>1. ~InMemory(state, tab1, p, v) /\ InMemory(state, pageTable', p, v)
    BY <1>4, <1>5, <1>6 DEF InMemory
  <2>2. ASSUME NEW q \in Process, NEW w, q # p \/ w # v
        PROVE  /\ InMemory(state, pageTable', q, w) <=> InMemory(state, tab1, q, w)
               /\ InMemory(state, tab1, q, w) =>
                    pageTable'[q][w].physicalPage = tab1[q][w].physicalPage
    <3>1. CASE q # p
      BY <1>4, <1>5, <3>1 DEF InMemory
    <3>2. CASE q = p /\ w # v
      BY <1>4, <1>5, <3>2 DEF InMemory
    <3> QED
      BY <2>2, <3>1, <3>2
  <2> QED
    BY <2>1, <2>2 DEF Added
<1>8. Accounted(state, pageTable', e.used \cup {frame})
  <2>1. Accounted(state, tab1, e.used)
    BY DEF tab1
  <2> QED
    BY <1>2, <1>6, <1>7, <2>1, OneMore
<1>9. ASSUME NEW q \in Process PROVE TableOK(pageTable'[q])
  <2>1. CASE q = p
    <3>1. NumPages(p) \in Nat /\ Page(p) = 0..NumPages(p) - 1
      BY TableSize
    <3> QED
      BY <1>4, <2>1, <3>1 DEF TableOK
  <2>2. CASE q # p
    BY <1>1, <1>4, <2>2 DEF VMInv, TableOK
  <2> QED
    BY <2>1, <2>2
<1> QED
  BY <1>1, <1>4, <1>8, <1>9 DEF VMInv

LEMMA PageFaultKeeps ==
  ASSUME VMInv, NEW p \in Process, NEW v \in Page(p), PageFault(p, v)
  PROVE  VMInv'
<1>1. state[p] = "running" /\ state' = state /\ pageTable[p][v].valid = FALSE
  <2>1. pageTable[p][v].valid \in BOOLEAN
    BY TableSize DEF EntryType
  <2> QED
    BY <2>1 DEF PageFault
<1>2. CASE AllocPage(allocated) >= 0 /\ Load(p, v, NoEviction(p))
  <2>1. /\ NoEviction(p).table = pageTable[p] /\ NoEviction(p).used = allocated
    BY DEF NoEviction
  <2>2. Same(state, pageTable, state, [pageTable EXCEPT ![p] = pageTable[p]])
    BY DEF Same, InMemory, VMInv
  <2>3. Accounted(state, [pageTable EXCEPT ![p] = NoEviction(p).table], NoEviction(p).used)
    BY <2>1, <2>2, SameFrames DEF VMInv
  <2>4. NoEviction(p).table \in [Page(p) -> EntryType]
    BY <2>1, TableSize
  <2> QED
    BY <1>1, <1>2, <2>1, <2>3, <2>4, LoadKeeps
<1>3. ASSUME NEW hand \in Hands(p), Moves(p, hand) # {}, Load(p, v, Evict(p, hand)) PROVE VMInv'
  <2>1. /\ Evict(p, hand).table \in [Page(p) -> EntryType]
        /\ AllocPage(Evict(p, hand).used) >= 0 /\ Evict(p, hand).table[v].valid = FALSE
    BY <1>1, <1>3, EvictKeeps
  <2>2. Accounted(state, [pageTable EXCEPT ![p] = Evict(p, hand).table], Evict(p, hand).used)
    BY <1>1, <1>3, EvictKeeps
  <2> QED
    BY <1>1, <1>3, <2>1, <2>2, LoadKeeps
<1> QED
  BY <1>2, <1>3 DEF PageFault

\* Translate changes the use and dirty bits only.
LEMMA ReferenceKeeps ==
  ASSUME VMInv, NEW p \in Process, NEW v \in Page(p), NEW entry \in EntryType,
         entry.valid = pageTable[p][v].valid,
         entry.physicalPage = pageTable[p][v].physicalPage,
         pageTable' = [pageTable EXCEPT ![p][v] = entry],
         UNCHANGED <<state, allocated>>
  PROVE  VMInv'
<1>1. pageTable[p] \in [Page(p) -> EntryType]
  BY TableSize
<1>2. /\ pageTable'[p] \in [Page(p) -> EntryType]
      /\ \A w \in Page(p) : /\ pageTable'[p][w].valid = pageTable[p][w].valid
                             /\ pageTable'[p][w].physicalPage = pageTable[p][w].physicalPage
      /\ \A q \in Process \ {p} : pageTable'[q] = pageTable[q]
      /\ DOMAIN pageTable' = Process
  BY <1>1 DEF VMInv
<1>3. Same(state, pageTable, state, pageTable')
  <2>1. ASSUME NEW q \in Process, NEW w
        PROVE  /\ InMemory(state, pageTable', q, w) <=> InMemory(state, pageTable, q, w)
               /\ InMemory(state, pageTable, q, w) =>
                    pageTable'[q][w].physicalPage = pageTable[q][w].physicalPage
    <3>1. CASE q # p
      BY <1>2, <3>1 DEF InMemory
    <3>2. CASE q = p
      BY <1>1, <1>2, <3>2 DEF InMemory
    <3> QED
      BY <3>1, <3>2
  <2> QED
    BY <2>1 DEF Same
<1>4. Accounted(state, pageTable', allocated)
  BY <1>3, SameFrames DEF VMInv
<1>5. ASSUME NEW q \in Process PROVE TableOK(pageTable'[q])
  <2>1. CASE q = p
    <3>1. NumPages(p) \in Nat /\ Page(p) = 0..NumPages(p) - 1
      BY TableSize
    <3> QED
      BY <1>2, <2>1, <3>1 DEF TableOK
  <2>2. CASE q # p
    BY <1>2, <2>2 DEF VMInv
  <2> QED
    BY <2>1, <2>2
<1> QED
  BY <1>2, <1>4, <1>5 DEF VMInv

LEMMA ReadWriteKeeps ==
  ASSUME VMInv, NEW p \in Process, NEW v \in Page(p),
         Read(p, v) \/ \E s \in Store : Write(p, v, s)
  PROVE  VMInv'
<1>1. pageTable[p] \in [Page(p) -> EntryType] /\ DOMAIN pageTable = Process
  BY TableSize DEF VMInv
<1>2. CASE Read(p, v)
  <2> DEFINE entry == [pageTable[p][v] EXCEPT !.use = TRUE]
  <2>1. pageTable' = [pageTable EXCEPT ![p][v] = entry] /\ UNCHANGED <<state, allocated>>
    BY <1>1, <1>2 DEF Read
  <2>2. /\ entry \in EntryType /\ entry.valid = pageTable[p][v].valid
        /\ entry.physicalPage = pageTable[p][v].physicalPage
    BY <1>1 DEF EntryType
  <2> QED
    BY <2>1, <2>2, ReferenceKeeps
<1>3. CASE \E s \in Store : Write(p, v, s)
  <2> DEFINE entry == [pageTable[p][v] EXCEPT !.use = TRUE, !.dirty = TRUE]
  <2>1. pageTable' = [pageTable EXCEPT ![p][v] = entry] /\ UNCHANGED <<state, allocated>>
    BY <1>1, <1>3 DEF Write
  <2>2. /\ entry \in EntryType /\ entry.valid = pageTable[p][v].valid
        /\ entry.physicalPage = pageTable[p][v].physicalPage
    BY <1>1 DEF EntryType
  <2> QED
    BY <2>1, <2>2, ReferenceKeeps
<1> QED
  BY <1>2, <1>3

\* A process begins with nothing in memory.
LEMMA ExecKeeps ==
  ASSUME VMInv, NEW p \in Process, NEW c \in Coff, Exec(p, c)
  PROVE  VMInv'
<1> DEFINE size == SizeInPages(Coff2Noff(c))
<1>1. size \in Nat
  BY VirtualMemoryAssumption
<1>2. /\ state[p] = "none" /\ state' = [state EXCEPT ![p] = "running"]
      /\ pageTable' = [pageTable EXCEPT ![p] = EmptyTable(size)]
      /\ allocated' = allocated
  BY DEF Exec
<1> HIDE DEF size
<1>3. EmptyTable(size) \in [0..size - 1 -> EntryType]
  BY DEF EmptyTable, Entry, EntryType
<1>4. \A v \in 0..size - 1 : EmptyTable(size)[v].valid = FALSE
  BY DEF EmptyTable, Entry
<1>5. /\ pageTable'[p] = EmptyTable(size)
      /\ \A q \in Process \ {p} : /\ state'[q] = state[q] /\ pageTable'[q] = pageTable[q]
      /\ DOMAIN state' = Process /\ DOMAIN pageTable' = Process
  BY <1>2 DEF VMInv
<1>6. ASSUME NEW q \in Process, NEW v
      PROVE  /\ InMemory(state', pageTable', q, v) <=> InMemory(state, pageTable, q, v)
             /\ InMemory(state, pageTable, q, v) =>
                  pageTable'[q][v].physicalPage = pageTable[q][v].physicalPage
  <2>1. CASE q # p
    BY <1>5, <2>1 DEF InMemory
  <2>2. CASE q = p
    BY <1>2, <1>3, <1>4, <1>5, <2>2 DEF InMemory
  <2> QED
    BY <2>1, <2>2
<1>7. Accounted(state', pageTable', allocated)
  <2>1. Same(state, pageTable, state', pageTable')
    BY <1>6 DEF Same
  <2> QED
    BY <2>1, SameFrames DEF VMInv
<1>8. ASSUME NEW q \in Process PROVE TableOK(pageTable'[q])
  <2>1. CASE q = p
    BY <1>1, <1>3, <1>5, <2>1 DEF TableOK
  <2>2. CASE q # p
    BY <1>5, <2>2 DEF VMInv
  <2> QED
    BY <2>1, <2>2
<1> QED
  BY <1>2, <1>5, <1>7, <1>8 DEF VMInv

\* ClearState frees the frames of the process.
LEMMA ExitKeeps ==
  ASSUME VMInv, NEW p \in Process, Exit(p)
  PROVE  VMInv'
<1>1. /\ state[p] = "running" /\ state' = [state EXCEPT ![p] = "exited"]
      /\ allocated' = allocated \ ClearState(p)
      /\ UNCHANGED pageTable
  BY DEF Exit
<1>2. state'[p] = "exited" /\ (\A q \in Process \ {p} : state'[q] = state[q])
      /\ DOMAIN state' = Process
  BY <1>1 DEF VMInv
<1>3. \A q \in Process : \A v :
        InMemory(state', pageTable, q, v) <=> InMemory(state, pageTable, q, v) /\ q # p
  BY <1>2 DEF InMemory
<1>4. \A v : InMemory(state, pageTable, p, v) => pageTable[p][v].physicalPage >= 0
  <2>1. \A v : InMemory(state, pageTable, p, v) => pageTable[p][v].physicalPage \in Frame
    BY DEF VMInv, Accounted, InMemory
  <2> QED
    BY <2>1 DEF Frame
<1>5. \A v : InMemory(state, pageTable, p, v) => pageTable[p][v].physicalPage \in ClearState(p)
  BY <1>4 DEF ClearState, InMemory, Page
<1>6. \A f \in ClearState(p) : \E v :
        InMemory(state, pageTable, p, v) /\ pageTable[p][v].physicalPage = f
  <2>1. \A v \in Page(p) : pageTable[p][v].valid \in BOOLEAN
    BY TableSize DEF EntryType
  <2> QED
    BY <1>1, <2>1 DEF ClearState, InMemory, Page
<1>7. Freed(state, pageTable, state', pageTable, ClearState(p))
  BY <1>3, <1>5, <1>6 DEF Freed
<1>8. Accounted(state', pageTable, allocated \ ClearState(p))
  BY <1>7, SomeLess DEF VMInv
<1> QED
  BY <1>1, <1>2, <1>8 DEF VMInv

LEMMA DeleteKeeps ==
  ASSUME VMInv, NEW p \in Process, Delete(p)
  PROVE  VMInv'
<1>1. /\ state[p] = "exited" /\ state' = [state EXCEPT ![p] = "deleted"]
      /\ pageTable' = [pageTable EXCEPT ![p] = EmptyTable(0)]
      /\ allocated' = allocated
  BY DEF Delete
<1>2. /\ state'[p] = "deleted" /\ pageTable'[p] = EmptyTable(0)
      /\ \A q \in Process \ {p} : /\ state'[q] = state[q] /\ pageTable'[q] = pageTable[q]
      /\ DOMAIN state' = Process /\ DOMAIN pageTable' = Process
  BY <1>1 DEF VMInv
<1>3. EmptyTable(0) \in [0..0 - 1 -> EntryType]
  BY DEF EmptyTable
<1>4. Same(state, pageTable, state', pageTable')
  <2>1. ASSUME NEW q \in Process, NEW v
        PROVE  /\ InMemory(state', pageTable', q, v) <=> InMemory(state, pageTable, q, v)
               /\ InMemory(state, pageTable, q, v) =>
                    pageTable'[q][v].physicalPage = pageTable[q][v].physicalPage
    <3>1. CASE q # p
      BY <1>2, <3>1 DEF InMemory
    <3>2. CASE q = p
      BY <1>1, <1>2, <3>2 DEF InMemory
    <3> QED
      BY <3>1, <3>2
  <2> QED
    BY <2>1 DEF Same
<1>5. Accounted(state', pageTable', allocated)
  BY <1>4, SameFrames DEF VMInv
<1>6. ASSUME NEW q \in Process PROVE TableOK(pageTable'[q])
  <2>1. CASE q = p
    BY <1>2, <1>3, <2>1 DEF TableOK
  <2>2. CASE q # p
    BY <1>2, <2>2 DEF VMInv
  <2> QED
    BY <2>1, <2>2
<1> QED
  BY <1>1, <1>2, <1>5, <1>6 DEF VMInv

LEMMA VMInitially == VMInit => VMInv
<1>1. SUFFICES ASSUME VMInit PROVE VMInv
  OBVIOUS
<1>2. EmptyTable(0) \in [0..0 - 1 -> EntryType]
  BY DEF EmptyTable
<1>3. \A p \in Process : TableOK(pageTable[p])
  <2>1. TableOK(EmptyTable(0))
    BY <1>2 DEF TableOK
  <2> QED
    BY <1>1, <2>1 DEF VMInit
<1>4. \A p \in Process : \A v : ~InMemory(state, pageTable, p, v)
  BY <1>1 DEF VMInit, InMemory
<1>5. Accounted(state, pageTable, allocated)
  BY <1>1, <1>4 DEF VMInit, Accounted
<1> QED
  BY <1>1, <1>3, <1>5 DEF VMInv, VMInit

LEMMA VMStepKeeps == VMInv /\ [VMNext]_vmVars => VMInv'
<1> SUFFICES ASSUME VMInv, [VMNext]_vmVars PROVE VMInv'
  OBVIOUS
<1>1. CASE UNCHANGED <<state, pageTable, allocated>>
  BY <1>1 DEF VMInv
<1>2. ASSUME NEW p \in Process, NEW c \in Coff, Exec(p, c) PROVE VMInv'
  BY <1>2, ExecKeeps
<1>3. ASSUME NEW p \in Process, Exit(p) \/ Delete(p) PROVE VMInv'
  BY <1>3, ExitKeeps, DeleteKeeps
<1>4. ASSUME NEW p \in Process, NEW v \in Page(p),
             Read(p, v) \/ \E s \in Store : Write(p, v, s)
      PROVE  VMInv'
  BY <1>4, ReadWriteKeeps
<1>5. ASSUME NEW p \in Process, NEW v \in Page(p), PageFault(p, v) PROVE VMInv'
  BY <1>5, PageFaultKeeps
<1>6. ASSUME NEW p \in Process, NEW v \in Page(p), PageFaultHangs(p, v) PROVE VMInv'
  BY <1>1, <1>6 DEF PageFaultHangs
<1> QED
  BY <1>1, <1>2, <1>3, <1>4, <1>5, <1>6 DEF VMNext, VMStep, vmVars

LEMMA VMInvariant == VMSpec => []VMInv
BY VMInitially, VMStepKeeps, PTL DEF VMSpec
-----------------------------------------------------------------------------
\* The frames that MemoryManager holds as allocated are those of the pages in
\* memory, one each: for any number of processes and frames, and any executables.
THEOREM FramesAccountedAlways == VMSpec => []FramesAccounted
<1>1. ASSUME VMInv PROVE FramesAccounted
  <2> DEFINE running == {p \in Process : state[p] = "running"}
  <2>1. \A p \in running : \A v : v \in Resident(p) <=> InMemory(state, pageTable, p, v)
    <3>1. \A p \in Process : \A v \in Page(p) : pageTable[p][v].valid \in BOOLEAN
      BY <1>1, TableSize DEF EntryType
    <3> QED
      BY <3>1 DEF Resident, InMemory, Page
  <2>2. \A p \in running : \A v \in Resident(p) : v \in DOMAIN pageTable[p]
    BY DEF Resident, Page
  <2>3. Accounted(state, pageTable, allocated)
    BY <1>1 DEF VMInv
  <2>4. ASSUME NEW f \in allocated PROVE f \in UNION {FramesOf(p) : p \in running}
    <3>1. PICK p \in Process : \E v \in DOMAIN pageTable[p] :
            InMemory(state, pageTable, p, v) /\ pageTable[p][v].physicalPage = f
      BY <2>3 DEF Accounted
    <3>2. p \in running
      BY <3>1 DEF InMemory
    <3>3. f \in FramesOf(p)
      BY <2>1, <3>1, <3>2 DEF FramesOf
    <3> QED
      BY <3>2, <3>3
  <2>5. ASSUME NEW p \in running, NEW f \in FramesOf(p) PROVE f \in allocated
    BY <2>1, <2>2, <2>3 DEF FramesOf, Accounted
  <2>6. allocated = UNION {FramesOf(p) : p \in running}
    BY <2>4, <2>5
  <2>7. \A p, q \in running : \A v \in Resident(p), w \in Resident(q) :
          pageTable[p][v].physicalPage = pageTable[q][w].physicalPage => p = q /\ v = w
    BY <2>1, <2>2, <2>3 DEF Accounted
  <2> QED
    BY <2>6, <2>7 DEF FramesAccounted
<1> QED
  BY <1>1, VMInvariant, PTL

\* Less than one round apart, the hand is at different pages.
LEMMA OneRound ==
  ASSUME NEW n \in Nat, n > 0, NEW h \in 0..n - 1, NEW i \in 0..n - 1
  PROVE  /\ (h + i) % n = IF h + i < n THEN h + i ELSE h + i - n
         /\ h % n = h
OBVIOUS

LEMMA Distinct ==
  ASSUME NEW n \in Nat, n > 0, NEW h \in 0..n - 1, NEW i \in 0..n - 1, NEW j \in 0..i - 1
  PROVE  (h + i) % n # (h + j) % n
<1>1. j \in 0..n - 1 /\ j < i
  OBVIOUS
<1>2. /\ (h + i) % n = IF h + i < n THEN h + i ELSE h + i - n
      /\ (h + j) % n = IF h + j < n THEN h + j ELSE h + j - n
  BY <1>1, OneRound
<1> QED
  BY <1>1, <1>2

\* The hand gets to every page in the first round, and to a page it has passed in
\* the second.
LEMMA Reaches ==
  ASSUME VMInv, NEW p \in Process, NEW hand \in Hands(p), NEW v \in Page(p)
  PROVE  \E k \in 0..NumPages(p) - 1 :
           /\ HandAfter(p, hand, k) = v
           /\ HandAfter(p, hand, k + NumPages(p)) = v
           /\ v \in Passed(p, hand, k + NumPages(p))
<1> DEFINE n == NumPages(p)
           k == IF hand <= v THEN v - hand ELSE v - hand + n
<1>1. n \in Nat /\ n > 0 /\ Page(p) = 0..n - 1 /\ hand \in 0..n - 1
  BY TableSize DEF Hands
<1> HIDE DEF n
<1>2. k \in 0..n - 1 /\ (hand + k = v \/ hand + k = v + n)
  BY <1>1
<1> HIDE DEF k
<1>3. v % n = v /\ (v + n) % n = v /\ (v + 2 * n) % n = v
  <2>1. v \in 0..n - 1
    BY <1>1
  <2>2. v % n = v
    BY <1>1, <2>1, OneRound
  <2> QED
    BY <1>1, <2>1, <2>2, TwiceAround
<1>4. (hand + k) % n = v
  BY <1>2, <1>3
<1>5. hand + (k + n) = v + n \/ hand + (k + n) = v + 2 * n
  BY <1>1, <1>2
<1>6. (hand + (k + n)) % n = v
  BY <1>3, <1>5
<1>7. HandAfter(p, hand, k) = v /\ HandAfter(p, hand, k + n) = v
  BY <1>4, <1>6 DEF HandAfter, n
<1>8. k \in 0..(k + n) - 1
  BY <1>1, <1>2
<1>9. v \in Passed(p, hand, k + n)
  BY <1>7, <1>8 DEF Passed
<1> QED
  BY <1>2, <1>7, <1>9 DEF n

\* The clock of ClearPage ends, for any number of pages and any use bits, if the
\* process has a page in memory, and at an unused one if there is one.  The hand
\* finds an unused page in the first round, in which it has passed none of the
\* pages before; in the second round it has passed them all.
THEOREM ClockAlwaysFindsVictim == VMSpec => []ClockFindsVictim
<1>1. ASSUME VMInv, NEW p \in Process, state[p] = "running", NEW v \in Resident(p)
      PROVE  /\ v \in Page(p) /\ pageTable[p][v].valid
             /\ pageTable[p][v].physicalPage >= 0
             /\ NumPages(p) \in Nat /\ NumPages(p) > 0
  <2>1. v \in Page(p) /\ pageTable[p][v].valid
    BY DEF Resident
  <2>2. pageTable[p][v].valid = TRUE
    BY <1>1, <2>1, TableSize DEF EntryType
  <2>3. pageTable[p][v].physicalPage \in Frame
    BY <1>1, <2>1, <2>2 DEF VMInv, Accounted, InMemory, Page
  <2>4. pageTable[p][v].physicalPage >= 0
    BY <2>3 DEF Frame
  <2> QED
    BY <1>1, <2>1, <2>4, TableSize
<1>2. ASSUME VMInv, NEW p \in Process, NEW hand \in Hands(p), state[p] = "running",
             Resident(p) # {}
      PROVE  Moves(p, hand) # {}
  <2>1. PICK v \in Resident(p) : TRUE
    BY <1>2
  <2>2. /\ v \in Page(p) /\ pageTable[p][v].valid /\ pageTable[p][v].physicalPage >= 0
        /\ NumPages(p) \in Nat /\ NumPages(p) > 0
    BY <1>1, <1>2, <2>1
  <2>3. PICK k \in 0..NumPages(p) - 1 : /\ HandAfter(p, hand, k + NumPages(p)) = v
                                        /\ v \in Passed(p, hand, k + NumPages(p))
    BY <1>2, <2>2, Reaches
  <2>4. Evictable(p, hand, k + NumPages(p))
    BY <2>2, <2>3 DEF Evictable
  <2>5. k + NumPages(p) \in 0..2 * NumPages(p) - 1
    BY <2>2, <2>3
  <2> QED
    BY <2>4, <2>5 DEF Moves
<1>3. ASSUME VMInv, NEW p \in Process, NEW hand \in Hands(p), state[p] = "running",
             NEW v \in Resident(p), ~pageTable[p][v].use, ~useFifo
      PROVE  ~pageTable[p][Victim(p, hand)].use
  <2>1. /\ v \in Page(p) /\ pageTable[p][v].valid /\ pageTable[p][v].physicalPage >= 0
        /\ NumPages(p) \in Nat /\ NumPages(p) > 0
    BY <1>1, <1>3
  <2>2. PICK k \in 0..NumPages(p) - 1 : HandAfter(p, hand, k) = v
    BY <1>3, <2>1, Reaches
  <2>3. Evictable(p, hand, k)
    BY <1>3, <2>1, <2>2 DEF Evictable
  <2>4. k \in Moves(p, hand)
    BY <2>1, <2>2, <2>3 DEF Moves
  <2>5. Moves(p, hand) \subseteq Nat
    BY <2>1 DEF Moves
  <2> DEFINE m == Min(Moves(p, hand))
  <2>6. m \in Moves(p, hand) /\ m <= k
    BY <2>4, <2>5, LeastOfNat
  <2> HIDE DEF m
  <2>7. m \in 0..NumPages(p) - 1 /\ Evictable(p, hand, m)
    BY <2>1, <2>2, <2>6 DEF Moves
  <2>8. hand \in 0..NumPages(p) - 1
    BY <1>3, <2>1, TableSize DEF Hands
  <2>9. ASSUME NEW i \in 0..m - 1 PROVE HandAfter(p, hand, i) # HandAfter(p, hand, m)
    BY <2>1, <2>7, <2>8, Distinct DEF HandAfter
  <2>10. HandAfter(p, hand, m) \notin Passed(p, hand, m)
    BY <2>9 DEF Passed
  <2> QED
    BY <1>3, <2>7, <2>10 DEF Evictable, Victim, m
<1>4. VMInv => ClockFindsVictim
  BY <1>2, <1>3, Zenon DEF ClockFindsVictim
<1> QED
  BY <1>4, VMInvariant, PTL
=============================================================================
