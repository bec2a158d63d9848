----------------------------- MODULE ListProofs -----------------------------
(***************************************************************************)
(* What SortedInsert and Remove of threads/list.cc do to a list: facts for *)
(* the proofs about the queues of the kernel.                              *)
(***************************************************************************)
EXTENDS List, WellFoundedInduction, SequenceTheorems, TLAPS

Element(S) == [item : S, key : Int]

\* A nonempty set of naturals has a least element.
LEMMA LeastNatural ==
  ASSUME NEW T \in SUBSET Nat, T # {}
  PROVE  \E x \in T : \A y \in T : x <= y
<1>1. PICK x \in T : \A y \in T : <<y, x>> \notin OpToRel(<, Nat)
  BY NatLessThanWellFounded, WFMin
<1>2. \A y \in T : ~ (y < x)
  BY <1>1 DEF OpToRel
<1> QED
  BY <1>2

\* The scan of SortedInsert stops at one well-defined place.
LEMMA InsertPositionProperty ==
  ASSUME NEW S, NEW list \in Seq(Element(S)), NEW k \in Int
  PROVE  LET p == InsertPosition(list, k)
         IN  /\ p \in 1..Len(list) + 1
             /\ \A i \in 1..p - 1 : list[i].key <= k
             /\ p <= Len(list) => k < list[p].key
<1> DEFINE T == {p \in 1..Len(list) + 1 : p <= Len(list) => k < list[p].key}
<1>1. Len(list) \in Nat /\ \A i \in 1..Len(list) : list[i].key \in Int
  <2>1. Len(list) \in Nat /\ \A i \in 1..Len(list) : list[i] \in Element(S)
    BY LenProperties
  <2> QED
    BY <2>1 DEF Element
<1>2. Len(list) + 1 \in T /\ T \in SUBSET Nat
  BY <1>1
<1>3. PICK p \in T : \A y \in T : p <= y
  BY <1>2, LeastNatural
<1>4. \A i \in 1..p - 1 : list[i].key <= k
  <2> TAKE i \in 1..p - 1
  <2>1. i \notin T /\ i \in 1..Len(list) + 1
    BY <1>1, <1>3
  <2> QED
    BY <2>1, <1>1
<1> QED
  BY <1>3, <1>4 DEF InsertPosition

\* new is the list with the element of x at position p.
InsertedAt(S, list, x, k, p, new) ==
  /\ new \in Seq(Element(S))
  /\ Len(new) = Len(list) + 1
  /\ \A i \in 1..p - 1 : new[i] = list[i]
  /\ new[p] = ListElement(x, k)
  /\ \A i \in p + 1..Len(list) + 1 : new[i] = list[i - 1]

\* SortedInsert yields a list with one more element, at that place.
LEMMA SortedInsertElements ==
  ASSUME NEW S, NEW list \in Seq(Element(S)), NEW x \in S, NEW k \in Int
  PROVE  InsertedAt(S, list, x, k, InsertPosition(list, k), SortedInsert(list, x, k))
<1> DEFINE p == InsertPosition(list, k)
           new == SortedInsert(list, x, k)
<1>1. Len(list) \in Nat /\ list \in [1..Len(list) -> Element(S)]
  BY LenProperties
<1>2. p \in 1..Len(list) + 1
  BY InsertPositionProperty
<1>3. new = [i \in 1..Len(list) + 1 |->
               IF i < p THEN list[i]
               ELSE IF i = p THEN ListElement(x, k) ELSE list[i - 1]]
  BY DEF SortedInsert
<1> HIDE DEF p, new
<1>4. ListElement(x, k) \in Element(S)
  BY DEF Element, ListElement
<1>5. \A i \in 1..Len(list) + 1 : new[i] \in Element(S)
  BY <1>1, <1>2, <1>3, <1>4
<1>6. new \in Seq(Element(S)) /\ Len(new) = Len(list) + 1
  BY <1>1, <1>3, <1>5
<1>7. \A i \in 1..p - 1 : i \in 1..Len(list) + 1 /\ new[i] = list[i]
  BY <1>1, <1>2, <1>3
<1>8. new[p] = ListElement(x, k)
  BY <1>1, <1>2, <1>3
<1>9. \A i \in p + 1..Len(list) + 1 :
        i \in 1..Len(list) + 1 /\ ~(i < p) /\ i # p /\ new[i] = list[i - 1]
  BY <1>1, <1>2, <1>3
<1> QED
  BY <1>6, <1>7, <1>8, <1>9 DEF p, new, InsertedAt

\* SortedInsert adds its item to the list, and adds nothing else.
LEMMA SortedInsertItems ==
  ASSUME NEW S, NEW list \in Seq(Element(S)), NEW x \in S, NEW k \in Int
  PROVE  /\ SortedInsert(list, x, k) \in Seq(Element(S))
         /\ Items(SortedInsert(list, x, k)) = Items(list) \cup {x}
         /\ ~IsEmpty(SortedInsert(list, x, k))
         /\ NoDuplicates(list) /\ x \notin Items(list) =>
              NoDuplicates(SortedInsert(list, x, k))
<1> DEFINE p == InsertPosition(list, k)
           new == SortedInsert(list, x, k)
<1>1. /\ Len(list) \in Nat
      /\ DOMAIN list = 1..Len(list)
  BY LenProperties
<1>2. p \in 1..Len(list) + 1
  BY InsertPositionProperty
<1>3. /\ new \in Seq(Element(S))
      /\ Len(new) = Len(list) + 1
      /\ \A i \in 1..p - 1 : new[i] = list[i]
      /\ new[p] = ListElement(x, k)
      /\ \A i \in p + 1..Len(list) + 1 : new[i] = list[i - 1]
  <2>1. InsertedAt(S, list, x, k, p, new)
    BY SortedInsertElements
  <2> QED
    BY <2>1 DEF InsertedAt
<1> HIDE DEF p, new
<1>3a. new[p].item = x
  BY <1>3 DEF ListElement
<1>4. DOMAIN new = 1..Len(list) + 1
  BY <1>3, LenProperties
<1>5. ASSUME NEW i \in 1..Len(list) + 1, i # p
      PROVE  \E j \in 1..Len(list) : new[i] = list[j] /\ j = IF i < p THEN i ELSE i - 1
  <2>1. CASE i < p
    BY <1>1, <1>2, <1>3, <2>1
  <2>2. CASE i > p
    BY <1>1, <1>2, <1>3, <2>2
  <2> QED
    BY <1>2, <1>5, <2>1, <2>2
<1>6. ASSUME NEW j \in 1..Len(list)
      PROVE  \E i \in 1..Len(list) + 1 : new[i] = list[j]
  <2>1. CASE j < p
    BY <1>1, <1>2, <1>3, <2>1
  <2>2. CASE j >= p
    <3>1. j + 1 \in p + 1..Len(list) + 1 /\ j + 1 \in 1..Len(list) + 1
      BY <1>1, <1>2, <2>2
    <3>2. new[j + 1] = list[j + 1 - 1]
      BY <1>3, <3>1
    <3> QED
      BY <3>1, <3>2
  <2> QED
    BY <1>2, <2>1, <2>2
<1>7. Items(new) = Items(list) \cup {x}
  <2>1. \A y \in Items(new) : y \in Items(list) \cup {x}
    <3> SUFFICES ASSUME NEW i \in 1..Len(list) + 1
                 PROVE  new[i].item \in Items(list) \cup {x}
      BY <1>4 DEF Items
    <3>1. CASE i = p
      BY <1>3a, <3>1
    <3>2. CASE i # p
      BY <1>1, <1>5, <3>2 DEF Items
    <3> QED
      BY <3>1, <3>2
  <2>2. \A y \in Items(list) \cup {x} : y \in Items(new)
    BY <1>1, <1>2, <1>3a, <1>4, <1>6 DEF Items
  <2> QED
    BY <2>1, <2>2
<1>8. ASSUME NoDuplicates(list), x \notin Items(list),
             NEW i \in 1..Len(list) + 1, NEW j \in 1..Len(list) + 1,
             new[i].item = new[j].item
      PROVE  i = j
  <2>1. \A m \in 1..Len(list) : list[m].item # x
    BY <1>1, <1>8 DEF Items
  <2>2. CASE i = p \/ j = p
    BY <1>3a, <1>5, <1>8, <2>1, <2>2
  <2>3. CASE i # p /\ j # p
    <3>1. PICK a \in 1..Len(list) : new[i] = list[a] /\ a = IF i < p THEN i ELSE i - 1
      BY <1>5, <2>3
    <3>2. PICK b \in 1..Len(list) : new[j] = list[b] /\ b = IF j < p THEN j ELSE j - 1
      BY <1>5, <2>3
    <3>3. a = b
      BY <1>1, <1>8, <3>1, <3>2 DEF NoDuplicates
    <3> QED
      BY <1>1, <1>2, <2>3, <3>1, <3>2, <3>3
  <2> QED
    BY <2>2, <2>3
<1> QED
  BY <1>1, <1>3, <1>4, <1>7, <1>8 DEF new, NoDuplicates, IsEmpty

LEMMA SortedInsertMember ==
  ASSUME NEW S, NEW list \in Seq(Element(S)), NEW x \in S, NEW k \in Int
  PROVE  \A y : y \in Items(SortedInsert(list, x, k)) <=> y \in Items(list) \/ y = x
<1>1. Items(SortedInsert(list, x, k)) = Items(list) \cup {x}
  BY SortedInsertItems
<1> QED
  BY <1>1

\* SortedInsert keeps a list sorted by key.
LEMMA SortedInsertSorted ==
  ASSUME NEW S, NEW list \in Seq(Element(S)), NEW x \in S, NEW k \in Int,
         SortedByKey(list)
  PROVE  SortedByKey(SortedInsert(list, x, k))
<1> DEFINE p == InsertPosition(list, k)
           new == SortedInsert(list, x, k)
<1>1. /\ Len(list) \in Nat
      /\ DOMAIN list = 1..Len(list)
      /\ \A i \in 1..Len(list) : list[i] \in Element(S)
  BY LenProperties
<1>2. /\ p \in 1..Len(list) + 1
      /\ \A i \in 1..p - 1 : list[i].key <= k
      /\ p <= Len(list) => k < list[p].key
  BY InsertPositionProperty
<1>3. /\ new \in Seq(Element(S))
      /\ Len(new) = Len(list) + 1
      /\ \A i \in 1..p - 1 : new[i] = list[i]
      /\ new[p] = ListElement(x, k)
      /\ \A i \in p + 1..Len(list) + 1 : new[i] = list[i - 1]
  <2>1. InsertedAt(S, list, x, k, p, new)
    BY SortedInsertElements
  <2> QED
    BY <2>1 DEF InsertedAt
<1> HIDE DEF p, new
<1>4. DOMAIN new = 1..Len(list) + 1
  BY <1>3, LenProperties
<1>5. \A i \in 1..Len(list) : list[i].key \in Int
  BY <1>1 DEF Element
<1>6. \A i \in 1..p - 1 : new[i].key <= k /\ new[i].key = list[i].key
  BY <1>2, <1>3
<1>7. new[p].key = k
  BY <1>3 DEF ListElement
<1>8. \A i \in p + 1..Len(list) + 1 : k < new[i].key /\ new[i].key = list[i - 1].key
  <2> TAKE i \in p + 1..Len(list) + 1
  <2>1. i - 1 \in 1..Len(list) /\ p \in 1..Len(list) /\ p <= i - 1
    BY <1>1, <1>2
  <2>2. list[p].key <= list[i - 1].key
    BY <1>1, <2>1 DEF SortedByKey
  <2>3. new[i] = list[i - 1]
    BY <1>3
  <2>4. k < list[p].key /\ list[p].key \in Int /\ list[i - 1].key \in Int
    BY <1>1, <1>2, <1>5, <2>1
  <2> QED
    BY <2>2, <2>3, <2>4
<1>9. ASSUME NEW i \in 1..Len(list) + 1, NEW j \in 1..Len(list) + 1, i <= j
      PROVE  new[i].key <= new[j].key
  <2>1. CASE j < p
    BY <1>1, <1>2, <1>6, <1>9, <2>1 DEF SortedByKey
  <2>2. CASE i > p
    BY <1>1, <1>2, <1>8, <1>9, <2>2 DEF SortedByKey
  <2>3. CASE i <= p /\ j >= p
    <3>1. new[i].key <= k /\ new[i].key \in Int
      BY <1>1, <1>2, <1>5, <1>6, <1>7, <2>3
    <3>2. CASE j = p
      BY <1>7, <3>1, <3>2
    <3>3. CASE j > p
      <4>1. j \in p + 1..Len(list) + 1 /\ j - 1 \in 1..Len(list)
        BY <1>1, <1>2, <3>3
      <4>2. k < new[j].key /\ new[j].key \in Int
        BY <1>5, <1>8, <4>1
      <4> QED
        BY <3>1, <4>2
    <3> QED
      BY <1>2, <2>3, <3>2, <3>3
  <2> QED
    BY <1>2, <1>9, <2>1, <2>2, <2>3
<1> QED
  BY <1>4, <1>9 DEF SortedByKey, new

\* Where SortedInsert moves the element at position n.
Shifted(list, k, n) == IF n < InsertPosition(list, k) THEN n ELSE n + 1

\* SortedInsert keeps the elements already listed in their order.
LEMMA SortedInsertOrder ==
  ASSUME NEW S, NEW list \in Seq(Element(S)), NEW x \in S, NEW k \in Int,
         NEW i \in DOMAIN list, NEW j \in DOMAIN list, i < j
  PROVE  /\ Shifted(list, k, i) \in DOMAIN SortedInsert(list, x, k)
         /\ Shifted(list, k, j) \in DOMAIN SortedInsert(list, x, k)
         /\ Shifted(list, k, i) < Shifted(list, k, j)
         /\ SortedInsert(list, x, k)[Shifted(list, k, i)] = list[i]
         /\ SortedInsert(list, x, k)[Shifted(list, k, j)] = list[j]
<1> DEFINE p == InsertPosition(list, k)
           new == SortedInsert(list, x, k)
           shift(n) == IF n < p THEN n ELSE n + 1
<1>1. Len(list) \in Nat /\ DOMAIN list = 1..Len(list)
  BY LenProperties
<1>2. p \in 1..Len(list) + 1
  BY InsertPositionProperty
<1>3. /\ new \in Seq(Element(S))
      /\ Len(new) = Len(list) + 1
      /\ \A n \in 1..p - 1 : new[n] = list[n]
      /\ new[p] = ListElement(x, k)
      /\ \A n \in p + 1..Len(list) + 1 : new[n] = list[n - 1]
  <2>1. InsertedAt(S, list, x, k, p, new)
    BY SortedInsertElements
  <2> QED
    BY <2>1 DEF InsertedAt
<1> HIDE DEF p, new
<1>4. DOMAIN new = 1..Len(list) + 1
  BY <1>3, LenProperties
<1>5. \A n \in 1..Len(list) : new[shift(n)] = list[n]
  <2> TAKE n \in 1..Len(list)
  <2>1. CASE n < p
    BY <1>1, <1>2, <1>3, <2>1
  <2>2. CASE n >= p
    <3>1. n + 1 \in p + 1..Len(list) + 1 /\ shift(n) = n + 1
      BY <1>1, <1>2, <2>2
    <3>2. new[n + 1] = list[n + 1 - 1]
      BY <1>3, <3>1
    <3> QED
      BY <3>1, <3>2
  <2> QED
    BY <1>2, <2>1, <2>2
<1>6. shift(i) \in 1..Len(list) + 1 /\ shift(j) \in 1..Len(list) + 1 /\ shift(i) < shift(j)
  BY <1>1, <1>2
<1> QED
  BY <1>1, <1>4, <1>5, <1>6 DEF new, p, Shifted

\* A new element goes behind the elements that have its key.
LEMMA SortedInsertNewcomer ==
  ASSUME NEW S, NEW list \in Seq(Element(S)), NEW x \in S, NEW k \in Int,
         SortedByKey(list),
         NEW i \in DOMAIN SortedInsert(list, x, k),
         NEW j \in DOMAIN SortedInsert(list, x, k),
         i < j,
         SortedInsert(list, x, k)[i].item \notin Items(list)
  PROVE  SortedInsert(list, x, k)[i].key < SortedInsert(list, x, k)[j].key
<1> DEFINE p == InsertPosition(list, k)
           new == SortedInsert(list, x, k)
<1>1. /\ Len(list) \in Nat
      /\ DOMAIN list = 1..Len(list)
      /\ \A n \in 1..Len(list) : list[n] \in Element(S)
  BY LenProperties
<1>2. /\ p \in 1..Len(list) + 1
      /\ p <= Len(list) => k < list[p].key
  BY InsertPositionProperty
<1>3. /\ new \in Seq(Element(S))
      /\ Len(new) = Len(list) + 1
      /\ \A n \in 1..p - 1 : new[n] = list[n]
      /\ new[p] = ListElement(x, k)
      /\ \A n \in p + 1..Len(list) + 1 : new[n] = list[n - 1]
  <2>1. InsertedAt(S, list, x, k, p, new)
    BY SortedInsertElements
  <2> QED
    BY <2>1 DEF InsertedAt
<1> HIDE DEF p, new
<1>4. i \in 1..Len(list) + 1 /\ j \in 1..Len(list) + 1
  BY <1>3, LenProperties DEF new
<1>5. new[i].item \notin Items(list)
  BY DEF new
<1>6. i = p
  <2>1. CASE i < p
    <3>1. i \in 1..p - 1 /\ i \in 1..Len(list)
      BY <1>1, <1>2, <1>4, <2>1
    <3> QED
      BY <1>1, <1>3, <1>5, <3>1 DEF Items
  <2>2. CASE i > p
    <3>1. i \in p + 1..Len(list) + 1 /\ i - 1 \in 1..Len(list)
      BY <1>1, <1>2, <1>4, <2>2
    <3>2. new[i] = list[i - 1]
      BY <1>3, <3>1
    <3> QED
      BY <1>1, <1>5, <3>1, <3>2 DEF Items
  <2> QED
    BY <1>2, <1>4, <2>1, <2>2
<1>7. /\ j \in p + 1..Len(list) + 1
      /\ p \in 1..Len(list) /\ j - 1 \in 1..Len(list) /\ p <= j - 1
  BY <1>1, <1>2, <1>4, <1>6
<1>8. new[j] = list[j - 1]
  BY <1>3, <1>7
<1>9. list[p].key <= list[j - 1].key
  BY <1>1, <1>7 DEF SortedByKey
<1>10. k < list[p].key /\ list[p].key \in Int /\ list[j - 1].key \in Int
  BY <1>1, <1>2, <1>7 DEF Element
<1>11. new[i].key = k
  BY <1>3, <1>6 DEF ListElement
<1>12. new[i].key < new[j].key
  BY <1>8, <1>9, <1>10, <1>11
<1> QED
  BY <1>12 DEF new

\* Remove takes the first item off and leaves the others, in their order.
LEMMA RemoveProperty ==
  ASSUME NEW S, NEW list \in Seq(Element(S)), ~IsEmpty(list)
  PROVE  /\ First(list) \in S
         /\ First(list) \in Items(list)
         /\ Rest(list) \in Seq(Element(S))
         /\ Len(Rest(list)) = Len(list) - 1
         /\ \A i \in 1..Len(list) - 1 : Rest(list)[i] = list[i + 1]
         /\ list[1].item = First(list)
<1>1. list # << >>
  BY DEF IsEmpty
<1>2. /\ Head(list) \in Element(S)
      /\ Tail(list) \in Seq(Element(S))
      /\ Len(Tail(list)) = Len(list) - 1
      /\ \A i \in 1..Len(Tail(list)) : Tail(list)[i] = list[i + 1]
  BY <1>1, HeadTailProperties
<1>3. Len(list) \in Nat \ {0} /\ DOMAIN list = 1..Len(list)
  BY <1>1, EmptySeq, LenProperties
<1>4. Head(list) = list[1]
  BY <1>1
<1>5. Head(list).item \in S
  BY <1>2 DEF Element
<1>6. list[1].item \in Items(list)
  BY <1>3 DEF Items
<1> QED
  BY <1>1, <1>2, <1>3, <1>4, <1>5, <1>6 DEF First, Rest, IsEmpty

LEMMA RemoveItems ==
  ASSUME NEW S, NEW list \in Seq(Element(S)), ~IsEmpty(list), NoDuplicates(list)
  PROVE  /\ Items(Rest(list)) = Items(list) \ {First(list)}
         /\ NoDuplicates(Rest(list))
<1>1. /\ Rest(list) \in Seq(Element(S))
      /\ Len(Rest(list)) = Len(list) - 1
      /\ \A i \in 1..Len(list) - 1 : Rest(list)[i] = list[i + 1]
      /\ list[1].item = First(list)
  BY RemoveProperty
<1>2. Len(list) \in Nat /\ DOMAIN list = 1..Len(list)
  BY LenProperties
<1>3. DOMAIN Rest(list) = 1..Len(list) - 1
  BY <1>1, LenProperties
<1>4. \A i \in 1..Len(list) - 1 : i + 1 \in 1..Len(list) /\ i + 1 # 1
  BY <1>2
<1>5. \A i \in 1..Len(list) : i # 1 => i - 1 \in 1..Len(list) - 1 /\ (i - 1) + 1 = i
  BY <1>2
<1>6. \A i \in 1..Len(list) : i # 1 => list[i].item # First(list)
  <2> TAKE i \in 1..Len(list)
  <2> HAVE i # 1
  <2>1. 1 \in 1..Len(list)
    BY <1>2
  <2> QED
    BY <1>1, <1>2, <2>1 DEF NoDuplicates
<1>7. Items(Rest(list)) \subseteq Items(list) \ {First(list)}
  <2> SUFFICES ASSUME NEW i \in 1..Len(list) - 1
               PROVE  Rest(list)[i].item \in Items(list) \ {First(list)}
    BY <1>3 DEF Items
  <2>1. i + 1 \in 1..Len(list) /\ i + 1 # 1 /\ Rest(list)[i] = list[i + 1]
    BY <1>1, <1>4
  <2>2. list[i + 1].item # First(list)
    BY <1>6, <2>1
  <2>3. list[i + 1].item \in Items(list)
    BY <1>2, <2>1 DEF Items
  <2> QED
    BY <2>1, <2>2, <2>3
<1>8. ASSUME NEW i \in 1..Len(list), list[i].item # First(list)
      PROVE  list[i].item \in Items(Rest(list))
  <2>1. i # 1
    BY <1>1, <1>8
  <2>2. i - 1 \in 1..Len(list) - 1 /\ Rest(list)[i - 1] = list[i]
    BY <1>1, <1>5, <2>1
  <2> QED
    BY <1>3, <2>2 DEF Items
<1>9. Items(list) \ {First(list)} \subseteq Items(Rest(list))
  BY <1>2, <1>8 DEF Items
<1>10. NoDuplicates(Rest(list))
  <2> SUFFICES ASSUME NEW i \in 1..Len(list) - 1, NEW j \in 1..Len(list) - 1,
                      Rest(list)[i].item = Rest(list)[j].item
               PROVE  i = j
    BY <1>3 DEF NoDuplicates
  <2>1. list[i + 1].item = list[j + 1].item
    BY <1>1
  <2>2. i + 1 = j + 1
    BY <1>2, <1>4, <2>1 DEF NoDuplicates
  <2> QED
    BY <1>2, <2>2
<1> QED
  BY <1>7, <1>9, <1>10

LEMMA RemoveSorted ==
  ASSUME NEW S, NEW list \in Seq(Element(S)), SortedByKey(list)
  PROVE  SortedByKey(Rest(list))
<1>1. CASE IsEmpty(list)
  BY <1>1 DEF Rest
<1>2. CASE ~IsEmpty(list)
  <2>1. /\ Rest(list) \in Seq(Element(S))
        /\ Len(Rest(list)) = Len(list) - 1
        /\ \A i \in 1..Len(list) - 1 : Rest(list)[i] = list[i + 1]
    BY <1>2, RemoveProperty
  <2>2. Len(list) \in Nat /\ DOMAIN list = 1..Len(list)
    BY LenProperties
  <2>3. DOMAIN Rest(list) = 1..Len(list) - 1
    BY <2>1, LenProperties
  <2> SUFFICES ASSUME NEW i \in 1..Len(list) - 1, NEW j \in 1..Len(list) - 1, i <= j
               PROVE  Rest(list)[i].key <= Rest(list)[j].key
    BY <2>3 DEF SortedByKey
  <2>4. i + 1 \in 1..Len(list) /\ j + 1 \in 1..Len(list) /\ i + 1 <= j + 1
    BY <2>2
  <2> QED
    BY <2>1, <2>2, <2>4 DEF SortedByKey
<1> QED
  BY <1>1, <1>2
=============================================================================
