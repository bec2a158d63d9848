-------------------------------- MODULE List --------------------------------
(***************************************************************************)
(* The lists of threads/list.cc as values: a sequence of elements, each an *)
(* item with the sort key it was inserted under.  Every queue of the       *)
(* kernel (ready list, wait queues, pending interrupts) is such a list.    *)
(***************************************************************************)
EXTENDS Integers, Sequences

ListElement(item, key) == [item |-> item, key |-> key]

Items(list) == {list[i].item : i \in DOMAIN list}

IsEmpty(list) == list = << >>

Append0(list, item) == Append(list, ListElement(item, 0))

\* The place of the first element whose key is strictly greater than sortKey,
\* one past the end if there is none: where the scan of SortedInsert stops.
InsertPosition(list, sortKey) ==
  CHOOSE p \in 1..Len(list) + 1 :
    /\ \A i \in 1..p - 1 : list[i].key <= sortKey
    /\ p <= Len(list) => sortKey < list[p].key

SortedInsert(list, item, sortKey) ==
  LET p == InsertPosition(list, sortKey)
  IN  [i \in 1..Len(list) + 1 |->
         IF i < p THEN list[i]
         ELSE IF i = p THEN ListElement(item, sortKey)
         ELSE list[i - 1]]

\* What SortedRemove (and Remove) returns from a list that is not empty, and
\* what it leaves.
First(list) == Head(list).item
Rest(list) == IF IsEmpty(list) THEN list ELSE Tail(list)

SortedByKey(list) ==
  \A i, j \in DOMAIN list : i <= j => list[i].key <= list[j].key

NoDuplicates(list) ==
  \A i, j \in DOMAIN list : list[i].item = list[j].item => i = j
=============================================================================
