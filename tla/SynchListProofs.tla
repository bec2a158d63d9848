-------------------------- MODULE SynchListProofs --------------------------
(***************************************************************************)
(* Proof that SynchList implements Channel, for any number of threads,     *)
(* items and calls.                                                        *)
(***************************************************************************)
EXTENDS SynchList, SequenceTheorems, TLAPS

Element == [item : Item, key : Int]

\* The items of a list, as the refinement maps them.
ItemsOf(l) == [i \in DOMAIN l |-> l[i].item]

Label ==
  {"idle", "AppendLocked", "AppendDone", "RemoveLoop", "RemoveDone", "MapcarDone"}

\* The inductive invariant: an Append that has not reached the list has its item,
\* and there is none outside the calls.
ListInv ==
  /\ pc \in [Thread -> Label]
  /\ list \in Seq(Element)
  /\ item \in [Thread -> Item \cup {NoItem}]
  /\ \A t \in Thread :
       /\ pc[t] = "AppendLocked" => item[t] \in Item
       /\ pc[t] \in {"idle", "MapcarDone"} => item[t] = NoItem
-----------------------------------------------------------------------------
LEMMA ItemsAreSeq ==
  ASSUME NEW l \in Seq(Element)
  PROVE  /\ ItemsOf(l) \in Seq(Item) /\ Len(ItemsOf(l)) = Len(l)
         /\ \A i \in 1..Len(l) : ItemsOf(l)[i] = l[i].item
<1>1. Len(l) \in Nat /\ DOMAIN l = 1..Len(l) /\ \A i \in 1..Len(l) : l[i].item \in Item
  <2>1. Len(l) \in Nat /\ l \in [1..Len(l) -> Element]
    BY LenProperties
  <2>2. \A i \in 1..Len(l) : l[i] \in Element
    BY <2>1
  <2> QED
    BY <2>1, <2>2 DEF Element
<1>2. ItemsOf(l) \in [1..Len(l) -> Item]
  BY <1>1 DEF ItemsOf
<1>3. ItemsOf(l) \in Seq(Item)
  BY <1>1, <1>2, SeqDef
<1>4. Len(ItemsOf(l)) = Len(l)
  BY <1>1, <1>2, <1>3
<1> QED
  BY <1>1, <1>3, <1>4 DEF ItemsOf

\* Append puts an item at the end.
LEMMA AppendItems ==
  ASSUME NEW l \in Seq(Element), NEW x \in Item
  PROVE  /\ Append0(l, x) \in Seq(Element)
         /\ ItemsOf(Append0(l, x)) = Append(ItemsOf(l), x)
<1> DEFINE e == [item |-> x, key |-> 0]
<1>1. Append0(l, x) = Append(l, e) /\ e \in Element /\ e.item = x
  BY DEF Append0, ListElement, Element
<1> HIDE DEF e
<1>2. /\ Append(l, e) \in Seq(Element) /\ Len(Append(l, e)) = Len(l) + 1
      /\ Append(l, e)[Len(l) + 1] = e /\ \A i \in 1..Len(l) : Append(l, e)[i] = l[i]
  BY <1>1
<1>3. /\ ItemsOf(l) \in Seq(Item) /\ Len(ItemsOf(l)) = Len(l)
      /\ \A i \in 1..Len(l) : ItemsOf(l)[i] = l[i].item
  BY ItemsAreSeq
<1>4. /\ Append(ItemsOf(l), x) \in Seq(Item) /\ Len(Append(ItemsOf(l), x)) = Len(l) + 1
      /\ Append(ItemsOf(l), x)[Len(l) + 1] = x
      /\ \A i \in 1..Len(l) : Append(ItemsOf(l), x)[i] = l[i].item
  BY <1>3
<1>5. /\ ItemsOf(Append(l, e)) \in Seq(Item) /\ Len(ItemsOf(Append(l, e))) = Len(l) + 1
      /\ \A i \in 1..Len(l) + 1 : ItemsOf(Append(l, e))[i] = Append(l, e)[i].item
  BY <1>2, ItemsAreSeq
<1>6. \A i \in 1..Len(l) + 1 : ItemsOf(Append(l, e))[i] = Append(ItemsOf(l), x)[i]
  BY <1>1, <1>2, <1>4, <1>5
<1>7. ItemsOf(Append(l, e)) = Append(ItemsOf(l), x)
  BY <1>4, <1>5, <1>6, SeqEqual
<1> QED
  BY <1>1, <1>2, <1>7

\* Remove takes the first item away.
LEMMA RemoveItems ==
  ASSUME NEW l \in Seq(Element), ~IsEmpty(l)
  PROVE  /\ Rest(l) \in Seq(Element) /\ First(l) \in Item
         /\ ItemsOf(l) # << >> /\ First(l) = Head(ItemsOf(l))
         /\ ItemsOf(Rest(l)) = Tail(ItemsOf(l))
<1>1. l # << >> /\ Len(l) > 0 /\ Rest(l) = Tail(l) /\ First(l) = l[1].item
  BY DEF IsEmpty, Rest, First
<1>2. /\ Tail(l) \in Seq(Element) /\ Len(Tail(l)) = Len(l) - 1
      /\ \A i \in 1..Len(l) - 1 : Tail(l)[i] = l[i + 1]
  BY <1>1
<1>3. /\ ItemsOf(l) \in Seq(Item) /\ Len(ItemsOf(l)) = Len(l)
      /\ \A i \in 1..Len(l) : ItemsOf(l)[i] = l[i].item
  BY ItemsAreSeq
<1>4. First(l) \in Item /\ First(l) = Head(ItemsOf(l)) /\ ItemsOf(l) # << >>
  BY <1>1, <1>3 DEF Element
<1>5. /\ Tail(ItemsOf(l)) \in Seq(Item) /\ Len(Tail(ItemsOf(l))) = Len(l) - 1
      /\ \A i \in 1..Len(l) - 1 : Tail(ItemsOf(l))[i] = l[i + 1].item
  BY <1>1, <1>3, <1>4
<1>6. /\ ItemsOf(Tail(l)) \in Seq(Item) /\ Len(ItemsOf(Tail(l))) = Len(l) - 1
      /\ \A i \in 1..Len(l) - 1 : ItemsOf(Tail(l))[i] = Tail(l)[i].item
  BY <1>2, ItemsAreSeq
<1>7. \A i \in 1..Len(l) - 1 : ItemsOf(Tail(l))[i] = Tail(ItemsOf(l))[i]
  BY <1>2, <1>5, <1>6
<1>8. ItemsOf(Tail(l)) = Tail(ItemsOf(l))
  BY <1>5, <1>6, <1>7, SeqEqual
<1> QED
  BY <1>1, <1>2, <1>4, <1>8

LEMMA ListInitially == ListInit => ListInv
BY DEF ListInit, ListInv, Label

LEMMA ListStepKeeps ==
  ASSUME ListInv, [\E t \in Thread : ListStep(t)]_listVars
  PROVE  ListInv'
<1>1. CASE UNCHANGED <<pc, list, item>>
  BY <1>1 DEF ListInv
<1>2. ASSUME NEW t \in Thread, NEW x \in Item, AppendItem(t, x) PROVE ListInv'
  BY <1>2 DEF AppendItem, Goto, ListInv, Label
<1>3. ASSUME NEW t \in Thread, AppendLocked(t) PROVE ListInv'
  <2>1. pc[t] = "AppendLocked" /\ item[t] \in Item
    BY <1>3 DEF AppendLocked, At, ListInv
  <2>2. list' \in Seq(Element)
    BY <1>3, <2>1, AppendItems DEF AppendLocked, ListInv
  <2> QED
    BY <1>3, <2>2 DEF AppendLocked, Goto, ListInv, Label
<1>4. ASSUME NEW t \in Thread, RemoveItem(t) \/ Mapcar(t) PROVE ListInv'
  BY <1>4 DEF RemoveItem, Mapcar, At, Goto, ListInv, Label
<1>5. ASSUME NEW t \in Thread, RemoveLoop(t) PROVE ListInv'
  <2>1. CASE UNCHANGED <<pc, list, item>>
    BY <1>1, <2>1
  <2>2. CASE /\ ~IsEmpty(list) /\ item' = [item EXCEPT ![t] = First(list)]
             /\ list' = Rest(list) /\ Goto(t, "RemoveDone")
    <3>1. First(list) \in Item /\ list' \in Seq(Element)
      BY <2>2, RemoveItems DEF ListInv
    <3> QED
      BY <2>2, <3>1 DEF Goto, ListInv, Label
  <2> QED
    BY <1>5, <2>1, <2>2 DEF RemoveLoop
<1>6. ASSUME NEW t \in Thread, Done(t) PROVE ListInv'
  BY <1>6 DEF Done, Goto, ListInv, Label
<1>7. ASSUME NEW t \in Thread, Kernel(t) PROVE ListInv'
  BY <1>1, <1>7 DEF Kernel
<1> QED
  BY <1>1, <1>2, <1>3, <1>4, <1>5, <1>6, <1>7 DEF ListStep, listVars

LEMMA ListInvariant == ListSpec => []ListInv
<1>1. ListInv /\ [\E t \in Thread : ListStep(t)]_listVars => ListInv'
  BY ListStepKeeps
<1> QED
  BY <1>1, ListInitially, PTL DEF ListSpec
-----------------------------------------------------------------------------
\* SynchList is a FIFO queue with calls that take effect at one moment, for any
\* number of threads, items and calls, however the kernel schedules them.
THEOREM ImplementsChannelAlways == ListSpec => ImplementsChannel
<1> DEFINE called == [t \in Thread |-> CallOf(t)]
           finished == {t \in Thread : pc[t] \in {"AppendDone", "RemoveDone"}}
<1>1. ListInit => Abstract!ChannelInit
  <2>1. SUFFICES ASSUME ListInit PROVE Abstract!ChannelInit
    OBVIOUS
  <2>2. ItemsOf(list) = << >>
    BY <2>1 DEF ListInit, ItemsOf
  <2>3. called = [t \in Thread |-> "none"] /\ finished = {}
    BY <2>1 DEF ListInit, CallOf
  <2> QED
    BY <2>1, <2>2, <2>3 DEF ListInit, Abstract!ChannelInit, ItemsOf
<1>2. ASSUME ListInv, [\E t \in Thread : ListStep(t)]_listVars
      PROVE  [Abstract!ChannelNext]_(Abstract!channelVars)
  <2>1. CASE UNCHANGED <<pc, list, item>>
    BY <2>1 DEF Abstract!channelVars, CallOf
  <2>2. ASSUME NEW t \in Thread, NEW x \in Item, AppendItem(t, x) PROVE Abstract!ChannelStep(t)
    <3>1. pc[t] = "idle" /\ pc' = [pc EXCEPT ![t] = "AppendLocked"]
          /\ item' = [item EXCEPT ![t] = x] /\ list' = list
      BY <2>2 DEF AppendItem, At, Goto
    <3>2. called[t] = "none" /\ called' = [called EXCEPT ![t] = "Append"]
      BY <1>2, <3>1 DEF CallOf, ListInv
    <3>3. finished' = finished
      BY <1>2, <3>1 DEF ListInv
    <3>4. Abstract!CallAppend(t, x)
      BY <3>1, <3>2, <3>3 DEF Abstract!CallAppend
    <3> QED
      BY <3>4 DEF Abstract!ChannelStep
  <2>3. ASSUME NEW t \in Thread, AppendLocked(t) PROVE Abstract!ChannelStep(t)
    <3>1. pc[t] = "AppendLocked" /\ pc' = [pc EXCEPT ![t] = "AppendDone"]
          /\ item' = [item EXCEPT ![t] = NoItem] /\ list' = Append0(list, item[t])
      BY <2>3 DEF AppendLocked, At, Goto
    <3>2. called[t] = "Append" /\ called' = called
      BY <1>2, <3>1 DEF CallOf, ListInv
    <3>3. t \notin finished /\ finished' = finished \cup {t}
      BY <1>2, <3>1 DEF ListInv
    <3>4. ItemsOf(list') = Append(ItemsOf(list), item[t])
      BY <1>2, <3>1, AppendItems DEF ListInv
    <3>5. Abstract!DoAppend(t)
      BY <3>1, <3>2, <3>3, <3>4 DEF Abstract!DoAppend, ItemsOf
    <3> QED
      BY <3>5 DEF Abstract!ChannelStep
  <2>4. ASSUME NEW t \in Thread, RemoveItem(t) PROVE Abstract!ChannelStep(t)
    <3>1. pc[t] = "idle" /\ pc' = [pc EXCEPT ![t] = "RemoveLoop"] /\ UNCHANGED <<item, list>>
      BY <2>4 DEF RemoveItem, At, Goto
    <3>2. called[t] = "none" /\ called' = [called EXCEPT ![t] = "Remove"]
      BY <1>2, <3>1 DEF CallOf, ListInv
    <3>3. finished' = finished
      BY <1>2, <3>1 DEF ListInv
    <3>4. Abstract!CallRemove(t)
      BY <3>1, <3>2, <3>3 DEF Abstract!CallRemove
    <3> QED
      BY <3>4 DEF Abstract!ChannelStep
  <2>5. ASSUME NEW t \in Thread, RemoveLoop(t), ~UNCHANGED <<pc, list, item>>
        PROVE  Abstract!ChannelStep(t)
    <3>1. pc[t] = "RemoveLoop" /\ pc' = [pc EXCEPT ![t] = "RemoveDone"] /\ ~IsEmpty(list)
          /\ item' = [item EXCEPT ![t] = First(list)] /\ list' = Rest(list)
      BY <2>5 DEF RemoveLoop, At, Goto
    <3>2. called[t] = "Remove" /\ called' = called
      BY <1>2, <3>1 DEF CallOf, ListInv
    <3>3. t \notin finished /\ finished' = finished \cup {t}
      BY <1>2, <3>1 DEF ListInv
    <3>4. /\ ItemsOf(list) # << >> /\ First(list) = Head(ItemsOf(list))
          /\ ItemsOf(list') = Tail(ItemsOf(list))
      BY <1>2, <3>1, RemoveItems DEF ListInv
    <3>5. Abstract!DoRemove(t)
      BY <3>1, <3>2, <3>3, <3>4 DEF Abstract!DoRemove, ItemsOf
    <3> QED
      BY <3>5 DEF Abstract!ChannelStep
  <2>6. ASSUME NEW t \in Thread, Done(t), pc[t] # "MapcarDone" PROVE Abstract!ChannelStep(t)
    <3>1. pc[t] \in {"AppendDone", "RemoveDone"} /\ pc' = [pc EXCEPT ![t] = "idle"]
          /\ item' = [item EXCEPT ![t] = NoItem] /\ list' = list
      BY <2>6 DEF Done, At, Goto
    <3>2. called' = [called EXCEPT ![t] = "none"]
      BY <1>2, <3>1 DEF CallOf, ListInv
    <3>3. t \in finished /\ finished' = finished \ {t}
      BY <1>2, <3>1 DEF ListInv
    <3>4. Abstract!Return(t)
      BY <3>1, <3>2, <3>3 DEF Abstract!Return
    <3> QED
      BY <3>4 DEF Abstract!ChannelStep
  <2>7. ASSUME NEW t \in Thread, Mapcar(t) \/ (Done(t) /\ pc[t] = "MapcarDone")
        PROVE  UNCHANGED Abstract!channelVars
    <3>1. /\ pc[t] \in {"idle", "MapcarDone"}
          /\ pc' = [pc EXCEPT ![t] = "idle"] \/ pc' = [pc EXCEPT ![t] = "MapcarDone"]
          /\ item' = item \/ item' = [item EXCEPT ![t] = NoItem]
          /\ list' = list
      BY <2>7 DEF Mapcar, Done, At, Goto
    <3>2. item' = item
      BY <1>2, <3>1 DEF ListInv
    <3>3. called' = called /\ finished' = finished
      BY <1>2, <3>1 DEF CallOf, ListInv
    <3> QED
      BY <3>1, <3>2, <3>3 DEF Abstract!channelVars
  <2>8. ASSUME NEW t \in Thread, Kernel(t) PROVE UNCHANGED <<pc, list, item>>
    BY <2>8 DEF Kernel
  <2>9. UNCHANGED listVars => UNCHANGED <<pc, list, item>>
    BY DEF listVars
  <2> QED
    BY <1>2, <2>1, <2>2, <2>3, <2>4, <2>5, <2>6, <2>7, <2>8, <2>9
      DEF ListStep, Abstract!ChannelNext
<1>3. ListInv /\ [\E t \in Thread : ListStep(t)]_listVars =>
        [Abstract!ChannelNext]_(Abstract!channelVars)
  BY <1>2
<1> QED
  BY <1>1, <1>3, ListInvariant, PTL DEF ListSpec, ImplementsChannel, Abstract!ChannelSpec
=============================================================================
