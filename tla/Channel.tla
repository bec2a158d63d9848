------------------------------- MODULE Channel -------------------------------
(***************************************************************************)
(* What SynchList promises its callers: an unbounded FIFO queue with an    *)
(* atomic Append and an atomic Remove that waits for an item.  Each call   *)
(* takes effect at one moment between its start and its return.            *)
(***************************************************************************)
EXTENDS Naturals, Sequences

CONSTANTS Caller, Item, NoItem

VARIABLES
  items,   \* the queue
  call,    \* what each caller asked for: "none", "Append" or "Remove"
  arg,     \* the item an Append brings, or a finished Remove returns
  done     \* callers whose call has taken effect

channelVars == <<items, call, arg, done>>

ChannelInit ==
  /\ items = << >>
  /\ call = [c \in Caller |-> "none"]
  /\ arg = [c \in Caller |-> NoItem]
  /\ done = {}

CallAppend(c, x) ==
  /\ call[c] = "none"
  /\ call' = [call EXCEPT ![c] = "Append"]
  /\ arg' = [arg EXCEPT ![c] = x]
  /\ UNCHANGED <<items, done>>

CallRemove(c) ==
  /\ call[c] = "none"
  /\ call' = [call EXCEPT ![c] = "Remove"]
  /\ UNCHANGED <<items, arg, done>>

DoAppend(c) ==
  /\ call[c] = "Append"
  /\ c \notin done
  /\ items' = Append(items, arg[c])
  /\ arg' = [arg EXCEPT ![c] = NoItem]
  /\ done' = done \cup {c}
  /\ UNCHANGED call

DoRemove(c) ==
  /\ call[c] = "Remove"
  /\ c \notin done
  /\ items # << >>
  /\ items' = Tail(items)
  /\ arg' = [arg EXCEPT ![c] = Head(items)]
  /\ done' = done \cup {c}
  /\ UNCHANGED call

Return(c) ==
  /\ c \in done
  /\ call' = [call EXCEPT ![c] = "none"]
  /\ arg' = [arg EXCEPT ![c] = NoItem]
  /\ done' = done \ {c}
  /\ UNCHANGED items

ChannelStep(c) ==
  \/ \E x \in Item : CallAppend(c, x)
  \/ CallRemove(c) \/ DoAppend(c) \/ DoRemove(c) \/ Return(c)

ChannelNext == \E c \in Caller : ChannelStep(c)

ChannelSpec == ChannelInit /\ [][ChannelNext]_channelVars
=============================================================================
