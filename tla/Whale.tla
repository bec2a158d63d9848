-------------------------------- MODULE Whale --------------------------------
(***************************************************************************)
(* The Whale of threads/synch.cc: Male, Female and Matchmaker are to leave *)
(* in groups of one each.                                                  *)
(*                                                                         *)
(* role[t] is the routine t is in, pc[t] what it does next there, todo[t]  *)
(* the condition variables it has still to signal before that.  Male and   *)
(* Female are the same code with the two sexes exchanged, and are modelled *)
(* once; the counters of the class are functions of the role.              *)
(***************************************************************************)
EXTENDS Synch

CONSTANTS
  WhaleLock,        \* Whale::lock
  Snd, MatchWait,   \* maleSnd, femaleSnd and matchSnd, by role, and matchWait
  MaxCalls          \* bound on the calls of each routine

Sex == {"Male", "Female"}
Role == Sex \cup {"Matchmaker"}

VARIABLES
  role, pc, todo,
  numPending,    \* numPendingMale, numPendingFemale, numPendingMatch
  numComplete,   \* numCompleteMale, numCompleteFemale
  calls,         \* history: calls begun, by role
  mated,         \* history: calls of Male and Female past their loop
  matched        \* history: calls of Matchmaker past theirs

counts == <<numPending, numComplete>>
history == <<calls, mated, matched>>
whaleVars == <<vars, role, pc, todo, counts, history>>

Other(sex) == IF sex = "Male" THEN "Female" ELSE "Male"

Goto(t, label) == pc' = [pc EXCEPT ![t] = label]
At(t, label) == InClient(t) /\ pc[t] = label /\ todo[t] = << >>
-----------------------------------------------------------------------------
\* The entry of each routine.
Enter(t, r) ==
  /\ At(t, "idle")
  /\ calls[r] < MaxCalls
  /\ Acquire(t, WhaleLock)
  /\ role' = [role EXCEPT ![t] = r]
  /\ calls' = [calls EXCEPT ![r] = @ + 1]
  /\ Goto(t, "Count")
  /\ UNCHANGED <<todo, counts, mated, matched>>

Count(t) ==
  /\ At(t, "Count")
  /\ numPending' = [numPending EXCEPT ![role[t]] = @ + 1]
  /\ Goto(t, "Loop")
  /\ UNCHANGED <<vars, role, todo, numComplete, history>>

\* The loop of Male and of Female.
MateLoop(t, sex) ==
  LET blocked == \/ numPending[Other(sex)] = 0
                 \/ numPending["Matchmaker"] = 0
                 \/ numComplete[sex] # 0
  IN  /\ At(t, "Loop")
      /\ role[t] = sex
      /\ \/ /\ blocked
            /\ Wait(t, Snd[sex])
            /\ UNCHANGED <<pc, todo, numComplete, mated>>
         \/ /\ ~blocked
            /\ numComplete' = [numComplete EXCEPT ![sex] = @ + 1]
            /\ mated' = [mated EXCEPT ![sex] = @ + 1]
            /\ todo' = [todo EXCEPT ![t] = <<Snd["Matchmaker"], Snd[Other(sex)], MatchWait>>]
            /\ Goto(t, "Leave")
            /\ UNCHANGED vars
      /\ UNCHANGED <<role, numPending, calls, matched>>

\* The first loop of Matchmaker.
MatchLoop(t) ==
  LET blocked == \E sex \in Sex : numPending[sex] = 0
  IN  /\ At(t, "Loop")
      /\ role[t] = "Matchmaker"
      /\ \/ blocked /\ Wait(t, Snd["Matchmaker"]) /\ UNCHANGED <<pc, todo>>
         \/ /\ ~blocked
            /\ todo' = [todo EXCEPT ![t] = <<Snd["Female"], Snd["Male"]>>]
            /\ Goto(t, "MatchWait")
            /\ UNCHANGED vars
      /\ UNCHANGED <<role, counts, history>>

\* Its second loop.
MatchWaitLoop(t) ==
  LET blocked == numComplete["Male"] = 0 /\ numComplete["Female"] = 0
  IN  /\ At(t, "MatchWait")
      /\ \/ blocked /\ Wait(t, MatchWait) /\ UNCHANGED <<pc, counts, matched>>
         \/ /\ ~blocked
            /\ numPending' = [r \in Role |-> numPending[r] - 1]
            /\ numComplete' = [sex \in Sex |-> numComplete[sex] - 1]
            /\ matched' = matched + 1
            /\ Goto(t, "Leave")
            /\ UNCHANGED vars
      /\ UNCHANGED <<role, todo, calls, mated>>

\* The calls of Signal between the loops, one after the other.
SignalNext(t) ==
  /\ InClient(t)
  /\ todo[t] # << >>
  /\ Signal(t, Head(todo[t]))
  /\ todo' = [todo EXCEPT ![t] = Tail(@)]
  /\ UNCHANGED <<role, pc, counts, history>>

Leave(t) ==
  /\ At(t, "Leave")
  /\ Release(t, WhaleLock)
  /\ Goto(t, "idle")
  /\ UNCHANGED <<role, todo, counts, history>>

\* What the kernel does with a thread between two steps of its call.
Kernel(t) ==
  /\ Resume(t) \/ YieldCPU(t)
  /\ UNCHANGED <<role, pc, todo, counts, history>>

WhaleInit ==
  /\ Init
  /\ role = [t \in Thread |-> "Male"]
  /\ pc = [t \in Thread |-> "idle"]
  /\ todo = [t \in Thread |-> << >>]
  /\ numPending = [r \in Role |-> 0]
  /\ numComplete = [sex \in Sex |-> 0]
  /\ calls = [r \in Role |-> 0]
  /\ mated = [sex \in Sex |-> 0]
  /\ matched = 0

WhaleNext ==
  \E t \in Thread :
    \/ \E r \in Role : Enter(t, r)
    \/ Count(t)
    \/ \E sex \in Sex : MateLoop(t, sex)
    \/ MatchLoop(t) \/ MatchWaitLoop(t)
    \/ SignalNext(t) \/ Leave(t)
    \/ Kernel(t)

WhaleSpec == WhaleInit /\ [][WhaleNext]_whaleVars
-----------------------------------------------------------------------------
\* When a Matchmaker "has made a match", the male and the female of the match
\* have mated.
MatchHasMated == \A sex \in Sex : matched <= mated[sex]
=============================================================================
