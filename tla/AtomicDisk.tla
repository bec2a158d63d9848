------------------------------ MODULE AtomicDisk ------------------------------
(***************************************************************************)
(* What SynchDisk promises the file system: sectors that are read and      *)
(* written whole, each call taking effect at one moment between its start  *)
(* and its return.                                                         *)
(***************************************************************************)
CONSTANTS Caller, Sector, Data, NoCall, Initial

VARIABLES
  contents,   \* the data of each sector
  request,    \* the call each caller is in: [op, sector, data], or NoCall
  served      \* callers whose call has taken effect

diskVars == <<contents, request, served>>

Request == [op : {"Read", "Write"}, sector : Sector, data : Data]

AtomicInit ==
  /\ contents = [s \in Sector |-> Initial]
  /\ request = [c \in Caller |-> NoCall]
  /\ served = {}

Call(c, r) ==
  /\ request[c] = NoCall
  /\ request' = [request EXCEPT ![c] = r]
  /\ UNCHANGED <<contents, served>>

\* A write changes its sector, a read gets what its sector holds.
Serve(c) ==
  /\ request[c] # NoCall
  /\ c \notin served
  /\ served' = served \cup {c}
  /\ LET r == request[c]
     IN  \/ /\ r.op = "Write"
            /\ contents' = [contents EXCEPT ![r.sector] = r.data]
            /\ UNCHANGED request
         \/ /\ r.op = "Read"
            /\ request' = [request EXCEPT ![c].data = contents[r.sector]]
            /\ UNCHANGED contents

Return(c) ==
  /\ c \in served
  /\ served' = served \ {c}
  /\ request' = [request EXCEPT ![c] = NoCall]
  /\ UNCHANGED contents

AtomicNext == \E c \in Caller : (\E r \in Request : Call(c, r)) \/ Serve(c) \/ Return(c)

AtomicSpec == AtomicInit /\ [][AtomicNext]_diskVars
=============================================================================
