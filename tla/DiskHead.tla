------------------------------ MODULE DiskHead ------------------------------
(***************************************************************************)
(* How long a disk request takes: the latency of machine/disk.cc, from the *)
(* track of the last request, the time, and what the track buffer has      *)
(* seen of the current track.  What is read and written is the business of *)
(* SynchDisk.                                                              *)
(***************************************************************************)
EXTENDS Integers, FiniteSetsExt

CONSTANTS SectorsPerTrack, NumTracks, SeekTime, RotationTime

ASSUME DiskHeadAssumption ==
  {SectorsPerTrack, NumTracks, SeekTime, RotationTime} \subseteq Nat \ {0}

VARIABLES
  active,      \* Disk::active
  lastSector,  \* Disk::lastSector
  bufferInit,  \* Disk::bufferInit
  request,     \* history: sector, kind and time of the last request
  arrival      \* history: when the head got, or will get, to the current track

diskVars == <<active, lastSector, bufferInit, request, arrival>>

DiskSector == 0..SectorsPerTrack * NumTracks - 1
Track(sector) == sector \div SectorsPerTrack
Offset(sector) == sector % SectorsPerTrack

\* TimeToSeek, and the time from then until the next sector begins.
SeekTimeTo(sector) ==
  LET tracks == Track(sector) - Track(lastSector)
  IN  (IF tracks < 0 THEN -tracks ELSE tracks) * SeekTime

RotationAfter(time) ==
  LET over == time % RotationTime IN IF over > 0 THEN RotationTime - over ELSE 0

ModuloDiff(to, from) == ((Offset(to) - Offset(from)) + SectorsPerTrack) % SectorsPerTrack

\* The check of ComputeLatency for the track buffer.
InTrackBuffer(sector, timeAfter) ==
  (timeAfter - bufferInit) \div RotationTime > ModuloDiff(sector, bufferInit \div RotationTime)

ComputeLatency(sector, writing, now) ==
  LET seek      == SeekTimeTo(sector)
      rotation  == RotationAfter(now + seek)
      timeAfter == now + seek + rotation
  IN  IF ~writing /\ seek = 0 /\ InTrackBuffer(sector, timeAfter) THEN RotationTime
      ELSE seek + rotation + RotationTime
             + ModuloDiff(sector, timeAfter \div RotationTime) * RotationTime

\* Mutant of UpdateLast: the track buffer is not emptied by a seek.
UpdateLastKeepsBuffer(sector, now) ==
  /\ lastSector' = sector
  /\ UNCHANGED bufferInit

UpdateLast(sector, now) ==
  LET seek == SeekTimeTo(sector)
  IN  /\ lastSector' = sector
      /\ bufferInit' = IF seek # 0 THEN now + seek + RotationAfter(now + seek) ELSE bufferInit

\* ReadRequest and WriteRequest.
DiskRequest(sector, writing, now) ==
  /\ ~active
  /\ active' = TRUE
  /\ UpdateLast(sector, now)
  /\ request' = [sector |-> sector, writing |-> writing, at |-> now]
  /\ arrival' = IF SeekTimeTo(sector) # 0 THEN now + SeekTimeTo(sector) ELSE arrival

\* HandleInterrupt.
DiskDone ==
  /\ active' = FALSE
  /\ UNCHANGED <<lastSector, bufferInit, request, arrival>>

DiskHeadInit ==
  /\ active = FALSE
  /\ lastSector = 0
  /\ bufferInit = 0
  /\ request = [sector |-> 0, writing |-> FALSE, at |-> 0]
  /\ arrival = 0
-----------------------------------------------------------------------------
\* What the latency stands for.  A sector passes the head in one rotation time,
\* sector s whenever the number of the rotation is s in its track.  The end of
\* the first whole pass of a sector from a time on:
PassEnds(sector, from) ==
  LET Pass == {k \in from \div RotationTime..from \div RotationTime + SectorsPerTrack :
                 k * RotationTime >= from /\ Offset(k) = Offset(sector)}
  IN  (Min(Pass) + 1) * RotationTime

\* A request is done at the end of the first pass after the seek; a read of what
\* has passed since the head got to the track, by the end of the rotation at
\* hand, comes from the track buffer.
DoneAt ==
  LET now == request.at
  IN  IF ~request.writing /\ arrival <= now
           /\ PassEnds(request.sector, arrival) <= now + RotationAfter(now)
      THEN now + RotationTime
      ELSE PassEnds(request.sector, Max({now, arrival}))
=============================================================================
