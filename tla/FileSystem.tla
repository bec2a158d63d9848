------------------------------ MODULE FileSystem ------------------------------
(***************************************************************************)
(* The Nachos file system, filesys/: filesys.cc, directory.cc, filehdr.cc, *)
(* openfile.cc, and userprog/bitmap.cc, over the sectors of a disk that    *)
(* reads and writes them whole (AtomicDisk).                               *)
(*                                                                         *)
(* An operation reads what it needs, computes, and writes sectors one by   *)
(* one: writes holds the ones still to come.  Operations do not overlap    *)
(* (the code "assumes there is no concurrent access"), but the machine may *)
(* halt between two writes.                                                *)
(*                                                                         *)
(* A sector holds a file header, a part of the directory, the free map     *)
(* (the set of sectors in use), or bytes.  The directory is an array in    *)
(* a file, so an entry may lie across two sectors: with entries of 20      *)
(* bytes and sectors of 128, inUse and sector of the seventh are in the    *)
(* first sector of the file and its name is in the second.                 *)
(***************************************************************************)
EXTENDS Integers, Sequences, FiniteSets, FiniteSetsExt

CONSTANTS
  NumSectors, SectorSize, NumDirEntries,
  HeadIn,       \* where inUse and sector of each entry are: the number of a
                \* sector of the directory
  NameIn,       \* the same for its name
  FileName,     \* names, cut off at FileNameMaxLen
  FileSize,     \* the sizes files are created with
  Buffer,       \* what is written at a time: sequences of bytes
  Handle,       \* OpenFile objects
  NoFile, Junk  \* no such file; a byte nobody wrote

ASSUME FileSystemAssumption ==
  /\ {NumSectors, SectorSize, NumDirEntries} \subseteq Nat \ {0}
  /\ FileSize \subseteq Nat
  /\ HeadIn \in [1..NumDirEntries -> Nat \ {0}] /\ NameIn \in [1..NumDirEntries -> Nat \ {0}]
  /\ \A i \in 1..NumDirEntries : NameIn[i] \in {HeadIn[i], HeadIn[i] + 1}
  /\ \A i, j \in 1..NumDirEntries : i < j => NameIn[i] <= HeadIn[j]
  /\ NumSectors >= 3 + NameIn[NumDirEntries]

VARIABLES
  disk,     \* the contents of each sector
  writes,   \* sectors the running operation has still to write
  open,     \* the OpenFile objects
  doing,    \* history: the file the running or last operation changes
  wrote,    \* history: the bytes of each file, Junk until written
  spoiled   \* history: a removed file was written where another file is now

fsVars == <<disk, writes, open, doing, wrote, spoiled>>

Sector == 0..NumSectors - 1
FreeMapSector == 0
DirectorySector == 1

Header(numBytes, dataSectors) ==
  [kind |-> "header", numBytes |-> numBytes, dataSectors |-> dataSectors]
Entry(inUse, name, sector) == [inUse |-> inUse, name |-> name, sector |-> sector]
DirectoryPart(table) == [kind |-> "directory", table |-> table]
Map(used) == [kind |-> "map", used |-> used]
Bytes(bytes) == [kind |-> "bytes", bytes |-> bytes]
WriteSector(sector, contents) == [sector |-> sector, contents |-> contents]

BytesOf(contents) ==
  IF contents.kind = "bytes" THEN contents.bytes ELSE [i \in 1..SectorSize |-> Junk]
-----------------------------------------------------------------------------
\* BitMap: Find takes the lowest clear bit, here n times over.
FindSectors(used, n) ==
  LET Clear(s) == s \notin used
  IN  SubSeq(SelectSeq([i \in 1..NumSectors |-> i - 1], Clear), 1, n)

DivRoundUp(n, s) == (n \div s) + (IF n % s > 0 THEN 1 ELSE 0)

\* FileHeader::Allocate succeeds, and what it allocates.
Fits(used, size) == NumSectors - Cardinality(used) >= DivRoundUp(size, SectorSize)
Allocate(used, size) == Header(size, FindSectors(used, DivRoundUp(size, SectorSize)))

SectorsOf(hdr) == {hdr.dataSectors[i] : i \in DOMAIN hdr.dataSectors}

\* The directory and the free map, as FetchFrom reads them.  A sector has only
\* the fields that lie in it of the table it was written from: no others are read.
DirSectors == NameIn[NumDirEntries]
TableOn(d) ==
  LET Part(k) == d[d[DirectorySector].dataSectors[k]].table
  IN  [i \in 1..NumDirEntries |->
         Entry(Part(HeadIn[i])[i].inUse, Part(NameIn[i])[i].name, Part(HeadIn[i])[i].sector)]
FreeMapOn(d) == d[d[FreeMapSector].dataSectors[1]].used
Table == TableOn(disk)
FreeMap == FreeMapOn(disk)

\* Directory::FindIndex takes the first of the entries with the name.
Entries(table, name) == {i \in DOMAIN table : table[i].inUse /\ table[i].name = name}
FindIndex(table, name) == Min(Entries(table, name))

\* Mutant of Slot: the last entry is taken.
SlotLast(table) == Max({i \in DOMAIN table : ~table[i].inUse})

\* Directory::Add takes the first entry not in use.
Unused(table) == {i \in DOMAIN table : ~table[i].inUse}
Slot(table) == Min(Unused(table))

\* Directory::WriteBack, one WriteAt of the array, and BitMap::WriteBack.
DirectoryWriteBack(table) ==
  [k \in 1..DirSectors |->
     WriteSector(disk[DirectorySector].dataSectors[k], DirectoryPart(table))]
MapWriteBack(used) == <<WriteSector(disk[FreeMapSector].dataSectors[1], Map(used))>>
-----------------------------------------------------------------------------
\* OpenFile::ReadAt: how many bytes there are to transfer, and those of the
\* file at them.
Count(hdr, numBytes, position) ==
  IF numBytes <= 0 \/ position >= hdr.numBytes THEN 0
  ELSE Min({numBytes, hdr.numBytes - position})

ByteAt(d, hdr, b) ==
  BytesOf(d[hdr.dataSectors[b \div SectorSize + 1]])[(b % SectorSize) + 1]

ReadAt(d, hdr, numBytes, position) ==
  [i \in 1..Count(hdr, numBytes, position) |-> ByteAt(d, hdr, position + i - 1)]

\* Mutant of Prefetched: a last sector that is only partly written is not read.
PrefetchedFirst(hdr, first, last, position, n) ==
  IF position = first * SectorSize THEN {} ELSE {first}

\* OpenFile::WriteAt: the sectors among first..last that are read before, as
\* they are written in part.
Prefetched(hdr, first, last, position, n) ==
  LET firstAligned == position = first * SectorSize
      lastAligned  == position + n = (last + 1) * SectorSize
  IN  {s \in {first} : ~firstAligned}
        \cup {s \in {last} : ~lastAligned /\ (first # last \/ firstAligned)}

\* Its buffer, byte b of the file: from the caller, read before, or never set.
Buffered(hdr, from, position, n, read, b) ==
  IF b \in position..position + n - 1 THEN from[b - position + 1]
  ELSE IF b \div SectorSize \in read /\ b < hdr.numBytes THEN ByteAt(disk, hdr, b)
  ELSE Junk

WriteAt(hdr, from, position) ==
  LET n     == Count(hdr, Len(from), position)
      first == position \div SectorSize
      last  == (position + n - 1) \div SectorSize
      read  == Prefetched(hdr, first, last, position, n)
  IN  IF n = 0 THEN << >>
      ELSE [k \in 1..1 + last - first |->
              WriteSector(hdr.dataSectors[first + k],
                Bytes([i \in 1..SectorSize |->
                  Buffered(hdr, from, position, n, read,
                           (first + k - 1) * SectorSize + i - 1)]))]
-----------------------------------------------------------------------------
\* Nothing is left to write of the last operation.
AtRest == writes = << >> /\ ~spoiled

\* FileSystem::Create; when it fails it writes nothing back.
Create(name, size) ==
  LET sector == Min(Sector \ FreeMap)
      used   == FreeMap \cup {sector}
      hdr    == Allocate(used, size)
      table  == [Table EXCEPT ![Slot(Table)] = Entry(TRUE, name, sector)]
  IN  /\ AtRest
      /\ Entries(Table, name) = {}
      /\ FreeMap # Sector
      /\ Unused(Table) # {}
      /\ Fits(used, size)
      /\ writes' = <<WriteSector(sector, hdr)>> \o DirectoryWriteBack(table)
                     \o MapWriteBack(used \cup SectorsOf(hdr))
      /\ doing' = name
      /\ wrote' = [wrote EXCEPT ![name] = [i \in 1..size |-> Junk]]
      /\ UNCHANGED <<disk, open, spoiled>>

\* FileSystem::Open, and the OpenFile constructor, which reads the header.
Open(h, name) ==
  /\ AtRest
  /\ open[h] = NoFile
  /\ Entries(Table, name) # {}
  /\ LET i == FindIndex(Table, name)
     IN  open' = [open EXCEPT ![h] = [name |-> name, hdr |-> disk[Table[i].sector],
                                      seekPosition |-> 0, removed |-> FALSE]]
  /\ UNCHANGED <<disk, writes, doing, wrote, spoiled>>

Close(h) ==
  /\ AtRest
  /\ open[h] # NoFile
  /\ open' = [open EXCEPT ![h] = NoFile]
  /\ UNCHANGED <<disk, writes, doing, wrote, spoiled>>

\* Nothing keeps track of who has a file open: such an OpenFile keeps the header
\* of the file that was.
Orphaned(name) ==
  [h \in Handle |->
     IF open[h] # NoFile /\ open[h].name = name THEN [open[h] EXCEPT !.removed = TRUE]
     ELSE open[h]]

\* Mutant of Remove: the header's sector stays marked.
RemoveKeepsHeader(name) ==
  /\ AtRest
  /\ Entries(Table, name) # {}
  /\ LET i == FindIndex(Table, name)
     IN  writes' = MapWriteBack(FreeMap \ SectorsOf(disk[Table[i].sector]))
                   \o DirectoryWriteBack([Table EXCEPT ![i].inUse = FALSE])
  /\ open' = Orphaned(name)
  /\ doing' = name
  /\ wrote' = [wrote EXCEPT ![name] = NoFile]
  /\ UNCHANGED <<disk, spoiled>>

\* FileSystem::Remove.
Remove(name) ==
  /\ AtRest
  /\ Entries(Table, name) # {}
  /\ LET i      == FindIndex(Table, name)
         sector == Table[i].sector
     IN  writes' = MapWriteBack((FreeMap \ SectorsOf(disk[sector])) \ {sector})
                     \o DirectoryWriteBack([Table EXCEPT ![i].inUse = FALSE])
  /\ open' = Orphaned(name)
  /\ doing' = name
  /\ wrote' = [wrote EXCEPT ![name] = NoFile]
  /\ UNCHANGED <<disk, spoiled>>
-----------------------------------------------------------------------------
\* The methods of OpenFile.
Seek(h, position) ==
  /\ AtRest
  /\ open[h] # NoFile
  /\ open' = [open EXCEPT ![h].seekPosition = position]
  /\ UNCHANGED <<disk, writes, doing, wrote, spoiled>>

Read(h, numBytes) ==
  /\ AtRest
  /\ open[h] # NoFile
  /\ open' = [open EXCEPT ![h].seekPosition =
                @ + Len(ReadAt(disk, open[h].hdr, numBytes, @))]
  /\ UNCHANGED <<disk, writes, doing, wrote, spoiled>>

\* What a write of n bytes is to do to the bytes of a file.
Written(bytes, from, position, n) ==
  [b \in DOMAIN bytes |->
     IF b \in position + 1..position + n THEN from[b - position] ELSE bytes[b]]

\* A write to a removed file changes no file, unless its sectors have been given
\* to another one; what happens after that is not followed.
Write(h, from) ==
  /\ AtRest
  /\ open[h] # NoFile
  /\ LET hdr      == open[h].hdr
         name     == open[h].name
         position == open[h].seekPosition
         n        == Count(hdr, Len(from), position)
         removed  == open[h].removed
     IN  /\ writes' = WriteAt(hdr, from, position)
         /\ open' = [open EXCEPT ![h].seekPosition = @ + n]
         /\ doing' = IF removed THEN NoFile ELSE name
         /\ wrote' = IF removed THEN wrote
                     ELSE [wrote EXCEPT ![name] = Written(@, from, position, n)]
         /\ spoiled' = (removed /\ \E i \in DOMAIN writes' : writes'[i].sector \in FreeMap)
  /\ UNCHANGED disk

\* SynchDisk::WriteSector of the next sector.
WriteNext ==
  /\ ~spoiled
  /\ writes # << >>
  /\ disk' = [disk EXCEPT ![Head(writes).sector] = Head(writes).contents]
  /\ writes' = Tail(writes)
  /\ UNCHANGED <<open, doing, wrote, spoiled>>

\* The FileSystem constructor formats the disk.
FormattedDisk ==
  LET system == {FreeMapSector, DirectorySector}
      mapHdr == Header(SectorSize, FindSectors(system, 1))
      dirHdr == Header(DirSectors * SectorSize,
                       FindSectors(system \cup SectorsOf(mapHdr), DirSectors))
      empty  == [s \in Sector |-> Bytes([i \in 1..SectorSize |-> Junk])]
  IN  [s \in Sector |->
         CASE s = FreeMapSector        -> mapHdr
           [] s = DirectorySector      -> dirHdr
           [] s \in SectorsOf(mapHdr)  -> Map(system \cup SectorsOf(mapHdr) \cup SectorsOf(dirHdr))
           [] s \in SectorsOf(dirHdr)  ->
                DirectoryPart([i \in 1..NumDirEntries |-> Entry(FALSE, NoFile, 0)])
           [] OTHER                    -> empty[s]]

FSInit ==
  /\ disk = FormattedDisk
  /\ writes = << >>
  /\ open = [h \in Handle |-> NoFile]
  /\ doing = NoFile
  /\ wrote = [name \in FileName |-> NoFile]
  /\ spoiled = FALSE

FSNext ==
  \/ \E name \in FileName, size \in FileSize : Create(name, size)
  \/ \E name \in FileName : Remove(name)
  \/ \E h \in Handle :
       \/ \E name \in FileName : Open(h, name)
       \/ Close(h)
       \/ \E p \in 0..Max(FileSize) : Seek(h, p)
       \/ \E n \in {Len(from) : from \in Buffer} : Read(h, n)
       \/ \E from \in Buffer : Write(h, from)
  \/ WriteNext

FSSpec == FSInit /\ [][FSNext]_fsVars
-----------------------------------------------------------------------------
\* The header, and all the sectors, of the file or files that entry i names.
HeaderAt(i) == disk[Table[i].sector]
SectorsAt(i) == {Table[i].sector} \cup SectorsOf(HeaderAt(i))

InUse == {i \in DOMAIN Table : Table[i].inUse}

\* Between operations the free map marks exactly the sectors of the files in
\* the directory and of the two system files, and no sector belongs to two: no
\* Create or Remove leaks a sector, and Deallocate finds all of them marked
\* (its ASSERT).
SectorsAccounted ==
  AtRest =>
    LET system == {FreeMapSector, DirectorySector}
                    \cup SectorsOf(disk[FreeMapSector]) \cup SectorsOf(disk[DirectorySector])
    IN  /\ FreeMap = system \cup UNION {SectorsAt(i) : i \in InUse}
        /\ \A i \in InUse :
             /\ SectorsAt(i) \cap system = {}
             /\ Cardinality(SectorsAt(i)) = 1 + DivRoundUp(HeaderAt(i).numBytes, SectorSize)
             /\ \A j \in InUse \ {i} : SectorsAt(i) \cap SectorsAt(j) = {}

\* Every part of the file that ReadAt can be asked for is as it was written.
ReadsBack(i, name) ==
  \A p \in 0..HeaderAt(i).numBytes, n \in 1..Max(FileSize) :
    LET bytes == ReadAt(disk, HeaderAt(i), n, p)
    IN  /\ Len(bytes) = Cardinality(p + 1..p + n \cap DOMAIN wrote[name])
        /\ \A b \in DOMAIN bytes :
             wrote[name][p + b] # Junk => bytes[b] = wrote[name][p + b]

\* Between operations each file created and not removed is in the directory
\* once, and reads back what was last written at each position, whatever other
\* files were written, created and removed since, also while they were open, and
\* however the writes began and ended within a sector; until somebody writes to
\* a removed file whose sectors another one has.
FilesKeepData ==
  AtRest =>
    \A name \in FileName :
      IF wrote[name] = NoFile THEN Entries(Table, name) = {}
      ELSE \E i \in InUse : Entries(Table, name) = {i} /\ ReadsBack(i, name)

\* Nachos may exit between any two sector writes.  What it leaves on the disk
\* then: the files the operation at hand is not about are found in the directory,
\* with their contents, and their sectors are marked.  An entry torn between two
\* sectors is in use under the name of the file that had it before: that one may
\* have a new entry by now, but then it is before the torn one.
HaltKeepsOthers ==
  writes # << >> /\ ~spoiled =>
    \A name \in FileName \ {doing} :
      wrote[name] # NoFile =>
        LET i == FindIndex(Table, name)
        IN  /\ Entries(Table, name) # {}
            /\ ReadsBack(i, name)
            /\ SectorsAt(i) \subseteq FreeMap
=============================================================================
