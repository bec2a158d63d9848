SPECIFICATION FSSpec
CONSTANTS
  FileName = {a, b}
  Handle = {f}
  NumSectors = 11
  SectorSize = 2
  NumDirEntries = 2
  HeadIn <- MCHeadIn
  NameIn <- MCNameIn
  FileSize <- MCFileSize
  Buffer <- MCBuffer
  NoFile = NoFile
  Junk = Junk
INVARIANTS
  SectorsAccounted
  FilesKeepData
  HaltKeepsOthers
SYMMETRY MCNames
CHECK_DEADLOCK FALSE
