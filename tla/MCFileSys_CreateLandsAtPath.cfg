CONSTANTS
  SectorSize = 2
  NumDirect = 2
  NumSectors = 10
  a = a
  b = b
  Names <- MCNames
  NoName = NoName
  Paths <- MCPaths
  PathLimit = 6
  NumDirEntries = 2
  DirEntrySize = 1
  FILE_OPEN_LIMIT = 1
  Sizes <- MCSizes
  NoHdr = NoHdr
  Rel = Rel
  NULL = NULL
SPECIFICATION Spec
VIEW MCViewRet
INVARIANT
  CreateLandsAtPath
