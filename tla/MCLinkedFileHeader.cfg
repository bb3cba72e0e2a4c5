CONSTANTS
  SectorSize = 2
  IntSize = 1
  NumSectors = 6
  Sizes <- MCSizes
  Vals <- MCVals
  NoHdr = NoHdr
  NULL = NULL
SPECIFICATION SpecHeader
INVARIANTS
  TypeOK
  OpenFileMapsChain
PROPERTY
  AbstractFileSpec
