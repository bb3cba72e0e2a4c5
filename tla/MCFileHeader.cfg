CONSTANTS
  SectorSize = 2
  NumDirect = 2
  NumSectors = 11
  Sizes <- MCSizes
  NoHdr = NoHdr
SPECIFICATION Spec
INVARIANTS
  TypeOK
  AllocExactCost
  RoundTrip
