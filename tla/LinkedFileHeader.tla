-------------------------- MODULE LinkedFileHeader --------------------------
(***************************************************************************)
(* The linked-list file header of src/unnamed/part_001 (filehdr.cc) and   *)
(* part_002 (filehdr.h), an alternative to the multi-level header.        *)
(*                                                                         *)
(* The header sector holds numBytes, numSectors, startSector and           *)
(* endSector.  Each data sector holds NUM_DATA ints of data followed by    *)
(* one int, next, the sector of the following block.  In memory the       *)
(* header keeps dataBlocks, one DataBlock (data and next) per sector.     *)
(*                                                                         *)
(* The disk is two tables: hdrOf (sector -> header record) and link       *)
(* (sector -> the int stored in its last sizeof(int) bytes, the next      *)
(* field of a data block).  The data ints themselves are not represented. *)
(* The in-memory dataBlocks are the sequence of their next fields.        *)
(***************************************************************************)
EXTENDS Integers, FiniteSets, Sequences

CONSTANTS
  SectorSize,   \* bytes per sector
  IntSize,      \* sizeof(int)
  NumSectors    \* sectors on the disk

ASSUME SectorSize \in Nat /\ IntSize \in Nat \ {0} /\ SectorSize > IntSize
ASSUME NumSectors \in Nat \ {0}

INVALID_SECTOR == -1

Sectors == 0 .. NumSectors - 1

\* DATA_SIZE: the bytes of a sector that are not the next field
DATA_SIZE == SectorSize - IntSize

divRoundUp(n, s) == (n + s - 1) \div s

LHeader == [numBytes : Int, numSectors : Int, startSector : Int, endSector : Int]

\* the constructor: numBytes = numSectors = -1, both ends INVALID_SECTOR
NewHeader == [numBytes |-> -1, numSectors |-> -1,
              startSector |-> INVALID_SECTOR, endSector |-> INVALID_SECTOR]

----------------------------------------------------------------------------
(* PersistentBitmap (not in the sources): the set of marked sectors.      *)

NumClear(used) == Cardinality(Sectors \ used)

FindAndSet(used) ==
  IF Sectors \subseteq used THEN INVALID_SECTOR
  ELSE CHOOSE s \in Sectors \ used : \A t \in Sectors \ used : s <= t

TestOK(used, s) == s \in Sectors /\ s \in used

----------------------------------------------------------------------------
(* Allocate(freeMap, fileSize): numSectors calls of FindAndSet; the first *)
(* becomes startSector, each later one the next field of the block        *)
(* before it, the last one endSector.  The result: ok, the bitmap, the    *)
(* header, and blocks, the in-memory next fields in block order.  The     *)
(* ASSERT(freeBlock >= 0) cannot fail after the NumClear check.           *)

RECURSIVE AllocBlocks(_, _, _, _)
\* the loop body: FindAndSet, link it from the last block, push a block
AllocBlocks(used, chain, blocks, k) ==
  IF k = 0 THEN [used |-> used, chain |-> chain, blocks |-> blocks]
  ELSE LET s == FindAndSet(used) IN
       AllocBlocks(used \cup {s}, Append(chain, s),
                   Append(IF blocks = <<>> THEN blocks
                          ELSE [blocks EXCEPT ![Len(blocks)] = s],
                          INVALID_SECTOR),
                   k - 1)

\* an Allocate without the NumClear pre-check
AllocateNoCheck(used, fileSize) ==
  LET n == divRoundUp(fileSize, SectorSize)
      r == AllocBlocks(used, <<>>, <<>>, n)
  IN [ok |-> TRUE, used |-> r.used,
      hdr |-> [numBytes |-> fileSize, numSectors |-> n,
               startSector |-> IF n > 0 THEN r.chain[1] ELSE INVALID_SECTOR,
               endSector |-> IF n > 0 THEN r.chain[n] ELSE INVALID_SECTOR],
      blocks |-> r.blocks]

Allocate(used, fileSize) ==
  LET n == divRoundUp(fileSize, SectorSize)
      r == AllocBlocks(used, <<>>, <<>>, n)
  IN IF NumClear(used) < n
     THEN [ok |-> FALSE, used |-> used,
           hdr |-> [NewHeader EXCEPT !.numBytes = fileSize, !.numSectors = n],
           blocks |-> <<>>]
     ELSE [ok |-> TRUE, used |-> r.used,
           hdr |-> [numBytes |-> fileSize, numSectors |-> n,
                    startSector |-> IF n > 0 THEN r.chain[1] ELSE INVALID_SECTOR,
                    endSector |-> IF n > 0 THEN r.chain[n] ELSE INVALID_SECTOR],
           blocks |-> r.blocks]

----------------------------------------------------------------------------
(* The sectors of the chain, in block order: startSector, then the next   *)
(* field of each block.                                                    *)
ChainOf(hdr, blocks) ==
  [i \in 1 .. Len(blocks) |-> IF i = 1 THEN hdr.startSector ELSE blocks[i - 1]]

(* WriteBack(sector): the header, then every block at its chain sector.   *)
WriteBack(hdrOf, link, sector, hdr, blocks) ==
  LET c == ChainOf(hdr, blocks) IN
  [hdrOf |-> [hdrOf EXCEPT ![sector] = hdr],
   link  |-> [s \in DOMAIN link |->
                IF \E i \in DOMAIN c : c[i] = s
                THEN blocks[CHOOSE i \in DOMAIN c : c[i] = s]
                ELSE link[s]]]

(* FetchFrom(sector): read the header, then walk numSectors blocks from   *)
(* startSector, reading each block's next field from disk.  Reading a     *)
(* sector number outside the disk fails the disk's ASSERT.                 *)
RECURSIVE Walk(_, _, _, _)
Walk(link, cur, k, bs) ==
  IF k = 0 THEN [abort |-> FALSE, blocks |-> bs]
  ELSE IF cur \notin Sectors THEN [abort |-> TRUE, blocks |-> bs]
  ELSE Walk(link, link[cur], k - 1, Append(bs, link[cur]))

FetchFrom(hdrOf, link, sector) ==
  LET h == hdrOf[sector]
      w == Walk(link, h.startSector, h.numSectors, <<>>)
  IN [abort |-> w.abort, hdr |-> h, blocks |-> w.blocks]

(* Deallocate: follow the in-memory chain; ASSERT each sector is a marked *)
(* sector, and Clear it.                                                   *)
RECURSIVE Dealloc(_, _, _, _)
Dealloc(used, blocks, next, i) ==
  IF i > Len(blocks) THEN [abort |-> FALSE, used |-> used]
  ELSE IF ~(next >= 0 /\ TestOK(used, next)) THEN [abort |-> TRUE, used |-> used]
  ELSE Dealloc(used \ {next}, blocks, blocks[i], i + 1)

\* a Deallocate whose loop starts one block late
DeallocateFromSecond(used, hdr, blocks) ==
  IF Len(blocks) # hdr.numSectors THEN [abort |-> TRUE, used |-> used]
  ELSE Dealloc(used, blocks, hdr.startSector, 2)

Deallocate(used, hdr, blocks) ==
  IF Len(blocks) # hdr.numSectors THEN [abort |-> TRUE, used |-> used]
  ELSE Dealloc(used, blocks, hdr.startSector, 1)

(* ByteToSector(offset): block offset/SectorSize; the first is            *)
(* startSector, block i > 0 is the next field of block i - 1.             *)
\* a ByteToSector without the - 1
ByteToSectorNoShift(hdr, blocks, offset) ==
  LET i == offset \div SectorSize IN
  IF i = -1 THEN hdr.startSector ELSE blocks[i + 1]

ByteToSector(hdr, blocks, offset) ==
  LET i == offset \div SectorSize - 1 IN
  IF i = -1 THEN hdr.startSector ELSE blocks[i + 1]

----------------------------------------------------------------------------
(* OpenFile::WriteAt (not in the sources, spec section 4.5): bytes at     *)
(* position pos .. pos + len - 1 go to sector ByteToSector of their       *)
(* SectorSize-byte block, at the same place within the sector.  A byte    *)
(* in the last IntSize bytes of a sector lands in that sector's next      *)
(* field; v is the int those bytes then hold.                              *)
InLinkField(offset) == offset % SectorSize >= DATA_SIZE

WriteByte(link, hdr, blocks, offset, v) ==
  IF InLinkField(offset)
  THEN [link EXCEPT ![ByteToSector(hdr, blocks, offset)] = v]
  ELSE link

=============================================================================
