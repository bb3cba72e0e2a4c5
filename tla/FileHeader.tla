----------------------------- MODULE FileHeader -----------------------------
(***************************************************************************)
(* The multi-level file header (i-node) of code/filesys/filehdr.{h,cc}.    *)
(*                                                                         *)
(* A header occupies one sector and holds numBytes, numDataSectors and     *)
(* NUM_DIRECT sector slots.  A level-0 header points at data sectors; a    *)
(* level-L header points at level-(L-1) headers, each covering at most     *)
(* MAX_SIZE[L-1] bytes, filled left to right.                              *)
(*                                                                         *)
(* The operations are written as operators over the persistent state they *)
(* touch: the free-sector bitmap (the set of marked sectors) and the       *)
(* table of header records last written to each sector.  An ASSERT that  *)
(* fails aborts the Nachos process; such an outcome is a result record    *)
(* with abort = TRUE, and the caller discards everything it computed.     *)
(***************************************************************************)
EXTENDS Integers, FiniteSets, Sequences, TLC
LOCAL INSTANCE SequencesExt

CONSTANTS
  SectorSize,   \* bytes per sector (128 in the build)
  NumDirect,    \* header slots, (SectorSize - 2*sizeof(int))/sizeof(int)
  NumSectors    \* sectors on the disk

ASSUME SectorSize \in Nat \ {0} /\ NumDirect \in Nat \ {0, 1}
ASSUME NumSectors \in Nat \ {0}

INVALID_SECTOR == -1
LEVEL_LIMIT == 4

Sectors == 0 .. NumSectors - 1
Slots == 0 .. NumDirect - 1

\* MAX_SIZE[i] = NUM_DIRECT^(i+1) * SectorSize
MAX_SIZE == [i \in 0 .. LEVEL_LIMIT - 1 |-> NumDirect ^ (i + 1) * SectorSize]

\* divRoundUp of the Nachos utility header
divRoundUp(n, s) == (n + s - 1) \div s

Header == [numBytes : Int, numDataSectors : Int,
           dataSectors : [Slots -> Sectors \cup {INVALID_SECTOR}]]

\* The constructor's clear(): every slot INVALID_SECTOR.
NoSlots == [i \in Slots |-> INVALID_SECTOR]

----------------------------------------------------------------------------
(* PersistentBitmap operations used by the header (bitmap.cc).            *)

NumClear(used) == Cardinality(Sectors \ used)

\* FindAndSet: the lowest clear bit, or -1 when the map is full.  The caller
\* adds the returned sector to the set of marked sectors.
FindAndSet(used) ==
  IF Sectors \subseteq used THEN INVALID_SECTOR ELSE Min(Sectors \ used)

\* Bitmap::Test asserts that its argument is a sector number.
TestOK(used, s) == s \in Sectors /\ s \in used

----------------------------------------------------------------------------
(* whichLv: the smallest level whose MAX_SIZE holds fileSize; a larger    *)
(* file reaches ASSERTNOTREACHED.  TooLarge stands for that abort.         *)

TooLarge == LEVEL_LIMIT

\* a level test with < in place of <=: a size equal to MAX_SIZE[i] is
\* given level i + 1
whichLvStrict(fileSize) ==
  IF fileSize > MAX_SIZE[LEVEL_LIMIT - 1] THEN TooLarge
  ELSE Min({i \in 0 .. LEVEL_LIMIT - 1 : fileSize < MAX_SIZE[i]})

whichLv(fileSize) ==
  IF fileSize > MAX_SIZE[LEVEL_LIMIT - 1] THEN TooLarge
  ELSE Min({i \in 0 .. LEVEL_LIMIT - 1 : fileSize <= MAX_SIZE[i]})

----------------------------------------------------------------------------
(* Allocate(freeMap, fileSize, pSectors).  The result record carries      *)
(*   abort  -- an ASSERT failed;                                           *)
(*   ok     -- the value Allocate returned;                                *)
(*   used   -- the in-memory bitmap afterwards;                            *)
(*   top    -- this header;  hdrs -- the child headers by sector;          *)
(*   map    -- this header's in-core dataSectorMapping.                    *)
(* A child's return value is ignored by its parent (the code drops it).   *)

AbortResult(used, hdr) ==
  [abort |-> TRUE, ok |-> FALSE, used |-> used, top |-> hdr,
   hdrs |-> <<>>, map |-> <<>>]

RECURSIVE Allocate(_, _), AllocLeaf(_, _, _), AllocChildren(_, _, _, _, _, _)
RECURSIVE AllocLeafNoSet(_, _, _), AllocChildrenPrepend(_, _, _, _, _, _)

\* a leaf loop that stores FindAndSet's sector without marking it
AllocLeafNoSet(used, hdr, i) ==
  IF i >= hdr.numDataSectors
  THEN [abort |-> FALSE, ok |-> TRUE, used |-> used, top |-> hdr, hdrs |-> <<>>,
        map |-> [j \in 1 .. hdr.numDataSectors |-> hdr.dataSectors[j - 1]]]
  ELSE LET s == FindAndSet(used) IN
       IF s = INVALID_SECTOR THEN AbortResult(used, hdr)
       ELSE AllocLeafNoSet(used, [hdr EXCEPT !.dataSectors[i] = s], i + 1)

\* level 0: numDataSectors calls of FindAndSet, in slot order
AllocLeaf(used, hdr, i) ==
  IF i >= hdr.numDataSectors
  THEN [abort |-> FALSE, ok |-> TRUE, used |-> used, top |-> hdr, hdrs |-> <<>>,
        map |-> [j \in 1 .. hdr.numDataSectors |-> hdr.dataSectors[j - 1]]]
  ELSE LET s == FindAndSet(used) IN
       IF s = INVALID_SECTOR THEN AbortResult(used, hdr)
       ELSE AllocLeaf(used \cup {s}, [hdr EXCEPT !.dataSectors[i] = s], i + 1)

\* a child loop that puts each child's mapping in front of the earlier ones
AllocChildrenPrepend(used, hdr, fileSize, i, hdrs, map) ==
  IF fileSize <= 0
  THEN [abort |-> FALSE, ok |-> TRUE, used |-> used, top |-> hdr,
        hdrs |-> hdrs, map |-> map]
  ELSE LET s   == FindAndSet(used)
           sub == IF fileSize < MAX_SIZE[whichLv(hdr.numBytes) - 1]
                  THEN fileSize ELSE MAX_SIZE[whichLv(hdr.numBytes) - 1]
           c   == Allocate(used \cup {s}, sub)
       IN IF s = INVALID_SECTOR THEN AbortResult(used, hdr)
          ELSE IF c.abort THEN AbortResult(c.used, hdr)
          ELSE AllocChildrenPrepend(c.used, [hdr EXCEPT !.dataSectors[i] = s],
                                    fileSize - sub, i + 1,
                                    hdrs @@ c.hdrs @@ (s :> c.top), c.map \o map)

\* level > 0: one header sector per chunk of at most MAX_SIZE[lv-1] bytes,
\* then the recursive Allocate of that chunk, whose result is not checked
AllocChildren(used, hdr, fileSize, i, hdrs, map) ==
  IF fileSize <= 0
  THEN [abort |-> FALSE, ok |-> TRUE, used |-> used, top |-> hdr,
        hdrs |-> hdrs, map |-> map]
  ELSE LET s   == FindAndSet(used)
           sub == IF fileSize < MAX_SIZE[whichLv(hdr.numBytes) - 1]
                  THEN fileSize ELSE MAX_SIZE[whichLv(hdr.numBytes) - 1]
           c   == Allocate(used \cup {s}, sub)
       IN IF s = INVALID_SECTOR THEN AbortResult(used, hdr)
          ELSE IF c.abort THEN AbortResult(c.used, hdr)
          ELSE AllocChildren(c.used, [hdr EXCEPT !.dataSectors[i] = s],
                             fileSize - sub, i + 1,
                             hdrs @@ c.hdrs @@ (s :> c.top), map \o c.map)

Allocate(used, fileSize) ==
  LET hdr == [numBytes |-> fileSize,
              numDataSectors |-> divRoundUp(fileSize, SectorSize),
              dataSectors |-> NoSlots]
  IN IF NumClear(used) < hdr.numDataSectors
     THEN [abort |-> FALSE, ok |-> FALSE, used |-> used, top |-> hdr,
           hdrs |-> <<>>, map |-> <<>>]
     ELSE IF whichLv(fileSize) = TooLarge THEN AbortResult(used, hdr)
     ELSE IF whichLv(fileSize) = 0 THEN AllocLeaf(used, hdr, 0)
     ELSE AllocChildren(used, hdr, fileSize, 0, <<>>, <<>>)

----------------------------------------------------------------------------
(* WriteBack(sector): the header itself, then every child header.  The    *)
(* disk is the table hdrOf: sector -> the header record last written.     *)

WriteBack(hdrOf, sector, res) ==
  (sector :> res.top) @@ res.hdrs @@ hdrOf

\* The child header sectors: the slots before the first INVALID_SECTOR.
ChildSectors(h) ==
  LET n == Cardinality({i \in Slots :
                          \A j \in 0 .. i : h.dataSectors[j] # INVALID_SECTOR})
  IN [k \in 1 .. n |-> h.dataSectors[k - 1]]

(* FetchFrom(sector): rebuild dataSectorMapping by a left-to-right walk.  *)
RECURSIVE FetchFrom(_, _)
FetchFrom(hdrOf, sector) ==
  LET h == hdrOf[sector] IN
  IF whichLv(h.numBytes) = 0
  THEN [j \in 1 .. h.numDataSectors |-> h.dataSectors[j - 1]]
  ELSE FlattenSeq([k \in 1 .. Len(ChildSectors(h)) |->
                     FetchFrom(hdrOf, ChildSectors(h)[k])])

\* The header sectors of the tree rooted at sector (the root included).
RECURSIVE HeaderTree(_, _)
HeaderTree(hdrOf, sector) ==
  LET h == hdrOf[sector] IN
  {sector} \cup
    IF whichLv(h.numBytes) = 0 THEN {}
    ELSE UNION {HeaderTree(hdrOf, c) : c \in ToSet(ChildSectors(h))}

----------------------------------------------------------------------------
(* Deallocate: a level-0 header Tests and Clears each data sector; a      *)
(* higher header Deallocates each child.  The child's own header sector   *)
(* is not cleared.                                                         *)

RECURSIVE Deallocate(_, _, _), DeallocLeaf(_, _, _), DeallocChildren(_, _, _, _)

DeallocLeaf(used, h, i) ==
  IF i >= h.numDataSectors THEN [abort |-> FALSE, used |-> used]
  ELSE IF ~TestOK(used, h.dataSectors[i]) THEN [abort |-> TRUE, used |-> used]
  ELSE DeallocLeaf(used \ {h.dataSectors[i]}, h, i + 1)

DeallocChildren(hdrOf, used, cs, k) ==
  IF k > Len(cs) THEN [abort |-> FALSE, used |-> used]
  ELSE LET r == Deallocate(hdrOf, used, cs[k]) IN
       IF r.abort THEN r ELSE DeallocChildren(hdrOf, r.used, cs, k + 1)

Deallocate(hdrOf, used, sector) ==
  LET h == hdrOf[sector] IN
  IF whichLv(h.numBytes) = 0 THEN DeallocLeaf(used, h, 0)
  ELSE DeallocChildren(hdrOf, used, ChildSectors(h), 1)

\* ByteToSector asserts 0 <= offset/SectorSize < numDataSectors = |map|.
ByteToSectorOK(map, h, offset) ==
  LET ls == offset \div SectorSize IN
  /\ 0 <= ls /\ ls < Len(map) /\ Len(map) = h.numDataSectors

ByteToSector(map, offset) == map[offset \div SectorSize + 1]

=============================================================================
