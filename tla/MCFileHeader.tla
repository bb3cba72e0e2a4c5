---------------------------- MODULE MCFileHeader ----------------------------
(***************************************************************************)
(* Checks the header operations of FileHeader over every starting bitmap  *)
(* of a small disk and every file size of a small set: the life of one    *)
(* file as FileSystem::createFileOrDir and FileSystem::Remove drive it.    *)
(*   Create: FindAndSet the header sector, Allocate, WriteBack.            *)
(*   Remove: Test and Clear the header sector, FetchFrom, Deallocate.      *)
(***************************************************************************)
EXTENDS FileHeader
LOCAL INSTANCE SequencesExt

CONSTANTS
  Sizes,     \* file sizes offered to Create
  NoHdr      \* a sector that holds no header record

VARIABLES
  used0,     \* the bitmap the file system started from
  size,      \* the size asked of Create
  used,      \* the persistent bitmap
  hdrOf,     \* sector -> header record last written there
  hsec,      \* the header sector Create took
  res,       \* the in-core result of Allocate
  phase      \* "new", "created", "removed" or "aborted"

vars == <<used0, size, used, hdrOf, hsec, res, phase>>

Phases == {"new", "created", "removed", "aborted"}

\* the sizes of the check: a negative one, both sides of every level
\* boundary (MAX_SIZE = 4, 8, 16, 32 with the cfg's constants), too large
MCSizes == {-1, 0, 1, 3, 4, 5, 8, 9, 16, 17, 33}

Init ==
  /\ used0 \in SUBSET Sectors
  /\ size \in Sizes
  /\ used = used0
  /\ hdrOf = [s \in Sectors |-> NoHdr]
  /\ hsec = INVALID_SECTOR
  /\ res = AbortResult(used0, NoHdr)
  /\ phase = "new"

\* a create without ASSERT(sector >= 0) on the header sector
CreateNoSectorCheck ==
  LET s == FindAndSet(used)
      r == Allocate(used \cup {s}, size)
  IN /\ phase = "new"
     /\ IF size < 0 \/ r.abort \/ ~r.ok
        THEN /\ phase' = "aborted"
             /\ UNCHANGED <<used, hdrOf, hsec, res>>
        ELSE /\ hsec' = s
             /\ res' = r
             /\ hdrOf' = WriteBack(hdrOf, s, r)
             /\ used' = r.used
             /\ phase' = "created"
     /\ UNCHANGED <<used0, size>>

\* createFileOrDir, steps 2-4, for a file
Create ==
  LET s == FindAndSet(used)
      r == Allocate(used \cup {s}, size)
  IN /\ phase = "new"
     /\ IF s = INVALID_SECTOR \/ size < 0 \/ r.abort \/ ~r.ok
        THEN /\ phase' = "aborted"
             /\ UNCHANGED <<used, hdrOf, hsec, res>>
        ELSE /\ hsec' = s
             /\ res' = r
             /\ hdrOf' = WriteBack(hdrOf, s, r)
             /\ used' = r.used
             /\ phase' = "created"
     /\ UNCHANGED <<used0, size>>

\* Remove(name, FALSE) on that file: returnSectorsToFreeMap
RemoveFile ==
  LET r == Deallocate(hdrOf, used \ {hsec}, hsec) IN
  /\ phase = "created"
  /\ IF ~TestOK(used, hsec) \/ r.abort
     THEN phase' = "aborted" /\ UNCHANGED used
     ELSE phase' = "removed" /\ used' = r.used
  /\ UNCHANGED <<used0, size, hdrOf, hsec, res>>

Done == phase \in {"removed", "aborted"} /\ UNCHANGED vars

Next == Create \/ RemoveFile \/ Done

Spec == Init /\ [][Next]_vars

----------------------------------------------------------------------------
(* Reference definitions, written from the layout of spec section 3 and   *)
(* independently of whichLv and Allocate.                                  *)

\* bytes a tree of depth l can hold
RECURSIVE Capacity(_)
Capacity(l) == IF l = 0 THEN NumDirect * SectorSize
               ELSE NumDirect * Capacity(l - 1)

RefLevel(n) == CHOOSE l \in 0 .. 3 :
                 n <= Capacity(l) /\ (l = 0 \/ n > Capacity(l - 1))

\* sectors a file of n bytes needs below its own header: data sectors and
\* one header per non-empty chunk of every internal level
RECURSIVE Cost(_)
Cost(n) ==
  IF RefLevel(n) = 0 THEN divRoundUp(n, SectorSize)
  ELSE LET chunk == Capacity(RefLevel(n) - 1)
           full  == n \div chunk
           rest  == n - full * chunk
       IN full * (1 + Cost(chunk)) + (IF rest > 0 THEN 1 + Cost(rest) ELSE 0)

\* the k lowest clear sectors of a bitmap
LowestFree(u, k) ==
  {s \in Sectors \ u : Cardinality({t \in Sectors \ u : t < s}) < k}

Fits == size >= 0 /\ size <= Capacity(3)
        /\ NumClear(used0) >= 1 + Cost(size)

----------------------------------------------------------------------------
TypeOK ==
  /\ used0 \subseteq Sectors /\ used \subseteq Sectors
  /\ size \in Sizes
  /\ hdrOf \in [Sectors -> Header \cup {NoHdr}]
  /\ hsec \in Sectors \cup {INVALID_SECTOR}
  /\ phase \in Phases

(* When the free map can hold the whole tree (spec section 9, option a),  *)
(* Create (FindAndSet + Allocate) neither aborts nor returns FALSE, and   *)
(* it takes exactly the header and the Cost(size) sectors of the tree,     *)
(* the lowest clear ones, as repeated FindAndSet does.                     *)
AllocExactCost ==
  (phase \in {"created", "aborted"} /\ Fits) =>
     /\ phase = "created"
     /\ res.used \cup {hsec} = used0 \cup LowestFree(used0, 1 + Cost(size))

(* Round trip: on a successful create the mapping FetchFrom rebuilds from *)
(* the headers WriteBack stored equals the in-core dataSectorMapping that *)
(* Allocate built, it has one data sector per logical sector, and no data  *)
(* sector is also a header sector of the tree.                             *)
RoundTrip ==
  (phase = "created" /\ Fits) =>
     LET m == FetchFrom(hdrOf, hsec) IN
     /\ m = res.map
     /\ Len(m) = divRoundUp(size, SectorSize)
     /\ Cardinality(ToSet(m)) = Len(m)
     /\ ToSet(m) \cap HeaderTree(hdrOf, hsec) = {}

(* Whenever Create returns TRUE, ByteToSector is defined for every byte   *)
(* of the file and yields a marked sector (spec section 8, property 2).    *)
CreatedHeaderComplete ==
  phase = "created" =>
     LET m == FetchFrom(hdrOf, hsec) IN
     /\ \A off \in 0 .. size - 1 :
           ByteToSectorOK(m, hdrOf[hsec], off) /\ ByteToSector(m, off) \in used

=============================================================================
