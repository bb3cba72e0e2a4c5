------------------------- MODULE MCLinkedFileHeader -------------------------
(***************************************************************************)
(* The life of one file under the linked-list header, as the file system  *)
(* drives it, from every starting bitmap of a small disk:                  *)
(*   Create  createFileOrDir: FindAndSet the header sector, Allocate,      *)
(*           WriteBack (filesys.cc 424-442);                               *)
(*   Open    OpenAFile: new OpenFile fetches the header (FetchFrom);       *)
(*   Write   WriteFile_ through the open file, one byte at a time;         *)
(*   Close   CloseFile;                                                    *)
(*   Remove  returnSectorsToFreeMap: Test and Clear the header sector,     *)
(*           FetchFrom, Deallocate.                                        *)
(* SpecHeader has the header operations only; SpecData adds the writes.  *)
(***************************************************************************)
EXTENDS LinkedFileHeader

CONSTANTS
  Sizes,     \* file sizes offered to Create
  Vals,      \* ints a write can leave in the last IntSize bytes of a sector
  NoHdr,     \* a sector that holds no header record
  NULL       \* no open file

VARIABLES
  used0,     \* the bitmap the file system started from
  size,      \* the size asked of Create
  used,      \* the persistent bitmap
  hdrOf,     \* sector -> header record last written there
  link,      \* sector -> the int in its last IntSize bytes
  hsec,      \* the header sector Create took
  handle,    \* the open file: its fetched header and blocks, or NULL
  phase      \* "new", "created", "removed" or "aborted"

vars == <<used0, size, used, hdrOf, link, hsec, handle, phase>>

MCSizes == {-1, 0, 1, 2, 3, 4, 5}
MCVals == {0, NumSectors}

Init ==
  /\ used0 \in SUBSET Sectors
  /\ size \in Sizes
  /\ used = used0
  /\ hdrOf = [s \in Sectors |-> NoHdr]
  /\ link = [s \in Sectors |-> 0]
  /\ hsec = INVALID_SECTOR
  /\ handle = NULL
  /\ phase = "new"

Abort ==
  /\ phase' = "aborted"
  /\ UNCHANGED <<used0, size, used, hdrOf, link, hsec, handle>>

Create ==
  LET s == FindAndSet(used)
      r == Allocate(used \cup {s}, size)
      w == WriteBack(hdrOf, link, s, r.hdr, r.blocks)
  IN /\ phase = "new"
     /\ IF s = INVALID_SECTOR \/ size < 0 \/ ~r.ok
        THEN Abort
        ELSE /\ hsec' = s
             /\ hdrOf' = w.hdrOf
             /\ link' = w.link
             /\ used' = r.used
             /\ phase' = "created"
             /\ UNCHANGED <<used0, size, handle>>

Open ==
  LET f == FetchFrom(hdrOf, link, hsec) IN
  /\ phase = "created" /\ handle = NULL
  /\ IF f.abort THEN Abort
     ELSE /\ handle' = [hdr |-> f.hdr, blocks |-> f.blocks]
          /\ UNCHANGED <<used0, size, used, hdrOf, link, hsec, phase>>

\* WriteAt clips the write to the file length
Write(offset, v) ==
  /\ phase = "created" /\ handle # NULL
  /\ offset < handle.hdr.numBytes
  /\ link' = WriteByte(link, handle.hdr, handle.blocks, offset, v)
  /\ UNCHANGED <<used0, size, used, hdrOf, hsec, handle, phase>>

Close ==
  /\ handle # NULL
  /\ handle' = NULL
  /\ UNCHANGED <<used0, size, used, hdrOf, link, hsec, phase>>

RemoveFile ==
  LET f == FetchFrom(hdrOf, link, hsec)
      d == Deallocate(used \ {hsec}, f.hdr, f.blocks)
  IN /\ phase = "created" /\ handle = NULL
     /\ IF ~TestOK(used, hsec) \/ f.abort \/ d.abort THEN Abort
        ELSE /\ used' = d.used
             /\ phase' = "removed"
             /\ UNCHANGED <<used0, size, hdrOf, link, hsec, handle>>

Done == phase \in {"removed", "aborted"} /\ UNCHANGED vars

NextHeader == Create \/ Open \/ Close \/ RemoveFile \/ Done

NextData == NextHeader \/ \E off \in 0 .. 5, v \in Vals : Write(off, v)

SpecHeader == Init /\ [][NextHeader]_vars

SpecData == Init /\ [][NextData]_vars

----------------------------------------------------------------------------
(* The refinement mapping: the abstract map is the chain a FetchFrom of   *)
(* the header would read from disk now.                                    *)

DiskChain ==
  LET f == FetchFrom(hdrOf, link, hsec) IN
  IF f.abort THEN <<INVALID_SECTOR>> ELSE ChainOf(f.hdr, f.blocks)

AbsMap == IF phase \in {"created", "removed"} THEN DiskChain ELSE <<>>

Abs == INSTANCE AbstractFile WITH map <- AbsMap

TypeOK ==
  /\ used0 \subseteq Sectors /\ used \subseteq Sectors
  /\ hdrOf \in [Sectors -> LHeader \cup {NoHdr}]
  /\ link \in [Sectors -> Int]
  /\ hsec \in Sectors \cup {INVALID_SECTOR}
  /\ handle \in [hdr : LHeader, blocks : Seq(Int)] \cup {NULL}
  /\ phase \in {"new", "created", "removed", "aborted"}

(* Every byte of an open file is mapped by ByteToSector to the data       *)
(* sector the header's chain gives its block (spec section 8, property    *)
(* 2): block i of the open file, read through the in-memory next fields,  *)
(* is block i of the chain on disk.                                        *)
OpenFileMapsChain ==
  handle # NULL =>
    \A off \in 0 .. handle.hdr.numBytes - 1 :
       ByteToSector(handle.hdr, handle.blocks, off) = DiskChain[off \div SectorSize + 1]

(* The header operations implement AbstractFile: create takes exactly a   *)
(* header and Need(size) distinct free sectors, the chain stays put, and  *)
(* remove frees exactly those sectors.                                     *)
AbstractFileSpec == Abs!Spec

=============================================================================
