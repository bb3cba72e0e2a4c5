------------------------------ MODULE FileSys ------------------------------
(***************************************************************************)
(* The file-system facade of code/filesys/filesys.cc: path resolution     *)
(* (FileFinder), Create/Mkdir (createFileOrDir), Remove and               *)
(* recursivelyRemove, OpenAFile/CloseFile on the open-file table, and the *)
(* FileSystem constructor (format, or reopen after a restart).            *)
(*                                                                         *)
(* Persistent state: the free bitmap, the header record last written to   *)
(* each sector, and the entry table of each directory file (keyed by the  *)
(* directory's header sector).  In-core state: the open-file table.       *)
(*                                                                         *)
(* Every operation loads the bitmap and directories, works in memory and  *)
(* writes back at its end; all of its ASSERTs precede its first write, so *)
(* an operation is one step, and a failed ASSERT is a step that changes   *)
(* nothing on disk and halts the process until the next restart.         *)
(***************************************************************************)
EXTENDS FileHeader
LOCAL INSTANCE Functions

CONSTANTS
  Names,          \* file-name components
  NoName,         \* the name field of an entry never written
  Paths,          \* paths offered to the operations: absolute ones as
                  \* sequences of names, and Rel
  Rel,            \* a path without the leading "/", e.g. "a"
  PathLimit,      \* paths at least this long are refused (PATH_NAME_MAX_LEN)
  NumDirEntries,  \* entries of a directory table
  DirEntrySize,   \* bytes of a DirectoryEntry
  FILE_OPEN_LIMIT,
  Sizes,          \* initial sizes offered to Create
  NoHdr,          \* a sector never written with a header
  NULL            \* an empty open-file table slot

ASSUME Paths \subseteq Seq(Names) \cup {Rel} /\ <<>> \in Paths
ASSUME NumDirEntries \in Nat \ {0} /\ FILE_OPEN_LIMIT \in Nat \ {0}

FreeMapSector == 0
DirectorySector == 1
FILE == FALSE
DIR == TRUE
FreeMapFileSize == NumSectors \div 8
DirectoryFileSize == DirEntrySize * NumDirEntries

\* strlen of the path string: "/" for the root, "a" for Rel, else
\* "/n1/n2..." with one-character names
PathLen(p) == IF p \in {<<>>, Rel} THEN 1 ELSE 2 * Len(p)

Entries == 0 .. NumDirEntries - 1
Entry == [isDir : BOOLEAN, inUse : BOOLEAN, sector : Sectors,
          name : Names \cup {NoName}]
Table == [Entries -> Entry]
OpenIds == 0 .. FILE_OPEN_LIMIT - 1
Handle == [sector : Sectors, map : Seq(Sectors \cup {INVALID_SECTOR})]

VARIABLES
  used,       \* the persistent free bitmap: the marked sectors
  hdrOf,      \* sector -> header record last written there
  dirOf,      \* header sector of a directory -> its entry table
  openTable,  \* OpenFileTable: id -> open file (header sector, mapping)
  halted,     \* an ASSERT failed; the process is gone until a restart
  ret         \* the last facade call and the value it returned

vars == <<used, hdrOf, dirOf, openTable, halted, ret>>

NoRet == [op |-> "none", path |-> <<>>, isDir |-> FALSE, ok |-> FALSE]

----------------------------------------------------------------------------
(* Directory (directory.cc is not in the sources; written from spec 4.4). *)

\* Directory(size): a table with no entry in use
EmptyTable == [i \in Entries |->
                [isDir |-> FALSE, inUse |-> FALSE, sector |-> 0, name |-> NoName]]

FindIndex(tab, name, isDir) ==
  LET hits == {i \in Entries : tab[i].inUse /\ tab[i].name = name
                                /\ tab[i].isDir = isDir}
  IN IF hits = {} THEN -1 ELSE CHOOSE i \in hits : \A j \in hits : i <= j

Find(tab, name, isDir) ==
  LET i == FindIndex(tab, name, isDir) IN
  IF i = -1 THEN INVALID_SECTOR ELSE tab[i].sector

\* Add: the first slot not in use; FALSE when the table is full
Add(tab, name, sector, isDir) ==
  LET free == {i \in Entries : ~tab[i].inUse} IN
  IF free = {} THEN [ok |-> FALSE, tab |-> tab]
  ELSE LET i == CHOOSE i \in free : \A j \in free : i <= j IN
       [ok |-> TRUE,
        tab |-> [tab EXCEPT ![i] = [isDir |-> isDir, inUse |-> TRUE,
                                    sector |-> sector, name |-> name]]]

\* Remove: clear inUse of the matching entry (a tombstone)
DirRemove(tab, name, isDir) ==
  LET i == FindIndex(tab, name, isDir) IN
  IF i = -1 THEN [ok |-> FALSE, tab |-> tab]
  ELSE [ok |-> TRUE, tab |-> [tab EXCEPT ![i].inUse = FALSE]]

(* RemoveAll(freeMap): for every entry in use, in table order, a          *)
(* sub-directory is emptied first; then the entry's header is fetched,    *)
(* its data Deallocated (filehdr.cc) and its header sector Cleared.       *)
RECURSIVE RemoveAll(_, _), RemoveEntries(_, _, _)

RemoveEntries(tab, u, i) ==
  IF i > NumDirEntries - 1 THEN [abort |-> FALSE, used |-> u]
  ELSE IF ~tab[i].inUse THEN RemoveEntries(tab, u, i + 1)
  ELSE LET s   == tab[i].sector
           sub == IF tab[i].isDir THEN RemoveAll(dirOf[s], u)
                  ELSE [abort |-> FALSE, used |-> u]
           d   == Deallocate(hdrOf, sub.used, s)
       IN IF sub.abort THEN sub
          ELSE IF d.abort THEN d
          ELSE RemoveEntries(tab, d.used \ {s}, i + 1)

RemoveAll(tab, u) == RemoveEntries(tab, u, 0)

----------------------------------------------------------------------------
(* FileFinder::find(name, isDir, root).  The result: exist, pFhSector,    *)
(* fhSector, and abort for the ASSERT(isDir) on the path "/".              *)

RECURSIVE FindFrom(_, _, _, _)
FindFrom(p, isDir, i, fh) ==
  LET s == Find(dirOf[fh], p[i], IF i = Len(p) THEN isDir ELSE DIR) IN
  IF s = INVALID_SECTOR
  THEN [abort |-> FALSE, exist |-> FALSE, pFh |-> fh, fh |-> INVALID_SECTOR]
  ELSE IF i = Len(p)
  THEN [abort |-> FALSE, exist |-> TRUE, pFh |-> fh, fh |-> s]
  ELSE FindFrom(p, isDir, i + 1, s)

FileFinder(p, isDir) ==
  IF PathLen(p) >= PathLimit
  THEN [abort |-> FALSE, exist |-> FALSE, pFh |-> INVALID_SECTOR,
        fh |-> INVALID_SECTOR]
  ELSE IF p = <<>>
  THEN [abort |-> ~isDir, exist |-> TRUE, pFh |-> INVALID_SECTOR,
        fh |-> DirectorySector]
  \* one component: the loop from i = 1 never runs, and exist is set
  \* with both sectors still INVALID_SECTOR
  ELSE IF p = Rel
  THEN [abort |-> FALSE, exist |-> TRUE, pFh |-> INVALID_SECTOR,
        fh |-> INVALID_SECTOR]
  ELSE FindFrom(p, isDir, 1, DirectorySector)

filename(p) == IF p = <<>> THEN NoName ELSE p[Len(p)]

----------------------------------------------------------------------------
(* FileSystem(format): with format, mark sectors 0 and 1, Allocate the    *)
(* bitmap file and the root directory file, write both headers, an empty  *)
(* root table and the bitmap.  Both Allocates are ASSERTed.               *)

Format(oldHdrOf) ==
  LET m == Allocate({FreeMapSector, DirectorySector}, FreeMapFileSize)
      d == Allocate(m.used, DirectoryFileSize)
  IN [ok    |-> ~m.abort /\ m.ok /\ ~d.abort /\ d.ok,
      used  |-> d.used,
      hdrOf |-> WriteBack(WriteBack(oldHdrOf, FreeMapSector, m),
                          DirectorySector, d)]

NoOpenFiles == [id \in OpenIds |-> NULL]

Init ==
  LET f == Format([s \in Sectors |-> NoHdr]) IN
  /\ used = f.used
  /\ hdrOf = f.hdrOf
  \* a directory file never written reads as zeros: no entry in use
  /\ dirOf = [s \in Sectors |-> EmptyTable]
  /\ openTable = NoOpenFiles
  /\ halted = FALSE
  /\ ret = NoRet

Return(op, p, isDir, ok) ==
  ret' = [op |-> op, path |-> p, isDir |-> isDir, ok |-> ok]

\* a failed ASSERT in the call op(p): Abort() ends the process before
\* anything is written; the call never returns
Halt(op, p, isDir) ==
  /\ halted' = TRUE
  /\ ret' = [op |-> op, path |-> p, isDir |-> isDir, ok |-> FALSE]
  /\ UNCHANGED <<used, hdrOf, dirOf, openTable>>

----------------------------------------------------------------------------
(* A call that gets past its ASSERTs writes a few sectors, one after the  *)
(* other.  CallWrites below give the disk after each write, in the order  *)
(* of the code; the call commits all of them, or the machine crashes      *)
(* after the first k (k < AllWrites) and Nachos is started again later.   *)

Disk == [used |-> used, hdrOf |-> hdrOf, dirOf |-> dirOf]

\* more than the writes of any call
AllWrites == 4

WriteUpTo(ws, k, op, p, isDir) ==
  LET d == ws[IF k < Len(ws) THEN k ELSE Len(ws)] IN
  /\ used' = d.used /\ hdrOf' = d.hdrOf /\ dirOf' = d.dirOf
  /\ IF k < Len(ws)
     THEN /\ halted' = TRUE
          /\ ret' = [op |-> op, path |-> p, isDir |-> isDir, ok |-> FALSE]
     ELSE /\ Return(op, p, isDir, TRUE)
          /\ UNCHANGED halted
  /\ UNCHANGED openTable

----------------------------------------------------------------------------
(* createFileOrDir(name, isDir, initialSize), for Create and Mkdir.       *)
(* The name is looked up with the caller's type only.  Then FindAndSet a  *)
(* header sector, Add the name to the parent, Allocate the data, and      *)
(* write the header, the parent table, the bitmap and (Mkdir) an empty    *)
(* table, all in that order.                                              *)

\* the ASSERTs, without ASSERT(sector >= 0) after FindAndSet
CreateAssertFailsNoSectorCheck(f, sector, a, size, r) ==
  f.pFh = INVALID_SECTOR \/ ~a.ok \/ size < 0 \/ r.abort \/ ~r.ok

\* the ASSERTs: parent found, a free sector, room in the parent, a size
\* >= 0, and Allocate
CreateAssertFails(f, sector, a, size, r) ==
  \/ f.pFh = INVALID_SECTOR \/ sector = INVALID_SECTOR
  \/ ~a.ok \/ size < 0 \/ r.abort \/ ~r.ok

CreateWrites(pFh, tab, sector, isDir, r) ==
  LET d1 == [Disk EXCEPT !.hdrOf = WriteBack(hdrOf, sector, r)]
      d2 == [d1 EXCEPT !.dirOf = [dirOf EXCEPT ![pFh] = tab]]
      d3 == [d2 EXCEPT !.used = r.used]
  IN IF isDir
     THEN <<d1, d2, d3, [d3 EXCEPT !.dirOf = [@ EXCEPT ![sector] = EmptyTable]]>>
     ELSE <<d1, d2, d3>>

createFileOrDir(p, isDir, initialSize, k) ==
  LET f      == FileFinder(p, isDir)
      sector == FindAndSet(used)
      a      == Add(dirOf[f.pFh], filename(p), sector, isDir)
      size   == IF isDir THEN DirectoryFileSize ELSE initialSize
      r      == Allocate(used \cup {sector}, size)
      op     == IF isDir THEN "mkdir" ELSE "create"
  IN /\ ~halted
     /\ \/ f.abort /\ Halt(op, p, isDir)
        \/ /\ ~f.abort /\ f.exist
           /\ Return(op, p, isDir, FALSE)
           /\ UNCHANGED <<used, hdrOf, dirOf, openTable, halted>>
        \/ /\ ~f.abort /\ ~f.exist
           /\ IF CreateAssertFails(f, sector, a, size, r)
              THEN Halt(op, p, isDir)
              ELSE WriteUpTo(CreateWrites(f.pFh, a.tab, sector, isDir, r),
                             k, op, p, isDir)

Create(p, initialSize) == createFileOrDir(p, FILE, initialSize, AllWrites)

Mkdir(p) == createFileOrDir(p, DIR, -1, AllWrites)

----------------------------------------------------------------------------
(* Remove(name, FALSE): find the file; returnSectorsToFreeMap (Test and   *)
(* Clear its header sector, FetchFrom, Deallocate); Remove the entry from *)
(* the parent (ASSERTed); write the bitmap, then the parent.              *)

\* returnSectorsToFreeMap without freeMap->Clear(fhSector)
returnSectorsToFreeMapNoClear(fh) ==
  IF ~TestOK(used, fh) THEN [abort |-> TRUE, used |-> used]
  ELSE Deallocate(hdrOf, used, fh)

returnSectorsToFreeMap(fh) ==
  IF ~TestOK(used, fh) THEN [abort |-> TRUE, used |-> used]
  ELSE Deallocate(hdrOf, used \ {fh}, fh)

RemoveSingle(p, op, k) ==
  LET f  == FileFinder(p, FILE)
      d  == returnSectorsToFreeMap(f.fh)
      rm == DirRemove(dirOf[f.pFh], filename(p), FILE)
      d1 == [Disk EXCEPT !.used = d.used]
  IN \/ f.abort /\ Halt(op, p, FILE)
     \/ /\ ~f.abort /\ ~f.exist
        /\ Return(op, p, FILE, FALSE)
        /\ UNCHANGED <<used, hdrOf, dirOf, openTable, halted>>
     \/ /\ ~f.abort /\ f.exist
        /\ IF d.abort \/ ~rm.ok THEN Halt(op, p, FILE)
           ELSE WriteUpTo(<<d1, [d1 EXCEPT !.dirOf = [dirOf EXCEPT ![f.pFh] = rm.tab]]>>,
                          k, op, p, FILE)

\* a recursivelyRemove that frees the sectors under the directory but
\* writes back the table it loaded, entries still in use
recursivelyRemoveKeepTable(p, k) ==
  LET f == FileFinder(p, DIR)
      r == RemoveAll(dirOf[f.fh], used)
  IN \/ ~f.exist /\ RemoveSingle(p, "rremove", k)
     \/ /\ f.exist
        /\ IF f.fh = INVALID_SECTOR \/ r.abort THEN Halt("rremove", p, DIR)
           ELSE WriteUpTo(<<Disk, [Disk EXCEPT !.used = r.used]>>, k, "rremove", p, DIR)

(* recursivelyRemove(name): a path that is no directory falls back to    *)
(* Remove(name, FALSE); otherwise open the directory (an fhSector of     *)
(* INVALID_SECTOR fails the disk's ASSERT), RemoveAll (ASSERTed), then    *)
(* write the emptied table and the bitmap.  The directory itself stays   *)
(* in its parent.                                                         *)
recursivelyRemove(p, k) ==
  LET f   == FileFinder(p, DIR)
      r   == RemoveAll(dirOf[f.fh], used)
      tab == dirOf[f.fh]
      d1  == [Disk EXCEPT !.dirOf = [dirOf EXCEPT ![f.fh] =
                            [i \in Entries |-> [tab[i] EXCEPT !.inUse = FALSE]]]]
  IN \/ ~f.exist /\ RemoveSingle(p, "rremove", k)
     \/ /\ f.exist
        /\ IF f.fh = INVALID_SECTOR \/ r.abort THEN Halt("rremove", p, DIR)
           ELSE WriteUpTo(<<d1, [d1 EXCEPT !.used = r.used]>>, k, "rremove", p, DIR)

Remove(p, recursive) ==
  /\ ~halted
  /\ IF recursive THEN recursivelyRemove(p, AllWrites)
     ELSE RemoveSingle(p, "remove", AllWrites)

----------------------------------------------------------------------------
(* OpenAFile(name): the lowest free id, or -1; Open tries the name as a   *)
(* file, then as a directory, and ASSERTs that it exists; new OpenFile    *)
(* fetches the header and its mapping into memory.                        *)

\* Open(name): the header sector of the name as a file, else as a
\* directory; INVALID_SECTOR where ASSERT(exist && fhSector >= 0) fails
Open(p) ==
  LET f1 == FileFinder(p, FILE)
      f2 == FileFinder(p, DIR)
      fh == IF f1.exist THEN f1.fh ELSE f2.fh
  IN IF f1.abort \/ (~f1.exist /\ ~f2.exist) \/ fh < 0 THEN INVALID_SECTOR ELSE fh

OpenAFile(p) ==
  LET free == {id \in OpenIds : openTable[id] = NULL}
      id   == CHOOSE i \in free : \A j \in free : i <= j
      fh   == Open(p)
  IN /\ ~halted
     /\ \/ /\ free = {}
           /\ Return("open", p, FILE, FALSE)
           /\ UNCHANGED <<used, hdrOf, dirOf, openTable, halted>>
        \/ /\ free # {}
           /\ IF fh = INVALID_SECTOR THEN Halt("open", p, FILE)
              ELSE /\ openTable' = [openTable EXCEPT ![id] =
                                      [sector |-> fh, map |-> FetchFrom(hdrOf, fh)]]
                   /\ Return("open", p, FILE, TRUE)
                   /\ UNCHANGED <<used, hdrOf, dirOf, halted>>

isValidFileId(id) ==
  id >= 0 /\ id < FILE_OPEN_LIMIT /\ openTable[id] # NULL

(* WriteFile_ and ReadFile: with a non-null buffer, a size >= 0 and a     *)
(* valid id, the open file moves the bytes (file contents are not         *)
(* modelled) and the count is returned; otherwise -1.                     *)
WriteFile_(n, id) ==
  /\ ~halted
  /\ Return("write", <<>>, FILE, n >= 0 /\ isValidFileId(id))
  /\ UNCHANGED <<used, hdrOf, dirOf, openTable, halted>>

ReadFile(n, id) ==
  /\ ~halted
  /\ Return("read", <<>>, FILE, n >= 0 /\ isValidFileId(id))
  /\ UNCHANGED <<used, hdrOf, dirOf, openTable, halted>>

CloseFile(id) ==
  /\ ~halted
  /\ IF isValidFileId(id)
     THEN openTable' = [openTable EXCEPT ![id] = NULL]
     ELSE UNCHANGED openTable
  /\ Return("close", <<>>, FILE, isValidFileId(id))
  /\ UNCHANGED <<used, hdrOf, dirOf, halted>>

(* List(name, recursive): a path that is no directory lists nothing;     *)
(* otherwise ASSERT(fhSector != INVALID_SECTOR), fetch the table and      *)
(* print it (List or RecursivelyList print only).                         *)
List(p) ==
  LET f == FileFinder(p, DIR) IN
  /\ ~halted
  /\ IF f.exist /\ f.fh = INVALID_SECTOR THEN Halt("list", p, DIR)
     ELSE /\ Return("list", p, DIR, f.exist)
          /\ UNCHANGED <<used, hdrOf, dirOf, openTable, halted>>

(* PrintHeader(name): find the name as a directory, then as a file;      *)
(* ASSERT(fhSector != INVALID_SECTOR); FetchFrom and Print(FALSE), which  *)
(* prints the sizes of the header tree only.                              *)
PrintHeader(p) ==
  LET f1 == FileFinder(p, DIR)
      f2 == FileFinder(p, FILE)
      fh == IF f1.exist THEN f1.fh ELSE f2.fh
  IN /\ ~halted
     /\ IF fh = INVALID_SECTOR
        THEN Halt("printheader", p, DIR)
        ELSE /\ Return("printheader", p, DIR, TRUE)
             /\ UNCHANGED <<used, hdrOf, dirOf, openTable, halted>>

(* The process ends (Halt, or an ASSERT) and Nachos is started again:    *)
(* FileSystem(format) with an empty open-file table.                      *)
Restart(format) ==
  LET f == Format(hdrOf) IN
  /\ IF format
     THEN /\ used' = f.used
          /\ hdrOf' = f.hdrOf
          /\ dirOf' = [dirOf EXCEPT ![DirectorySector] = EmptyTable]
     ELSE UNCHANGED <<used, hdrOf, dirOf>>
  /\ openTable' = NoOpenFiles
  /\ halted' = FALSE
  /\ ret' = NoRet

Next ==
  \/ \E p \in Paths, n \in Sizes : Create(p, n)
  \/ \E p \in Paths : Mkdir(p)
  \/ \E p \in Paths, r \in BOOLEAN : Remove(p, r)
  \/ \E p \in Paths : OpenAFile(p)
  \/ \E p \in Paths : List(p) \/ PrintHeader(p)
  \/ \E id \in -1 .. FILE_OPEN_LIMIT : CloseFile(id)
  \/ \E n \in {-1, 1}, id \in -1 .. FILE_OPEN_LIMIT : WriteFile_(n, id) \/ ReadFile(n, id)
  \/ \E format \in BOOLEAN : Restart(format)

Spec == Init /\ [][Next]_vars

(* The machine stops between two sector writes of a create, mkdir,       *)
(* remove or recursive remove: the sectors written so far stay on disk,   *)
(* and the process is gone until a restart.                               *)
Crash ==
  /\ ~halted
  /\ \E k \in 1 .. AllWrites - 1 :
       \/ \E p \in Paths, n \in Sizes : createFileOrDir(p, FILE, n, k)
       \/ \E p \in Paths : createFileOrDir(p, DIR, -1, k)
       \/ \E p \in Paths : RemoveSingle(p, "remove", k) \/ recursivelyRemove(p, k)
  /\ halted'

SpecCrash == Init /\ [][Next \/ Crash]_vars

----------------------------------------------------------------------------
(* What the disk holds: the objects reachable from the root.              *)

DirChildren(d) ==
  {dirOf[d][i].sector : i \in {j \in Entries : dirOf[d][j].inUse /\ dirOf[d][j].isDir}}

RECURSIVE ReachDirs(_)
ReachDirs(S) ==
  LET T == S \cup UNION {DirChildren(d) : d \in S} IN
  IF T = S THEN S ELSE ReachDirs(T)

LiveDirs == ReachDirs({DirectorySector})

\* owners of sectors: the two system files and every entry in use of a
\* reachable directory, as <<directory sector, entry index>>
Owners == {<<FreeMapSector, -1>>, <<DirectorySector, -1>>}
          \cup {<<d, i>> \in LiveDirs \X Entries : dirOf[d][i].inUse}

Target(o) == IF o[2] = -1 THEN o[1] ELSE dirOf[o[1]][o[2]].sector

\* the header sectors and the data sectors (ByteToSector's range) of a file
Footprint(s) == HeaderTree(hdrOf, s) \cup (Range(FetchFrom(hdrOf, s)) \cap Sectors)

LiveSectors == UNION {Footprint(Target(o)) : o \in Owners}

----------------------------------------------------------------------------
TypeOK ==
  /\ used \subseteq Sectors
  /\ hdrOf \in [Sectors -> Header \cup {NoHdr}]
  /\ dirOf \in [Sectors -> Table]
  /\ openTable \in [OpenIds -> Handle \cup {NULL}]
  /\ halted \in BOOLEAN
  /\ ret.op \in {"none", "create", "mkdir", "remove", "rremove", "open", "close", "write", "read", "list", "printheader"}

(* No sector of a reachable file or directory is clear in the bitmap: a   *)
(* Remove, recursivelyRemove or RemoveAll never frees a sector something  *)
(* still reaches, so FindAndSet can never hand it out again.              *)
LiveSectorsAllocated == LiveSectors \subseteq used

(* No sector belongs to two reachable objects, and within one file no     *)
(* data sector appears twice or is also one of its header sectors (spec   *)
(* section 8, property 2): Allocate's FindAndSet calls, across            *)
(* createFileOrDir, Remove and restarts, never hand out a sector twice.   *)
NoSharedSectors ==
  /\ \A o1, o2 \in Owners :
       o1 # o2 => Footprint(Target(o1)) \cap Footprint(Target(o2)) = {}
  /\ \A o \in Owners :
       LET m == FetchFrom(hdrOf, Target(o)) IN
       /\ \A j, k \in DOMAIN m : j # k /\ m[j] \in Sectors => m[j] # m[k]
       /\ Range(m) \cap HeaderTree(hdrOf, Target(o)) = {}

(* Every marked sector belongs to a reachable object (spec section 8,     *)
(* property 1, the other direction): removing a file returns all of it.   *)
NoLeak == used \subseteq LiveSectors

(* A Create or Mkdir that returned TRUE made the path resolvable as the   *)
(* type asked for.                                                        *)
CreateLandsAtPath ==
  (ret.op \in {"create", "mkdir"} /\ ret.ok) =>
     FileFinder(ret.path, ret.isDir).exist

(* A recursive Remove of a directory that returned TRUE unlinked it from  *)
(* its parent (spec 4.5 and section 8, scenario 4).                        *)
RecursiveRemoveUnlinks ==
  (ret.op = "rremove" /\ ret.ok /\ ret.path # <<>>) =>
     ~FileFinder(ret.path, DIR).exist

(* No reachable directory holds two entries in use with one name (spec    *)
(* section 8, scenario 6: create /a fails once the directory /a exists).  *)
UniqueNames ==
  \A d \in LiveDirs : \A i, j \in Entries :
     (i # j /\ dirOf[d][i].inUse /\ dirOf[d][j].inUse)
        => dirOf[d][i].name # dirOf[d][j].name

ParentOf(p, isDir) == FileFinder(p, isDir).pFh

DirFull(d) == \A i \in Entries : dirOf[d][i].inUse

(* The call ends with an error the caller is told about, per spec 4.4,   *)
(* 4.5 and 7: a create or mkdir into a full directory (Add returns false, *)
(* DirFull) or of a path of PATH_NAME_MAX_LEN bytes or more              *)
(* (PathTooLong), an open of a path that names a directory (open tries   *)
(* the file type, then the directory), and any call on a path without    *)
(* the leading "/" (paths are absolute: NotFound).                        *)
ErrorReturned(r) ==
  \/ r.path = Rel /\ r.op \in {"create", "mkdir", "remove", "rremove", "open", "list"}
  \/ /\ r.op \in {"create", "mkdir"}
     /\ ~FileFinder(r.path, r.isDir).exist
     /\ \/ PathLen(r.path) >= PathLimit
        \/ ParentOf(r.path, r.isDir) \in Sectors /\ DirFull(ParentOf(r.path, r.isDir))
  \/ r.op = "open" /\ FileFinder(r.path, DIR).exist

(* Those calls return instead of aborting the kernel: createFileOrDir's  *)
(* ASSERT(pDir->Add(...)) and ASSERT(finder.pFhSector != INVALID_SECTOR), *)
(* and find's ASSERT(isDir) when Open asks for "/" as a FILE, never fire  *)
(* on them.                                                                *)
ErrorsAreReturned == [][ErrorReturned(ret') => ~halted']_vars

(* A crash between the writes of a call never leaves reachable a sector  *)
(* the call has already cleared in the bitmap on disk.  Spec 4.5 and 5   *)
(* order every call's writes (inodes, then the parent directory, then    *)
(* the bitmap) so that a crash leaves at worst marked sectors nothing     *)
(* reaches; Remove writes the bitmap before the parent table.            *)
CrashFreesOnlyUnreachable ==
  [][(halted' /\ ~halted) => (used \ used') \cap LiveSectors' = {}]_vars

\* what a remove or recursive remove must clear for the file or directory
\* with header s: the header sector and every data sector it maps
Released(s) == {s} \cup (Range(FetchFrom(hdrOf, s)) \cap Sectors)

\* the headers a call r removes: the file at r.path, or, for a recursive
\* remove of a directory, every entry in use below it
RemovedHeaders(r) ==
  IF r.op = "rremove" /\ FileFinder(r.path, DIR).exist
  THEN {dirOf[e][i].sector :
          <<e, i>> \in {x \in ReachDirs({FileFinder(r.path, DIR).fh}) \X Entries :
                          dirOf[x[1]][x[2]].inUse}}
  ELSE {FileFinder(r.path, FILE).fh}

(* A remove that returned TRUE cleared in the bitmap the header sector   *)
(* and every data sector of each file and directory it removed: for      *)
(* Remove, returnSectorsToFreeMap's Clear and Deallocate; for a recursive *)
(* remove, RemoveAll's Deallocate and Clear over the whole subtree, each  *)
(* sub-directory emptied first (spec 4.5).  Child header sectors of a     *)
(* multi-level header are the part NoLeak finds left marked.              *)
RemoveFreesWhatItRemoves ==
  [][(ret'.op \in {"remove", "rremove"} /\ ret'.ok) =>
       \A s \in RemovedHeaders(ret') : Released(s) \cap used' = {}]_vars

\* the header sectors of the reachable objects
Targets == {Target(o) : o \in Owners}

(* An open file's ByteToSector agrees with the file it names (spec        *)
(* section 8, property 2): each block j an id maps onto a sector some     *)
(* reachable object holds is block j of the reachable file at the id's   *)
(* header sector.  OpenAFile keeps the mapping fetched at open in        *)
(* OpenFileTable; WriteFile_ through the id writes those sectors even    *)
(* after the file is removed and its sectors, header sector included,    *)
(* are handed out again by a later create.                                *)
OpenFilesIsolated ==
  \A id \in OpenIds : openTable[id] # NULL =>
     LET h == openTable[id] IN
     \A j \in DOMAIN h.map : h.map[j] \in LiveSectors =>
        /\ h.sector \in Targets
        /\ j \in DOMAIN FetchFrom(hdrOf, h.sector)
        /\ FetchFrom(hdrOf, h.sector)[j] = h.map[j]

=============================================================================
