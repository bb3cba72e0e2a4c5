# TLA+ models of the NTHU Nachos MP4 file system

These modules model the file system of `src/code/filesys`:
- the multi-level file header (i-node);
- directories;
- path resolution;
- create, mkdir and remove (single and recursive), with a crash between any two of their sector writes;
- list and printheader (the lookup and its ASSERTs);
- the open-file table, with reads and writes through it;
- formatting;
- the linked-list file header of `src/unnamed/part_001`/`part_002`, shown to refine an abstract file header.

They are checked with TLC.

## The system

| part | source | state | operations |
|---|---|---|---|
| FileHeader | `filehdr.{h,cc}` | `numBytes`, `numDataSectors`, `dataSectors[NUM_DIRECT]` on disk; in memory, `children[]` and `dataSectorMapping` | `whichLv`, `Allocate` (recursive), `Deallocate`, `FetchFrom`, `WriteBack`, `ByteToSector` |
| PersistentBitmap | not under `src/` | one bit per sector, stored in the file at sector 0 | `FindAndSet` (lowest clear bit), `Test`, `Clear`, `Mark`, `NumClear` |
| Directory | `directory.h` (`src/unnamed/part_003`); `directory.cc` is not under `src/` | a table of 64 `DirectoryEntry {isDir, inUse, sector, name}` | `Find`, `Add`, `Remove`, `RemoveAll`, `FetchFrom`, `WriteBack` |
| FileFinder | `filesys.cc` 470-540 | none (a result record) | `splitPath`, `find` |
| FileSystem | `filesys.cc`, `filesys.h` (`part_000`) | the bitmap file, the root directory file, `OpenFileTable[20]` | constructor (format / reopen), `Create`, `Mkdir`, `Remove`, `recursivelyRemove`, `OpenAFile`, `CloseFile`, `WriteFile_`, `ReadFile`, `List`, `PrintHeader` |
| System calls | `ksyscall.h` | none | `SysCreate`, `SysOpen`, `SysWrite`, `SysRead`, `SysClose` forward to FileSystem |
| Linked-list header | `part_001`/`part_002` | `numBytes`, `numSectors`, `startSector`, `endSector` in the header sector; each data sector ends with `next`, the following sector; in memory, `dataBlocks` | `Allocate`, `Deallocate`, `FetchFrom`, `WriteBack`, `ByteToSector` (an alternative FileHeader, not built with the multi-level one) |

How the parts interact:
- A FileSystem call loads the bitmap and the directories it needs from disk.
- It resolves the path with FileFinder.
- It asks FileHeader to Allocate or Deallocate sectors from the in-memory bitmap.
- It then writes back. Create writes the header, the parent directory, the bitmap, and for mkdir the new empty directory. Remove writes the bitmap, then the parent directory (filesys.cc 243-244). Recursive remove writes the emptied directory, then the bitmap (266-267).

Every ASSERT of a call comes before its first write. A failed ASSERT aborts the kernel and leaves the disk as it was before the call.

A path without the leading `/` (the model value `Rel`) splits into one component, so `find`'s loop never runs: `exist` is TRUE with both sectors INVALID. Create and mkdir return FALSE; open, remove, recursive remove, list and printheader reach an ASSERT on sector -1.

## Modules

| module | models | composes |
|---|---|---|
| `FileHeader` | filehdr.cc, and the bitmap as a set of marked sectors | — |
| `MCFileHeader` | the life of one file: createFileOrDir's header part, then returnSectorsToFreeMap | `FileHeader` |
| `FileSys` | FileFinder, Directory and FileSystem | `FileHeader` (EXTENDS) |
| `MCFileSys` | constants, paths and the state view for TLC | `FileSys` |
| `LinkedFileHeader` | part_001 (filehdr.cc of the linked variant) over a header table and the `next` field of each sector | — |
| `MCLinkedFileHeader` | one file under the linked header: create, open, byte writes through the open file, close, remove | `LinkedFileHeader`; refines `AbstractFile` |
| `AbstractFile` | what any file header promises: create takes a header sector and divRoundUp(size, SectorSize) distinct free sectors or fails, the block map stays fixed while the file exists, remove frees exactly those sectors | — |

**State.** The disk is abstracted to three variables. Data contents are not modelled.
- `used`: the marked sectors of the bitmap.
- `hdrOf`: sector → the header record last written there.
- `dirOf`: the header sector of a directory → its entry table.

In FileSys, three more variables hold the in-memory and bookkeeping state:
- `openTable`: id → the header sector and mapping fetched at open.
- `halted`: a failed ASSERT; the kernel is gone until a restart.
- `ret`: the call and the value it returned, which the contract properties read.

**Operators and actions.**
- Each recursive function of filehdr.cc is a RECURSIVE operator. It returns a record with:
  - `abort`: an ASSERT failed;
  - `ok`: the return value;
  - the new bitmap;
  - the header and its child headers;
  - the in-core mapping.
- Each FileSystem call is one action, and its whole body is one step:
  - `createFileOrDir`, with `Create` and `Mkdir` built on it;
  - `Remove`, `RemoveSingle` and `recursivelyRemove`;
  - `OpenAFile`, `WriteFile_`, `ReadFile` and `CloseFile`; the reads and writes keep their argument checks and return value, and the bytes are not modelled;
  - `List` and `PrintHeader`, which only look up the path and check their ASSERT; what they print is left out;
  - `Restart(format)`, the constructor after the process ends.
- `Halt` is the failed-ASSERT outcome.
- Directory operations are written from spec 4.4, because `directory.cc` is not in the sources:
  - `Find` and `Add` take the first matching or free entry;
  - `Remove` clears `inUse`;
  - `RemoveAll` empties sub-directories first, then Deallocates each entry and clears its header sector.
- A directory file never written reads as zeros, so every sector's table starts as `EmptyTable`.

**Crashes.** A mutating call lists the disk (`Disk`: `used`, `hdrOf`, `dirOf`) after each of its sector writes, in code order (`CreateWrites`, and the sequences in `RemoveSingle` and `recursivelyRemove`). `WriteUpTo(ws, k, ...)` commits the first `k` of them. A normal call passes `AllWrites`, more than any call makes, and commits all. The action `Crash` takes `k` in 1..3: the writes so far stay on disk and the kernel is halted until `Restart`. `Crash` is only part of `SpecCrash == Init /\ [][Next \/ Crash]_vars`; `Spec` has no crashes. A multi-sector `WriteBack` of one header is still one write.

**Linked header.** `LinkedFileHeader` keeps two tables: `hdrOf` (the header records) and `link` (sector → the int in its last `sizeof(int)` bytes, the `next` field of a data block). The in-memory `dataBlocks` are the sequence of their `next` fields. `AllocBlocks` is the loop of `Allocate` (each `FindAndSet` becomes the `next` of the block before it), `Walk` the loop of `FetchFrom` (it follows `next` from disk and aborts on a sector off the disk), `Dealloc` the loop of `Deallocate`. `WriteByte` models `OpenFile::WriteAt` (not under `src/`, written from spec 4.5): a byte goes to `ByteToSector` of its `SectorSize`-byte block at the same place in the sector, and a byte in the last `IntSize` bytes of a sector lands in its `next` field.

**Refinement.** `MCLinkedFileHeader` maps the abstract `map` to `DiskChain`, the chain a `FetchFrom` of the header would read from disk now, and checks `AbstractFileSpec == Abs!Spec` as a PROPERTY, with `Abs == INSTANCE AbstractFile WITH map <- AbsMap`.

`PROJECT.json` maps each definition to the lines it models.

## Runs

| run | result | what it shows |
|---|---|---|
| `MCFileHeader.cfg` | pass | Covers all 2^11 starting bitmaps and sizes −1, 0, 1, 3, 4, 5, 8, 9, 16, 17, 33, which straddle every level boundary (MAX_SIZE = 4, 8, 16, 32). When the disk fits the tree, create takes exactly the lowest 1 + Cost(size) free sectors (`AllocExactCost`). Cost is a reference definition written from the layout, not from Allocate. `FetchFrom` rebuilds the in-core mapping with distinct sectors that are disjoint from the header tree (`RoundTrip`). |
| `MCFileHeader_CreatedHeaderComplete.cfg` | violation | Example: size 16 on a nearly empty 11-sector disk. A child Allocate fails, the parent ignores it, and the create returns TRUE with INVALID_SECTOR slots. |
| `MCFileSys.cfg` | pass | All sequences of create, mkdir, remove, recursive remove, open, write, read, close, halt and restart. No two reachable objects share a sector, and no file maps a sector twice (`NoSharedSectors`). Every sector of a reachable object is marked (`LiveSectorsAllocated`). A remove or recursive remove that returns TRUE has cleared, in the bitmap it wrote, the header sector and every data sector of each file and directory it removed, the whole subtree for a recursive remove (`RemoveFreesWhatItRemoves`, an action property over the states before and after the call; the child header sectors it misses are what `NoLeak` finds). |
| `MCFileSys_NoLeak.cfg` | violation | Create and remove of a level-1 file: Deallocate never clears the child header sectors, so marked sectors remain that no reachable object owns. |
| `MCFileSys_CreateLandsAtPath.cfg` | violation | Create /a/b with /a missing returns TRUE and makes /b. |
| `MCFileSys_RecursiveRemoveUnlinks.cfg` | violation | Recursive remove of /a returns TRUE, and /a still exists. |
| `MCFileSys_UniqueNames.cfg` | violation | mkdir /a, then create /a: the root holds two entries named a. |
| `MCFileSys_ErrorsAreReturned.cfg` | violation | A create of `/a/b/a` (at the length limit), a create into a full directory, open of `/`, and open, remove, list of a relative path abort the kernel; the spec says each is an error return. One action property covers them. |
| `MCFileSys_CrashFreesOnlyUnreachable.cfg` | violation | Under `SpecCrash`, without a view. Create /a, then remove /a crashes after the bitmap write: /a is still in the root while its sectors are clear, so the next create reuses them. Spec 4.5/5 orders the directory write before the bitmap write to prevent this. |
| `MCFileSys_OpenFilesIsolated.cfg` | violation | mkdir /a (header 4, data sector 5) and open it, recursive remove of `/`, create /a as a 5-byte file: the new /a gets header 4 again and sector 5 as its child header, while the old handle still maps its block 1 to sector 5. A write through the old id overwrites the new file's child header. The property asks that every block a handle maps onto a reachable sector be the same block of the file now at the handle's header sector. |
| `MCLinkedFileHeader.cfg` | pass | From every starting bitmap of a 6-sector disk and sizes −1 to 5 (0, 1, 2 and 3 sectors, and too large), create, open, close and remove implement `AbstractFile` (`AbstractFileSpec`). An open file maps each byte to the chain on disk (`OpenFileMapsChain`). |
| `MCLinkedFileHeader_Data.cfg` | violation | Adds one-byte writes through the open file. A write to byte 1 of a 2-byte block overwrites the block's `next`, and the chain on disk changes under the file. |

The findings in `PROJECT.json` explain each violation against the code line.

Each property of a passing run has a mutant in `PROJECT.json`: a one-line change to the code model that TLC catches.
- Create's ASSERTs without the check of the sector `FindAndSet` returns (`CreateAssertFails` without `ASSERT(sector >= 0)`).
- `whichLv` uses `<` instead of `<=`.
- Children's mappings are prepended instead of appended.
- The leaf does not mark the sector it takes.
- `recursivelyRemove` writes back the table it loaded, with its entries still in use.
- `returnSectorsToFreeMap` without `freeMap->Clear(fhSector)`: the removed file's header sector stays marked (`RemoveFreesWhatItRemoves`).
- Linked `Allocate` without the `NumClear` pre-check (`TypeOK`: the header gets INVALID sectors).
- Linked `Deallocate` starting its loop one block late (`AbstractFileSpec`: one data sector stays marked after remove).
- Linked `ByteToSector` without the `- 1` (`OpenFileMapsChain`).

## Bounds

**MCFileHeader.** SectorSize 2 and NumDirect 2 keep the tree shape of the real header (NUM_DIRECT 30) with small numbers:
- 4-byte leaves;
- levels 0 to 3;
- 11 sectors, enough for a level-2 file of 9 bytes and too few for some level-2 and level-3 files. That is where the child-failure bug lives.

**MCFileSys.** The disk has 10 sectors. After format, 6 are free, which is exactly the cost of a 5-byte (level-1) file, so a full disk is reached.
- Directories hold 2 entries, so full directories are reached.
- There is one open-file slot, so the full table is reached.
- Paths are `/`, `/a`, `/a/b`, `/a/b/a` and the relative `a`. With PathLimit 6, `/a/b/a` is too long, so the length limit is exercised.
- Sizes are 0 and 5.

This reaches missing parents, same-name file and directory, recursive remove of a non-empty directory, and a full disk. The view `MCView` forgets three things no step reads:
- header records and tables on unreachable sectors;
- tombstoned entries' stale fields;
- `ret`.

The contract properties use `MCViewRet`, which keeps `ret`. The crash run uses no view: after a crash a stale table on a sector that becomes reachable again (mkdir cut short before its table write) is read, so the view would merge states that differ.

**MCLinkedFileHeader.** SectorSize 2 and IntSize 1 give one data byte and one `next` byte per sector, the smallest layout where the two differ. Six sectors with every starting bitmap reach a full disk, a disk with exactly enough room, and chains that skip marked sectors. Written values are 0 (the header sector of a fresh disk) and 6 (off the disk).

## Fairness

None. The Nachos file system is called synchronously by the running thread, and nothing in it must eventually happen on its own. All properties are safety properties: invariants, action properties `[][A]_vars`, and the refinement `AbstractFileSpec`, whose abstract `Spec` has no fairness either.

## Not modelled

1. Interleaving (filesys.cc line 33 has no synchronization). Spec sections 2 and 5 make concurrency a non-goal: the file system has a single mutator, and the block device, which is not under `src/` and is modelled from section 5, is synchronous: no operation suspends or yields to another. Each call is therefore one atomic step; splitting calls at their sector reads would model a device the spec rules out.
2. A crash inside one multi-sector write (a header with child headers, or a directory spanning sectors). The crash model stops only between the `WriteBack` calls of a FileSystem method. Spec section 2 makes crash consistency a non-goal; the crash run checks only the one ordering the spec states.
3. File contents, and what List, PrintHeader and Print output: output only, or data that no property distinguishes. In `FileSys`, `WriteFile_` and `ReadFile` move no modelled data. The linked header models the bytes a write can change that matter: the `next` fields.
4. `OpenFile`, `Directory` (`directory.cc`) and `PersistentBitmap` are not under `src/`. They are written from the spec where the facade needs them.
5. `FileHeader::FileLength` (read only by `OpenFile`, which is not under `src/`), `FileHeader::Print` and `FileSystem::Print` (output only), and `SysAdd` in `ksyscall.h` (no file-system state). `SysHalt` ends the process; its effect on the file system is the first half of `Restart`.
