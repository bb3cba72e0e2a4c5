---------------------------- MODULE AbstractFile ----------------------------
(***************************************************************************)
(* What a file header promises over the life of one file, independent of  *)
(* its layout (spec sections 3, 4.3 and 8):                                 *)
(*   create takes one free sector for the header and divRoundUp(size,      *)
(*   SectorSize) distinct free sectors for the data, or fails when fewer   *)
(*   sectors are free;                                                      *)
(*   the byte-to-sector map of the file does not change while it exists,   *)
(*   whatever is opened, written or closed;                                 *)
(*   remove returns the header and data sectors to the free map.           *)
(***************************************************************************)
EXTENDS Integers, FiniteSets, Sequences
LOCAL INSTANCE Functions

CONSTANTS SectorSize, NumSectors, Sizes

VARIABLES
  used,    \* the marked sectors
  size,    \* the size asked of create
  hsec,    \* the header sector
  map,     \* logical sector i -> the data sector of bytes of block i
  phase    \* "new", "created", "removed" or "aborted"

vars == <<used, size, hsec, map, phase>>

Sectors == 0 .. NumSectors - 1

Need(n) == (n + SectorSize - 1) \div SectorSize

Init ==
  /\ used \in SUBSET Sectors
  /\ size \in Sizes
  /\ hsec = -1
  /\ map = <<>>
  /\ phase = "new"

Fail ==
  /\ phase = "new"
  /\ size < 0 \/ Cardinality(Sectors \ used) < 1 + Need(size)
  /\ phase' = "aborted"
  /\ UNCHANGED <<used, size, hsec, map>>

Create ==
  /\ phase = "new"
  /\ size >= 0
  /\ hsec' \in Sectors \ used
  /\ map' \in [1 .. Need(size) -> Sectors \ (used \cup {hsec'})]
  /\ IsInjective(map')
  /\ used' = used \cup {hsec'} \cup Range(map')
  /\ phase' = "created"
  /\ UNCHANGED size

Remove ==
  /\ phase = "created"
  /\ used' = used \ ({hsec} \cup Range(map))
  /\ phase' = "removed"
  /\ UNCHANGED <<size, hsec, map>>

Next == Fail \/ Create \/ Remove

Spec == Init /\ [][Next]_vars

=============================================================================
