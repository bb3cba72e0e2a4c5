----------------------------- MODULE MCFileSys -----------------------------
(***************************************************************************)
(* Model-checking instance of FileSys: a 10-sector disk of 2-byte sectors *)
(* with two header slots (MAX_SIZE = 4, 8, 16, 32 bytes), two-entry       *)
(* directories, two names and paths of depth at most two, one path that   *)
(* reaches the path-length limit, and one without the leading "/".        *)
(***************************************************************************)
EXTENDS FileSys

CONSTANTS a, b

\* the root, one depth-1 path, one depth-2 path, one depth-3 path whose
\* string "/a/b/a" reaches the length limit, and the relative path "a"
MCPaths == {<<>>, <<a>>, <<a, b>>, <<a, b, a>>, Rel}

\* an empty file and a level-1 file (5 > MAX_SIZE[0] = 4)
MCSizes == {0, 5}

MCNames == {a, b}

\* Find, Add and RemoveAll read an entry's name and sector only while it is
\* in use; Add overwrites a whole entry.
Visible(tab) == [i \in Entries |-> IF tab[i].inUse THEN tab[i] ELSE EmptyTable[i]]

\* The fingerprint of a state.  Header records and directory tables on
\* sectors nothing reaches are never read again (every read goes through
\* FileFinder from the root, or through a header already reached), and the
\* last return value never influences a step; states that differ only there
\* have the same futures, so they are identified.  (Under SpecCrash a mkdir
\* cut short leaves its new directory's table unwritten, and the stale
\* table is read; the crash run therefore uses no view.)
MCView == <<used, [s \in LiveSectors |-> hdrOf[s]],
            [d \in LiveDirs |-> Visible(dirOf[d])], openTable, halted>>

\* the same, keeping the last return value, for the properties that read it
MCViewRet == <<MCView, ret>>

=============================================================================
