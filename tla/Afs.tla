-------------------------------- MODULE Afs --------------------------------
(***************************************************************************)
(* kernel/afs.c: a flat filesystem of contiguous extents on the virtio     *)
(* block device, with power loss between any two requests and requests     *)
(* that fail.  A failed request may or may not have reached the disk, but  *)
(* does not reach it later.  The calls do not yield, so one is in progress *)
(* at a time.  Sizes are counted in sectors and a file's content is the    *)
(* number of the afs_write that stored it; afs_read, afs_ls and            *)
(* afs_file_count change nothing.                                          *)
(***************************************************************************)
EXTENDS Integers, Sequences

CONSTANTS
  AFS_MAX_FILES,           \* 16
  AFS_MAX_FREE_EXTENTS,    \* 32
  TOTAL,                   \* total_sectors of the superblock
  DISK,                    \* sectors there really are behind afs_base
  CHUNK,                   \* sectors per data request: 8
  NAMES,
  LONG,                    \* the names that do not fit a directory entry
  FILE_SIZES,                   \* file sizes
  MAX_WRITES               \* bound on calls of afs_write

ASSUME AfsAssumption ==
  /\ AFS_MAX_FILES \in Nat \ {0}
  /\ AFS_MAX_FREE_EXTENTS \in Nat
  /\ TOTAL \in Nat /\ DISK \in 0 .. TOTAL
  /\ CHUNK \in Nat \ {0}
  /\ LONG \subseteq NAMES
  /\ FILE_SIZES \subseteq Nat \ {0}
  /\ MAX_WRITES \in Nat

DataStart == 2                        \* behind superblock and directory
DirSlots == 0 .. AFS_MAX_FILES - 1
Sectors == DataStart .. DISK - 1
NoName == "none"

VARIABLES
  sb, dir, sectors,                   \* the disk
  mounted, next_free_lba, free_extents,
  afs_pc, afs_req,                    \* the call in progress
  writes,                             \* calls of afs_write so far
  kept                                \* ghost: what each name must hold

afsDisk == <<sb, dir, sectors>>
afsMemory == <<mounted, next_free_lba, free_extents>>
afsVars == <<afsDisk, afsMemory, afs_pc, afs_req, writes, kept>>

Unused == [name |-> NoName, start_lba |-> 0, size |-> 0]

EmptyDir == [i \in DirSlots |-> Unused]

NoReq == [name |-> NoName, slot |-> 0, lba |-> 0, size |-> 0, off |-> 0]

\* kept: 0 for no file, Unknown after a call that left it open.
Unknown == -1

\* A zeroed disk, as the boot tests make it.  (On one with old content a
\* format cut short after the superblock mounts that content as files.)
AfsInit ==
  /\ sb = FALSE
  /\ dir = EmptyDir
  /\ sectors = [s \in Sectors |-> 0]
  /\ mounted = FALSE
  /\ next_free_lba = 0
  /\ free_extents = <<>>
  /\ afs_pc = "boot"
  /\ afs_req = NoReq
  /\ writes = 0
  /\ kept = [n \in NAMES |-> 0]

-----------------------------------------------------------------------------
(* Mount and format, as kernel_main calls them.                            *)

Used(d) == {i \in DirSlots : d[i].start_lba # 0}

End(d, i) == d[i].start_lba + d[i].size

\* A mount that does not look for existing files.
Bug_ResumeAt(d) == {DataStart}

\* Past the highest extent (a set of one).
ResumeAt(d) ==
  LET ends == {DataStart} \cup {End(d, i) : i \in Used(d)}
  IN  {e \in ends : \A f \in ends : f <= e}

Mount(resume) ==
  /\ afs_pc = "boot"
  /\ sb
  /\ mounted' = TRUE
  /\ next_free_lba' = resume
  /\ afs_pc' = "idle"
  /\ UNCHANGED <<afsDisk, free_extents, afs_req, writes, kept>>

afs_mount == \E resume \in ResumeAt(dir) : Mount(resume)

\* A directory that cannot be read leaves the allocator at the start.
DirectoryUnreadable == Mount(DataStart)

\* afs_mount returns 0 and its caller formats: no valid superblock ...
GoFormat ==
  /\ afs_pc = "boot"
  /\ afs_pc' = "format"
  /\ UNCHANGED <<afsDisk, afsMemory, afs_req, writes, kept>>

MountBlank == ~sb /\ GoFormat

\* ... or one that cannot be read.
SuperblockUnreadable == sb /\ GoFormat

FormatSuperblock ==
  /\ afs_pc = "format"
  /\ sb' = TRUE
  /\ afs_pc' = "formatdir"
  /\ UNCHANGED <<dir, sectors, afsMemory, afs_req, writes, kept>>

FormatDirectory ==
  /\ afs_pc = "formatdir"
  /\ dir' = EmptyDir
  /\ mounted' = TRUE
  /\ next_free_lba' = DataStart
  /\ afs_pc' = "idle"
  /\ UNCHANGED <<sb, sectors, free_extents, afs_req, writes, kept>>

FormatFails ==
  /\ \/ afs_pc = "format" /\ sb' \in {sb, TRUE} /\ UNCHANGED dir
     \/ afs_pc = "formatdir" /\ dir' \in {dir, EmptyDir} /\ UNCHANGED sb
  /\ afs_pc' = "idle"
  /\ UNCHANGED <<sectors, afsMemory, afs_req, writes, kept>>

-----------------------------------------------------------------------------
(* Space                                                                   *)

\* What a search from the low end finds: nothing, or the least.
First(S) == {i \in S : \A j \in S : i <= j}

Fits(n) == {i \in 1 .. Len(free_extents) : free_extents[i].count >= n}

\* An allocation that leaves the extent in the list.
Bug_alloc_from_free_list(i, n) == free_extents' = free_extents

\* The extent shrinks from below; an empty one is replaced by the last.
alloc_from_free_list(i, n) ==
  LET e == free_extents[i]
      last == Len(free_extents)
  IN  free_extents' =
        IF e.count > n
        THEN [free_extents EXCEPT ![i] = [start_lba |-> e.start_lba + n,
                                          count |-> e.count - n]]
        ELSE SubSeq([free_extents EXCEPT ![i] = free_extents[last]], 1, last - 1)

\* A full list forgets the extent.
add_to_free_list(start, n) ==
  free_extents' =
    IF Len(free_extents) >= AFS_MAX_FREE_EXTENTS THEN free_extents
    ELSE Append(free_extents, [start_lba |-> start, count |-> n])

\* Reclaimed extents first, then the bump allocator; neither: disk full.
Allocate(n, lba) ==
  \/ \E i \in First(Fits(n)) :
       /\ lba = free_extents[i].start_lba
       /\ alloc_from_free_list(i, n)
       /\ UNCHANGED next_free_lba
  \/ /\ Fits(n) = {}
     /\ lba = next_free_lba
     /\ lba + n <= TOTAL
     /\ next_free_lba' = lba + n
     /\ UNCHANGED free_extents

-----------------------------------------------------------------------------
(* afs_write: the directory is loaded, the extent chosen ...               *)

Named(name) == {i \in Used(dir) : dir[i].name = name}

FreeFiles == DirSlots \ Used(dir)

find_slot(name) == First(IF Named(name) # {} THEN Named(name) ELSE FreeFiles)

StartWrite(name, slot, lba, n) ==
  /\ afs_pc' = "data"
  /\ afs_req' = [name |-> name, slot |-> slot, lba |-> lba, size |-> n, off |-> 0]
  /\ writes' = writes + 1
  /\ UNCHANGED <<afsDisk, mounted>>

WriteInPlace(name, n) ==
  /\ afs_pc = "idle" /\ mounted /\ writes < MAX_WRITES
  /\ \E i \in Named(name) :
       /\ n <= dir[i].size
       /\ StartWrite(name, i, dir[i].start_lba, n)
  /\ kept' = [kept EXCEPT ![name] = Unknown]
  /\ UNCHANGED <<next_free_lba, free_extents>>

WriteNewExtent(name, n) ==
  /\ afs_pc = "idle" /\ mounted /\ writes < MAX_WRITES
  /\ \A i \in Named(name) : n > dir[i].size
  /\ \E slot \in find_slot(name), lba \in DataStart .. TOTAL :
       /\ Allocate(n, lba)
       /\ StartWrite(name, slot, lba, n)
  /\ UNCHANGED kept

\* ... the data goes out chunk by chunk ...
ChunkAt(r) == {s \in r.lba + r.off .. r.lba + r.size - 1 : s < r.lba + r.off + CHUNK}

WithSectors(S) == [s \in Sectors |-> IF s \in S THEN writes ELSE sectors[s]]

WriteChunk ==
  /\ afs_pc = "data" /\ afs_req.off < afs_req.size
  /\ ChunkAt(afs_req) \subseteq Sectors
  /\ sectors' = WithSectors(ChunkAt(afs_req))
  /\ afs_req' = [afs_req EXCEPT !.off = @ + CHUNK]
  /\ UNCHANGED <<sb, dir, afsMemory, afs_pc, writes, kept>>

\* (always, past the end of the disk)
ChunkFails ==
  /\ afs_pc = "data" /\ afs_req.off < afs_req.size
  /\ sectors' \in {sectors, WithSectors(ChunkAt(afs_req))}
  /\ afs_pc' = "idle"
  /\ afs_req' = NoReq
  /\ UNCHANGED <<sb, dir, afsMemory, writes, kept>>

\* ... and the directory last.
NewDir ==
  [dir EXCEPT ![afs_req.slot] =
     [name |-> afs_req.name, start_lba |-> afs_req.lba, size |-> afs_req.size]]

\* A name that was cut to fit is not found again: nothing is flushed.
WriteFlush ==
  /\ afs_pc = "data" /\ afs_req.off >= afs_req.size
  /\ \/ afs_req.name \in LONG /\ UNCHANGED <<dir, kept>>
     \/ /\ afs_req.name \notin LONG
        /\ dir' = NewDir
        /\ kept' = [kept EXCEPT ![afs_req.name] = writes]
     \/ /\ afs_req.name \notin LONG
        /\ dir' \in {dir, NewDir}
        /\ kept' = [kept EXCEPT ![afs_req.name] = Unknown]
  /\ afs_pc' = "idle"
  /\ afs_req' = NoReq
  /\ UNCHANGED <<sb, sectors, afsMemory, writes>>

-----------------------------------------------------------------------------
\* The extent is listed as free before the directory is flushed.
Delete(name, i, newdir, value) ==
  /\ afs_pc = "idle" /\ mounted
  /\ add_to_free_list(dir[i].start_lba, dir[i].size)
  /\ dir' = newdir
  /\ kept' = [kept EXCEPT ![name] = value]
  /\ UNCHANGED <<sb, sectors, mounted, next_free_lba, afs_pc, afs_req, writes>>

Without(i) == [dir EXCEPT ![i] = Unused]

afs_delete(name) == \E i \in Named(name) : Delete(name, i, Without(i), 0)

\* The flush fails; the extent stays listed as free.
DeleteFails(name) ==
  \E i \in Named(name), reached \in BOOLEAN :
    Delete(name, i, IF reached THEN Without(i) ELSE dir, Unknown)

\* Power loss, or the shell's reboot: memory starts over.
Reboot ==
  /\ mounted' = FALSE
  /\ next_free_lba' = 0
  /\ free_extents' = <<>>
  /\ afs_pc' = "boot"
  /\ afs_req' = NoReq
  /\ UNCHANGED <<afsDisk, writes, kept>>

AfsNext ==
  \/ afs_mount
  \/ MountBlank
  \/ FormatSuperblock
  \/ FormatDirectory
  \/ FormatFails
  \/ \E name \in NAMES, n \in FILE_SIZES :
       WriteInPlace(name, n) \/ WriteNewExtent(name, n)
  \/ WriteChunk
  \/ ChunkFails
  \/ WriteFlush
  \/ \E name \in NAMES : afs_delete(name)
  \/ Reboot

AfsSpec == AfsInit /\ [][AfsNext]_afsVars

(***************************************************************************)
(* AfsNext has the failures the code recovers from: of afs_format and      *)
(* afs_write.  (A directory that afs_write or afs_delete cannot load makes *)
(* the call return at once.)  After each of the others Durable can fail.   *)
(***************************************************************************)
FaultyNext ==
  \/ AfsNext
  \/ DirectoryUnreadable
  \/ SuperblockUnreadable
  \/ \E name \in NAMES : DeleteFails(name)

FaultySpec == AfsInit /\ [][FaultyNext]_afsVars

(***************************************************************************)
(* Properties                                                              *)
(***************************************************************************)

Extent(start, n) == start .. start + n - 1

FileSectors(i) == Extent(dir[i].start_lba, dir[i].size)

FreeSectors(k) == Extent(free_extents[k].start_lba, free_extents[k].count)

(***************************************************************************)
(* Every sector has one use: the files on the disk, the reclaimed extents, *)
(* the extent a write in progress fills and the space past the bump        *)
(* pointer are disjoint, whatever crashed and whichever write or format    *)
(* failed on the way.  It does not survive a failed flush in afs_delete.   *)
(***************************************************************************)
NoOverlap ==
  /\ \A i, j \in Used(dir) : i # j => FileSectors(i) \cap FileSectors(j) = {}
  /\ mounted =>
       /\ \A i \in Used(dir) : End(dir, i) <= next_free_lba
       /\ \A k \in 1 .. Len(free_extents) :
            /\ \A i \in Used(dir) : FileSectors(i) \cap FreeSectors(k) = {}
            /\ \A m \in 1 .. Len(free_extents) :
                 k # m => FreeSectors(k) \cap FreeSectors(m) = {}
            /\ free_extents[k].start_lba + free_extents[k].count <= next_free_lba
       /\ afs_pc = "data" =>
            LET S == Extent(afs_req.lba, afs_req.size)
            IN  /\ \A i \in Used(dir) \ {afs_req.slot} : FileSectors(i) \cap S = {}
                /\ \A k \in 1 .. Len(free_extents) : FreeSectors(k) \cap S = {}

(***************************************************************************)
(* "Survives reboots": a file holds what the last successful afs_write of  *)
(* its name stored, and a deleted one stays deleted, through reboots,      *)
(* crashes and failing writes, until a call for that very name starts to   *)
(* rewrite it in place or fails with its directory write in doubt.  A      *)
(* write that moves the file to a new extent is atomic.                    *)
(***************************************************************************)
Durable ==
  \A n \in NAMES :
    /\ kept[n] = 0 => Named(n) = {}
    /\ kept[n] > 0 =>
         \E i \in Used(dir) :
           /\ dir[i].name = n
           /\ \A s \in FileSectors(i) : s \in Sectors /\ sectors[s] = kept[n]
=============================================================================
