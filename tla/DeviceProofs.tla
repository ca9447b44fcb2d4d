----------------------------- MODULE DeviceProofs -----------------------------
(***************************************************************************)
(* The file system and the boot loader. No sector has two uses and no      *)
(* stored file is lost, with power loss between any two requests, for      *)
(* every size of disk, directory and free list. What the loader passes on  *)
(* comes from the nodes of the device tree it is meant to read, whatever   *)
(* the depth and length of the tree.                                       *)
(***************************************************************************)
EXTENDS Afs, Loader, TLAPS

\* The time a leaf that names no prover may take
USE SMTT(60)

FreeExtent == [start_lba : Nat, count : Nat]

DirEntry == [name : NAMES \cup {NoName}, start_lba : Nat, size : Nat]

Request ==
  [name : NAMES \cup {NoName}, slot : DirSlots, lba : Nat, size : Nat, off : Nat]

AfsTypeOK ==
  /\ sb \in BOOLEAN
  /\ dir \in [DirSlots -> DirEntry]
  /\ sectors \in [Sectors -> Nat]
  /\ mounted \in BOOLEAN
  /\ next_free_lba \in Nat
  /\ free_extents \in Seq(FreeExtent)
  /\ afs_pc \in {"boot", "format", "formatdir", "idle", "data"}
  /\ afs_req \in Request
  /\ writes \in Nat
  /\ kept \in [NAMES -> Nat \cup {Unknown}]

\* Two extents have no sector in common.
Apart(a, n, b, m) == a + n <= b \/ b + m <= a

ApartFromFile(a, n, i) == Apart(a, n, dir[i].start_lba, dir[i].size)

ApartFromFree(a, n, k) ==
  Apart(a, n, free_extents[k].start_lba, free_extents[k].count)

\* What the directory on the disk always satisfies.
DirInv ==
  /\ \A i \in Used(dir) :
       /\ dir[i].start_lba >= DataStart
       /\ dir[i].size >= 1
       /\ dir[i].name \in NAMES \ LONG
  /\ \A i, j \in Used(dir) :
       i # j => /\ dir[i].name # dir[j].name
                /\ ApartFromFile(dir[i].start_lba, dir[i].size, j)

\* What boot, mount and format have in common.
PhaseInv ==
  /\ mounted => sb
  /\ ~sb \/ afs_pc \in {"format", "formatdir"} => Used(dir) = {}
  /\ ~mounted => free_extents = <<>> /\ afs_pc # "data"
  /\ afs_pc \in {"boot", "format", "formatdir"} => ~mounted
  /\ afs_pc = "formatdir" => sb

\* The allocator: bump pointer and reclaimed extents.
SpaceInv ==
  /\ mounted => \A i \in Used(dir) : End(dir, i) <= next_free_lba
  /\ mounted => next_free_lba >= DataStart
  /\ \A k \in 1 .. Len(free_extents) :
       /\ free_extents[k].start_lba >= DataStart
       /\ free_extents[k].count >= 1
       /\ free_extents[k].start_lba + free_extents[k].count <= next_free_lba
       /\ \A i \in Used(dir) :
            ApartFromFile(free_extents[k].start_lba, free_extents[k].count, i)
       /\ \A m \in 1 .. Len(free_extents) :
            k # m => ApartFromFree(free_extents[k].start_lba, free_extents[k].count, m)

\* The write in progress rewrites its own file in place ...
InPlace ==
  /\ afs_req.slot \in Used(dir)
  /\ dir[afs_req.slot].start_lba = afs_req.lba
  /\ afs_req.size <= dir[afs_req.slot].size
  /\ kept[afs_req.name] = Unknown

\* ... or fills an extent of its own.
Elsewhere == \A i \in Used(dir) : ApartFromFile(afs_req.lba, afs_req.size, i)

WriteInv ==
  afs_pc = "data" =>
    /\ afs_req.name \in NAMES
    /\ afs_req.size >= 1
    /\ afs_req.lba >= DataStart
    /\ afs_req.lba + afs_req.size <= next_free_lba
    /\ \A k \in 1 .. Len(free_extents) : ApartFromFree(afs_req.lba, afs_req.size, k)
    /\ \A i \in Used(dir) : dir[i].name = afs_req.name <=> i = afs_req.slot
    /\ InPlace \/ Elsewhere
    /\ writes >= 1
    /\ \A s \in Extent(afs_req.lba, afs_req.size) :
         s < afs_req.lba + afs_req.off => s \in Sectors /\ sectors[s] = writes

AfsInv == AfsTypeOK /\ DirInv /\ PhaseInv /\ SpaceInv /\ WriteInv /\ Durable

\* Part of an extent is apart from what the whole is apart from.
LEMMA ApartWithin ==
  ASSUME NEW a \in Nat, NEW n \in Nat, NEW b \in Nat, NEW m \in Nat,
         NEW c \in Nat, NEW k \in Nat,
         Apart(a, n, b, m) \/ Apart(b, m, a, n), a <= c, c + k <= a + n
  PROVE  Apart(c, k, b, m) /\ Apart(b, m, c, k)
  BY DEF Apart

\* Extents that are apart have no sector in common.
LEMMA ExtentsDisjoint ==
  ASSUME NEW a \in Nat, NEW n \in Nat, NEW b \in Nat, NEW m \in Nat, Apart(a, n, b, m)
  PROVE  Extent(a, n) \cap Extent(b, m) = {}
  BY DEF Apart, Extent

\* The types the steps below need, of the fields one by one.
AfsTypes ==
  /\ \A i \in DirSlots : dir[i].start_lba \in Nat /\ dir[i].size \in Nat
  /\ \A k \in 1 .. Len(free_extents) :
       free_extents[k].start_lba \in Nat /\ free_extents[k].count \in Nat
  /\ Len(free_extents) \in Nat
  /\ afs_req.lba \in Nat /\ afs_req.size \in Nat /\ afs_req.off \in Nat
  /\ afs_req.slot \in DirSlots
  /\ \A i \in Used(dir) : i \in DirSlots

\* What a step has to show of the files it keeps: Durable after a step that
\* writes no sector.
LEMMA DurableFrom ==
  ASSUME sectors' = sectors,
         \A n \in NAMES :
           /\ kept'[n] = 0 => Named(n)' = {}
           /\ kept'[n] > 0 =>
                \E i \in Used(dir') :
                  /\ dir'[i].name = n
                  /\ \A s \in Extent(dir'[i].start_lba, dir'[i].size) :
                       s \in Sectors /\ sectors[s] = kept'[n]
  PROVE  Durable'
  BY DEF Durable, FileSectors

\* No request is a request, and an empty list one of extents.
LEMMA Nothing == NoReq \in Request /\ <<>> \in Seq(FreeExtent)
BY AfsAssumption DEF NoReq, Request, DirSlots

\* The fields of a well-typed driver and their types, spelled out.
LEMMA AfsTypesHold == AfsTypeOK => AfsTypes
<1> SUFFICES ASSUME AfsTypeOK PROVE AfsTypes
  OBVIOUS
<1>1. \A i \in DirSlots : dir[i].start_lba \in Nat /\ dir[i].size \in Nat
  BY DEF AfsTypeOK, DirEntry
<1>2. \A k \in 1 .. Len(free_extents) :
        free_extents[k].start_lba \in Nat /\ free_extents[k].count \in Nat
  <2>1. \A k \in 1 .. Len(free_extents) : free_extents[k] \in FreeExtent
    BY DEF AfsTypeOK
  <2> QED
    BY <2>1 DEF FreeExtent
<1>3. Len(free_extents) \in Nat
  BY DEF AfsTypeOK
<1>4. /\ afs_req.lba \in Nat /\ afs_req.size \in Nat /\ afs_req.off \in Nat
      /\ afs_req.slot \in DirSlots
  BY DEF AfsTypeOK, Request
<1> QED
  BY <1>1, <1>2, <1>3, <1>4 DEF AfsTypes, Used

\* A write in progress stays apart from every file but its own.
LEMMA WriteApart ==
  ASSUME AfsInv, afs_pc = "data", NEW i \in Used(dir), i # afs_req.slot
  PROVE  ApartFromFile(afs_req.lba, afs_req.size, i)
<1> USE DEF AfsInv
<1>1. AfsTypes
  BY AfsTypesHold
<1>2. CASE Elsewhere
  BY <1>2 DEF Elsewhere
<1>3. CASE InPlace
  <2>1. ApartFromFile(dir[afs_req.slot].start_lba, dir[afs_req.slot].size, i)
    BY <1>3 DEF InPlace, DirInv
  <2> QED
    BY <1>1, <1>3, <2>1 DEF AfsTypes, InPlace, ApartFromFile, Apart
<1> QED
  BY <1>2, <1>3 DEF WriteInv

\* AfsInv says at least what the run checks.
LEMMA AfsInvImplies == AfsInv => NoOverlap /\ Durable
<1> SUFFICES ASSUME AfsInv PROVE NoOverlap
  BY DEF AfsInv
<1> USE DEF AfsInv
<1>0. AfsTypes
  BY AfsTypesHold
<1>1. \A i, j \in Used(dir) : i # j => FileSectors(i) \cap FileSectors(j) = {}
  BY <1>0, ExtentsDisjoint, Zenon DEF AfsTypes, DirInv, ApartFromFile, FileSectors
<1>2. ASSUME NEW k \in 1 .. Len(free_extents)
      PROVE  /\ \A i \in Used(dir) : FileSectors(i) \cap FreeSectors(k) = {}
             /\ \A m \in 1 .. Len(free_extents) :
                  k # m => FreeSectors(k) \cap FreeSectors(m) = {}
  BY <1>0, ExtentsDisjoint, Zenon DEF AfsTypes, SpaceInv, ApartFromFile, ApartFromFree, FileSectors, FreeSectors
<1>3. ASSUME afs_pc = "data", NEW k \in 1 .. Len(free_extents)
      PROVE  FreeSectors(k) \cap Extent(afs_req.lba, afs_req.size) = {}
  BY <1>0, <1>3, ExtentsDisjoint, Zenon DEF AfsTypes, WriteInv, ApartFromFree, FreeSectors
<1>4. ASSUME afs_pc = "data", NEW i \in Used(dir) \ {afs_req.slot}
      PROVE  FileSectors(i) \cap Extent(afs_req.lba, afs_req.size) = {}
  <2>1. ApartFromFile(afs_req.lba, afs_req.size, i)
    BY <1>4, WriteApart
  <2> QED
    BY <1>0, <2>1, ExtentsDisjoint, Zenon DEF AfsTypes, ApartFromFile, FileSectors
<1> QED
  BY <1>1, <1>2, <1>3, <1>4 DEF NoOverlap, SpaceInv

-----------------------------------------------------------------------------
(* The steps.                                                              *)

\* An empty directory and an unmounted driver satisfy the invariant.
LEMMA AfsInitInv == AfsInit => AfsInv
<1> SUFFICES ASSUME AfsInit PROVE AfsInv
  OBVIOUS
<1>1. Used(dir) = {}
  BY DEF AfsInit, EmptyDir, Unused, Used
<1>2. AfsTypeOK
  <2>1. 0 \in DirSlots
    BY AfsAssumption DEF DirSlots
  <2>2. EmptyDir \in [DirSlots -> DirEntry]
    BY DEF EmptyDir, Unused, DirEntry
  <2>3. NoReq \in Request
    BY <2>1 DEF NoReq, Request
  <2>4. [n \in NAMES |-> 0] \in [NAMES -> Nat \cup {Unknown}]
    OBVIOUS
  <2>5. [s \in Sectors |-> 0] \in [Sectors -> Nat]
    OBVIOUS
  <2>6. <<>> \in Seq(FreeExtent)
    OBVIOUS
  <2> QED
    BY <2>2, <2>3, <2>4, <2>5, <2>6, Zenon DEF AfsInit, AfsTypeOK
<1> QED
  BY <1>1, <1>2 DEF AfsInit, AfsInv, DirInv, PhaseInv, SpaceInv, WriteInv, Durable, Named

\* afs_mount: the bump pointer resumes past every file.
LEMMA MountStep == AfsInv /\ afs_mount => AfsInv'
<1> SUFFICES ASSUME AfsInv, afs_mount PROVE AfsInv'
  OBVIOUS
<1> USE DEF AfsInv
<1>1. PICK resume \in ResumeAt(dir) : Mount(resume)
  BY DEF afs_mount
<1>2. /\ resume \in Nat
      /\ resume >= DataStart
      /\ \A i \in Used(dir) : End(dir, i) <= resume
  <2>1. \A i \in Used(dir) : End(dir, i) \in Nat
    BY AfsTypesHold DEF AfsTypes, End
  <2> QED
    BY <2>1 DEF ResumeAt, DataStart
<1>3. ~mounted /\ free_extents = <<>>
  BY <1>1 DEF Mount, PhaseInv
<1>4. UNCHANGED <<dir, sectors, sb, free_extents, afs_req, writes, kept>>
  BY <1>1 DEF Mount, afsDisk
<1>5. AfsTypeOK'
  BY <1>1, <1>2, <1>4 DEF AfsTypeOK, Mount
<1>6. DirInv' /\ Durable'
  BY <1>4 DEF DirInv, Durable, Used, ApartFromFile, Named, FileSectors
<1>7. PhaseInv' /\ WriteInv'
  BY <1>1, <1>4 DEF PhaseInv, WriteInv, Mount
<1>8. SpaceInv'
  BY <1>1, <1>2, <1>3, <1>4 DEF SpaceInv, Mount, Used, End
<1> QED
  BY <1>5, <1>6, <1>7, <1>8

\* afs_format: it only ever starts on a disk without files.
LEMMA FormatStep ==
  AfsInv /\ (MountBlank \/ FormatSuperblock \/ FormatDirectory \/ FormatFails) => AfsInv'
<1> SUFFICES ASSUME AfsInv, MountBlank \/ FormatSuperblock \/ FormatDirectory \/ FormatFails
             PROVE  AfsInv'
  OBVIOUS
<1> USE DEF AfsInv
<1>1. UNCHANGED <<sectors, free_extents, afs_req, writes, kept>>
  BY Zenon DEF MountBlank, GoFormat, FormatSuperblock, FormatDirectory, FormatFails, afsDisk, afsMemory
<1>2. afs_pc \in {"boot", "format", "formatdir"} /\ (~sb \/ afs_pc # "boot")
  BY Zenon DEF MountBlank, GoFormat, FormatSuperblock, FormatDirectory, FormatFails
<1>3. ~mounted /\ free_extents = <<>> /\ Used(dir) = {}
  BY <1>2 DEF PhaseInv
<1>4. dir' \in {dir, EmptyDir}
  BY Zenon DEF MountBlank, GoFormat, FormatSuperblock, FormatDirectory, FormatFails, afsDisk
<1>5. Used(dir)' = {}
  BY <1>3, <1>4 DEF Used, EmptyDir, Unused
<1>6. EmptyDir \in [DirSlots -> DirEntry]
  BY DEF EmptyDir, Unused, DirEntry
<1>7. sb' \in BOOLEAN /\ mounted' \in BOOLEAN /\ next_free_lba' \in Nat
  <2> USE DEF AfsTypeOK, afsDisk, afsMemory, DataStart
  <2>1. CASE MountBlank
    BY <2>1 DEF MountBlank, GoFormat
  <2>2. CASE FormatSuperblock
    BY <2>2 DEF FormatSuperblock
  <2>3. CASE FormatDirectory
    BY <2>3 DEF FormatDirectory
  <2>4. CASE FormatFails
    BY <2>4, Zenon DEF FormatFails
  <2> QED
    BY <2>1, <2>2, <2>3, <2>4
<1>8. afs_pc' \in {"format", "formatdir", "idle"}
  BY Zenon DEF MountBlank, GoFormat, FormatSuperblock, FormatDirectory, FormatFails
<1>9. /\ mounted' => sb' /\ next_free_lba' = DataStart /\ afs_pc' = "idle"
      /\ afs_pc' = "formatdir" => sb'
  <2> USE <1>3 DEF afsDisk, afsMemory
  <2>1. CASE MountBlank
    BY <2>1 DEF MountBlank, GoFormat
  <2>2. CASE FormatSuperblock
    BY <2>2 DEF FormatSuperblock
  <2>3. CASE FormatDirectory
    BY <2>3 DEF FormatDirectory, PhaseInv
  <2>4. CASE FormatFails
    BY <2>4 DEF FormatFails
  <2> QED
    BY <2>1, <2>2, <2>3, <2>4
<1>10. AfsTypeOK'
  BY <1>1, <1>4, <1>6, <1>7, <1>8 DEF AfsTypeOK
<1>11. DirInv' /\ PhaseInv' /\ SpaceInv' /\ WriteInv'
  <2>1. DirInv' /\ PhaseInv'
    BY <1>1, <1>3, <1>5, <1>8, <1>9, Zenon DEF DirInv, PhaseInv
  <2>2. SpaceInv' /\ WriteInv'
    BY <1>1, <1>3, <1>5, <1>8, <1>9 DEF SpaceInv, WriteInv, DataStart
  <2> QED
    BY <2>1, <2>2, Zenon
<1>12. Durable'
  BY <1>1, <1>3, <1>5 DEF Durable, Named
<1> QED
  BY <1>10, <1>11, <1>12

\* afs_write over the file's own extent.
LEMMA InPlaceStep ==
  ASSUME NEW name \in NAMES, NEW n \in FILE_SIZES, AfsInv, WriteInPlace(name, n)
  PROVE  AfsInv'
<1> USE DEF AfsInv
<1>1. PICK i \in Named(name) :
        n <= dir[i].size /\ StartWrite(name, i, dir[i].start_lba, n)
  BY Zenon DEF WriteInPlace
<1>2. /\ UNCHANGED <<dir, sectors, sb, mounted, next_free_lba, free_extents>>
      /\ afs_pc = "idle" /\ mounted
      /\ afs_pc' = "data"
      /\ writes' = writes + 1
      /\ kept' = [kept EXCEPT ![name] = Unknown]
      /\ afs_req' = [name |-> name, slot |-> i, lba |-> dir[i].start_lba, size |-> n, off |-> 0]
  BY <1>1, Zenon DEF WriteInPlace, StartWrite, afsDisk
<1>3. i \in Used(dir) /\ i \in DirSlots /\ dir[i].name = name
  BY DEF Named, Used
<1>4. AfsTypes
  BY AfsTypesHold
<1>5. n \in Nat /\ n >= 1
  BY AfsAssumption
<1>6. AfsTypeOK'
  <2>1. afs_req' \in Request
    BY <1>2, <1>3, <1>4, <1>5, Zenon DEF Request, AfsTypes
  <2>2. kept' \in [NAMES -> Nat \cup {Unknown}]
    BY <1>2, Zenon DEF AfsTypeOK
  <2> QED
    BY <1>2, <2>1, <2>2 DEF AfsTypeOK
<1>7. DirInv' /\ SpaceInv'
  BY <1>2, Zenon DEF DirInv, SpaceInv, Used, End, ApartFromFile, ApartFromFree
<1>8. PhaseInv'
  BY <1>2, Zenon DEF PhaseInv, Used
<1>9. Durable'
  BY <1>2 DEF Durable, AfsTypeOK, Named, Used, FileSectors, Unknown
<1>10. WriteInv'
  <2>1. InPlace'
    BY <1>1, <1>2, <1>3 DEF InPlace, Used, AfsTypeOK
  <2>2. \A k \in 1 .. Len(free_extents) : ApartFromFree(dir[i].start_lba, n, k)
    <3> TAKE k \in 1 .. Len(free_extents)
    <3>1. ApartFromFile(free_extents[k].start_lba, free_extents[k].count, i)
      BY <1>3, Zenon DEF SpaceInv
    <3>2. /\ dir[i].start_lba \in Nat /\ dir[i].size \in Nat
          /\ free_extents[k].start_lba \in Nat /\ free_extents[k].count \in Nat
      BY <1>3, <1>4, Zenon DEF AfsTypes
    <3>3. /\ dir[i].start_lba <= dir[i].start_lba
          /\ dir[i].start_lba + n <= dir[i].start_lba + dir[i].size
      BY <1>1, <1>5, <3>2
    <3> QED
      BY <1>5, <3>1, <3>2, <3>3, ApartWithin, Zenon DEF ApartFromFree, ApartFromFile
  <2>3. dir[i].start_lba >= DataStart /\ dir[i].start_lba + n <= next_free_lba
    <3>1. dir[i].start_lba >= DataStart /\ dir[i].start_lba + dir[i].size <= next_free_lba
      BY <1>2, <1>3, Zenon DEF DirInv, SpaceInv, End
    <3>2. dir[i].start_lba \in Nat /\ dir[i].size \in Nat /\ next_free_lba \in Nat
      BY <1>3, <1>4, Zenon DEF AfsTypes, AfsTypeOK
    <3> QED
      BY <1>1, <1>5, <3>1, <3>2
  <2>4. \A j \in Used(dir) : dir[j].name = name <=> j = i
    BY <1>3 DEF DirInv
  <2>5. \A s \in Extent(dir[i].start_lba, n) : ~(s < dir[i].start_lba + 0)
    BY <1>3, <1>4, <1>5 DEF Extent, AfsTypes
  <2> QED
    BY <1>2, <1>5, <2>1, <2>2, <2>3, <2>4, <2>5 DEF WriteInv, ApartFromFree, Used, AfsTypeOK
<1> QED
  BY <1>6, <1>7, <1>8, <1>9, <1>10

\* alloc_from_free_list: every extent that stays lies in one that was there,
\* apart from the others and from the sectors handed out.
LEMMA AllocFromFreeList ==
  ASSUME AfsTypeOK, SpaceInv, NEW n \in Nat \ {0}, NEW i \in Fits(n),
         alloc_from_free_list(i, n)
  PROVE  /\ free_extents' \in Seq(FreeExtent)
         /\ \A k \in 1 .. Len(free_extents') :
              /\ \E j \in 1 .. Len(free_extents) :
                   /\ free_extents'[k].start_lba >= free_extents[j].start_lba
                   /\ free_extents'[k].start_lba + free_extents'[k].count
                        = free_extents[j].start_lba + free_extents[j].count
              /\ free_extents'[k].count >= 1
              /\ Apart(free_extents[i].start_lba, n,
                       free_extents'[k].start_lba, free_extents'[k].count)
              /\ \A m \in 1 .. Len(free_extents') :
                   k # m => Apart(free_extents'[k].start_lba, free_extents'[k].count,
                                  free_extents'[m].start_lba, free_extents'[m].count)
<1> DEFINE e == free_extents[i]
           N == Len(free_extents)
           rest == [start_lba |-> e.start_lba + n, count |-> e.count - n]
           swapped == [free_extents EXCEPT ![i] = free_extents[N]]
<1>1. AfsTypes
  BY AfsTypesHold
<1>2. N \in Nat /\ i \in 1 .. N /\ e.count >= n
  BY <1>1 DEF AfsTypes, Fits
<1>3. \A k \in 1 .. N : free_extents[k] \in FreeExtent
  BY DEF AfsTypeOK
<1>4. \A k \in 1 .. N :
        /\ free_extents[k].start_lba \in Nat /\ free_extents[k].count \in Nat
        /\ free_extents[k].count >= 1
  BY <1>1, Zenon DEF AfsTypes, SpaceInv
<1>5. \A k, m \in 1 .. N : k # m =>
        Apart(free_extents[k].start_lba, free_extents[k].count,
              free_extents[m].start_lba, free_extents[m].count)
  BY Zenon DEF SpaceInv, ApartFromFree
<1>6. CASE e.count > n
  <2>1. free_extents' = [free_extents EXCEPT ![i] = rest]
    BY <1>6 DEF alloc_from_free_list
  <2>2. rest \in FreeExtent
    BY <1>2, <1>4, <1>6 DEF FreeExtent
  <2>3. free_extents' \in Seq(FreeExtent) /\ Len(free_extents') = N
    BY <1>2, <2>1, <2>2 DEF AfsTypeOK
  <2>4. \A k \in 1 .. N : free_extents'[k] = IF k = i THEN rest ELSE free_extents[k]
    BY <1>2, <2>1 DEF AfsTypeOK
  <2>5. /\ rest.start_lba = e.start_lba + n /\ rest.count = e.count - n
        /\ rest.start_lba \in Nat /\ rest.count \in Nat /\ rest.count >= 1
        /\ rest.start_lba + rest.count = e.start_lba + e.count
        /\ e.start_lba \in Nat /\ e.count \in Nat
    BY <1>2, <1>4, <1>6
  <2> HIDE DEF rest, e
  <2>6. ASSUME NEW k \in 1 .. N
        PROVE  /\ \E j \in 1 .. N :
                    /\ free_extents'[k].start_lba >= free_extents[j].start_lba
                    /\ free_extents'[k].start_lba + free_extents'[k].count
                         = free_extents[j].start_lba + free_extents[j].count
               /\ free_extents'[k].count >= 1
               /\ Apart(e.start_lba, n, free_extents'[k].start_lba, free_extents'[k].count)
    <3>1. CASE k = i
      <4>1. free_extents'[k] = rest
        BY <2>4, <3>1
      <4>2. Apart(e.start_lba, n, rest.start_lba, rest.count)
        BY <2>5 DEF Apart
      <4>3. rest.start_lba >= e.start_lba
        BY <2>5
      <4> QED
        BY <1>2, <2>5, <4>1, <4>2, <4>3, Zenon DEF e
    <3>2. CASE k # i
      <4>1. free_extents'[k] = free_extents[k]
        BY <2>4, <3>2, Zenon
      <4>2. Apart(e.start_lba, e.count, free_extents[k].start_lba, free_extents[k].count)
        BY <1>2, <1>5, <3>2 DEF e
      <4>3. Apart(e.start_lba, n, free_extents[k].start_lba, free_extents[k].count)
        <5>1. n \in Nat /\ e.start_lba <= e.start_lba /\ e.start_lba + n <= e.start_lba + e.count
          BY <1>2, <2>5
        <5> QED
          BY <1>4, <2>5, <4>2, <5>1, ApartWithin, Zenon
      <4> QED
        BY <1>4, <4>1, <4>3
    <3> QED
      BY <3>1, <3>2, Zenon
  <2>7. ASSUME NEW k \in 1 .. N, NEW m \in 1 .. N, k # m
        PROVE  Apart(free_extents'[k].start_lba, free_extents'[k].count,
                     free_extents'[m].start_lba, free_extents'[m].count)
    <3>1. Apart(free_extents[k].start_lba, free_extents[k].count,
                free_extents[m].start_lba, free_extents[m].count)
      BY <1>5, <2>7
    <3>0. e.start_lba <= rest.start_lba /\ rest.start_lba + rest.count <= e.start_lba + e.count
      BY <2>5
    <3>2. CASE k = i
      <4>1. free_extents'[k] = rest /\ free_extents'[m] = free_extents[m]
        BY <2>4, <2>7, <3>2
      <4> QED
        <5>1. Apart(e.start_lba, e.count, free_extents[m].start_lba, free_extents[m].count)
          BY <3>1, <3>2 DEF e
        <5> QED
          BY <1>4, <2>5, <3>0, <4>1, <5>1, ApartWithin, Zenon
    <3>3. CASE m = i
      <4>1. free_extents'[m] = rest /\ free_extents'[k] = free_extents[k]
        BY <2>4, <2>7, <3>3
      <4> QED
        <5>1. Apart(free_extents[k].start_lba, free_extents[k].count, e.start_lba, e.count)
          BY <3>1, <3>3 DEF e
        <5> QED
          BY <1>4, <2>5, <3>0, <4>1, <5>1, ApartWithin, Zenon
    <3>4. CASE k # i /\ m # i
      BY <2>4, <3>1, <3>4
    <3> QED
      BY <3>2, <3>3, <3>4
  <2> QED
    BY <2>3, <2>6, <2>7, Zenon DEF e
<1>7. CASE ~(e.count > n)
  <2>1. free_extents' = SubSeq(swapped, 1, N - 1)
    BY <1>7 DEF alloc_from_free_list
  <2>2. swapped \in Seq(FreeExtent) /\ Len(swapped) = N
    BY <1>2, <1>3 DEF AfsTypeOK
  <2>3. /\ free_extents' = [k \in 1 .. N - 1 |-> swapped[k]]
        /\ Len(free_extents') = N - 1
    BY <1>2, <2>1, <2>2
  <2>4. free_extents' \in Seq(FreeExtent)
    BY <1>2, <2>1, <2>2
  <2>5. \A k \in 1 .. N - 1 :
          LET j == IF k = i THEN N ELSE k
          IN  j \in 1 .. N /\ j # i /\ free_extents'[k] = free_extents[j]
    BY <1>2, <2>3 DEF AfsTypeOK
  <2>6. e.count = n
    BY <1>2, <1>4, <1>7
  <2> HIDE DEF swapped
  <2>7. ASSUME NEW k \in 1 .. N - 1
        PROVE  /\ \E j \in 1 .. N :
                    /\ free_extents'[k].start_lba >= free_extents[j].start_lba
                    /\ free_extents'[k].start_lba + free_extents'[k].count
                         = free_extents[j].start_lba + free_extents[j].count
               /\ free_extents'[k].count >= 1
               /\ Apart(e.start_lba, n, free_extents'[k].start_lba, free_extents'[k].count)
    <3>1. PICK j \in 1 .. N : j # i /\ free_extents'[k] = free_extents[j]
      BY <2>5
    <3>2. Apart(e.start_lba, n, free_extents[j].start_lba, free_extents[j].count)
      BY <1>2, <1>5, <2>6, <3>1, Zenon
    <3>3. /\ free_extents[j].start_lba >= free_extents[j].start_lba
          /\ free_extents[j].count >= 1
      BY <1>4
    <3> QED
      BY <3>1, <3>2, <3>3
  <2>8. ASSUME NEW k \in 1 .. N - 1, NEW m \in 1 .. N - 1, k # m
        PROVE  Apart(free_extents'[k].start_lba, free_extents'[k].count,
                     free_extents'[m].start_lba, free_extents'[m].count)
    <3> DEFINE a == IF k = i THEN N ELSE k
               b == IF m = i THEN N ELSE m
    <3>1. /\ a \in 1 .. N /\ free_extents'[k] = free_extents[a]
          /\ b \in 1 .. N /\ free_extents'[m] = free_extents[b]
      BY <2>5
    <3>2. a # b
      BY <1>2, <2>8
    <3> HIDE DEF a, b
    <3> QED
      BY <1>5, <3>1, <3>2
  <2> QED
    BY <2>3, <2>4, <2>7, <2>8, Zenon
<1> QED
  BY <1>6, <1>7, Zenon

\* The sectors an allocation hands out belong to no file and to no extent
\* that is still free.
LEMMA AllocateApart ==
  ASSUME AfsInv, mounted, NEW n \in Nat \ {0}, NEW lba \in Nat, Allocate(n, lba),
         UNCHANGED <<dir, mounted>>
  PROVE  /\ free_extents' \in Seq(FreeExtent) /\ next_free_lba' \in Nat
         /\ SpaceInv'
         /\ lba >= DataStart /\ lba + n <= next_free_lba'
         /\ \A i \in Used(dir) : ApartFromFile(lba, n, i)
         /\ \A k \in 1 .. Len(free_extents') :
              Apart(lba, n, free_extents'[k].start_lba, free_extents'[k].count)
<1> USE DEF AfsInv
<1>1. AfsTypes
  BY AfsTypesHold, Zenon
<1>2. next_free_lba \in Nat /\ next_free_lba >= DataStart
  BY Zenon DEF AfsTypeOK, SpaceInv
<1>3. Used(dir') = Used(dir)
  BY Zenon DEF Used
<1>4. ASSUME NEW i \in First(Fits(n)), lba = free_extents[i].start_lba,
             alloc_from_free_list(i, n), UNCHANGED next_free_lba
      PROVE  /\ free_extents' \in Seq(FreeExtent) /\ next_free_lba' \in Nat
             /\ SpaceInv'
             /\ lba >= DataStart /\ lba + n <= next_free_lba'
             /\ \A f \in Used(dir) : ApartFromFile(lba, n, f)
             /\ \A k \in 1 .. Len(free_extents') :
                  Apart(lba, n, free_extents'[k].start_lba, free_extents'[k].count)
  <2>1. i \in Fits(n)
    BY DEF First
  <2>2. i \in 1 .. Len(free_extents) /\ free_extents[i].count >= n
    BY <2>1 DEF Fits
  <2>3. /\ free_extents' \in Seq(FreeExtent)
        /\ \A k \in 1 .. Len(free_extents') :
             /\ \E j \in 1 .. Len(free_extents) :
                  /\ free_extents'[k].start_lba >= free_extents[j].start_lba
                  /\ free_extents'[k].start_lba + free_extents'[k].count
                       = free_extents[j].start_lba + free_extents[j].count
             /\ free_extents'[k].count >= 1
             /\ Apart(free_extents[i].start_lba, n,
                      free_extents'[k].start_lba, free_extents'[k].count)
             /\ \A m \in 1 .. Len(free_extents') :
                  k # m => Apart(free_extents'[k].start_lba, free_extents'[k].count,
                                 free_extents'[m].start_lba, free_extents'[m].count)
    BY <1>4, <2>1, AllocFromFreeList, Zenon
  <2>4. ASSUME NEW k \in 1 .. Len(free_extents')
        PROVE  free_extents'[k].start_lba \in Nat /\ free_extents'[k].count \in Nat
    <3>1. free_extents'[k] \in FreeExtent
      BY <2>3
    <3> QED
      BY <3>1, Zenon DEF FreeExtent
  <2>5. lba >= DataStart /\ lba + n <= next_free_lba'
    <3>1. /\ free_extents[i].start_lba \in Nat /\ free_extents[i].count \in Nat
          /\ free_extents[i].start_lba >= DataStart
          /\ free_extents[i].start_lba + free_extents[i].count <= next_free_lba
      BY <1>1, <2>2, Zenon DEF AfsTypes, SpaceInv
    <3> QED
      BY <1>2, <1>4, <2>2, <3>1
  <2>6. ASSUME NEW f \in Used(dir) PROVE ApartFromFile(lba, n, f)
    <3>1. ApartFromFile(free_extents[i].start_lba, free_extents[i].count, f)
      BY <2>2, Zenon DEF SpaceInv
    <3>2. /\ free_extents[i].start_lba \in Nat /\ free_extents[i].count \in Nat
          /\ dir[f].start_lba \in Nat /\ dir[f].size \in Nat
      BY <1>1, <2>2, Zenon DEF AfsTypes
    <3>3. lba <= lba /\ lba + n <= free_extents[i].start_lba + free_extents[i].count
      BY <1>4, <2>2, <3>2
    <3> QED
      BY <1>4, <3>1, <3>2, <3>3, ApartWithin, Zenon DEF ApartFromFile
  <2>7. SpaceInv'
    <3>1. ASSUME NEW k \in 1 .. Len(free_extents')
          PROVE  /\ free_extents'[k].start_lba >= DataStart
                 /\ free_extents'[k].start_lba + free_extents'[k].count <= next_free_lba
                 /\ \A f \in Used(dir) :
                      ApartFromFile(free_extents'[k].start_lba, free_extents'[k].count, f)
      <4>1. PICK j \in 1 .. Len(free_extents) :
              /\ free_extents'[k].start_lba >= free_extents[j].start_lba
              /\ free_extents'[k].start_lba + free_extents'[k].count
                   = free_extents[j].start_lba + free_extents[j].count
        BY <2>3, Zenon
      <4>2. /\ free_extents[j].start_lba \in Nat /\ free_extents[j].count \in Nat
            /\ free_extents[j].start_lba >= DataStart
            /\ free_extents[j].start_lba + free_extents[j].count <= next_free_lba
        BY <1>1, Zenon DEF AfsTypes, SpaceInv
      <4>3. /\ free_extents[j].start_lba <= free_extents'[k].start_lba
            /\ free_extents'[k].start_lba + free_extents'[k].count
                 <= free_extents[j].start_lba + free_extents[j].count
        BY <2>4, <4>1, <4>2
      <4>4. ASSUME NEW f \in Used(dir)
            PROVE  ApartFromFile(free_extents'[k].start_lba, free_extents'[k].count, f)
        <5>1. ApartFromFile(free_extents[j].start_lba, free_extents[j].count, f)
          BY DEF SpaceInv
        <5>2. dir[f].start_lba \in Nat /\ dir[f].size \in Nat
          BY <1>1, Zenon DEF AfsTypes
        <5> QED
          BY <2>4, <4>2, <4>3, <5>1, <5>2, ApartWithin, Zenon DEF ApartFromFile
      <4> QED
        BY <2>4, <4>1, <4>2, <4>3, <4>4 DEF DataStart
    <3>2. mounted => \A f \in Used(dir) : End(dir, f) <= next_free_lba
      BY Zenon DEF SpaceInv
    <3> QED
      BY <1>2, <1>3, <1>4, <2>3, <3>1, <3>2, Zenon DEF SpaceInv, End, ApartFromFile, ApartFromFree
  <2>8. next_free_lba' \in Nat
    BY <1>2, <1>4, Zenon
  <2>9. \A k \in 1 .. Len(free_extents') :
          Apart(lba, n, free_extents'[k].start_lba, free_extents'[k].count)
    BY <1>4, <2>3, Zenon
  <2> QED
    BY <2>3, <2>5, <2>6, <2>7, <2>8, <2>9, Zenon
<1>5. ASSUME lba = next_free_lba, next_free_lba' = lba + n, UNCHANGED free_extents
      PROVE  /\ free_extents' \in Seq(FreeExtent) /\ next_free_lba' \in Nat
             /\ SpaceInv'
             /\ lba >= DataStart /\ lba + n <= next_free_lba'
             /\ \A f \in Used(dir) : ApartFromFile(lba, n, f)
             /\ \A k \in 1 .. Len(free_extents') :
                  Apart(lba, n, free_extents'[k].start_lba, free_extents'[k].count)
  <2>1. free_extents' \in Seq(FreeExtent) /\ next_free_lba' \in Nat
    BY <1>5 DEF AfsTypeOK
  <2>2. ASSUME NEW f \in Used(dir)
        PROVE  ApartFromFile(lba, n, f) /\ End(dir, f) <= next_free_lba'
    <3>1. End(dir, f) <= next_free_lba /\ dir[f].start_lba \in Nat /\ dir[f].size \in Nat
      BY <1>1, Zenon DEF AfsTypes, SpaceInv
    <3> QED
      BY <1>2, <1>5, <3>1 DEF ApartFromFile, Apart, End
  <2>3. ASSUME NEW k \in 1 .. Len(free_extents)
        PROVE  /\ Apart(lba, n, free_extents[k].start_lba, free_extents[k].count)
               /\ free_extents[k].start_lba + free_extents[k].count <= next_free_lba'
    <3>1. /\ free_extents[k].start_lba \in Nat /\ free_extents[k].count \in Nat
          /\ free_extents[k].start_lba + free_extents[k].count <= next_free_lba
      BY <1>1, Zenon DEF AfsTypes, SpaceInv
    <3> QED
      BY <1>2, <1>5, <3>1 DEF Apart
  <2>4. next_free_lba' >= DataStart
    BY <1>2, <1>5 DEF DataStart
  <2>5. SpaceInv'
    BY <1>3, <1>5, <2>2, <2>3, <2>4, Zenon DEF SpaceInv, End, ApartFromFile, ApartFromFree
  <2> QED
    BY <1>2, <1>5, <2>1, <2>2, <2>3, <2>5
<1> QED
  BY <1>4, <1>5 DEF Allocate

\* afs_write into an extent of its own: the file's old one stays intact.
LEMMA NewExtentStep ==
  ASSUME NEW name \in NAMES, NEW n \in FILE_SIZES, AfsInv, WriteNewExtent(name, n)
  PROVE  AfsInv'
<1> USE DEF AfsInv
<1>1. PICK slot \in find_slot(name), lba \in DataStart .. TOTAL :
        Allocate(n, lba) /\ StartWrite(name, slot, lba, n)
  BY Zenon DEF WriteNewExtent
<1>2. /\ UNCHANGED <<dir, sectors, sb, mounted, kept>>
      /\ afs_pc = "idle" /\ mounted
      /\ afs_pc' = "data"
      /\ writes' = writes + 1
      /\ afs_req' = [name |-> name, slot |-> slot, lba |-> lba, size |-> n, off |-> 0]
  BY <1>1, Zenon DEF WriteNewExtent, StartWrite, afsDisk
<1>3. n \in Nat \ {0} /\ lba \in Nat
  BY AfsAssumption DEF DataStart
<1>4. /\ free_extents' \in Seq(FreeExtent) /\ next_free_lba' \in Nat
      /\ SpaceInv'
      /\ lba >= DataStart /\ lba + n <= next_free_lba'
      /\ \A i \in Used(dir) : ApartFromFile(lba, n, i)
      /\ \A k \in 1 .. Len(free_extents') :
           Apart(lba, n, free_extents'[k].start_lba, free_extents'[k].count)
  BY <1>1, <1>2, <1>3, AllocateApart, Zenon
<1>5. slot \in DirSlots /\ \A i \in Used(dir) : dir[i].name = name <=> i = slot
  BY Zenon DEF find_slot, First, Named, FreeFiles, Used, DirInv
<1>6. AfsTypeOK'
  <2>1. afs_req' \in Request
    BY <1>2, <1>3, <1>5, Zenon DEF Request
  <2> QED
    BY <1>2, <1>4, <2>1 DEF AfsTypeOK
<1>7. DirInv' /\ PhaseInv'
  BY <1>2, Zenon DEF DirInv, PhaseInv, Used, ApartFromFile
<1>8. Durable'
  BY <1>2, Zenon DEF Durable, Named, Used, FileSectors
<1>9. WriteInv'
  <2>1. Elsewhere'
    BY <1>2, <1>4, Zenon DEF Elsewhere, Used, ApartFromFile
  <2>2. \A s \in Extent(lba, n) : ~(s < lba + 0)
    BY <1>3 DEF Extent
  <2>3. /\ afs_req'.name = name /\ afs_req'.slot = slot
        /\ afs_req'.lba = lba /\ afs_req'.size = n /\ afs_req'.off = 0
    BY <1>2
  <2>4. (\A i \in Used(dir) : dir[i].name = afs_req.name <=> i = afs_req.slot)'
    BY <1>2, <1>5, <2>3, Zenon
  <2>5. (\A k \in 1 .. Len(free_extents) : ApartFromFree(afs_req.lba, afs_req.size, k))'
    BY <1>4, <2>3, Zenon DEF ApartFromFree
  <2>6. writes' >= 1
    BY <1>2 DEF AfsTypeOK
  <2>7. (\A s \in Extent(afs_req.lba, afs_req.size) :
           s < afs_req.lba + afs_req.off => s \in Sectors /\ sectors[s] = writes)'
    BY <2>2, <2>3, Zenon
  <2>8. (/\ afs_req.name \in NAMES
         /\ afs_req.lba >= DataStart
         /\ afs_req.lba + afs_req.size <= next_free_lba)'
    BY <1>4, <2>3, Zenon
  <2>9. afs_req'.size >= 1
    BY <1>3, <2>3
  <2> QED
    BY <2>1, <2>4, <2>5, <2>6, <2>7, <2>8, <2>9, Zenon DEF WriteInv
<1> QED
  BY <1>4, <1>6, <1>7, <1>8, <1>9, Zenon

\* What a write in progress may touch is part of no file that promises
\* a content.
LEMMA PromisedUntouched ==
  ASSUME AfsInv, afs_pc = "data", NEW i \in Used(dir), kept[dir[i].name] > 0
  PROVE  FileSectors(i) \cap Extent(afs_req.lba, afs_req.size) = {}
<1> USE DEF AfsInv
<1>1. AfsTypes
  BY AfsTypesHold
<1>2. ApartFromFile(afs_req.lba, afs_req.size, i)
  <2>1. CASE i # afs_req.slot
    BY <2>1, WriteApart
  <2>2. CASE i = afs_req.slot
    <3>1. dir[i].name = afs_req.name
      BY <2>2 DEF WriteInv
    <3>2. ~InPlace
      BY <3>1 DEF InPlace, Unknown
    <3> QED
      BY <3>2, Zenon DEF WriteInv, Elsewhere
  <2> QED
    BY <2>1, <2>2, Zenon
<1> QED
  BY <1>1, <1>2, ExtentsDisjoint, Zenon DEF AfsTypes, ApartFromFile, FileSectors

\* A data request, complete or failed on the way.
LEMMA ChunkStep == AfsInv /\ (WriteChunk \/ ChunkFails) => AfsInv'
<1> SUFFICES ASSUME AfsInv, WriteChunk \/ ChunkFails PROVE AfsInv'
  OBVIOUS
<1> USE DEF AfsInv
<1>1. /\ afs_pc = "data" /\ afs_req.off < afs_req.size
      /\ sectors' \in {sectors, WithSectors(ChunkAt(afs_req))}
      /\ UNCHANGED <<sb, dir, mounted, next_free_lba, free_extents, writes, kept>>
  BY DEF WriteChunk, ChunkFails, afsMemory
<1>2. AfsTypes
  BY AfsTypesHold
<1>3. ChunkAt(afs_req) \subseteq Extent(afs_req.lba, afs_req.size)
  BY <1>2 DEF ChunkAt, Extent, AfsTypes
<1>4. sectors' \in [Sectors -> Nat]
  BY <1>1, Zenon DEF WithSectors, AfsTypeOK
<1>5. DirInv' /\ SpaceInv'
  BY <1>1, Zenon DEF DirInv, SpaceInv, Used, End, ApartFromFile, ApartFromFree
<1>6. Durable'
  <2>0. dir' = dir /\ kept' = kept /\ \A i \in Used(dir) : FileSectors(i)' = FileSectors(i)
    BY <1>1 DEF FileSectors
  <2> SUFFICES ASSUME NEW n \in NAMES
               PROVE  /\ kept'[n] = 0 => Named(n)' = {}
                      /\ kept'[n] > 0 =>
                           \E i \in Used(dir') :
                             /\ dir'[i].name = n
                             /\ \A s \in FileSectors(i)' : s \in Sectors /\ sectors'[s] = kept'[n]
    BY Zenon DEF Durable
  <2>1. kept[n] = 0 => Named(n)' = {}
    BY <1>1, Zenon DEF Durable, Named, Used
  <2>2. ASSUME kept[n] > 0
        PROVE  \E i \in Used(dir) :
                 /\ dir[i].name = n
                 /\ \A s \in FileSectors(i) : s \in Sectors /\ sectors'[s] = kept[n]
    <3>1. PICK i \in Used(dir) :
            /\ dir[i].name = n
            /\ \A s \in FileSectors(i) : s \in Sectors /\ sectors[s] = kept[n]
      BY <2>2, Zenon DEF Durable
    <3>2. FileSectors(i) \cap Extent(afs_req.lba, afs_req.size) = {}
      BY <1>1, <2>2, <3>1, PromisedUntouched, Zenon
    <3>3. \A s \in FileSectors(i) : sectors'[s] = sectors[s]
      BY <1>1, <1>3, <3>1, <3>2 DEF WithSectors
    <3> QED
      BY <3>1, <3>3
  <2> QED
    BY <2>0, <2>1, <2>2
<1>7. CASE WriteChunk
  <2>1. /\ ChunkAt(afs_req) \subseteq Sectors
        /\ sectors' = WithSectors(ChunkAt(afs_req))
        /\ afs_req' = [afs_req EXCEPT !.off = @ + CHUNK]
        /\ afs_pc' = afs_pc
    BY <1>7 DEF WriteChunk
  <2>2. afs_req' \in Request
    <3>1. afs_req.off + CHUNK \in Nat
      BY <1>2, AfsAssumption DEF AfsTypes
    <3> QED
      BY <2>1, <3>1, Zenon DEF AfsTypeOK, Request
  <2>3. AfsTypeOK' /\ PhaseInv'
    BY <1>1, <1>4, <2>1, <2>2 DEF AfsTypeOK, PhaseInv, Used
  <2>4. /\ afs_req'.name = afs_req.name /\ afs_req'.slot = afs_req.slot
        /\ afs_req'.lba = afs_req.lba /\ afs_req'.size = afs_req.size
        /\ afs_req'.off = afs_req.off + CHUNK
    BY <2>1 DEF AfsTypeOK, Request
  <2>5. ASSUME NEW s \in Extent(afs_req.lba, afs_req.size),
               s < afs_req.lba + (afs_req.off + CHUNK)
        PROVE  s \in Sectors /\ sectors'[s] = writes
    <3>1. CASE s < afs_req.lba + afs_req.off
      BY <1>1, <2>1, <3>1 DEF WriteInv, WithSectors
    <3>2. CASE ~(s < afs_req.lba + afs_req.off)
      <4>1. s \in ChunkAt(afs_req)
        BY <1>2, <2>5, <3>2, AfsAssumption DEF ChunkAt, Extent, AfsTypes
      <4> QED
        BY <2>1, <4>1, Zenon DEF WithSectors
    <3> QED
      BY <3>1, <3>2
  <2>6. (InPlace \/ Elsewhere)'
    BY <1>1, <2>4, Zenon DEF WriteInv, InPlace, Elsewhere, Used, ApartFromFile
  <2>7. WriteInv'
    BY <1>1, <2>1, <2>4, <2>5, <2>6, Zenon DEF WriteInv, ApartFromFree, Used
  <2> QED
    BY <1>5, <1>6, <2>3, <2>7
<1>8. CASE ChunkFails
  <2>1. afs_pc' = "idle" /\ afs_req' = NoReq
    BY <1>8, Zenon DEF ChunkFails
  <2>2. NoReq \in Request
    BY Nothing, Zenon
  <2> QED
    BY <1>1, <1>4, <1>5, <1>6, <2>1, <2>2, Zenon DEF AfsTypeOK, PhaseInv, WriteInv, Used
<1> QED
  BY <1>7, <1>8

\* The directory write that completes afs_write.
LEMMA FlushStep == AfsInv /\ WriteFlush => AfsInv'
<1> SUFFICES ASSUME AfsInv, WriteFlush PROVE AfsInv'
  OBVIOUS
<1> USE DEF AfsInv
<1> DEFINE name == afs_req.name
           slot == afs_req.slot
<1>1. /\ afs_pc = "data" /\ afs_req.off >= afs_req.size
      /\ afs_pc' = "idle" /\ afs_req' = NoReq
      /\ UNCHANGED <<sb, sectors, mounted, next_free_lba, free_extents, writes>>
  BY DEF WriteFlush, afsMemory
<1>2. /\ AfsTypes /\ mounted /\ sb
      /\ next_free_lba \in Nat /\ writes \in Nat
  BY <1>1, AfsTypesHold, Zenon DEF PhaseInv, AfsTypeOK
<1>3. name \in NAMES
  BY <1>1 DEF WriteInv
<1>4. /\ kept' \in [NAMES -> Nat \cup {Unknown}]
      /\ \A n \in NAMES : n # name => kept'[n] = kept[n]
  BY <1>2, <1>3, Zenon DEF WriteFlush, AfsTypeOK
<1>5. /\ PhaseInv' /\ WriteInv'
      /\ NoReq \in Request
  BY <1>1, <1>2, Nothing, Zenon DEF PhaseInv, WriteInv
<1>6. \/ /\ name \in LONG
         /\ dir' = dir /\ kept'[name] = kept[name]
      \/ /\ name \notin LONG
         /\ dir' \in {dir, NewDir}
         /\ kept'[name] = Unknown \/ (kept'[name] = writes /\ dir' = NewDir)
  BY <1>3 DEF WriteFlush, AfsTypeOK
<1>7. CASE dir' = NewDir /\ name \notin LONG
  <2> DEFINE entry == [name |-> name, start_lba |-> afs_req.lba, size |-> afs_req.size]
  <2>1. /\ entry \in DirEntry
        /\ entry.start_lba = afs_req.lba /\ entry.size = afs_req.size /\ entry.name = name
        /\ afs_req.lba >= DataStart /\ afs_req.lba # 0 /\ afs_req.size >= 1
    <3>1. /\ afs_req.lba \in Nat /\ afs_req.size \in Nat
          /\ afs_req.lba >= DataStart /\ afs_req.size >= 1
      BY <1>1, <1>2, Zenon DEF AfsTypes, WriteInv
    <3>2. afs_req.lba # 0
      BY ONLY <3>1 DEF DataStart
    <3> QED
      BY <1>3, <3>1, <3>2, Zenon DEF DirEntry
  <2>2. dir' = [dir EXCEPT ![slot] = entry]
    BY <1>7 DEF NewDir
  <2>3. \A i \in DirSlots : dir'[i] = IF i = slot THEN entry ELSE dir[i]
    BY <2>2, Zenon DEF AfsTypeOK
  <2> HIDE DEF entry
  <2>4. Used(dir') = Used(dir) \cup {slot}
    BY <1>2, <2>1, <2>3 DEF Used, AfsTypes
  <2>5. \A i \in Used(dir) : i # slot => dir[i].name # name
    BY <1>1 DEF WriteInv
  <2>6. \A i \in Used(dir) : i # slot => ApartFromFile(afs_req.lba, afs_req.size, i)
    BY <1>1, WriteApart
  <2>7. AfsTypeOK'
    <3>1. dir' \in [DirSlots -> DirEntry]
      BY <1>2, <2>1, <2>2, Zenon DEF AfsTypeOK, AfsTypes
    <3> QED
      BY <1>1, <1>4, <1>5, <3>1 DEF AfsTypeOK
  <2>8. DirInv'
    <3>1. \A i \in Used(dir') :
            /\ dir'[i].start_lba >= DataStart
            /\ dir'[i].size >= 1
            /\ dir'[i].name \in NAMES \ LONG
      BY <1>2, <1>3, <1>7, <2>1, <2>3, <2>4 DEF DirInv, AfsTypes
    <3>2. ASSUME NEW i \in Used(dir'), NEW j \in Used(dir'), i # j
          PROVE  /\ dir'[i].name # dir'[j].name
                 /\ Apart(dir'[i].start_lba, dir'[i].size, dir'[j].start_lba, dir'[j].size)
      <4>0. i \in DirSlots /\ j \in DirSlots
        BY <1>2, <2>4, Zenon DEF AfsTypes
      <4>1. CASE i = slot
        <5>1. dir'[i] = entry /\ dir'[j] = dir[j] /\ j \in Used(dir)
          BY <2>3, <2>4, <3>2, <4>0, <4>1, Zenon
        <5> QED
          BY <2>1, <2>5, <2>6, <3>2, <4>1, <5>1, Zenon DEF ApartFromFile
      <4>2. CASE j = slot
        <5>1. dir'[j] = entry /\ dir'[i] = dir[i] /\ i \in Used(dir)
          BY <2>3, <2>4, <3>2, <4>0, <4>2, Zenon
        <5>2. Apart(afs_req.lba, afs_req.size, dir[i].start_lba, dir[i].size)
          BY <2>6, <3>2, <4>2, <5>1, Zenon DEF ApartFromFile
        <5>3. Apart(dir[i].start_lba, dir[i].size, afs_req.lba, afs_req.size)
          BY <5>2, Zenon DEF Apart
        <5> QED
          BY <2>1, <2>5, <3>2, <4>2, <5>1, <5>3, Zenon
      <4>3. CASE i # slot /\ j # slot
        <5>1. dir'[j] = dir[j] /\ dir'[i] = dir[i] /\ i \in Used(dir) /\ j \in Used(dir)
          BY <2>3, <2>4, <4>0, <4>3, Zenon
        <5> QED
          BY <3>2, <5>1 DEF DirInv, ApartFromFile
      <4> QED
        BY <4>1, <4>2, <4>3, Zenon
    <3> QED
      BY <3>1, <3>2, Zenon DEF DirInv, ApartFromFile
  <2>9. SpaceInv'
    <3>1. \A i \in Used(dir') : End(dir', i) <= next_free_lba
      <4> TAKE i \in Used(dir')
      <4>1. CASE i = slot
        BY <1>1, <1>2, <2>1, <2>3, <4>1, Zenon DEF End, WriteInv, AfsTypes
      <4>2. CASE i # slot
        BY <1>2, <2>3, <2>4, <4>2, Zenon DEF End, SpaceInv, AfsTypes
      <4> QED
        BY <4>1, <4>2
    <3>2. ASSUME NEW k \in 1 .. Len(free_extents), NEW i \in Used(dir')
          PROVE  Apart(free_extents[k].start_lba, free_extents[k].count,
                       dir'[i].start_lba, dir'[i].size)
      <4>1. CASE i = slot
        <5>1. Apart(afs_req.lba, afs_req.size,
                    free_extents[k].start_lba, free_extents[k].count)
          BY <1>1 DEF WriteInv, ApartFromFree
        <5>2. dir'[i] = entry
          BY <1>2, <2>3, <4>1, Zenon DEF AfsTypes
        <5> QED
          BY <2>1, <5>1, <5>2, Zenon DEF Apart
      <4>2. CASE i # slot
        BY <1>2, <2>3, <2>4, <4>2, Zenon DEF SpaceInv, ApartFromFile, AfsTypes
      <4> QED
        BY <4>1, <4>2, Zenon
    <3> QED
      BY <1>1, <3>1, <3>2, Zenon DEF SpaceInv, ApartFromFile, ApartFromFree
  <2>10. Durable'
    <3> SUFFICES ASSUME NEW n \in NAMES
                 PROVE  /\ kept'[n] = 0 => Named(n)' = {}
                        /\ kept'[n] > 0 =>
                             \E i \in Used(dir') :
                               /\ dir'[i].name = n
                               /\ \A s \in Extent(dir'[i].start_lba, dir'[i].size) :
                                    s \in Sectors /\ sectors[s] = kept'[n]
      BY <1>1, DurableFrom, Zenon
    <3>1. CASE n = name
      <4>1. kept'[n] # 0
        BY <1>1, <1>2, <1>6, <1>7, <3>1 DEF Unknown, WriteInv
      <4>2. ASSUME kept'[n] > 0, kept'[n] = writes
            PROVE  /\ slot \in Used(dir') /\ dir'[slot].name = n
                   /\ \A s \in Extent(dir'[slot].start_lba, dir'[slot].size) :
                        s \in Sectors /\ sectors[s] = kept'[n]
        <5>1. slot \in Used(dir') /\ dir'[slot] = entry
          BY <1>2, <2>3, <2>4, Zenon DEF AfsTypes
        <5>2. \A s \in Extent(afs_req.lba, afs_req.size) : s \in Sectors /\ sectors[s] = writes
          <6>1. \A s \in Extent(afs_req.lba, afs_req.size) : s < afs_req.lba + afs_req.off
            BY <1>1, <1>2 DEF Extent, AfsTypes
          <6> QED
            BY <1>1, <6>1, Zenon DEF WriteInv
        <5> QED
          BY <2>1, <3>1, <4>2, <5>1, <5>2, Zenon
      <4> QED
        BY <1>6, <1>7, <3>1, <4>1, <4>2 DEF Unknown
    <3>2. CASE n # name
      <4>1. kept'[n] = kept[n]
        BY <1>4, <3>2
      <4>2. \A i \in Used(dir') : dir'[i].name = n => i \in Used(dir) /\ i # slot
        BY <1>2, <2>1, <2>3, <2>4, <3>2, Zenon DEF AfsTypes
      <4>3. \A i \in Used(dir) : dir[i].name = n => i # slot /\ i \in Used(dir') /\ dir'[i] = dir[i]
        BY <1>1, <1>2, <2>3, <2>4, <3>2, Zenon DEF AfsTypes, WriteInv
      <4>4. kept[n] = 0 => Named(n)' = {}
        BY <1>2, <2>3, <4>2 DEF Durable, Named, AfsTypes
      <4>5. ASSUME kept[n] > 0
            PROVE  \E i \in Used(dir') :
                     /\ dir'[i].name = n
                     /\ \A s \in Extent(dir'[i].start_lba, dir'[i].size) :
                          s \in Sectors /\ sectors[s] = kept[n]
        BY <4>3, <4>5 DEF Durable, FileSectors
      <4> QED
        BY <4>1, <4>4, <4>5, Zenon
    <3> QED
      BY <3>1, <3>2, Zenon
  <2> QED
    BY <1>5, <2>7, <2>8, <2>9, <2>10, Zenon
<1>8. CASE dir' = dir /\ (name \in LONG \/ dir' # NewDir)
  <2>1. AfsTypeOK'
    BY <1>1, <1>4, <1>5, <1>8 DEF AfsTypeOK
  <2>2. DirInv' /\ SpaceInv'
    BY <1>1, <1>8, Zenon DEF DirInv, SpaceInv, Used, End, ApartFromFile, ApartFromFree
  <2>3. \A n \in NAMES : kept'[n] = kept[n] \/ kept'[n] = Unknown
    BY <1>4, <1>6, <1>8, Zenon
  <2>4. Durable'
    BY <1>1, <1>8, <2>3 DEF Durable, Named, Used, FileSectors, Unknown
  <2> QED
    BY <1>5, <2>1, <2>2, <2>4, Zenon
<1> QED
  BY <1>6, <1>7, <1>8, Zenon

\* afs_delete: the extent is free, and nothing else changes.
LEMMA DeleteStep ==
  ASSUME NEW name \in NAMES, AfsInv, afs_delete(name)
  PROVE  AfsInv'
<1> USE DEF AfsInv
<1>1. PICK i \in Named(name) : Delete(name, i, Without(i), 0)
  BY Zenon DEF afs_delete
<1>2. /\ afs_pc = "idle" /\ mounted
      /\ add_to_free_list(dir[i].start_lba, dir[i].size)
      /\ dir' = [dir EXCEPT ![i] = Unused]
      /\ kept' = [kept EXCEPT ![name] = 0]
      /\ UNCHANGED <<sb, sectors, mounted, next_free_lba, afs_pc, afs_req, writes>>
  BY <1>1, Zenon DEF Delete, Without
<1>3. /\ AfsTypes /\ sb /\ next_free_lba \in Nat
      /\ i \in Used(dir) /\ i \in DirSlots /\ dir[i].name = name
  BY <1>2, AfsTypesHold DEF PhaseInv, AfsTypeOK, Named, Used
<1>4. \A j \in DirSlots : dir'[j] = IF j = i THEN Unused ELSE dir[j]
  BY <1>2, Zenon DEF AfsTypeOK
<1>5. Used(dir') = Used(dir) \ {i}
  BY <1>3, <1>4 DEF Used, Unused
<1>6. \A j \in Used(dir') : j \in Used(dir) /\ j # i /\ dir'[j] = dir[j]
  BY <1>3, <1>4, <1>5, Zenon DEF AfsTypes
<1>7. DirInv'
  BY <1>6 DEF DirInv, ApartFromFile
<1>8. PhaseInv' /\ WriteInv'
  BY <1>2, <1>3, Zenon DEF PhaseInv, WriteInv
<1>9. Durable'
  <2>0. sectors' = sectors
    BY <1>2, Zenon
  <2>1. Named(name)' = {}
    BY <1>3, <1>6, Zenon DEF Named, DirInv
  <2>2. kept'[name] = 0 /\ \A n \in NAMES : n # name => kept'[n] = kept[n]
    BY <1>2 DEF AfsTypeOK
  <2>3. \A j \in Used(dir) : dir[j].name # name => j \in Used(dir') /\ dir'[j] = dir[j]
    BY <1>3, <1>4, <1>5, Zenon DEF AfsTypes
  <2>4. ASSUME NEW n \in NAMES, n # name
        PROVE  /\ kept[n] = 0 => Named(n)' = {}
               /\ kept[n] > 0 =>
                    \E j \in Used(dir') :
                      /\ dir'[j].name = n
                      /\ \A s \in Extent(dir'[j].start_lba, dir'[j].size) :
                           s \in Sectors /\ sectors[s] = kept[n]
    <3>1. kept[n] = 0 => Named(n)' = {}
      BY <1>6 DEF Durable, Named
    <3>2. ASSUME kept[n] > 0
          PROVE  \E j \in Used(dir') :
                   /\ dir'[j].name = n
                   /\ \A s \in Extent(dir'[j].start_lba, dir'[j].size) :
                        s \in Sectors /\ sectors[s] = kept[n]
      <4>1. PICK j \in Used(dir) :
              /\ dir[j].name = n
              /\ \A s \in Extent(dir[j].start_lba, dir[j].size) :
                   s \in Sectors /\ sectors[s] = kept[n]
        BY <3>2, Zenon DEF Durable, FileSectors
      <4> QED
        BY <2>3, <2>4, <4>1, Zenon
    <3> QED
      BY <3>1, <3>2, Zenon
  <2> SUFFICES ASSUME NEW n \in NAMES
               PROVE  /\ kept'[n] = 0 => Named(n)' = {}
                      /\ kept'[n] > 0 =>
                           \E j \in Used(dir') :
                             /\ dir'[j].name = n
                             /\ \A s \in Extent(dir'[j].start_lba, dir'[j].size) :
                                  s \in Sectors /\ sectors[s] = kept'[n]
    BY <2>0, DurableFrom, Zenon
  <2>5. CASE n = name
    BY <2>1, <2>2, <2>5
  <2>6. CASE n # name
    BY <2>2, <2>4, <2>6
  <2> QED
    BY <2>5, <2>6, Zenon
<1>10. kept' \in [NAMES -> Nat \cup {Unknown}] /\ dir' \in [DirSlots -> DirEntry]
  <2>1. Unused \in DirEntry
    BY DEF Unused, DirEntry
  <2> QED
    BY <1>2, <2>1, Zenon DEF AfsTypeOK
<1>11. CASE Len(free_extents) >= AFS_MAX_FREE_EXTENTS
  <2>1. free_extents' = free_extents
    BY <1>2, <1>11, Zenon DEF add_to_free_list
  <2>2. AfsTypeOK'
    BY <1>2, <1>10, <2>1 DEF AfsTypeOK
  <2>3. SpaceInv'
    BY <1>2, <1>6, <2>1, Zenon DEF SpaceInv, End, ApartFromFile, ApartFromFree
  <2> QED
    BY <1>7, <1>8, <1>9, <2>2, <2>3, Zenon
<1>12. CASE ~(Len(free_extents) >= AFS_MAX_FREE_EXTENTS)
  <2> DEFINE freed == [start_lba |-> dir[i].start_lba, count |-> dir[i].size]
             N == Len(free_extents)
  <2>1. free_extents' = Append(free_extents, freed)
    BY <1>2, <1>12 DEF add_to_free_list
  <2>2. freed \in FreeExtent /\ N \in Nat
    BY <1>3, Zenon DEF FreeExtent, AfsTypes
  <2>3. /\ free_extents' \in Seq(FreeExtent) /\ Len(free_extents') = N + 1
        /\ \A k \in 1 .. N : free_extents'[k] = free_extents[k]
        /\ free_extents'[N + 1] = freed
    BY <2>1, <2>2 DEF AfsTypeOK
  <2>4. AfsTypeOK'
    BY <1>2, <1>10, <2>3, Zenon DEF AfsTypeOK
  <2>5. /\ freed.start_lba = dir[i].start_lba /\ freed.count = dir[i].size
        /\ freed.start_lba \in Nat /\ freed.count \in Nat
        /\ freed.start_lba >= DataStart /\ freed.count >= 1
        /\ freed.start_lba + freed.count <= next_free_lba
    BY <1>2, <1>3, Zenon DEF DirInv, SpaceInv, End, AfsTypes
  <2> HIDE DEF freed
  <2>6. \A j \in Used(dir') :
          Apart(freed.start_lba, freed.count, dir'[j].start_lba, dir'[j].size)
    BY <1>3, <1>6, <2>5, Zenon DEF DirInv, ApartFromFile
  <2>7. ASSUME NEW k \in 1 .. N
        PROVE  /\ Apart(free_extents[k].start_lba, free_extents[k].count,
                        freed.start_lba, freed.count)
               /\ Apart(freed.start_lba, freed.count,
                        free_extents[k].start_lba, free_extents[k].count)
    <3>1. /\ Apart(free_extents[k].start_lba, free_extents[k].count,
                   freed.start_lba, freed.count)
          /\ free_extents[k].start_lba \in Nat /\ free_extents[k].count \in Nat
      BY <1>3, <2>5, Zenon DEF SpaceInv, ApartFromFile, AfsTypes
    <3> QED
      BY <2>5, <3>1, Zenon DEF Apart
  <2>8. ASSUME NEW k \in 1 .. N + 1
        PROVE  /\ free_extents'[k].start_lba >= DataStart
               /\ free_extents'[k].count >= 1
               /\ free_extents'[k].start_lba + free_extents'[k].count <= next_free_lba
               /\ \A j \in Used(dir') :
                    Apart(free_extents'[k].start_lba, free_extents'[k].count,
                          dir'[j].start_lba, dir'[j].size)
    <3>1. CASE k = N + 1
      BY <2>3, <2>5, <2>6, <3>1, Zenon
    <3>2. CASE k \in 1 .. N
      BY <1>6, <2>3, <3>2, Zenon DEF SpaceInv, ApartFromFile
    <3>3. k = N + 1 \/ k \in 1 .. N
      BY ONLY <2>2, <2>8
    <3> QED
      BY <3>1, <3>2, <3>3, Zenon
  <2>9. ASSUME NEW k \in 1 .. N + 1, NEW m \in 1 .. N + 1, k # m
        PROVE  Apart(free_extents'[k].start_lba, free_extents'[k].count,
                     free_extents'[m].start_lba, free_extents'[m].count)
    <3>1. CASE k = N + 1
      <4>1. m \in 1 .. N
        BY <2>2, <2>9, <3>1
      <4> QED
        BY <2>3, <2>7, <3>1, <4>1
    <3>2. CASE m = N + 1
      <4>1. k \in 1 .. N
        BY <2>2, <2>9, <3>2
      <4> QED
        BY <2>3, <2>7, <3>2, <4>1
    <3>3. CASE k \in 1 .. N /\ m \in 1 .. N
      BY <2>3, <2>9, <3>3, Zenon DEF SpaceInv, ApartFromFree
    <3> QED
      BY <2>2, <3>1, <3>2, <3>3
  <2>10. mounted' => \A j \in Used(dir') : End(dir', j) <= next_free_lba
    BY <1>2, <1>6 DEF SpaceInv, End
  <2>11. SpaceInv'
    BY <1>2, <2>3, <2>8, <2>9, <2>10, Zenon DEF SpaceInv, ApartFromFile, ApartFromFree
  <2> QED
    BY <1>7, <1>8, <1>9, <2>4, <2>11
<1> QED
  BY <1>11, <1>12

\* Power loss, between any two requests.
LEMMA RebootStep == AfsInv /\ Reboot => AfsInv'
<1> SUFFICES ASSUME AfsInv, Reboot PROVE AfsInv'
  OBVIOUS
<1> USE DEF AfsInv, Reboot, afsDisk
<1>1. AfsTypeOK'
  BY Nothing, Zenon DEF AfsTypeOK
<1>2. DirInv'
  BY Zenon DEF DirInv, Used, ApartFromFile
<1>5. PhaseInv' /\ WriteInv'
  BY Zenon DEF PhaseInv, WriteInv, Used
<1>3. SpaceInv'
  <2>1. ~mounted' /\ free_extents' = <<>>
    OBVIOUS
  <2>2. \A k \in 1 .. Len(free_extents') : FALSE
    BY <2>1
  <2> QED
    BY <2>1, <2>2, Zenon DEF SpaceInv
<1>4. Durable'
  BY Zenon DEF Durable, Named, Used, FileSectors
<1> QED
  BY <1>1, <1>2, <1>3, <1>4, <1>5, Zenon

\* Every step of afs.c, a failing sector and a reboot keep the invariant.
LEMMA AfsInvInductive == AfsInv /\ [AfsNext]_afsVars => AfsInv'
<1> SUFFICES ASSUME AfsInv, [AfsNext]_afsVars PROVE AfsInv'
  OBVIOUS
<1>1. CASE UNCHANGED afsVars
  <2> USE <1>1 DEF AfsInv, afsVars, afsDisk, afsMemory
  <2>1. AfsTypeOK' /\ DirInv' /\ PhaseInv'
    BY Zenon DEF AfsTypeOK, DirInv, PhaseInv, Used, ApartFromFile
  <2>2. SpaceInv'
    BY Zenon DEF SpaceInv, Used, End, ApartFromFile, ApartFromFree
  <2>3. WriteInv'
    BY Zenon DEF WriteInv, Used, InPlace, Elsewhere, ApartFromFile, ApartFromFree
  <2>4. Durable'
    BY Zenon DEF Durable, Named, Used, FileSectors
  <2> QED
    BY <2>1, <2>2, <2>3, <2>4
<1>2. CASE \E name \in NAMES, n \in FILE_SIZES : WriteInPlace(name, n) \/ WriteNewExtent(name, n)
  BY <1>2, InPlaceStep, NewExtentStep
<1>3. CASE \E name \in NAMES : afs_delete(name)
  BY <1>3, DeleteStep
<1> QED
  BY <1>1, <1>2, <1>3, MountStep, FormatStep, ChunkStep, FlushStep, RebootStep DEF AfsNext

\* The invariant holds of every run of the driver.
LEMMA AfsInvHolds == AfsSpec => []AfsInv
  BY AfsInitInv, AfsInvInductive, PTL DEF AfsSpec

(***************************************************************************)
(* On a disk that was zero at first, whatever is lost between two requests *)
(* and whichever request of afs_write or afs_format fails, no sector has   *)
(* two uses: the allocator of afs_write never hands out a sector of a      *)
(* file, a reclaimed extent or another write.                              *)
(***************************************************************************)
THEOREM AfsNoOverlap == AfsSpec => []NoOverlap
  BY AfsInvHolds, AfsInvImplies, PTL

(***************************************************************************)
(* Under the same failures a file keeps what its last successful afs_write *)
(* stored and a deleted file stays deleted.                                *)
(***************************************************************************)
THEOREM AfsDurable == AfsSpec => []Durable
  BY AfsInvHolds, AfsInvImplies, PTL

-----------------------------------------------------------------------------
(***************************************************************************)
(* The device tree                                                         *)
(***************************************************************************)

Found == [found : BOOLEAN, base : BASES \cup {0}, size : RAM_SIZES \cup {0}]
MemWalk == [depth : Nat, node : BOOLEAN, addr : Int, size : Int, result : Found,
            stopped : BOOLEAN]
UartWalk == [depth : Nat, node : BOOLEAN, addr : Int, result : Found, stopped : BOOLEAN]

LdrTypes ==
  /\ mem \in MemWalk /\ uart \in UartWalk
  /\ path \in Seq(NodeNames)
  /\ cells \in [addr : Int, size : Int]

\* A walk that goes on is as deep as the nodes are nested.
LdrDepth ==
  /\ ~mem.stopped => mem.depth = Len(path)
  /\ ~uart.stopped => uart.depth = Len(path)

\* The kernel is told once both walks are over.
LdrTold == bi # NoInfo => blob # "open"

LdrInv == LdrTypes /\ LdrDepth /\ LdrInNode /\ LdrCells /\ LdrRamSize /\ LdrTold

\* While the blob is read the kernel has been told nothing.
LEMMA ReadingUntold ==
  ASSUME LdrInv, Reading, bi' = bi, blob' = blob
  PROVE  LdrRamSize' /\ LdrTold'
BY Zenon DEF LdrInv, LdrTold, LdrRamSize, Reading

\* A node that begins (FDT_BEGIN_NODE): the walks note whether it is theirs.
LEMMA BeginKeeps ==
  ASSUME LdrInv, NEW name \in NodeNames, FDT_BEGIN_NODE(name)
  PROVE  LdrInv'
<1>1. /\ mem' = BeginNode(mem, {"memory"}, name) /\ uart' = BeginNode(uart, {"serial"}, name)
      /\ path' = Append(path, name) /\ cells' = cells
  BY DEF FDT_BEGIN_NODE
<1>2. mem \in MemWalk /\ uart \in UartWalk /\ path \in Seq(NodeNames)
      /\ cells \in [addr : Int, size : Int]
  BY DEF LdrInv, LdrTypes
<1>3. /\ path' \in Seq(NodeNames) /\ Len(path') = Len(path) + 1 /\ Len(path) \in Nat
      /\ path'[Len(path) + 1] = name
  BY <1>1, <1>2
<1>4. /\ mem' \in MemWalk /\ (mem'.stopped <=> mem.stopped)
      /\ mem'.addr = mem.addr /\ mem'.size = mem.size
      /\ ~mem.stopped => mem'.depth = mem.depth + 1
      /\ ~mem.stopped => (mem'.node <=> mem.depth = 1 /\ name = "memory")
  <2>1. CASE mem.stopped
    BY <1>1, <1>2, <2>1, Zenon DEF BeginNode
  <2>2. CASE ~mem.stopped
    <3> DEFINE b == IsNode(mem, {"memory"}, name)
               k == mem.depth + 1
    <3>1. mem' = [mem EXCEPT !.depth = k, !.node = b]
      BY <1>1, <2>2, Zenon DEF BeginNode
    <3>2. b \in BOOLEAN /\ (b <=> mem.depth = 1 /\ name = "memory")
      BY DEF IsNode
    <3>3. k \in Nat
      BY <1>2 DEF MemWalk
    <3> HIDE DEF b, k
    <3>4. mem' \in MemWalk
      BY <1>2, <3>1, <3>2, <3>3, Zenon DEF MemWalk
    <3>5. mem'.depth = k /\ mem'.addr = mem.addr /\ mem'.size = mem.size
      BY <1>2, <3>1 DEF MemWalk
    <3>6. mem'.node = b /\ mem'.stopped = mem.stopped
      BY <1>2, <3>1, Zenon DEF MemWalk
    <3> QED
      BY <3>2, <3>4, <3>5, <3>6, Zenon DEF k
  <2> QED
    BY <2>1, <2>2
<1>5. /\ uart' \in UartWalk /\ (uart'.stopped <=> uart.stopped) /\ uart'.addr = uart.addr
      /\ ~uart.stopped => uart'.depth = uart.depth + 1
      /\ ~uart.stopped => (uart'.node <=> uart.depth = 1 /\ name = "serial")
  <2>1. CASE uart.stopped
    BY <1>1, <1>2, <2>1, Zenon DEF BeginNode
  <2>2. CASE ~uart.stopped
    <3> DEFINE b == IsNode(uart, {"serial"}, name)
               k == uart.depth + 1
    <3>1. uart' = [uart EXCEPT !.depth = k, !.node = b]
      BY <1>1, <2>2, Zenon DEF BeginNode
    <3>2. b \in BOOLEAN /\ (b <=> uart.depth = 1 /\ name = "serial")
      BY DEF IsNode
    <3>3. k \in Nat
      BY <1>2 DEF UartWalk
    <3> HIDE DEF b, k
    <3>4. uart' \in UartWalk
      BY <1>2, <3>1, <3>2, <3>3, Zenon DEF UartWalk
    <3>5. uart'.depth = k /\ uart'.addr = uart.addr
      BY <1>2, <3>1 DEF UartWalk
    <3>6. uart'.node = b /\ uart'.stopped = uart.stopped
      BY <1>2, <3>1, Zenon DEF UartWalk
    <3> QED
      BY <3>2, <3>4, <3>5, <3>6, Zenon DEF k
  <2> QED
    BY <2>1, <2>2
<1>6. LdrTypes'
  BY <1>1, <1>2, <1>3, <1>4, <1>5, Zenon DEF LdrTypes
<1>7. LdrDepth'
  BY <1>3, <1>4, <1>5, Zenon DEF LdrInv, LdrDepth
<1>8. LdrInNode'
  <2>1. ASSUME ~mem'.stopped, mem'.node
        PROVE  Len(path') = 2 /\ path'[2] = "memory"
    BY <1>3, <1>4, <2>1 DEF LdrInv, LdrDepth
  <2>2. ASSUME ~uart'.stopped, uart'.node
        PROVE  Len(path') = 2 /\ path'[2] = "serial"
    BY <1>3, <1>5, <2>2 DEF LdrInv, LdrDepth
  <2> QED
    BY <2>1, <2>2, Zenon DEF LdrInNode
<1>9. LdrCells'
  BY <1>1, <1>4, <1>5, Zenon DEF LdrInv, LdrCells
<1>10. LdrRamSize' /\ LdrTold'
  BY ReadingUntold DEF FDT_BEGIN_NODE
<1> QED
  BY <1>6, <1>7, <1>8, <1>9, <1>10, Zenon DEF LdrInv
\* A node that ends (FDT_END_NODE), also one that never began.
LEMMA EndKeeps ==
  ASSUME LdrInv, FDT_END_NODE
  PROVE  LdrInv'
<1>1. /\ mem' = EndNode(mem) /\ uart' = EndNode(uart)
      /\ path' = (IF path = <<>> THEN path ELSE SubSeq(path, 1, Len(path) - 1)) /\ cells' = cells
  BY DEF FDT_END_NODE
<1>2. mem \in MemWalk /\ uart \in UartWalk /\ path \in Seq(NodeNames)
      /\ cells \in [addr : Int, size : Int]
  BY DEF LdrInv, LdrTypes
<1>3. /\ path' \in Seq(NodeNames) /\ Len(path) \in Nat
      /\ Len(path') = IF Len(path) > 0 THEN Len(path) - 1 ELSE 0
  <2>1. CASE path = <<>>
    BY <1>1, <1>2, <2>1
  <2>2. CASE path # <<>>
    <3>1. path' = SubSeq(path, 1, Len(path) - 1) /\ Len(path) >= 1
      BY <1>1, <1>2, <2>2
    <3> QED
      BY <1>2, <3>1
  <2> QED
    BY <2>1, <2>2, Zenon
<1>4. /\ mem' \in MemWalk /\ (mem'.stopped <=> mem.stopped)
      /\ mem'.addr = mem.addr /\ mem'.size = mem.size
      /\ ~mem.stopped => mem'.depth = IF mem.depth > 0 THEN mem.depth - 1 ELSE 0
      /\ ~mem.stopped => ~mem'.node
  <2>1. CASE mem.stopped
    BY <1>1, <1>2, <2>1, Zenon DEF EndNode
  <2>2. CASE ~mem.stopped
    <3> DEFINE k == IF mem.depth > 0 THEN mem.depth - 1 ELSE 0
    <3>1. mem' = [mem EXCEPT !.depth = k, !.node = FALSE]
      BY <1>1, <2>2, Zenon DEF EndNode
    <3>2. k \in Nat
      BY <1>2 DEF MemWalk
    <3> HIDE DEF k
    <3>3. mem' \in MemWalk
      BY <1>2, <3>1, <3>2, Zenon DEF MemWalk
    <3>4. mem'.depth = k /\ mem'.addr = mem.addr /\ mem'.size = mem.size
      BY <1>2, <3>1 DEF MemWalk
    <3>5. mem'.node = FALSE /\ mem'.stopped = mem.stopped
      BY <1>2, <3>1, Zenon DEF MemWalk
    <3> QED
      BY <3>3, <3>4, <3>5 DEF k
  <2> QED
    BY <2>1, <2>2
<1>5. /\ uart' \in UartWalk /\ (uart'.stopped <=> uart.stopped) /\ uart'.addr = uart.addr
      /\ ~uart.stopped => uart'.depth = IF uart.depth > 0 THEN uart.depth - 1 ELSE 0
      /\ ~uart.stopped => ~uart'.node
  <2>1. CASE uart.stopped
    BY <1>1, <1>2, <2>1, Zenon DEF EndNode
  <2>2. CASE ~uart.stopped
    <3> DEFINE k == IF uart.depth > 0 THEN uart.depth - 1 ELSE 0
    <3>1. uart' = [uart EXCEPT !.depth = k, !.node = FALSE]
      BY <1>1, <2>2 DEF EndNode
    <3>2. k \in Nat
      BY <1>2 DEF UartWalk
    <3> HIDE DEF k
    <3>3. uart' \in UartWalk
      BY <1>2, <3>1, <3>2, Zenon DEF UartWalk
    <3>4. uart'.depth = k /\ uart'.addr = uart.addr
      BY <1>2, <3>1 DEF UartWalk
    <3>5. uart'.node = FALSE /\ uart'.stopped = uart.stopped
      BY <1>2, <3>1, Zenon DEF UartWalk
    <3> QED
      BY <3>3, <3>4, <3>5 DEF k
  <2> QED
    BY <2>1, <2>2
<1>6. LdrTypes'
  BY <1>1, <1>2, <1>3, <1>4, <1>5, Zenon DEF LdrTypes
<1>7. LdrDepth'
  <2>1. ~mem.stopped => mem'.depth = Len(path')
    BY <1>3, <1>4, Zenon DEF LdrInv, LdrDepth
  <2>2. ~uart.stopped => uart'.depth = Len(path')
    BY <1>3, <1>5, Zenon DEF LdrInv, LdrDepth
  <2> QED
    BY <1>4, <1>5, <2>1, <2>2, Zenon DEF LdrDepth
<1>8. LdrInNode'
  BY <1>4, <1>5, Zenon DEF LdrInNode
<1>9. LdrCells'
  BY <1>1, <1>4, <1>5, Zenon DEF LdrInv, LdrCells
<1>10. LdrRamSize' /\ LdrTold'
  BY ReadingUntold, Zenon DEF FDT_END_NODE
<1> QED
  BY <1>6, <1>7, <1>8, <1>9, <1>10, Zenon DEF LdrInv

\* A count of cells (CellsProp): the walks take it where the root declares it.
LEMMA CellsKeep ==
  ASSUME LdrInv, NEW which \in {"addr", "size"}, NEW n \in CellCounts, CellsProp(which, n)
  PROVE  LdrInv'
<1>0. n \in Int
  BY DEF CellCounts
<1>1. /\ mem' = (IF mem.stopped \/ mem.node \/ mem.depth # 1 THEN mem
                 ELSE [mem EXCEPT ![which] = n])
      /\ uart' = (IF uart.stopped \/ uart.node \/ uart.depth # 1 \/ which # "addr" THEN uart
                  ELSE [uart EXCEPT !.addr = n])
      /\ cells' = (IF Len(path) = 1 THEN [cells EXCEPT ![which] = n] ELSE cells)
      /\ path' = path
  BY DEF CellsProp
<1>2. mem \in MemWalk /\ uart \in UartWalk /\ path \in Seq(NodeNames)
      /\ cells \in [addr : Int, size : Int]
  BY Zenon DEF LdrInv, LdrTypes
<1>3. /\ mem' \in MemWalk /\ mem'.depth = mem.depth /\ (mem'.node <=> mem.node)
      /\ (mem'.stopped <=> mem.stopped)
      /\ ~mem.stopped /\ ~mem.node /\ mem.depth = 1 =>
           /\ mem'.addr = IF which = "addr" THEN n ELSE mem.addr
           /\ mem'.size = IF which = "size" THEN n ELSE mem.size
      /\ mem.node \/ mem.depth # 1 => mem'.addr = mem.addr /\ mem'.size = mem.size
  <2>1. CASE mem.stopped \/ mem.node \/ mem.depth # 1
    BY <1>1, <1>2, <2>1, Zenon
  <2>2. CASE ~(mem.stopped \/ mem.node \/ mem.depth # 1) /\ which = "addr"
    <3>1. mem' = [mem EXCEPT !.addr = n]
      BY <1>1, <2>2, Zenon
    <3>2. mem' \in MemWalk
      BY <1>0, <1>2, <3>1, Zenon DEF MemWalk
    <3>3. mem'.depth = mem.depth /\ mem'.addr = n /\ mem'.size = mem.size
      BY <1>2, <3>1 DEF MemWalk
    <3>4. mem'.node = mem.node /\ mem'.stopped = mem.stopped
      BY <1>2, <3>1, Zenon DEF MemWalk
    <3> QED
      BY <2>2, <3>2, <3>3, <3>4, Zenon
  <2>3. CASE ~(mem.stopped \/ mem.node \/ mem.depth # 1) /\ which = "size"
    <3>1. mem' = [mem EXCEPT !.size = n]
      BY <1>1, <2>3, Zenon
    <3>2. mem' \in MemWalk
      BY <1>0, <1>2, <3>1, Zenon DEF MemWalk
    <3>3. mem'.depth = mem.depth /\ mem'.addr = mem.addr /\ mem'.size = n
      BY <1>2, <3>1 DEF MemWalk
    <3>4. mem'.node = mem.node /\ mem'.stopped = mem.stopped
      BY <1>2, <3>1, Zenon DEF MemWalk
    <3> QED
      BY <2>3, <3>2, <3>3, <3>4, Zenon
  <2> QED
    BY <2>1, <2>2, <2>3, Zenon
<1>4. /\ uart' \in UartWalk /\ uart'.depth = uart.depth /\ (uart'.node <=> uart.node)
      /\ (uart'.stopped <=> uart.stopped)
      /\ ~uart.stopped /\ ~uart.node /\ uart.depth = 1 =>
           uart'.addr = IF which = "addr" THEN n ELSE uart.addr
      /\ uart.node \/ uart.depth # 1 => uart'.addr = uart.addr
  <2>1. CASE uart.stopped \/ uart.node \/ uart.depth # 1 \/ which # "addr"
    BY <1>1, <1>2, <2>1, Zenon
  <2>2. CASE ~(uart.stopped \/ uart.node \/ uart.depth # 1 \/ which # "addr")
    <3>1. uart' = [uart EXCEPT !.addr = n]
      BY <1>1, <2>2
    <3>2. uart' \in UartWalk
      BY <1>0, <1>2, <3>1, Zenon DEF UartWalk
    <3>3. uart'.depth = uart.depth /\ uart'.addr = n
      BY <1>2, <3>1 DEF UartWalk
    <3>4. uart'.node = uart.node /\ uart'.stopped = uart.stopped
      BY <1>2, <3>1, Zenon DEF UartWalk
    <3> QED
      BY <2>2, <3>2, <3>3, <3>4, Zenon
  <2> QED
    BY <2>1, <2>2, Zenon
<1>5. /\ cells' \in [addr : Int, size : Int]
      /\ Len(path) = 1 => /\ cells'.addr = IF which = "addr" THEN n ELSE cells.addr
                          /\ cells'.size = IF which = "size" THEN n ELSE cells.size
      /\ Len(path) # 1 => cells'.addr = cells.addr /\ cells'.size = cells.size
  <2>1. CASE Len(path) # 1
    BY <1>1, <1>2, <2>1, Zenon
  <2>2. CASE Len(path) = 1 /\ which = "addr"
    BY <1>0, <1>1, <1>2, <2>2, Zenon
  <2>3. CASE Len(path) = 1 /\ which = "size"
    BY <1>0, <1>1, <1>2, <2>3, Zenon
  <2> QED
    BY <2>1, <2>2, <2>3, Zenon
<1>6. LdrTypes'
  BY <1>1, <1>2, <1>3, <1>4, <1>5, Zenon DEF LdrTypes
<1>7. LdrDepth'
  BY <1>1, <1>3, <1>4, Zenon DEF LdrInv, LdrDepth
<1>8. LdrInNode'
  BY <1>1, <1>3, <1>4, Zenon DEF LdrInv, LdrInNode
<1>9. LdrCells'
  <2>1. ASSUME ~mem'.stopped
        PROVE  mem'.addr = cells'.addr /\ mem'.size = cells'.size
    <3>1. ~mem.stopped /\ mem.depth = Len(path) /\ (mem.node => Len(path) = 2)
          /\ mem.addr = cells.addr /\ mem.size = cells.size
      BY <2>1, <1>3, Zenon DEF LdrInv, LdrCells, LdrDepth, LdrInNode
    <3>2. CASE Len(path) = 1
      BY <1>3, <1>5, <3>1, <3>2
    <3>3. CASE Len(path) # 1
      BY <1>3, <1>5, <3>1, <3>3, Zenon
    <3> QED
      BY <3>2, <3>3, Zenon
  <2>2. ASSUME ~uart'.stopped
        PROVE  uart'.addr = cells'.addr
    <3>1. ~uart.stopped /\ uart.depth = Len(path) /\ (uart.node => Len(path) = 2)
          /\ uart.addr = cells.addr
      BY <2>2, <1>4, Zenon DEF LdrInv, LdrCells, LdrDepth, LdrInNode
    <3>2. CASE Len(path) = 1
      BY <1>4, <1>5, <3>1, <3>2
    <3>3. CASE Len(path) # 1
      BY <1>4, <1>5, <3>1, <3>3, Zenon
    <3> QED
      BY <3>2, <3>3, Zenon
  <2> QED
    BY <2>1, <2>2, Zenon DEF LdrCells
<1>10. LdrRamSize' /\ LdrTold'
  BY ReadingUntold, Zenon DEF CellsProp
<1> QED
  BY <1>6, <1>7, <1>8, <1>9, <1>10, Zenon DEF LdrInv

\* A reg property (RegProp): a result is noted, a walk may stop.
LEMMA RegKeeps ==
  ASSUME LdrInv, NEW n \in RegCells, NEW base \in BASES, NEW size \in RAM_SIZES,
         RegProp(n, base, size)
  PROVE  LdrInv'
<1>1. /\ mem' = MemReg(n, base, size)
      /\ path' = path /\ cells' = cells
  BY Zenon DEF RegProp
<1>2. mem \in MemWalk /\ uart \in UartWalk /\ path \in Seq(NodeNames)
      /\ cells \in [addr : Int, size : Int]
  BY Zenon DEF LdrInv, LdrTypes
<1>3. /\ mem' \in MemWalk
      /\ mem' = mem \/ mem'.stopped
  <2>1. CASE mem.stopped \/ ~mem.node
    BY <1>1, <1>2, <2>1, Zenon DEF MemReg
  <2>2. CASE ~(mem.stopped \/ ~mem.node)
    <3> DEFINE r == IF mem.addr \in 1 .. 2 /\ mem.size \in 1 .. 2 /\ n = mem.addr + mem.size
                    THEN [found |-> TRUE, base |-> base, size |-> size] ELSE Missing
    <3>1. mem' = [mem EXCEPT !.stopped = TRUE, !.result = r]
      BY <1>1, <2>2, Zenon DEF MemReg
    <3>2. r \in Found
      <4>1. [found |-> TRUE, base |-> base, size |-> size] \in Found
        BY Zenon DEF Found
      <4>2. Missing \in Found
        BY Zenon DEF Found, Missing
      <4> QED
        BY <4>1, <4>2
    <3> HIDE DEF r
    <3>3. mem' \in MemWalk
      BY <1>2, <3>1, <3>2, Zenon DEF MemWalk
    <3>4. mem'.stopped = TRUE
      BY <1>2, <3>1, Zenon DEF MemWalk
    <3> QED
      BY <3>3, <3>4
  <2> QED
    BY <2>1, <2>2
<1>4. /\ uart' \in UartWalk /\ uart'.depth = uart.depth /\ (uart'.node <=> uart.node)
      /\ uart'.addr = uart.addr
      /\ uart.stopped => uart'.stopped
  <2>1. PICK decoded \in BASES : uart' = UartReg(decoded)
    BY DEF RegProp
  <2>2. CASE uart.stopped \/ ~uart.node \/ uart.result.base # 0
    BY <1>2, <2>1, <2>2, Zenon DEF UartReg
  <2>3. CASE ~(uart.stopped \/ ~uart.node \/ uart.result.base # 0) /\ uart.addr \in 1 .. 2
    <3> DEFINE r == [found |-> decoded # 0, base |-> decoded, size |-> 0]
    <3>1. uart' = [uart EXCEPT !.result = r]
      BY <2>1, <2>3 DEF UartReg
    <3>2. r \in Found
      BY Zenon DEF Found
    <3> HIDE DEF r
    <3>3. uart' \in UartWalk
      BY <1>2, <3>1, <3>2, Zenon DEF UartWalk
    <3>4. uart'.stopped = uart.stopped /\ uart'.node = uart.node
      BY <1>2, <3>1, Zenon DEF UartWalk
    <3>5. uart'.depth = uart.depth /\ uart'.addr = uart.addr
      BY <1>2, <3>1, Zenon DEF UartWalk
    <3> QED
      BY <3>3, <3>4, <3>5, Zenon
  <2>4. CASE ~(uart.stopped \/ ~uart.node \/ uart.result.base # 0) /\ uart.addr \notin 1 .. 2
    <3>1. uart' = [uart EXCEPT !.stopped = TRUE, !.result = Missing]
      BY <2>1, <2>4 DEF UartReg
    <3>2. Missing \in Found
      BY Zenon DEF Found, Missing
    <3>3. uart' \in UartWalk
      BY <1>2, <3>1, <3>2, Zenon DEF UartWalk
    <3>4. uart'.stopped = TRUE /\ uart'.node = uart.node
      BY <1>2, <3>1, Zenon DEF UartWalk
    <3>5. uart'.depth = uart.depth /\ uart'.addr = uart.addr
      BY <1>2, <3>1, Zenon DEF UartWalk
    <3> QED
      BY <3>3, <3>4, <3>5, Zenon
  <2> QED
    BY <2>2, <2>3, <2>4, Zenon
<1>5. LdrTypes'
  BY <1>1, <1>2, <1>3, <1>4, Zenon DEF LdrTypes
<1>6. LdrDepth'
  BY <1>1, <1>3, <1>4, Zenon DEF LdrInv, LdrDepth
<1>7. LdrInNode'
  BY <1>1, <1>3, <1>4, Zenon DEF LdrInv, LdrInNode
<1>8. LdrCells'
  BY <1>1, <1>3, <1>4, Zenon DEF LdrInv, LdrCells
<1>9. LdrRamSize' /\ LdrTold'
  BY ReadingUntold, Zenon DEF RegProp
<1> QED
  BY <1>5, <1>6, <1>7, <1>8, <1>9, Zenon DEF LdrInv

\* The end of the blob (Ends): both walks stop.
LEMMA EndsKeep ==
  ASSUME LdrInv, NEW corrupt \in BOOLEAN, Ends(corrupt)
  PROVE  LdrInv'
<1>1. /\ mem' = [mem EXCEPT !.stopped = TRUE]
      /\ path' = path /\ cells' = cells /\ bi' = bi /\ blob = "open" /\ blob' = "read"
  BY Zenon DEF Ends
<1>2. mem \in MemWalk /\ uart \in UartWalk /\ path \in Seq(NodeNames)
      /\ cells \in [addr : Int, size : Int]
  BY DEF LdrInv, LdrTypes
<1>3. mem' \in MemWalk /\ mem'.stopped
  <2>1. mem' \in MemWalk
    BY <1>1, <1>2, Zenon DEF MemWalk
  <2>2. mem'.stopped = TRUE
    BY <1>1, <1>2, Zenon DEF MemWalk
  <2> QED
    BY <2>1, <2>2
<1>4. uart' \in UartWalk /\ uart'.stopped
  <2>1. CASE uart.stopped
    BY <1>2, <2>1, Zenon DEF Ends
  <2>2. CASE ~uart.stopped
    <3> DEFINE r == IF corrupt THEN Missing ELSE uart.result
    <3>1. uart' = [uart EXCEPT !.stopped = TRUE, !.result = r]
      BY <2>2, Zenon DEF Ends
    <3>2. r \in Found
      <4>1. Missing \in Found
        BY Zenon DEF Found, Missing
      <4>2. uart.result \in Found
        BY <1>2 DEF UartWalk
      <4> QED
        BY <4>1, <4>2
    <3> HIDE DEF r
    <3>3. uart' \in UartWalk
      BY <1>2, <3>1, <3>2, Zenon DEF UartWalk
    <3>4. uart'.stopped = TRUE
      BY <1>2, <3>1, Zenon DEF UartWalk
    <3> QED
      BY <3>3, <3>4
  <2> QED
    BY <2>1, <2>2
<1>5. LdrTypes'
  BY <1>1, <1>2, <1>3, <1>4, Zenon DEF LdrTypes
<1>6. LdrDepth' /\ LdrInNode' /\ LdrCells'
  BY <1>3, <1>4 DEF LdrDepth, LdrInNode, LdrCells
<1>7. bi = NoInfo
  BY <1>1 DEF LdrInv, LdrTold
<1>8. LdrRamSize' /\ LdrTold'
  BY <1>1, <1>7, Zenon DEF LdrRamSize, LdrTold
<1> QED
  BY <1>5, <1>6, <1>8, Zenon DEF LdrInv

\* The boot information (loader_main)
LEMMA MainKeeps ==
  ASSUME LdrInv, loader_main
  PROVE  LdrInv'
<1>1. /\ mem' = mem /\ uart' = uart /\ path' = path /\ cells' = cells /\ blob' = blob
      /\ blob # "open"
      /\ bi' = [ram_measured |-> Believed, uart_valid |-> uart.result.found,
                ram_size |-> IF Believed THEN mem.result.size ELSE DEFAULT_RAM_SIZE,
                uart_base |-> IF uart.result.found THEN uart.result.base ELSE UART_BASE]
  BY Zenon DEF loader_main
<1>2. LdrTypes' /\ LdrDepth' /\ LdrInNode' /\ LdrCells' /\ LdrTold'
  BY <1>1, Zenon DEF LdrInv, LdrTypes, LdrDepth, LdrInNode, LdrCells, LdrTold
<1>3. LdrRamSize'
  <2>1. bi'.ram_measured = Believed
    BY <1>1, Zenon
  <2>2. bi'.ram_size = IF Believed THEN mem.result.size ELSE DEFAULT_RAM_SIZE
    BY <1>1, Zenon
  <2>3. CASE Believed
    <3>1. bi'.ram_size = mem.result.size /\ bi'.ram_measured
      BY <2>1, <2>2, <2>3, Zenon
    <3> QED
      BY <1>1, <2>3, <3>1, Zenon DEF LdrRamSize, Believed
  <2>4. CASE ~Believed
    <3>1. bi'.ram_size = DEFAULT_RAM_SIZE /\ ~bi'.ram_measured
      BY <2>1, <2>2, <2>4
    <3> QED
      BY <3>1, Zenon DEF LdrRamSize
  <2> QED
    BY <2>3, <2>4
<1> QED
  BY <1>2, <1>3, Zenon DEF LdrInv

\* The walks start outside every node, with the counts the format presumes.
LEMMA LdrStarts == ASSUME LdrInit PROVE LdrInv
<1>1. PICK bad \in BOOLEAN, bad_strings \in BOOLEAN :
       /\ mem = [depth |-> 0, node |-> FALSE, addr |-> 2, size |-> 1, result |-> Missing,
                 stopped |-> bad \/ bad_strings]
       /\ uart = [depth |-> 0, node |-> FALSE, addr |-> 2, result |-> Missing, stopped |-> bad]
  BY Zenon DEF LdrInit
<1>2. path = <<>> /\ cells = [addr |-> 2, size |-> 1] /\ bi = NoInfo
  BY DEF LdrInit
<1>3. Missing \in Found
  BY Zenon DEF Found, Missing
<1>4. 0 \in Nat /\ 1 \in Int /\ 2 \in Int
  OBVIOUS
<1>5. mem \in MemWalk /\ uart \in UartWalk
  BY <1>1, <1>3, <1>4, Zenon DEF MemWalk, UartWalk
<1>6. /\ mem.depth = 0 /\ mem.node = FALSE /\ mem.addr = 2 /\ mem.size = 1
      /\ uart.depth = 0 /\ uart.node = FALSE /\ uart.addr = 2
  BY <1>1, Zenon
<1>7. path \in Seq(NodeNames) /\ Len(path) = 0 /\ cells \in [addr : Int, size : Int]
  BY <1>2
<1>8. LdrTypes /\ LdrDepth /\ LdrInNode
  BY <1>5, <1>6, <1>7, Zenon DEF LdrTypes, LdrDepth, LdrInNode
<1>9. LdrCells /\ LdrRamSize /\ LdrTold
  BY <1>2, <1>6, Zenon DEF LdrCells, LdrRamSize, LdrTold
<1> QED
  BY <1>8, <1>9 DEF LdrInv

\* What the loader passes to the kernel is what the device tree says of the
\* memory and console nodes below the root, decoded with the root's cell
\* counts, or the default: for every blob, however its nodes are nested,
\* closed or cut off (dtb_memory, dtb_find_uart, loader_main).
THEOREM LoaderReadsTree == LdrSpec => []LdrFromTree
<1>1. LdrInit => LdrInv
  BY LdrStarts
<1>2. LdrInv /\ [LdrNext]_ldrVars => LdrInv'
  <2> SUFFICES ASSUME LdrInv, [LdrNext]_ldrVars PROVE LdrInv'
    OBVIOUS
  <2>1. ASSUME NEW name \in NodeNames, FDT_BEGIN_NODE(name) PROVE LdrInv'
    BY <2>1, BeginKeeps, Zenon
  <2>2. CASE FDT_END_NODE
    BY <2>2, EndKeeps, Zenon
  <2>3. ASSUME NEW which \in {"addr", "size"}, NEW n \in CellCounts, CellsProp(which, n)
        PROVE  LdrInv'
    BY <2>3, CellsKeep, Zenon
  <2>4. ASSUME NEW n \in RegCells, NEW base \in BASES, NEW size \in RAM_SIZES,
               RegProp(n, base, size)
        PROVE  LdrInv'
    BY <2>4, RegKeeps, Zenon
  <2>5. ASSUME NEW corrupt \in BOOLEAN, Ends(corrupt) PROVE LdrInv'
    BY <2>5, EndsKeep, Zenon
  <2>6. CASE loader_main
    BY <2>6, MainKeeps
  <2>7. CASE UNCHANGED ldrVars
    BY <2>7 DEF LdrInv, LdrTypes, LdrDepth, LdrInNode, LdrCells, LdrRamSize, LdrTold, ldrVars
  <2> QED
    BY <2>1, <2>2, <2>3, <2>4, <2>5, <2>6, <2>7, Zenon DEF LdrNext
<1>3. LdrInv => LdrFromTree
  BY DEF LdrInv, LdrFromTree
<1> QED
  BY <1>1, <1>2, <1>3, PTL DEF LdrSpec
=============================================================================
