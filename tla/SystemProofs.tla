---------------------------- MODULE SystemProofs ----------------------------
(***************************************************************************)
(* Memory (both allocators of the kernel, the identity map, the frames of  *)
(* the Rust crate), the line editor of the shell, the RAM file system and  *)
(* the host library, for every size of their tables.                       *)
(***************************************************************************)
EXTENDS Memory, Shell, Ramfs, HostKernel, RustFrames, CommonLemmas, FiniteSetTheorems

\* The time a leaf that names no prover may take
USE SMTT(60)

-----------------------------------------------------------------------------
(***************************************************************************)
(* Frames, heap and identity map                                           *)
(***************************************************************************)

Reserved == 0 .. RESERVE_END - 1

\* The bits of the reserved frames stay set; blocks end where the free part of
\* the heap begins, or before.
FrameInv == MemFrames /\ Reserved \subseteq pmm_bitmap

HeapInv ==
  /\ heap_ptr \in Nat
  /\ blocks \subseteq Nat \X Nat
  /\ \A b \in blocks : b[1] + b[2] <= heap_ptr
  /\ MemBlocks

\* The frames can be counted.
LEMMA FramesFinite ==
  ASSUME NEW S, S \subseteq Frames
  PROVE  IsFiniteSet(S) /\ Cardinality(S) \in Nat
<1>1. IsFiniteSet(Frames)
  BY MemoryAssumption, FS_Interval DEF Frames
<1>2. IsFiniteSet(S)
  BY <1>1, FS_Subset
<1> QED
  BY <1>2, FS_CardinalityType

\* pmm_alloc_pages hands out a run of frames that were free, or none.
LEMMA AllocKeepsFrames ==
  ASSUME FrameInv, NEW count \in PAGE_COUNTS, pmm_alloc_pages(count)
  PROVE  FrameInv'
<1>1. count \in Nat \ {0} /\ FRAMES \in Nat /\ RESERVE_END \in 0 .. FRAMES
  BY MemoryAssumption DEF pmm_alloc_pages
<1>2. PICK f \in FreeRuns(count) :
        /\ pmm_bitmap' = pmm_bitmap \cup (f .. f + count - 1)
        /\ frames_held' = frames_held \cup (f .. f + count - 1)
  BY DEF pmm_alloc_pages
<1> DEFINE run == f .. f + count - 1
<1>3. f \in 0 .. FRAMES - count /\ run \cap pmm_bitmap = {}
  BY DEF FreeRuns
<1>4. run \subseteq Frames /\ IsFiniteSet(run) /\ Cardinality(run) = count
  <2>1. IsFiniteSet(run) /\ Cardinality(run) = IF f > f + count - 1 THEN 0 ELSE (f + count - 1) - f + 1
    BY <1>1, <1>3, FS_Interval
  <2> QED
    BY <1>1, <1>3, <2>1 DEF Frames
<1>5. pmm_bitmap' = pmm_bitmap \cup run /\ frames_held' = frames_held \cup run
  BY <1>2
<1> HIDE DEF run
<1>6. pmm_bitmap \subseteq Frames /\ Reserved \subseteq pmm_bitmap
      /\ frames_held = pmm_bitmap \ Reserved
      /\ pmm_free_count = FRAMES - Cardinality(pmm_bitmap)
  BY DEF FrameInv, MemFrames, Reserved
<1>7. IsFiniteSet(pmm_bitmap) /\ Cardinality(pmm_bitmap) \in Nat
  BY <1>6, FramesFinite
<1>8. Cardinality(pmm_bitmap \cup run) = Cardinality(pmm_bitmap) + count
  <2>1. Cardinality(pmm_bitmap \cup run) =
          Cardinality(pmm_bitmap) + Cardinality(run) - Cardinality(pmm_bitmap \cap run)
    BY <1>4, <1>7, FS_Union
  <2>2. Cardinality(pmm_bitmap \cap run) = 0
    <3>1. pmm_bitmap \cap run = {}
      BY <1>3
    <3> QED
      BY <3>1, FS_EmptySet
  <2> QED
    BY <1>1, <1>4, <1>7, <2>1, <2>2
<1>9. pmm_free_count' = pmm_free_count - count
  BY DEF pmm_alloc_pages
<1>10. frames_held' = pmm_bitmap' \ Reserved /\ pmm_bitmap' \subseteq Frames
       /\ Reserved \subseteq pmm_bitmap'
  BY <1>3, <1>4, <1>5, <1>6
<1>11. pmm_free_count' = FRAMES - Cardinality(pmm_bitmap')
  BY <1>1, <1>5, <1>6, <1>7, <1>8, <1>9
<1> QED
  BY <1>10, <1>11 DEF FrameInv, MemFrames, Frames, Reserved

\* pmm_free_pages clears the frames of the run that were allocated.
LEMMA FreeKeepsFrames ==
  ASSUME FrameInv, NEW f \in frames_held, NEW count \in PAGE_COUNTS, pmm_free_pages(f, count)
  PROVE  FrameInv'
<1> DEFINE run == f .. f + count - 1
           F == run \cap Frames \cap pmm_bitmap
<1>1. count \in Nat /\ FRAMES \in Nat /\ RESERVE_END \in 0 .. FRAMES
  BY MemoryAssumption
<1>2. pmm_bitmap \subseteq Frames /\ Reserved \subseteq pmm_bitmap
      /\ frames_held = pmm_bitmap \ Reserved
      /\ pmm_free_count = FRAMES - Cardinality(pmm_bitmap)
  BY DEF FrameInv, MemFrames, Reserved
<1>3. /\ pmm_bitmap' = pmm_bitmap \ F
      /\ pmm_free_count' = pmm_free_count + Cardinality(F)
      /\ frames_held' = frames_held \ run
  BY DEF pmm_free_pages, Freed
<1>4. run \cap Reserved = {}
  BY <1>1, <1>2 DEF Frames, Reserved
<1> HIDE DEF run
<1>5. IsFiniteSet(pmm_bitmap) /\ Cardinality(pmm_bitmap) \in Nat
  BY <1>2, FramesFinite
<1>6. Cardinality(F) \in Nat
  BY <1>2, FramesFinite
<1>7. Cardinality(pmm_bitmap \ F) = Cardinality(pmm_bitmap) - Cardinality(F)
  <2>1. pmm_bitmap \cap F = F
    OBVIOUS
  <2> HIDE DEF F
  <2>2. Cardinality(pmm_bitmap \ F) = Cardinality(pmm_bitmap) - Cardinality(pmm_bitmap \cap F)
    BY <1>5, FS_Difference
  <2> QED
    BY <2>1, <2>2
<1>8. frames_held' = pmm_bitmap' \ Reserved /\ pmm_bitmap' \subseteq Frames
      /\ Reserved \subseteq pmm_bitmap'
  BY <1>2, <1>3, <1>4
<1> HIDE DEF F
<1>9. pmm_free_count' = FRAMES - Cardinality(pmm_bitmap')
  BY <1>1, <1>2, <1>3, <1>5, <1>6, <1>7
<1> QED
  BY <1>8, <1>9 DEF FrameInv, MemFrames, Frames, Reserved

\* kmalloc from any place at or behind the heap's pointer
LEMMA BumpKeepsHeap ==
  ASSUME HeapInv, NEW start \in Nat, start >= heap_ptr, NEW size \in Nat, Bump(start, size)
  PROVE  HeapInv'
<1>1. /\ heap_ptr \in Nat /\ blocks \subseteq Nat \X Nat /\ HEAP_SIZE \in Nat
      /\ \A b \in blocks : b[1] + b[2] <= heap_ptr /\ b[1] + b[2] <= HEAP_SIZE
      /\ \A b \in blocks : b[1] \in Nat /\ b[2] \in Nat
      /\ heap_used = Cardinality(HandedOut)
  BY MemoryAssumption DEF HeapInv, MemBlocks
<1>2. CASE size = 0 \/ start + size > HEAP_SIZE
  <2>1. heap_ptr' = start /\ heap_used' = heap_used /\ blocks' = blocks
    BY <1>2 DEF Bump
  <2>2. HandedOut' = HandedOut
    BY <2>1 DEF HandedOut
  <2>3. MemBlocks'
    BY <2>1, <2>2 DEF HeapInv, MemBlocks
  <2>4. \A b \in blocks : b[1] + b[2] <= start
    BY <1>1
  <2> QED
    BY <1>1, <2>1, <2>3, <2>4 DEF HeapInv
<1>3. CASE ~(size = 0 \/ start + size > HEAP_SIZE)
  <2> DEFINE new == <<start, size>>
             units == start .. start + size - 1
  <2>1. /\ heap_ptr' = start + size /\ heap_used' = heap_used + size
        /\ blocks' = blocks \cup {new}
    BY <1>3 DEF Bump
  <2>2. new[1] = start /\ new[2] = size /\ new \in Nat \X Nat
    OBVIOUS
  <2>3. IsFiniteSet(units) /\ Cardinality(units) = size
    <3>1. IsFiniteSet(units)
          /\ Cardinality(units) = IF start > start + size - 1 THEN 0 ELSE (start + size - 1) - start + 1
      BY FS_Interval
    <3> QED
      BY <1>3, <3>1
  <2>4. HandedOut' = HandedOut \cup units
    <3>1. HandedOut' = UNION {b[1] .. b[1] + b[2] - 1 : b \in blocks'}
      BY DEF HandedOut
    <3> HIDE DEF new
    <3> QED
      BY <2>1, <2>2, <3>1 DEF HandedOut
  <2>5. HandedOut \subseteq 0 .. HEAP_SIZE /\ HandedOut \cap units = {}
    <3>1. ASSUME NEW u \in HandedOut PROVE u \in 0 .. HEAP_SIZE /\ u \notin units
      <4>1. PICK b \in blocks : u \in b[1] .. b[1] + b[2] - 1
        BY DEF HandedOut
      <4>2. b[1] \in Nat /\ b[2] \in Nat /\ b[1] + b[2] <= heap_ptr /\ b[1] + b[2] <= HEAP_SIZE
        BY <1>1
      <4> QED
        BY <1>1, <4>1, <4>2
    <3> QED
      BY <3>1
  <2> HIDE DEF units
  <2>6. IsFiniteSet(HandedOut) /\ Cardinality(HandedOut) \in Nat
    <3>1. IsFiniteSet(0 .. HEAP_SIZE)
      BY <1>1, FS_Interval
    <3>2. IsFiniteSet(HandedOut)
      BY <2>5, <3>1, FS_Subset, Zenon
    <3> QED
      BY <3>2, FS_CardinalityType
  <2>7. Cardinality(HandedOut \cup units) = Cardinality(HandedOut) + size
    <3>1. Cardinality(HandedOut \cup units) =
            Cardinality(HandedOut) + Cardinality(units) - Cardinality(HandedOut \cap units)
      BY <2>3, <2>6, FS_Union
    <3>2. Cardinality(HandedOut \cap units) = 0
      BY <2>5, FS_EmptySet
    <3> QED
      BY <2>3, <2>6, <3>1, <3>2
  <2>8. heap_used' = Cardinality(HandedOut')
    BY <1>1, <2>1, <2>4, <2>7
  <2> HIDE DEF new
  <2>9. \A b \in blocks' : b[1] + b[2] <= heap_ptr' /\ b[1] + b[2] <= HEAP_SIZE
    <3>1. \A b \in blocks : b[1] + b[2] <= start + size
      BY <1>1
    <3> QED
      BY <1>1, <1>3, <2>1, <2>2, <3>1
  <2>10. \A b, c \in blocks' : b # c => b[1] + b[2] <= c[1] \/ c[1] + c[2] <= b[1]
    <3>1. \A b \in blocks : b[1] + b[2] <= start
      BY <1>1
    <3> QED
      BY <2>1, <2>2, <3>1 DEF HeapInv, MemBlocks
  <2> QED
    BY <1>1, <2>1, <2>2, <2>8, <2>9, <2>10 DEF HeapInv, MemBlocks
<1> QED
  BY <1>2, <1>3

\* Rounding up to a multiple does not round down (kmalloc_aligned).
LEMMA AlignUp ==
  ASSUME NEW h \in Nat, NEW a \in Nat \ {0}
  PROVE  ((h + a - 1) \div a) * a \in Nat /\ ((h + a - 1) \div a) * a >= h
<1> DEFINE x == h + a - 1
<1>1. x \in Nat
  OBVIOUS
<1>2. x \div a \in Nat /\ x % a \in 0 .. a - 1 /\ x = a * (x \div a) + (x % a)
  BY <1>1
<1>3. (x \div a) * a = a * (x \div a) /\ a * (x \div a) \in Nat
  BY <1>2
<1> DEFINE p == a * (x \div a)
           r == x % a
<1>4. p \in Nat /\ r \in 0 .. a - 1 /\ h + a - 1 = p + r
  BY <1>2, <1>3
<1>5. x \div a = (h + a - 1) \div a
  OBVIOUS
<1> HIDE DEF p, r
<1>6. p >= h
  BY <1>4
<1> QED
  BY <1>3, <1>4, <1>5, <1>6 DEF p

\* What a concatenation holds
LEMMA ConcatSeq ==
  ASSUME NEW S, NEW a \in Seq(S), NEW b \in Seq(S)
  PROVE  /\ DOMAIN (a \o b) = 1 .. Len(a) + Len(b)
         /\ \A i \in 1 .. Len(a) + Len(b) :
              (a \o b)[i] = IF i <= Len(a) THEN a[i] ELSE b[i - Len(a)]
<1>1. Len(a \o b) = Len(a) + Len(b) /\ a \o b \in Seq(S)
  OBVIOUS
<1>2. \A i \in 1 .. Len(a) + Len(b) :
        (a \o b)[i] = IF i <= Len(a) THEN a[i] ELSE b[i - Len(a)]
  OBVIOUS
<1> QED
  BY <1>1, <1>2

\* The blocks of the identity map: the devices, then RAM
LEMMA IdentityAt ==
  /\ DOMAIN IdentityBlocks = 1 .. 67
  /\ \A i \in 1 .. 67 : /\ i = 1 => IdentityBlocks[i] = 64
                        /\ i = 2 => IdentityBlocks[i] = 72
                        /\ i = 3 => IdentityBlocks[i] = 80
                        /\ i > 3 => IdentityBlocks[i] = 508 + i
<1> DEFINE d == <<64, 72, 80>>
           r == [i \in 1 .. 64 |-> 511 + i]
<1>1. d \in Seq(Nat) /\ Len(d) = 3 /\ d[1] = 64 /\ d[2] = 72 /\ d[3] = 80
  OBVIOUS
<1>2. r \in Seq(Nat) /\ Len(r) = 64 /\ \A i \in 1 .. 64 : r[i] = 511 + i
  OBVIOUS
<1>3. IdentityBlocks = d \o r
  BY DEF IdentityBlocks
<1> HIDE DEF d, r
<1> DEFINE B == d \o r
<1>4. DOMAIN B = 1 .. 67 /\ \A i \in 1 .. 67 : B[i] = IF i <= 3 THEN d[i] ELSE r[i - 3]
  <2>1. d \in Seq(Nat) /\ r \in Seq(Nat)
    BY <1>1, <1>2
  <2>2. /\ DOMAIN B = 1 .. Len(d) + Len(r)
        /\ \A i \in 1 .. Len(d) + Len(r) : B[i] = IF i <= Len(d) THEN d[i] ELSE r[i - Len(d)]
    BY <2>1, ConcatSeq, Zenon
  <2>3. Len(d) = 3 /\ Len(d) + Len(r) = 67
    BY <1>1, <1>2
  <2> QED
    BY <2>2, <2>3, Zenon
<1> HIDE DEF B
<1>5. ASSUME NEW i \in 1 .. 67, i > 3 PROVE B[i] = 508 + i
  <2>1. i - 3 \in 1 .. 64 /\ ~(i <= 3)
    BY <1>5
  <2>2. B[i] = r[i - 3]
    BY <1>4, <2>1
  <2> DEFINE block(j) == 511 + j
  <2>3. \A j \in 1 .. 64 : r[j] = block(j)
    BY <1>2, Zenon
  <2>4. block(i - 3) = 508 + i
    OBVIOUS
  <2> HIDE DEF block
  <2>5. r[i - 3] = block(i - 3)
    BY <2>1, <2>3, Zenon
  <2> QED
    BY <2>2, <2>4, <2>5
<1>6. B[1] = 64 /\ B[2] = 72 /\ B[3] = 80
  BY <1>1, <1>4
<1>7. IdentityBlocks = B
  BY <1>3 DEF B
<1> QED
  BY <1>4, <1>5, <1>6, <1>7

\* The page tables map every block onto itself.
LEMMA IdentityHolds == MemIdentity
<1> DEFINE B == IdentityBlocks
           Place(j) == B[j] % 512
<1>1. \A i \in 1 .. 67 : /\ B[i] \in Nat
                         /\ i <= 3 => B[i] % 512 = B[i] /\ B[i] >= 64
                         /\ i > 3 => B[i] % 512 = i - 4
  BY IdentityAt
<1>2. \A i \in 1 .. 67 : \A n \in 1 .. 67 : Place(i) = Place(n) => i = n
  BY <1>1, IdentityAt
<1>3. ASSUME NEW i \in DOMAIN B
      PROVE  vmm_get_phys(B[i]) = B[i]
  <2>1. i \in 1 .. 67
    BY IdentityAt
  <2>2. MappedBy(PmdIndex(B[i])) = {i}
    <3>1. DOMAIN B = 1 .. 67
      BY IdentityAt
    <3>2. MappedBy(PmdIndex(B[i])) = {n \in DOMAIN B : Place(n) = Place(i)}
      BY DEF MappedBy, PmdIndex
    <3> HIDE DEF Place
    <3>3. ASSUME NEW n \in DOMAIN B, Place(n) = Place(i) PROVE n = i
      BY <1>2, <2>1, <3>1, <3>3, Zenon
    <3>4. i \in MappedBy(PmdIndex(B[i]))
      BY <3>2
    <3>5. ASSUME NEW n \in MappedBy(PmdIndex(B[i])) PROVE n = i
      <4>1. n \in DOMAIN B /\ Place(n) = Place(i)
        BY <3>2
      <4> QED
        BY <3>3, <4>1
    <3> QED
      BY <3>4, <3>5
  <2>3. Max({i}) = i
    BY <2>1 DEF Max
  <2>4. \E n \in DOMAIN IdentityBlocks : IdentityBlocks[n] \div 512 = B[i] \div 512
    OBVIOUS
  <2> QED
    BY <2>2, <2>3, <2>4 DEF vmm_get_phys
<1> QED
  BY <1>3 DEF MemIdentity

\* Memory after its set-up satisfies the invariants.
LEMMA MemStarts == ASSUME MemInit PROVE FrameInv /\ HeapInv
<1> USE MemoryAssumption
<1>1. Cardinality(0 .. RESERVE_END - 1) = RESERVE_END
  <2>1. Cardinality(0 .. RESERVE_END - 1) = IF 0 > RESERVE_END - 1 THEN 0 ELSE (RESERVE_END - 1) - 0 + 1
    BY FS_Interval
  <2> QED
    BY <2>1
<1>2. FrameInv
  BY <1>1 DEF MemInit, FrameInv, MemFrames, Reserved, Frames
<1>3. HandedOut = {}
  BY DEF MemInit, HandedOut
<1>4. HeapInv
  BY <1>3, FS_EmptySet DEF MemInit, HeapInv, MemBlocks
<1> QED
  BY <1>2, <1>4

\* No part of memory has two users: page frames and heap blocks are handed
\* out once and accounted for, for every size of RAM and heap and every
\* sequence of allocations and frees, the second free of a frame included;
\* and the identity map leads every block to itself (pmm.c, heap.c, vmm_init).
THEOREM MemoryIsSound == MemSpec => []MemSound
<1> DEFINE Inv == FrameInv /\ HeapInv
<1>1. MemInit => Inv
  BY MemStarts
<1>2. Inv /\ [MemNext]_memVars => Inv'
  <2> SUFFICES ASSUME Inv, [MemNext]_memVars PROVE Inv'
    OBVIOUS
  <2>1. ASSUME UNCHANGED <<heap_ptr, heap_used, blocks>> PROVE HeapInv'
    BY <2>1 DEF HeapInv, MemBlocks, HandedOut
  <2>2. ASSUME UNCHANGED <<pmm_bitmap, pmm_free_count, frames_held>> PROVE FrameInv'
    BY <2>2 DEF FrameInv, MemFrames
  <2>3. ASSUME NEW count \in PAGE_COUNTS, pmm_alloc_pages(count) PROVE Inv'
    BY <2>1, <2>3, AllocKeepsFrames DEF pmm_alloc_pages
  <2>4. ASSUME NEW f \in frames_held, NEW count \in PAGE_COUNTS, pmm_free_pages(f, count)
        PROVE  Inv'
    BY <2>1, <2>4, FreeKeepsFrames DEF pmm_free_pages
  <2>5. ASSUME NEW size \in SIZES, kmalloc(size) PROVE Inv'
    <3>1. size \in Nat /\ heap_ptr \in Nat /\ heap_ptr >= heap_ptr
      BY MemoryAssumption DEF HeapInv
    <3> QED
      BY <2>2, <2>5, <3>1, BumpKeepsHeap DEF kmalloc
  <2>6. ASSUME NEW size \in SIZES, NEW align \in ALIGNS, kmalloc_aligned(size, align)
        PROVE  Inv'
    <3> DEFINE start == ((heap_ptr + align - 1) \div align) * align
    <3>1. size \in Nat /\ heap_ptr \in Nat /\ align \in Nat \ {0}
      BY MemoryAssumption DEF HeapInv
    <3>2. start \in Nat /\ start >= heap_ptr
      BY <3>1, AlignUp
    <3>3. Bump(start, size) /\ UNCHANGED <<pmm_bitmap, pmm_free_count, frames_held>>
      BY <2>6 DEF kmalloc_aligned
    <3> HIDE DEF start
    <3> QED
      BY <2>2, <3>1, <3>2, <3>3, BumpKeepsHeap
  <2>7. CASE UNCHANGED memVars
    BY <2>1, <2>2, <2>7 DEF memVars
  <2> QED
    BY <2>3, <2>4, <2>5, <2>6, <2>7 DEF MemNext
<1>3. Inv => MemSound
  BY IdentityHolds DEF FrameInv, HeapInv, MemSound
<1> QED
  BY <1>1, <1>2, <1>3, PTL DEF MemSpec

-----------------------------------------------------------------------------
(***************************************************************************)
(* The line editor                                                         *)
(***************************************************************************)

\* A nonempty set of naturals has a least element.
LEMMA LeastOf ==
  ASSUME NEW T \in SUBSET Nat, T # {}
  PROVE  Min(T) \in T /\ \A y \in T : Min(T) <= y
<1> DEFINE R == OpToRel(<, Nat)
<1>1. IsWellFoundedOn(R, Nat)
  BY NatLessThanWellFounded, Zenon
<1>2. \A x \in Nat, y \in Nat : y < x => <<y, x>> \in R
  BY DEF OpToRel
<1> HIDE DEF R
<1>3. PICK x \in T : \A y \in T : ~ (<<y, x>> \in R)
  BY <1>1, WFMin, Zenon
<1>4. \A y \in T : ~ (y < x)
  BY <1>2, <1>3, Zenon
<1>5. \E z \in T : \A y \in T : z <= y
  BY <1>4
<1> QED
  BY <1>5, Zenon DEF Min

Positions == 0 .. LINE_MAX - 1
Characters == KEYS \cup {NUL}

\* The buffer holds what is shown, and a terminator right behind it as long as
\* no character was taken back.
LineInv ==
  /\ line \in [Positions -> Characters]
  /\ line_len \in Positions
  /\ shown \in Seq(KEYS)
  /\ rubbed \in BOOLEAN
  /\ Len(shown) = line_len
  /\ \A n \in 1 .. line_len : line[n - 1] = shown[n]
  /\ ~rubbed /\ line_len > 0 => line[line_len] = NUL
  /\ Terminated

CommandInv ==
  /\ command.shown = SubSeq(command.read, 1, Len(command.shown))
  /\ command.rubbed \/ command.read = command.shown

\* A backspace takes the last character off the line and off the screen.
LEMMA BackspaceKeeps ==
  ASSUME LineInv, line_backspace
  PROVE  LineInv'
<1> USE ShellAssumption DEF Positions
<1>1. line' = line
  BY DEF line_backspace
<1>2. CASE line_len = 0
  <2>1. line_len' = line_len /\ shown' = shown /\ rubbed' = rubbed
    <3>1. line_len' = line_len /\ shown' = shown
      BY <1>2 DEF line_backspace
    <3>2. rubbed' = (rubbed \/ line_len > 0) /\ ~(line_len > 0) /\ rubbed \in BOOLEAN
      BY <1>2 DEF line_backspace, LineInv
    <3> QED
      BY <3>1, <3>2, Zenon
  <2> QED
    BY <1>1, <2>1 DEF LineInv, Terminated, Terminators
<1>3. CASE line_len # 0
  <2>1. /\ line_len' = line_len - 1 /\ line_len \in Nat \ {0} /\ shown \in Seq(KEYS)
        /\ shown' = SubSeq(shown, 1, Len(shown) - 1) /\ rubbed' /\ rubbed' \in BOOLEAN
    <3>1. line_len > 0 /\ line_len \in Nat
      BY <1>3 DEF LineInv
    <3>2. rubbed' = TRUE
      BY <3>1, Zenon DEF line_backspace
    <3> QED
      BY <1>3, <3>1, <3>2 DEF line_backspace, LineInv
  <2>2. /\ shown' \in Seq(KEYS) /\ Len(shown') = line_len'
        /\ \A n \in 1 .. line_len' : shown'[n] = shown[n]
    BY <2>1 DEF LineInv
  <2>3. \A n \in 1 .. line_len' : line'[n - 1] = shown'[n]
    BY <1>1, <2>1, <2>2 DEF LineInv
  <2>4. Terminated'
    <3>1. PICK m \in Positions : line[m] = NUL /\ m >= line_len
      BY DEF LineInv, Terminated, Terminators
    <3>2. m >= line_len'
      BY <2>1, <3>1
    <3> QED
      BY <1>1, <3>1, <3>2 DEF Terminated, Terminators, LineInv
  <2>5. line_len' \in Positions /\ line' \in [Positions -> Characters]
    BY <1>1, <2>1 DEF LineInv
  <2> QED
    BY <2>1, <2>2, <2>3, <2>4, <2>5 DEF LineInv
<1> QED
  BY <1>2, <1>3

\* A character is added to the line and echoed, or dropped with the line full.
LEMMA AcceptKeeps ==
  ASSUME LineInv, NEW c \in KEYS, line_accept_char(c)
  PROVE  LineInv'
<1> USE ShellAssumption DEF Positions
<1>1. DOMAIN line = Positions /\ line_len \in Nat /\ shown \in Seq(KEYS)
  BY DEF LineInv
<1>2. CASE line_len < LINE_MAX - 1
  <2>1. /\ line_len' = line_len + 1 /\ shown' = Append(shown, c)
        /\ line' = [n \in Positions |-> IF n = line_len THEN c
                                        ELSE IF n = line_len + 1 THEN NUL ELSE line[n]]
    BY <1>1, <1>2 DEF line_accept_char
  <2>2. rubbed' = FALSE
    BY <1>2, Zenon DEF line_accept_char
  <2>3. line_len + 1 \in Positions /\ line_len \in Positions
    BY <1>1, <1>2
  <2>4. line' \in [Positions -> Characters]
    BY <2>1 DEF LineInv, Characters
  <2>5. /\ shown' \in Seq(KEYS) /\ Len(shown') = line_len' /\ shown'[line_len + 1] = c
        /\ \A n \in 1 .. line_len : shown'[n] = shown[n]
    BY <1>1, <2>1 DEF LineInv
  <2>6. line'[line_len] = c /\ line'[line_len'] = NUL
        /\ \A n \in 0 .. line_len - 1 : line'[n] = line[n]
    BY <1>1, <2>1, <2>3
  <2>7. ASSUME NEW n \in 1 .. line_len'
        PROVE  line'[n - 1] = shown'[n]
    <3>1. CASE n = line_len + 1
      BY <1>1, <2>5, <2>6, <3>1
    <3>2. CASE n # line_len + 1
      <4>1. n \in 1 .. line_len /\ n - 1 \in 0 .. line_len - 1
        BY <1>1, <2>1, <3>2
      <4> QED
        BY <2>5, <2>6, <4>1 DEF LineInv
    <3> QED
      BY <3>1, <3>2
  <2>8. Terminated'
    <3>1. line_len' \in Positions /\ line'[line_len'] = NUL /\ line_len' >= line_len'
          /\ DOMAIN line' = Positions
      BY <1>1, <2>1, <2>3, <2>4, <2>6
    <3> QED
      BY <3>1 DEF Terminated, Terminators
  <2>9. line_len' \in Positions /\ rubbed' \in BOOLEAN
    BY <2>1, <2>2, <2>3
  <2> QED
    BY <2>4, <2>5, <2>6, <2>7, <2>8, <2>9 DEF LineInv
<1>3. CASE ~(line_len < LINE_MAX - 1)
  <2>1. line_len' = line_len /\ shown' = shown
    BY <1>3 DEF line_accept_char
  <2>2. line' = line
    <3>1. line' = [n \in Positions |-> line[n]]
      BY <1>1, <1>3 DEF line_accept_char
    <3> QED
      BY <3>1 DEF LineInv
  <2>3. rubbed' = rubbed
    <3>1. rubbed' = (rubbed /\ ~(line_len < LINE_MAX - 1)) /\ rubbed \in BOOLEAN
      BY DEF line_accept_char, LineInv
    <3> QED
      BY <1>3, <3>1, Zenon
  <2> QED
    BY <2>1, <2>2, <2>3 DEF LineInv, Terminated, Terminators
<1> QED
  BY <1>2, <1>3

\* What the commands read starts with what is shown.
LEMMA ReadStartsShown ==
  ASSUME LineInv, line_len # 0
  PROVE  shown = SubSeq(Read, 1, Len(shown)) /\ (rubbed \/ Read = shown)
<1> USE ShellAssumption DEF Positions
<1> DEFINE T == Terminators \cup {LINE_MAX}
           t == Min(T)
<1>1. T \in SUBSET Nat /\ T # {} /\ line_len \in Nat \ {0} /\ shown \in Seq(KEYS)
      /\ DOMAIN line = Positions /\ Len(shown) = line_len
  BY DEF LineInv, Terminators
<1>2. t \in T /\ \A y \in T : t <= y
  BY <1>1, LeastOf
<1> HIDE DEF t
<1>3. ASSUME NEW m \in T PROVE m >= line_len
  <2>1. CASE m = LINE_MAX
    BY <2>1 DEF LineInv
  <2>2. CASE m \in Terminators /\ m < line_len
    <3>1. m + 1 \in 1 .. line_len /\ (m + 1) - 1 = m /\ line[m] = NUL
      BY <1>1, <2>2 DEF Terminators
    <3>2. line[m] = shown[m + 1] /\ shown[m + 1] \in KEYS
      BY <1>1, <3>1 DEF LineInv
    <3> QED
      BY <3>1, <3>2
  <2> QED
    BY <1>1, <2>1, <2>2
<1>4. t \in Nat /\ t >= line_len /\ t < LINE_MAX
  <2>1. PICK m \in Terminators : m >= line_len
    BY DEF LineInv, Terminated
  <2>2. m < LINE_MAX /\ m \in T
    BY <1>1 DEF Terminators
  <2> QED
    BY <1>1, <1>2, <1>3, <2>2
<1>5. ~rubbed => t = line_len
  <2> SUFFICES ASSUME ~rubbed PROVE t = line_len
    OBVIOUS
  <2>1. line_len \in T
    BY <1>1 DEF LineInv, Terminators
  <2>2. t <= line_len
    BY <1>2, <2>1
  <2> QED
    BY <1>1, <1>4, <2>2
<1>6. Read = [n \in 1 .. t |-> line[n - 1]]
  BY DEF Read, t
<1> HIDE DEF T
<1>7. \A n \in 1 .. t : n - 1 \in Positions
  BY <1>4
<1>8. Read \in Seq(Characters) /\ Len(Read) = t /\ \A n \in 1 .. t : Read[n] = line[n - 1]
  BY <1>4, <1>6, <1>7 DEF LineInv
<1>9. \A n \in 1 .. line_len : Read[n] = shown[n]
  BY <1>1, <1>4, <1>8 DEF LineInv
<1>10. shown \in Seq(Characters)
  BY <1>1 DEF Characters
<1>11. shown = SubSeq(Read, 1, line_len)
  <2> DEFINE b == SubSeq(Read, 1, line_len)
  <2>1. b \in Seq(Characters) /\ Len(b) = line_len /\ \A n \in 1 .. line_len : b[n] = Read[n]
    BY <1>1, <1>4, <1>8
  <2> HIDE DEF b
  <2>2. shown = b
    BY <1>1, <1>9, <1>10, <2>1
  <2> QED
    BY <2>2 DEF b
<1>12. rubbed \/ Read = shown
  <2>1. ASSUME ~rubbed PROVE Read = shown
    BY <2>1, <1>1, <1>5, <1>8, <1>9, <1>10
  <2> QED
    BY <2>1
<1> QED
  BY <1>1, <1>11, <1>12

\* execute runs the line that is shown and leaves an empty one.
LEMMA ExecuteKeeps ==
  ASSUME LineInv, CommandInv, execute
  PROVE  LineInv' /\ CommandInv'
<1> USE ShellAssumption DEF Positions
<1>1. shown' = <<>> /\ rubbed' = FALSE
  BY DEF execute
<1>2. CASE line_len = 0
  <2>1. line' = line /\ line_len' = line_len /\ command' = command
    BY <1>2 DEF execute
  <2> QED
    <3>1. Terminated'
      BY <2>1 DEF LineInv, Terminated, Terminators
    <3>2. shown' \in Seq(KEYS) /\ Len(shown') = 0 /\ rubbed' \in BOOLEAN
      <4>1. rubbed' \in BOOLEAN
        BY <1>1, Zenon
      <4>2. shown' \in Seq(KEYS) /\ Len(shown') = 0
        BY <1>1
      <4> QED
        BY <4>1, <4>2
    <3>3. \A n \in 1 .. line_len' : line'[n - 1] = shown'[n]
      BY <1>2, <2>1
    <3>4. LineInv'
      BY <1>2, <2>1, <3>1, <3>2, <3>3 DEF LineInv
    <3>5. CommandInv'
      BY <2>1 DEF CommandInv
    <3> QED
      BY <3>4, <3>5
<1>3. CASE line_len # 0
  <2>1. PICK after \in {line, cmd_arg} : line_reset(after)
    BY <1>3 DEF execute
  <2>2. after \in [Positions -> Characters]
    <3>1. cmd_arg \in [Positions -> Characters]
      BY Zenon DEF cmd_arg, LineInv, Characters
    <3> QED
      BY <3>1 DEF LineInv
  <2>3. line_len' = 0 /\ line' \in [Positions -> Characters] /\ line'[0] = NUL
    BY <2>1, <2>2 DEF line_reset, Characters
  <2>4. Terminated'
    BY <2>3 DEF Terminated, Terminators
  <2>5. LineInv'
    BY <1>1, <2>3, <2>4 DEF LineInv
  <2>6. command' = [read |-> Read, shown |-> shown, rubbed |-> rubbed]
    BY <1>3 DEF execute
  <2>7. command'.read = Read /\ command'.shown = shown /\ command'.rubbed = rubbed
    BY <2>6, Zenon
  <2>8. CommandInv'
    BY <1>3, <2>7, ReadStartsShown DEF CommandInv
  <2> QED
    BY <2>5, <2>8
<1> QED
  BY <1>2, <1>3

\* The empty line of a new shell satisfies the invariants.
LEMMA ShellStarts == ASSUME ShellInit PROVE LineInv /\ CommandInv
<1> USE ShellAssumption DEF Positions
<1>1. LineInv
  BY DEF ShellInit, LineInv, Characters, Terminated, Terminators
<1>2. command.read = <<>> /\ command.shown = <<>>
  BY DEF ShellInit, NoCommand
<1>3. <<>> = SubSeq(<<>>, 1, Len(<<>>))
  OBVIOUS
<1> QED
  BY <1>1, <1>2, <1>3 DEF CommandInv

\* The shell runs what the user sees, whatever was typed, taken back and
\* executed before: the line always ends within the buffer, the command read
\* begins with what is shown, and is exactly that unless backspace was the
\* last key (line_accept_char, line_backspace, execute).
THEOREM ShellRunsWhatIsShown == ShellSpec => []ShellRunsShown
<1> DEFINE Inv == LineInv /\ CommandInv
<1>1. ShellInit => Inv
  BY ShellStarts
<1>2. Inv /\ [ShellNext]_shellVars => Inv'
  <2> SUFFICES ASSUME Inv, [ShellNext]_shellVars PROVE Inv'
    OBVIOUS
  <2>1. CASE execute
    BY <2>1, ExecuteKeeps
  <2>2. CASE line_backspace
    <3>1. command' = command
      BY <2>2 DEF line_backspace
    <3> QED
      BY <2>2, <3>1, BackspaceKeeps DEF CommandInv
  <2>3. ASSUME NEW c \in KEYS, line_accept_char(c) PROVE Inv'
    <3>1. command' = command
      BY <2>3 DEF line_accept_char
    <3> QED
      BY <2>3, <3>1, AcceptKeeps DEF CommandInv
  <2>4. CASE UNCHANGED shellVars
    BY <2>4 DEF LineInv, CommandInv, shellVars, Terminated, Terminators
  <2> QED
    BY <2>1, <2>2, <2>3, <2>4 DEF ShellNext
<1>3. Inv => ShellRunsShown
  BY DEF LineInv, CommandInv, ShellRunsShown
<1> QED
  BY <1>1, <1>2, <1>3, PTL DEF ShellSpec

-----------------------------------------------------------------------------
(***************************************************************************)
(* The RAM file system                                                     *)
(***************************************************************************)

InUse == {i \in FileSlots : files[i].in_use}

RamFile == [in_use : BOOLEAN, name : RAM_NAMES \cup {""}, size : Nat]

RamTypes ==
  /\ files \in [FileSlots -> RamFile]
  /\ written \in [FileSlots -> SUBSET Int]

\* No name has two files unless it was created with other bytes behind it
\* than zeros, and the bytes below a file's size were written.
RamFilesInv ==
  /\ \A i, j \in FileSlots :
       files[i].in_use /\ files[j].in_use /\ files[i].name = files[j].name =>
         i = j \/ files[i].name \in loose
  /\ \A i \in FileSlots : 0 .. files[i].size - 1 \subseteq written[i]

RamInv == RamTypes /\ RamFilesInv /\ file_count = Cardinality(InUse)

\* The files in use can be counted.
LEMMA InUseFinite == IsFiniteSet(InUse) /\ Cardinality(InUse) \in Nat
<1>1. IsFiniteSet(FileSlots)
  BY RamfsAssumption, FS_Interval DEF FileSlots
<1> QED
  BY <1>1, FS_Subset, FS_CardinalityType, Zenon DEF InUse

\* A name that is not found is in no slot, or was passed with other bytes
\* behind it than zeros; it takes a free slot (ramfs_create).
LEMMA CreateKeeps ==
  ASSUME RamInv, NEW name \in RamNames, ramfs_create(name)
  PROVE  RamInv'
<1> DEFINE f == [in_use |-> TRUE, name |-> name[1], size |-> 0]
<1>1. PICK i \in FileSlots :
        /\ ~files[i].in_use
        /\ files' = [files EXCEPT ![i] = f]
        /\ written' = [written EXCEPT ![i] = {}]
  BY Zenon DEF ramfs_create
<1>2. name[1] \in RAM_NAMES
  BY DEF RamNames
<1>3. f \in RamFile
  BY <1>2, Zenon DEF RamFile
<1>4. f.in_use /\ f.name = name[1] /\ f.size = 0
  BY Zenon
<1> HIDE DEF f
<1>5. /\ files' \in [FileSlots -> RamFile] /\ files'[i] = f
      /\ \A j \in FileSlots \ {i} : files'[j] = files[j]
  BY <1>1, <1>3, Zenon DEF RamInv, RamTypes
<1>6. /\ written' \in [FileSlots -> SUBSET Int]
      /\ \A j \in FileSlots \ {i} : written'[j] = written[j]
  BY <1>1, Zenon DEF RamInv, RamTypes
<1>7. ASSUME NEW j \in FileSlots, files[j].in_use, files[j].name = name[1]
      PROVE  name[1] \in loose'
  <2>1. ~Padded(name)
    BY <1>7, Zenon DEF ramfs_create, Matching, Matches
  <2> QED
    BY <2>1, Zenon DEF ramfs_create
<1>7a. loose \subseteq loose'
  BY Zenon DEF ramfs_create
<1>8. ASSUME NEW j \in FileSlots, NEW k \in FileSlots, files'[j].in_use, files'[k].in_use,
             files'[j].name = files'[k].name
      PROVE  j = k \/ files'[j].name \in loose'
  <2>1. CASE j = i /\ k # i
    BY <1>4, <1>5, <1>7, <1>8, <2>1, Zenon
  <2>2. CASE j # i /\ k = i
    BY <1>4, <1>5, <1>7, <1>8, <2>2, Zenon
  <2>3. CASE j # i /\ k # i
    BY <1>5, <1>7a, <1>8, <2>3, Zenon DEF RamInv, RamFilesInv
  <2> QED
    BY <2>1, <2>2, <2>3, Zenon
<1>9. ASSUME NEW j \in FileSlots
      PROVE  0 .. files'[j].size - 1 \subseteq written'[j]
  <2>1. CASE j = i
    <3>1. files'[j].size = 0
      BY <1>4, <1>5, <2>1, Zenon
    <3> QED
      BY <3>1
  <2>2. CASE j # i
    BY <1>5, <1>6, <2>2, Zenon DEF RamInv, RamFilesInv
  <2> QED
    BY <2>1, <2>2, Zenon
<1>10. file_count' = Cardinality(InUse')
  <2>1. InUse' = InUse \cup {i} /\ i \notin InUse
    BY <1>1, <1>4, <1>5, Zenon DEF InUse
  <2>2. Cardinality(InUse \cup {i}) = Cardinality(InUse) + 1
    BY <2>1, InUseFinite, FS_AddElement, Zenon
  <2> QED
    BY <2>1, <2>2, Zenon DEF RamInv, ramfs_create
<1> QED
  BY <1>5, <1>6, <1>8, <1>9, <1>10, Zenon DEF RamInv, RamTypes, RamFilesInv

\* A file grows over bytes that were written with it (ramfs_write).
LEMMA WriteKeeps ==
  ASSUME RamInv, NEW name \in RamNames, NEW len \in RAM_LENGTHS, ramfs_write(name, len, 0)
  PROVE  RamInv'
<1> DEFINE end == IF len > RAMFS_MAX_SIZE - 0 THEN RAMFS_MAX_SIZE ELSE 0 + len
<1>1. end \in Nat
  BY RamfsAssumption
<1>2. PICK i \in find_file(name) :
        /\ files' = [files EXCEPT ![i].size = IF @ < end THEN end ELSE @]
        /\ written' = [written EXCEPT ![i] = @ \cup 0 .. end - 1]
  BY Zenon DEF ramfs_write
<1> HIDE DEF end
<1> DEFINE size == IF files[i].size < end THEN end ELSE files[i].size
<1>3. i \in FileSlots
  BY DEF find_file, Matching
<1>4. files[i] \in RamFile /\ files[i].size \in Nat
  BY <1>3, Zenon DEF RamInv, RamTypes, RamFile
<1>5. size \in Nat /\ files' = [files EXCEPT ![i] = [files[i] EXCEPT !.size = size]]
  BY <1>1, <1>2, <1>4, Zenon
<1> HIDE DEF size
<1> DEFINE f == [files[i] EXCEPT !.size = size]
<1>6. f \in RamFile
  BY <1>4, <1>5, Zenon DEF RamFile
<1>7. f.in_use = files[i].in_use /\ f.name = files[i].name /\ f.size = size
  BY <1>4, Zenon DEF RamFile
<1>8. files' = [files EXCEPT ![i] = f]
  BY <1>5, Zenon
<1> HIDE DEF f
<1>9. /\ files' \in [FileSlots -> RamFile] /\ files'[i] = f
      /\ \A j \in FileSlots \ {i} : files'[j] = files[j]
  BY <1>3, <1>6, <1>8, Zenon DEF RamInv, RamTypes
<1>10. /\ written' \in [FileSlots -> SUBSET Int]
       /\ written'[i] = written[i] \cup 0 .. end - 1
       /\ \A j \in FileSlots \ {i} : written'[j] = written[j]
  BY <1>1, <1>2, <1>3 DEF RamInv, RamTypes
<1>11. ASSUME NEW j \in FileSlots
       PROVE  (files'[j].in_use <=> files[j].in_use) /\ files'[j].name = files[j].name
  <2>1. CASE j = i
    BY <1>7, <1>9, <2>1, Zenon
  <2>2. CASE j # i
    BY <1>9, <2>2, Zenon
  <2> QED
    BY <2>1, <2>2, Zenon
<1>12. ASSUME NEW j \in FileSlots
       PROVE  0 .. files'[j].size - 1 \subseteq written'[j]
  <2>1. 0 .. files[j].size - 1 \subseteq written[j]
    BY Zenon DEF RamInv, RamFilesInv
  <2>2. CASE j = i
    <3>1. files'[j].size = size /\ size \in Nat
      BY <1>5, <1>7, <1>9, <2>2, Zenon
    <3>2. 0 .. size - 1 \subseteq (0 .. files[i].size - 1) \cup (0 .. end - 1)
      BY <1>1, <1>4, Zenon DEF size
    <3> QED
      BY <1>10, <2>1, <2>2, <3>1, <3>2, Zenon
  <2>3. CASE j # i
    BY <1>9, <1>10, <2>1, <2>3, Zenon
  <2> QED
    BY <2>2, <2>3, Zenon
<1>13. InUse' = InUse
  BY <1>11, Zenon DEF InUse
<1>14. file_count' = Cardinality(InUse')
  BY <1>13, Zenon DEF RamInv, ramfs_write
<1>15. RamFilesInv'
  <2>1. ASSUME NEW j \in FileSlots, NEW k \in FileSlots, files'[j].in_use, files'[k].in_use,
               files'[j].name = files'[k].name
        PROVE  j = k \/ files'[j].name \in loose'
    BY <1>11, <2>1, Zenon DEF RamInv, RamFilesInv, ramfs_write
  <2> QED
    BY <1>12, <2>1, Zenon DEF RamFilesInv
<1> QED
  BY <1>9, <1>10, <1>14, <1>15, Zenon DEF RamInv, RamTypes

\* A deleted file has no bytes (ramfs_delete).
LEMMA DeleteKeeps ==
  ASSUME RamInv, NEW name \in RamNames, ramfs_delete(name)
  PROVE  RamInv'
<1>1. PICK i \in find_file(name) :
        files' = [files EXCEPT ![i].in_use = FALSE, ![i].size = 0]
  BY Zenon DEF ramfs_delete
<1>2. i \in FileSlots /\ files[i].in_use
  BY Zenon DEF find_file, Matching, Matches
<1> DEFINE f == [files[i] EXCEPT !.in_use = FALSE, !.size = 0]
<1>3. files[i] \in RamFile
  BY <1>2 DEF RamInv, RamTypes
<1>4. f \in RamFile
  <2>1. 0 \in Nat
    OBVIOUS
  <2> QED
    BY <1>3, <2>1, Zenon DEF RamFile
<1>5. ~f.in_use /\ f.size = 0
  BY <1>3, Zenon DEF RamFile
<1>6. files' = [files EXCEPT ![i] = f]
  BY <1>1, <1>2, Zenon DEF RamInv, RamTypes
<1> HIDE DEF f
<1>7. /\ files' \in [FileSlots -> RamFile] /\ files'[i] = f
      /\ \A j \in FileSlots \ {i} : files'[j] = files[j]
  BY <1>2, <1>4, <1>6, Zenon DEF RamInv, RamTypes
<1>8. written' = written /\ file_count' = file_count - 1
  BY Zenon DEF ramfs_delete
<1>9. ASSUME NEW j \in FileSlots
      PROVE  0 .. files'[j].size - 1 \subseteq written'[j]
  <2>1. CASE j = i
    <3>1. files'[j].size = 0
      BY <1>5, <1>7, <2>1, Zenon
    <3> QED
      BY <3>1
  <2>2. CASE j # i
    BY <1>7, <1>8, <2>2, Zenon DEF RamInv, RamFilesInv
  <2> QED
    BY <2>1, <2>2, Zenon
<1>10. \A j \in FileSlots : files'[j].in_use => j # i /\ files'[j] = files[j]
  BY <1>5, <1>7, Zenon
<1>11. RamFilesInv'
  <2>1. ASSUME NEW j \in FileSlots, NEW k \in FileSlots, files'[j].in_use, files'[k].in_use,
               files'[j].name = files'[k].name
        PROVE  j = k \/ files'[j].name \in loose'
    BY <1>10, <2>1, Zenon DEF RamInv, RamFilesInv, ramfs_delete
  <2> QED
    BY <1>9, <2>1, Zenon DEF RamFilesInv
<1>12. file_count' = Cardinality(InUse')
  <2>1. InUse' = InUse \ {i} /\ i \in InUse
    BY <1>2, <1>5, <1>7 DEF InUse
  <2>2. Cardinality(InUse \ {i}) = Cardinality(InUse) - 1
    BY <2>1, InUseFinite, FS_RemoveElement, Zenon
  <2> QED
    BY <1>8, <2>1, <2>2, Zenon DEF RamInv
<1> QED
  BY <1>7, <1>8, <1>11, <1>12, Zenon DEF RamInv, RamTypes

(***************************************************************************)
(* For every number of files, every file size and whatever follows the     *)
(* names that callers pass: the count is right, a reader gets what was     *)
(* written to the file since it was created, and a name has two files only *)
(* if a caller created it with other bytes than zeros behind it            *)
(* (find_file, ramfs_create, ramfs_write, ramfs_delete, ramfs_read).       *)
(***************************************************************************)
THEOREM RamfsTableRight == RamSpec => []RamTable
<1>1. RamInit => RamInv
  <2> SUFFICES ASSUME RamInit
               PROVE  RamInv
    OBVIOUS
  <2>1. [in_use |-> FALSE, name |-> "", size |-> 0] \in RamFile
    BY DEF RamFile
  <2>2. RamTypes
    BY <2>1, Zenon DEF RamInit, RamTypes
  <2>3. RamFilesInv
    <3>1. \A i \in FileSlots : ~files[i].in_use /\ files[i].size = 0
      BY Zenon DEF RamInit
    <3>2. 0 .. 0 - 1 = {}
      OBVIOUS
    <3> QED
      BY <3>1, <3>2, Zenon DEF RamFilesInv
  <2>4. InUse = {}
    BY Zenon DEF RamInit, InUse
  <2> QED
    BY <2>2, <2>3, <2>4, FS_EmptySet, Zenon DEF RamInit, RamInv
<1>2. RamInv /\ [RamNext]_ramVars => RamInv'
  <2> SUFFICES ASSUME RamInv, [RamNext]_ramVars
               PROVE  RamInv'
    BY Zenon
  <2>1. CASE UNCHANGED ramVars
    BY <2>1, Zenon DEF ramVars, RamInv, RamTypes, RamFilesInv, InUse
  <2> QED
    BY <2>1, CreateKeeps, WriteKeeps, DeleteKeeps, Zenon DEF RamNext
<1>3. RamInv => RamTable
  <2> SUFFICES ASSUME RamInv
               PROVE  RamTable
    OBVIOUS
  <2>1. ASSUME NEW i \in FileSlots
        PROVE  ramfs_read(i, 2 * RAMFS_MAX_SIZE, 0) \subseteq written[i]
    <3>1. files[i].size \in Nat
      BY Zenon DEF RamInv, RamTypes, RamFile
    <3>2. ramfs_read(i, 2 * RAMFS_MAX_SIZE, 0) \subseteq 0 .. files[i].size - 1
      BY <3>1, RamfsAssumption DEF ramfs_read
    <3> QED
      BY <3>2, Zenon DEF RamInv, RamFilesInv
  <2> QED
    BY <2>1 DEF RamTable, RamInv, RamFilesInv, InUse
<1> QED
  BY <1>1, <1>2, <1>3, PTL DEF RamSpec

-----------------------------------------------------------------------------
(***************************************************************************)
(* The library on the host                                                 *)
(***************************************************************************)

\* The latest entries stand in the ring where their numbers put them.
HostRing ==
  /\ ai_hist_count \in Nat
  /\ ai_history \in [0 .. HOST_HIST_LEN - 1 -> Int]
  /\ \A k \in Nat : k < ai_hist_count /\ ai_hist_count <= k + HOST_HIST_LEN =>
       ai_history[k % HOST_HIST_LEN] = k + 1

HostClock ==
  /\ k_hz \in HZ_MIN .. HZ_MAX
  /\ reads \in Nat /\ forced \in Int /\ k_inferences \in Int
  /\ k_reads_since_inference \in 0 .. HOST_PERIOD_TICKS - 1
  /\ k_ticks \in HZ_MIN * reads .. HZ_MAX * reads
  /\ HOST_PERIOD_TICKS * (k_inferences - forced) + k_reads_since_inference = reads

\* The product of a period and one more inference.
LEMMA OneMore ==
  ASSUME NEW p \in Nat, NEW x \in Int
  PROVE  p * (x + 1) = p * x + p /\ p * x \in Int
OBVIOUS

\* ai_act leaves the rate within its limits.
LEMMA ActedInBand ==
  ASSUME NEW hz \in HZ_MIN .. HZ_MAX, NEW action
  PROVE  Acted(hz, action) \in HZ_MIN .. HZ_MAX
<1>1. CASE action = "BOOST" /\ hz + 25 <= HZ_MAX
  BY <1>1 DEF Acted, HZ_MIN, HZ_MAX
<1>2. CASE ~(action = "BOOST" /\ hz + 25 <= HZ_MAX) /\ action = "REST" /\ hz >= 25 + HZ_MIN
  BY <1>2 DEF Acted, HZ_MIN, HZ_MAX
<1>3. CASE ~(action = "BOOST" /\ hz + 25 <= HZ_MAX) /\ ~(action = "REST" /\ hz >= 25 + HZ_MIN)
  BY <1>3 DEF Acted, HZ_MIN, HZ_MAX
<1> QED
  BY <1>1, <1>2, <1>3, Zenon

\* aeos_timer_ticks keeps the clock and the count of inferences in step.
LEMMA ReadKeepsClock ==
  ASSUME HostClock, aeos_timer_ticks
  PROVE  HostClock'
<1> DEFINE P == HOST_PERIOD_TICKS
           d == k_inferences - forced
<1>1. /\ P \in Nat \ {0} /\ k_hz \in 10 .. 500 /\ reads \in Nat /\ d \in Int
      /\ forced \in Int /\ k_inferences \in Int
      /\ k_reads_since_inference \in 0 .. P - 1
      /\ k_ticks \in 10 * reads .. 500 * reads
      /\ P * d + k_reads_since_inference = reads
  BY HostAssumption DEF HostClock, HZ_MIN, HZ_MAX
<1>2. k_ticks' = k_ticks + k_hz /\ reads' = reads + 1 /\ forced' = forced
  BY DEF aeos_timer_ticks
<1>3. k_ticks' \in 10 * reads' .. 500 * reads' /\ reads' \in Nat
  BY <1>1, <1>2
<1>4. CASE k_reads_since_inference + 1 >= P
  <2>1. PICK action \in HostDecisions : k_hz' = Acted(k_hz, action)
    BY <1>4, Zenon DEF aeos_timer_ticks, ai_step
  <2>2. k_reads_since_inference' = 0 /\ k_inferences' = k_inferences + 1
    BY <1>4, Zenon DEF aeos_timer_ticks, ai_step
  <2>3. k_hz' \in HZ_MIN .. HZ_MAX
    BY <2>1, ActedInBand, Zenon DEF HostClock
  <2>4. k_inferences' - forced' = d + 1 /\ k_reads_since_inference = P - 1
    BY <1>1, <1>2, <1>4, <2>2
  <2>5. P * (d + 1) = P * d + P /\ P * d \in Int
    BY <1>1, OneMore, Zenon
  <2> DEFINE x == P * d
             y == P * (d + 1)
  <2>6. x \in Int /\ y = x + P /\ x + (P - 1) = reads
    BY <1>1, <2>4, <2>5, Zenon
  <2> HIDE DEF x, y
  <2>7. y + 0 = reads + 1
    BY <1>1, <2>6
  <2>8. P * (k_inferences' - forced') + k_reads_since_inference' = reads'
    BY <1>2, <2>2, <2>4, <2>7, Zenon DEF y
  <2>9. forced' \in Int /\ k_inferences' \in Int /\ k_reads_since_inference' \in 0 .. P - 1
    BY <1>1, <1>2, <2>2
  <2> QED
    BY <1>3, <2>3, <2>8, <2>9, Zenon DEF HostClock, HZ_MIN, HZ_MAX
<1>5. CASE ~(k_reads_since_inference + 1 >= P)
  <2>1. /\ k_reads_since_inference' = k_reads_since_inference + 1
        /\ k_hz' = k_hz /\ k_inferences' = k_inferences
    BY <1>5, Zenon DEF aeos_timer_ticks, policyVars
  <2> DEFINE x == P * d
  <2>2. x \in Int /\ x + k_reads_since_inference = reads /\ P * (k_inferences' - forced') = x
    BY <1>1, <1>2, <2>1, OneMore
  <2> HIDE DEF x
  <2>3. P * (k_inferences' - forced') + k_reads_since_inference' = reads'
    BY <1>1, <1>2, <2>1, <2>2
  <2>4. k_reads_since_inference' \in 0 .. P - 1
    BY <1>1, <1>5, <2>1
  <2> QED
    BY <1>1, <1>2, <1>3, <2>1, <2>3, <2>4, Zenon DEF HostClock, HZ_MIN, HZ_MAX
<1> QED
  BY <1>4, <1>5, Zenon

\* aeos_ai_force_inference adds an entry to the history and no read.
LEMMA ForceKeeps ==
  ASSUME HostClock, HostRing, aeos_ai_force_inference
  PROVE  HostClock' /\ HostRing'
<1>1. /\ k_ticks' = k_ticks /\ reads' = reads
      /\ k_reads_since_inference' = k_reads_since_inference
  BY Zenon DEF aeos_ai_force_inference
<1>2. CASE ai_disabled_flag
  <2>1. /\ k_hz' = k_hz /\ k_inferences' = k_inferences /\ forced' = forced
        /\ ai_history' = ai_history /\ ai_hist_count' = ai_hist_count
    BY <1>2 DEF aeos_ai_force_inference, policyVars, historyVars
  <2> QED
    BY <1>1, <2>1, Zenon DEF HostClock, HostRing
<1>3. CASE ~ai_disabled_flag
  <2> DEFINE n == ai_hist_count
             L == HOST_HIST_LEN
  <2>1. PICK action \in HostDecisions : k_hz' = Acted(k_hz, action)
    BY <1>3, Zenon DEF aeos_ai_force_inference, ai_step
  <2>2. /\ k_inferences' = k_inferences + 1 /\ forced' = forced + 1
        /\ ai_history' = [ai_history EXCEPT ![n % L] = n + 1] /\ ai_hist_count' = n + 1
    BY <1>3, Zenon DEF aeos_ai_force_inference, ai_step
  <2>3. k_hz' \in HZ_MIN .. HZ_MAX
    BY <2>1, ActedInBand, Zenon DEF HostClock
  <2>4. k_inferences' - forced' = k_inferences - forced /\ k_inferences' \in Int /\ forced' \in Int
    BY <2>2 DEF HostClock
  <2>5. HostClock'
    BY <1>1, <2>3, <2>4, Zenon DEF HostClock
  <2>6. /\ n \in Nat /\ L \in Nat \ {0} /\ n % L \in 0 .. L - 1
        /\ ai_history \in [0 .. L - 1 -> Int]
    BY HostAssumption, Quotient, Zenon DEF HostRing
  <2>7. ai_history' \in [0 .. L - 1 -> Int] /\ ai_history'[n % L] = n + 1
        /\ \A i \in 0 .. L - 1 : i # n % L => ai_history'[i] = ai_history[i]
    BY <2>2, <2>6
  <2>8. ASSUME NEW k \in Nat, k < n + 1, n + 1 <= k + L
        PROVE  ai_history'[k % L] = k + 1
    <3>1. CASE k = n
      BY <2>7, <3>1, Zenon
    <3>2. CASE k # n
      <4>1. k < n /\ n < k + L /\ n <= k + L
        BY <2>6, <2>8, <3>2
      <4>2. k % L # n % L
        BY <2>6, <4>1, RemaindersApart, Zenon
      <4>3. k % L \in 0 .. L - 1
        BY <2>6, Quotient, Zenon
      <4>4. ai_history[k % L] = k + 1
        BY <4>1, Zenon DEF HostRing
      <4> QED
        BY <2>7, <4>2, <4>3, <4>4, Zenon
    <3> QED
      BY <3>1, <3>2, Zenon
  <2>9. HostRing'
    BY <2>2, <2>6, <2>7, <2>8 DEF HostRing
  <2> QED
    BY <2>5, <2>9, Zenon
<1> QED
  BY <1>2, <1>3, Zenon

\* The index runs over the latest entries.
LEMMA HistoryLatest ==
  ASSUME HostRing, NEW idx \in 0 .. aeos_ai_get_history_count - 1
  PROVE  aeos_ai_get_history(idx) = ai_hist_count - aeos_ai_get_history_count + idx + 1
<1> DEFINE n == ai_hist_count
           L == HOST_HIST_LEN
           kept == aeos_ai_get_history_count
           start == IF n < L THEN 0 ELSE n - L
           k == start + idx
<1>1. n \in Nat /\ L \in Nat \ {0} /\ kept = IF n < L THEN n ELSE L
  BY HostAssumption DEF HostRing, aeos_ai_get_history_count
<1>2. aeos_ai_get_history(idx) = ai_history[k % L]
  BY DEF aeos_ai_get_history
<1>3. k \in Nat /\ k < n /\ n <= k + L /\ k = n - kept + idx
  BY <1>1
<1>4. ai_history[k % L] = k + 1
  BY <1>3, Zenon DEF HostRing
<1> HIDE DEF k
<1> QED
  BY <1>1, <1>2, <1>3, <1>4, Zenon

\* aeos_sim_reset starts the clock again.
LEMMA ResetClock ==
  ASSUME k_hz' = 100, k_ticks' = 0, k_inferences' = 0, k_reads_since_inference' = 0,
         reads' = 0, forced' = 0
  PROVE  HostClock'
<1>1. HOST_PERIOD_TICKS * 0 = 0 /\ k_inferences' - forced' = 0
  BY HostAssumption
<1> QED
  BY <1>1, HostAssumption DEF HostClock, HZ_MIN, HZ_MAX

\* The library starts with an empty history and no read.
LEMMA HostStarts == ASSUME HostInit PROVE HostClock /\ HostRing
<1>1. HOST_PERIOD_TICKS * 0 = 0 /\ k_inferences - forced = 0
  BY HostAssumption DEF HostInit
<1>2. HostClock
  BY <1>1, HostAssumption DEF HostInit, HostClock, HZ_MIN, HZ_MAX
<1>3. HostRing
  BY HostAssumption DEF HostInit, HostRing
<1> QED
  BY <1>2, <1>3, Zenon

\* The host's mirror keeps its books for every period, history length and
\* sequence of calls: the rate stays in its band and the clock moves with it,
\* no inference is lost or made up, and the history read by index is that of
\* the latest inferences on demand (aeos_kernel.c).
THEOREM HostKeepsBooks == HostSpec => []HostBooks
<1> DEFINE Inv == HostClock /\ HostRing
<1>1. HostInit => Inv
  BY HostStarts, Zenon
<1>2. Inv /\ [HostNext]_hostVars => Inv'
  <2> SUFFICES ASSUME Inv, [HostNext]_hostVars PROVE Inv'
    OBVIOUS
  <2>1. ASSUME UNCHANGED historyVars PROVE HostRing'
    BY <2>1, Zenon DEF HostRing, historyVars
  <2>2. CASE aeos_timer_ticks
    BY <2>1, <2>2, ReadKeepsClock, Zenon DEF aeos_timer_ticks
  <2>3. ASSUME NEW hz \in RATES, aeos_set_timer_hz(hz) PROVE Inv'
    <3>1. hz \in Nat
      BY HostAssumption, Zenon
    <3>2. k_hz' \in HZ_MIN .. HZ_MAX
      BY <2>3, <3>1 DEF aeos_set_timer_hz, HZ_MIN, HZ_MAX
    <3>3. HostClock'
      BY <2>3, <3>2, Zenon DEF aeos_set_timer_hz, HostClock
    <3> QED
      BY <2>1, <2>3, <3>3, Zenon DEF aeos_set_timer_hz
  <2>4. ASSUME NEW kept \in PAGES, aeos_sim_allocate_pages(kept) PROVE Inv'
    BY <2>1, <2>4, Zenon DEF aeos_sim_allocate_pages, HostClock, policyVars
  <2>5. CASE aeos_sim_reset
    <3>1. HostClock'
      BY <2>5, ResetClock, Zenon DEF aeos_sim_reset
    <3> QED
      BY <2>1, <2>5, <3>1, Zenon DEF aeos_sim_reset
  <2>6. CASE aeos_ai_force_inference
    BY <2>6, ForceKeeps, Zenon
  <2>7. ASSUME NEW flag \in BOOLEAN, aeos_ai_disable(flag) PROVE Inv'
    BY <2>1, <2>7, Zenon DEF aeos_ai_disable, HostClock, policyVars
  <2>8. CASE UNCHANGED hostVars
    BY <2>1, <2>8, Zenon DEF hostVars, HostClock, policyVars
  <2> QED
    BY <2>2, <2>3, <2>4, <2>5, <2>6, <2>7, <2>8, Zenon DEF HostNext
<1>3. Inv => HostBooks
  BY HistoryLatest DEF HostClock, HostBooks
<1> QED
  BY <1>1, <1>2, <1>3, PTL DEF HostSpec
-----------------------------------------------------------------------------
(***************************************************************************)
(* Frames: the bitmap, the stack and the count agree with who holds which  *)
(* frame, except for frames that a range took from under the stack.        *)
(***************************************************************************)

\* The types, and that the frames on the stack are frames.
RfTypes ==
  /\ rfBitmap \subseteq Usable
  /\ rfStack \in Seq(Usable)
  /\ rfFreeCount \in Int
  /\ rfHeld \in [PhysFrame -> Int]
  /\ rfStale \subseteq Usable

RfInv == RfTypes /\ RfSound

\* The usable frames are finitely many frames, fewer than a usize counts.
LEMMA UsableFinite ==
  /\ IsFiniteSet(Usable) /\ Usable \subseteq PhysFrame
  /\ Cardinality(Usable) \in Nat /\ Cardinality(Usable) < USIZE
<1>1. FirstFree \in Nat \ {0} /\ TOTAL_FRAMES \in Nat /\ USIZE \in Nat /\ USIZE > TOTAL_FRAMES
  BY RustFramesAssumption DEF FirstFree
<1>2. TOTAL_FRAMES - 1 \in Int
  BY <1>1
<1>3. IsFiniteSet(Usable) /\ Usable \subseteq PhysFrame
  BY <1>1, <1>2, FS_Interval DEF Usable, PhysFrame
<1>4. Cardinality(Usable) = IF FirstFree > TOTAL_FRAMES - 1 THEN 0
                            ELSE (TOTAL_FRAMES - 1) - FirstFree + 1
  BY <1>1, <1>2, FS_Interval DEF Usable
<1>5. QED
  BY <1>1, <1>3, <1>4

\* So are the free ones.
LEMMA BitmapFinite ==
  ASSUME NEW S \in SUBSET Usable
  PROVE  /\ IsFiniteSet(S)
         /\ Cardinality(S) \in Nat /\ Cardinality(S) < USIZE
<1>1. IsFiniteSet(S) /\ Cardinality(S) \in Nat
  BY UsableFinite, FS_Subset, FS_CardinalityType, Zenon
<1>2. Cardinality(S) <= Cardinality(Usable)
  BY UsableFinite, FS_Subset, Zenon
<1>3. USIZE \in Nat
  BY RustFramesAssumption
<1>4. QED
  BY <1>1, <1>2, <1>3, UsableFinite

\* A count below the width is not reduced.
LEMMA NotReduced ==
  ASSUME NEW n \in Nat, n < USIZE
  PROVE  n % USIZE = n
BY RustFramesAssumption

\* At most as many frames go on the stack as there are, and as it holds
\* (init).
LEMMA InitEstablishes ==
  ASSUME RfInit
  PROVE  RfInv
<1> DEFINE D == {j \in 1 .. FREE_STACK_SIZE : FirstFree + j - 1 \in Usable}
           room == TOTAL_FRAMES - FirstFree
           n == IF room < 0 THEN 0 ELSE IF room < FREE_STACK_SIZE THEN room ELSE FREE_STACK_SIZE
<1>1. FirstFree \in Nat /\ FREE_STACK_SIZE \in Nat /\ TOTAL_FRAMES \in Nat
  BY RustFramesAssumption DEF FirstFree
<1>2. n \in Nat /\ D = 1 .. n
  BY <1>1 DEF Usable
<1>3. rfStack = [i \in 1 .. n |-> FirstFree + i - 1]
  BY <1>2 DEF RfInit
<1>4. \A i \in 1 .. n : FirstFree + i - 1 \in Usable
  BY <1>1 DEF Usable
<1> HIDE DEF n
<1>5. rfStack \in Seq(Usable) /\ Len(rfStack) = n
  BY <1>2, <1>3, <1>4
<1>6. rfFreeCount \in Int
  BY UsableFinite DEF RfInit
<1>7. RfTypes
  BY <1>5, <1>6 DEF RfTypes, RfInit
<1>8. RfOneOwner
  BY DEF RfOneOwner, RfInit
<1>9. RfStackFree
  <2>1. \A i \in 1 .. n : rfStack[i] = FirstFree + i - 1
    BY <1>3
  <2>2. \A i \in 1 .. n : rfStack[i] \in rfBitmap
    BY <1>4, <2>1 DEF RfInit
  <2>3. \A i, j \in 1 .. n : rfStack[i] = rfStack[j] => i = j
    BY <1>1, <1>2, <2>1
  <2>4. QED
    BY <1>5, <2>2, <2>3 DEF RfStackFree
<1>10. QED
  BY <1>7, <1>8, <1>9 DEF RfInv, RfSound

\* What handing out frames does to the types.
LEMMA HandOutTypes ==
  ASSUME RfTypes, NEW F \in SUBSET Usable, HandOut(F)
  PROVE  /\ rfBitmap' \subseteq Usable
         /\ rfFreeCount' \in Int
         /\ rfHeld' \in [PhysFrame -> Int]
<1>1. Cardinality(F) \in Nat
  BY BitmapFinite
<1>2. QED
  BY <1>1, RustFramesAssumption DEF HandOut, RfTypes

\* Handing out frames that are free in the bitmap keeps one owner for each
\* and the count right.
LEMMA HandOutKeeps ==
  ASSUME RfTypes, RfOneOwner, NEW F \in SUBSET rfBitmap, HandOut(F)
  PROVE  /\ rfBitmap' \subseteq Usable
         /\ rfTwice = {} => rfFreeCount' = Cardinality(rfBitmap')
         /\ \A f \in PhysFrame \ rfTwice :
              rfHeld'[f] = IF f \in Usable \ rfBitmap' THEN 1 ELSE 0
<1>1. F \in SUBSET Usable /\ rfBitmap \in SUBSET Usable /\ rfBitmap \ F \in SUBSET Usable
  BY DEF RfTypes
<1>2. /\ IsFiniteSet(rfBitmap) /\ IsFiniteSet(F)
      /\ Cardinality(rfBitmap) \in Nat /\ Cardinality(F) \in Nat
      /\ Cardinality(rfBitmap \ F) \in Nat /\ Cardinality(rfBitmap \ F) < USIZE
  BY <1>1, BitmapFinite
<1>3. rfBitmap \cap F = F
  OBVIOUS
<1>4. Cardinality(rfBitmap \ F) = Cardinality(rfBitmap) - Cardinality(F)
  BY <1>2, <1>3, FS_Difference, Zenon
<1>5. Cardinality(rfBitmap \ F) % USIZE = Cardinality(rfBitmap \ F)
  BY <1>2, NotReduced
<1>6. rfTwice = {} => rfFreeCount' = Cardinality(rfBitmap')
  BY <1>4, <1>5 DEF HandOut, RfOneOwner
<1>7. rfBitmap' \subseteq Usable
  BY DEF HandOut, RfTypes
<1>8. ASSUME NEW f \in PhysFrame \ rfTwice
      PROVE  rfHeld'[f] = IF f \in Usable \ rfBitmap' THEN 1 ELSE 0
  <2>1. rfHeld'[f] = rfHeld[f] + (IF f \in F THEN 1 ELSE 0)
    BY DEF HandOut
  <2>2. rfHeld[f] = IF f \in Usable \ rfBitmap THEN 1 ELSE 0
    BY DEF RfOneOwner
  <2>3. CASE f \in F
    BY <2>1, <2>2, <2>3 DEF HandOut, RfTypes
  <2>4. CASE f \notin F
    BY <2>1, <2>2, <2>4 DEF HandOut, RfTypes
  <2>5. QED
    BY <2>3, <2>4
<1>9. QED
  BY <1>6, <1>7, <1>8, Zenon

\* The stack without its top.
LEMMA StackPopped ==
  ASSUME rfStack \in Seq(Usable), rfStack # <<>>,
         rfStack' = SubSeq(rfStack, 1, Len(rfStack) - 1)
  PROVE  /\ Len(rfStack) \in Nat \ {0} /\ Top \in Usable
         /\ rfStack' \in Seq(Usable) /\ Len(rfStack') = Len(rfStack) - 1
         /\ \A i \in 1 .. Len(rfStack) - 1 : rfStack'[i] = rfStack[i]
<1> DEFINE n == Len(rfStack)
<1>1. n \in Nat \ {0} /\ Top \in Usable
  BY DEF Top
<1>2. n - 1 \in Nat /\ 1 .. n - 1 \subseteq 1 .. n
  BY <1>1
<1>3. \A i \in 1 .. n - 1 : rfStack[i] \in Usable
  BY <1>1, <1>2
<1>4. SubSeq(rfStack, 1, n - 1) = [i \in 1 .. n - 1 |-> rfStack[i]]
  BY <1>1, <1>2
<1> DEFINE m == n - 1
<1>5. m \in Nat /\ rfStack' = [i \in 1 .. m |-> rfStack[i]]
  BY <1>2, <1>4, Zenon
<1> HIDE DEF m
<1>6. rfStack' \in Seq(Usable) /\ Len(rfStack') = m
  <2>1. \A i \in 1 .. m : rfStack[i] \in Usable
    BY <1>3, Zenon DEF m
  <2>2. QED
    BY ONLY <1>5, <2>1, SMT
<1>7. \A i \in 1 .. m : rfStack'[i] = rfStack[i]
  BY <1>5
<1>8. QED
  BY <1>1, <1>6, <1>7, Zenon DEF m

\* Every step keeps the invariant.
LEMMA StepPreserves ==
  ASSUME RfInv, [RfNext]_rfVars
  PROVE  RfInv'
<1> USE DEF RfInv, RfSound
<1>1. ASSUME PopFrame
      PROVE  RfInv'
  <2> DEFINE n == Len(rfStack)
  <2>1. /\ n \in Nat \ {0} /\ Top \in Usable
        /\ rfStack' \in Seq(Usable) /\ Len(rfStack') = n - 1
        /\ \A i \in 1 .. n - 1 : rfStack'[i] = rfStack[i]
    BY <1>1, StackPopped, Zenon DEF PopFrame, RfTypes
  <2>2. RfTypes'
    <3>1. {Top} \in SUBSET Usable
      BY <2>1
    <3>2. QED
      BY <1>1, <2>1, <3>1, HandOutTypes, Zenon DEF PopFrame, RfTypes
  <2>3. RfOneOwner'
    <3>1. CASE Top \in rfBitmap
      <4>1. {Top} \in SUBSET rfBitmap /\ rfTwice' = rfTwice /\ rfStale' = rfStale
        BY <1>1, <3>1, Zenon DEF PopFrame
      <4>2. QED
        BY <1>1, <4>1, HandOutKeeps, Zenon DEF PopFrame, RfOneOwner
    <3>2. CASE Top \notin rfBitmap
      <4>1. rfTwice' = rfTwice \cup {Top} /\ rfStale' = rfStale /\ rfBitmap' = rfBitmap
        BY <1>1, <3>2, Zenon DEF PopFrame, HandOut
      <4>2. Top \in rfStale
        BY <2>1, <3>2 DEF RfStackFree, Top
      <4>3. \A f \in PhysFrame \ {Top} : rfHeld'[f] = rfHeld[f]
        BY <1>1 DEF PopFrame, HandOut, RfTypes
      <4>4. \A f \in PhysFrame \ rfTwice' :
              rfHeld'[f] = IF f \in Usable \ rfBitmap' THEN 1 ELSE 0
        BY <4>1, <4>3, Zenon DEF RfOneOwner
      <4>5. QED
        BY <4>1, <4>2, <4>4, Zenon DEF RfOneOwner
    <3>3. QED
      BY <3>1, <3>2
  <2>4. RfStackFree'
    <3>1. ASSUME NEW i \in 1 .. n - 1, rfStack[i] \notin rfStale
          PROVE  rfStack[i] \in rfBitmap'
      BY <1>1, <2>1, <3>1 DEF RfStackFree, PopFrame, HandOut, Top
    <3>2. rfStale' = rfStale
      BY <1>1 DEF PopFrame
    <3>3. 1 .. n - 1 \subseteq 1 .. n
      BY <2>1
    <3>4. QED
      BY <2>1, <3>1, <3>2, <3>3, Zenon DEF RfStackFree
  <2>5. QED
    BY <2>2, <2>3, <2>4, Zenon
<1>2. ASSUME ScanFrame
      PROVE  RfInv'
  <2>1. PICK f \in rfBitmap : HandOut({f})
    BY <1>2, Zenon DEF ScanFrame
  <2>2. {f} \in SUBSET rfBitmap /\ {f} \in SUBSET Usable
    BY DEF RfTypes
  <2>3. rfStack' = <<>> /\ rfStack' \in Seq(Usable) /\ rfTwice' = rfTwice /\ rfStale' = rfStale
    BY <1>2 DEF ScanFrame
  <2>4. RfTypes'
    BY <2>1, <2>2, <2>3, HandOutTypes, Zenon DEF RfTypes
  <2>5. RfOneOwner'
    BY <2>1, <2>2, <2>3, HandOutKeeps, Zenon DEF RfOneOwner
  <2>6. QED
    BY <2>3, <2>4, <2>5 DEF RfStackFree
<1>3. ASSUME NEW count \in 2 .. TOTAL_FRAMES, alloc_frames(count)
      PROVE  RfInv'
  <2>1. PICK f \in Starts(count) :
          /\ HandOut(f .. f + count - 1)
          /\ rfStale' = rfStale \cup ((f .. f + count - 1) \cap OnStack)
    BY <1>3, Zenon DEF alloc_frames
  <2> DEFINE F == f .. f + count - 1
  <2>2. F \in SUBSET rfBitmap
    BY DEF Starts
  <2> HIDE DEF F
  <2>3. F \in SUBSET Usable /\ HandOut(F) /\ rfStale' = rfStale \cup (F \cap OnStack)
        /\ rfStack' = rfStack /\ rfTwice' = rfTwice
    BY <1>3, <2>1, <2>2, Zenon DEF alloc_frames, RfTypes, F
  <2>4. RfTypes'
    BY <2>3, HandOutTypes, Zenon DEF RfTypes
  <2>5. RfOneOwner'
    BY <2>2, <2>3, HandOutKeeps, Zenon DEF RfOneOwner
  <2>6. RfStackFree'
    BY <2>3 DEF RfStackFree, HandOut, OnStack
  <2>7. QED
    BY <2>4, <2>5, <2>6, Zenon
<1>4. ASSUME NEW f \in PhysFrame, free_frame(f)
      PROVE  RfInv'
  <2>1. f \in Usable /\ f \notin rfBitmap
    <3>1. CASE f \in rfTwice
      BY <1>4, <3>1 DEF free_frame, RfOneOwner, RfTypes
    <3>2. CASE f \notin rfTwice
      BY <1>4, <3>2 DEF free_frame, RfOneOwner
    <3>3. QED
      BY <3>1, <3>2
  <2>2. /\ rfBitmap' = rfBitmap \cup {f} /\ rfFreeCount' = (rfFreeCount + 1) % USIZE
        /\ rfHeld' = [rfHeld EXCEPT ![f] = rfHeld[f] - 1]
        /\ rfStale' = rfStale /\ rfTwice' = rfTwice
    BY <1>4, Zenon DEF free_frame
  <2>3. rfStack' = rfStack \/ rfStack' = Append(rfStack, f)
    BY <1>4 DEF free_frame, Pushed
  <2>4. RfTypes'
    <3>1. rfStack' \in Seq(Usable)
      BY <2>1, <2>3 DEF RfTypes
    <3>2. rfFreeCount' \in Int /\ rfHeld' \in [PhysFrame -> Int]
      BY <2>2, RustFramesAssumption DEF RfTypes
    <3>3. QED
      BY <2>1, <2>2, <3>1, <3>2, Zenon DEF RfTypes
  <2>5. RfOneOwner'
    <3>1. rfTwice = {} => rfFreeCount' = Cardinality(rfBitmap')
      <4>1. rfBitmap \in SUBSET Usable /\ rfBitmap \cup {f} \in SUBSET Usable
        BY <2>1 DEF RfTypes
      <4>2. /\ IsFiniteSet(rfBitmap) /\ Cardinality(rfBitmap) \in Nat
            /\ Cardinality(rfBitmap \cup {f}) \in Nat /\ Cardinality(rfBitmap \cup {f}) < USIZE
        BY <4>1, BitmapFinite, Zenon
      <4>3. Cardinality(rfBitmap \cup {f}) = Cardinality(rfBitmap) + 1
        BY <2>1, <4>2, FS_AddElement, Zenon
      <4>4. (Cardinality(rfBitmap) + 1) % USIZE = Cardinality(rfBitmap) + 1
        BY <4>2, <4>3, NotReduced
      <4>5. QED
        BY <2>2, <4>3, <4>4, Zenon DEF RfOneOwner
    <3>2. ASSUME NEW g \in PhysFrame \ rfTwice
          PROVE  rfHeld'[g] = IF g \in Usable \ rfBitmap' THEN 1 ELSE 0
      BY <2>1, <2>2 DEF RfTypes, RfOneOwner
    <3>3. QED
      BY <2>2, <2>4, <3>1, <3>2, Zenon DEF RfOneOwner, RfTypes
  <2>6. RfStackFree'
    <3>1. CASE rfStack' = rfStack
      BY <2>2, <3>1, Zenon DEF RfStackFree
    <3>2. CASE rfStack' = Append(rfStack, f)
      <4>1. /\ Len(rfStack) \in Nat /\ Len(rfStack') = Len(rfStack) + 1
            /\ rfStack'[Len(rfStack) + 1] = f
            /\ \A i \in 1 .. Len(rfStack) : rfStack'[i] = rfStack[i]
        BY <2>1, <3>2 DEF RfTypes
      <4>2. QED
        BY <2>1, <2>2, <4>1 DEF RfStackFree
    <3>3. QED
      BY <2>3, <3>1, <3>2, Zenon
  <2>7. QED
    BY <2>4, <2>5, <2>6, Zenon
<1>5. ASSUME UNCHANGED rfVars
      PROVE  RfInv'
  BY <1>5 DEF rfVars, RfTypes, RfOneOwner, RfStackFree
<1>6. QED
  BY <1>1, <1>2, <1>3, <1>4, <1>5, Zenon DEF RfNext, alloc_frame

(***************************************************************************)
(* The frame allocator is sound for every order of calls (alloc_frame,     *)
(* alloc_frames, free_frame) up to one thing: no frame is handed out twice *)
(* or lost and what the stack offers is free, each frame once, except for  *)
(* frames that alloc_frames took and left on the stack.                    *)
(***************************************************************************)
THEOREM FramesSound == RfSpec => []RfSound
<1>1. RfInit => RfInv
  BY InitEstablishes
<1>2. RfInv /\ [RfNext]_rfVars => RfInv'
  BY StepPreserves
<1>3. RfInv => RfSound
  BY Zenon DEF RfInv
<1>4. QED
  BY <1>1, <1>2, <1>3, PTL DEF RfSpec

=============================================================================
