------------------------------- MODULE Memory -------------------------------
(***************************************************************************)
(* Physical memory of the AArch64 kernel: the bitmap of page frames        *)
(* (pmm.c), the bump allocator of the kernel heap (heap.c) and the         *)
(* identity map (vmm.c).  Frames are numbered from the start of RAM, heap  *)
(* addresses are in units of 8 bytes from the start of the heap.           *)
(***************************************************************************)
EXTENDS Integers, Sequences, FiniteSetsExt

CONSTANTS
  FRAMES,                   \* RAM_SIZE / PAGE_SIZE: 32768
  RESERVE_END,              \* first frame given out: 18 MB behind the kernel's base
  HEAP_FRAME, HEAP_SIZE,    \* the heap's first frame (16 MB behind it), units
  FRAME_UNITS,              \* units in a frame: 512
  PAGE_COUNTS, SIZES, ALIGNS  \* sizes asked for

ASSUME MemoryAssumption ==
  /\ FRAMES \in Nat /\ RESERVE_END \in 0 .. FRAMES
  /\ HEAP_FRAME \in Nat /\ HEAP_SIZE \in Nat /\ FRAME_UNITS \in Nat \ {0}
  /\ PAGE_COUNTS \subseteq Nat /\ SIZES \subseteq Nat /\ ALIGNS \subseteq Nat \ {0}

VARIABLES
  pmm_bitmap,               \* frames whose bit is set
  pmm_free_count,
  heap_ptr, heap_used,
  frames_held,              \* ghost: frames handed out and not given back
  blocks                    \* ghost: heap blocks handed out, <<first, units>>

memVars == <<pmm_bitmap, pmm_free_count, heap_ptr, heap_used, frames_held, blocks>>

Frames == 0 .. FRAMES - 1

\* pmm_init and heap_init
MemInit ==
  /\ pmm_bitmap = 0 .. RESERVE_END - 1
  /\ pmm_free_count = FRAMES - RESERVE_END
  /\ heap_ptr = 0
  /\ heap_used = 0
  /\ frames_held = {}
  /\ blocks = {}

-----------------------------------------------------------------------------
(* Frames                                                                  *)

\* Where count free frames start
FreeRuns(count) == {f \in 0 .. FRAMES - count : f .. f + count - 1 \cap pmm_bitmap = {}}

\* Only the run's first frame is looked at.
Bug_pmm_alloc_pages(count) ==
  /\ count # 0 /\ pmm_free_count >= count
  /\ \E f \in (0 .. FRAMES - count) \ pmm_bitmap :
       /\ pmm_bitmap' = pmm_bitmap \cup (f .. f + count - 1)
       /\ frames_held' = frames_held \cup (f .. f + count - 1)
  /\ pmm_free_count' = pmm_free_count - count
  /\ UNCHANGED <<heap_ptr, heap_used, blocks>>

\* With count = 1 this is pmm_alloc_page.
pmm_alloc_pages(count) ==
  /\ count # 0 /\ pmm_free_count >= count
  /\ \E f \in FreeRuns(count) :
       /\ \A g \in FreeRuns(count) : f <= g
       /\ pmm_bitmap' = pmm_bitmap \cup (f .. f + count - 1)
       /\ frames_held' = frames_held \cup (f .. f + count - 1)
  /\ pmm_free_count' = pmm_free_count - count
  /\ UNCHANGED <<heap_ptr, heap_used, blocks>>

\* The frames that pmm_free_page changes: in RAM and in use
Freed(f, count) == (f .. f + count - 1) \cap Frames \cap pmm_bitmap

\* A frame that is free already is left alone.
pmm_free_pages(f, count) ==
  /\ pmm_bitmap' = pmm_bitmap \ Freed(f, count)
  /\ pmm_free_count' = pmm_free_count + Cardinality(Freed(f, count))
  /\ frames_held' = frames_held \ (f .. f + count - 1)
  /\ UNCHANGED <<heap_ptr, heap_used, blocks>>

-----------------------------------------------------------------------------
(* The heap                                                                *)

\* kmalloc from start; a block that does not fit leaves the pointer there.
Bump(start, size) ==
  IF size = 0 \/ start + size > HEAP_SIZE
  THEN heap_ptr' = start /\ UNCHANGED <<heap_used, blocks>>
  ELSE /\ heap_ptr' = start + size
       /\ heap_used' = heap_used + size
       /\ blocks' = blocks \cup {<<start, size>>}

kmalloc(size) ==
  /\ Bump(heap_ptr, size)
  /\ UNCHANGED <<pmm_bitmap, pmm_free_count, frames_held>>

\* The gap before an aligned block is lost, and is not counted as used.
kmalloc_aligned(size, align) ==
  /\ size # 0
  /\ Bump(((heap_ptr + align - 1) \div align) * align, size)
  /\ UNCHANGED <<pmm_bitmap, pmm_free_count, frames_held>>

\* A caller gives back frames that are held or, a second time, free ones.
MemNext ==
  \/ \E count \in PAGE_COUNTS : pmm_alloc_pages(count)
  \/ \E f \in frames_held, count \in PAGE_COUNTS :
       /\ \A g \in f .. f + count - 1 : g \in frames_held \/ g \notin pmm_bitmap
       /\ pmm_free_pages(f, count)
  \/ \E size \in SIZES : kmalloc(size) \/ \E align \in ALIGNS : kmalloc_aligned(size, align)

MemSpec == MemInit /\ [][MemNext]_memVars

-----------------------------------------------------------------------------
(* The identity map, in blocks of 2 MB: one PUD, and one PMD behind every  *)
(* entry of it.                                                            *)

\* vmm_init, in order: the GIC, the UART, virtio, then 64 blocks of RAM
IdentityBlocks == <<64, 72, 80>> \o [i \in 1 .. 64 |-> 511 + i]

PmdIndex(b) == b % 512

\* map_block: the last block mapped to an entry stays in it.
MappedBy(i) == {n \in DOMAIN IdentityBlocks : PmdIndex(IdentityBlocks[n]) = i}

Unmapped == -1

vmm_get_phys(b) ==
  IF /\ \E n \in DOMAIN IdentityBlocks : IdentityBlocks[n] \div 512 = b \div 512
     /\ MappedBy(PmdIndex(b)) # {}
  THEN IdentityBlocks[Max(MappedBy(PmdIndex(b)))]
  ELSE Unmapped

-----------------------------------------------------------------------------
(* Properties                                                              *)

\* A frame has at most one holder, frames behind the kernel are not given
\* out, and the count is that of the clear bits: a freed frame that is freed
\* again, and a run that ends at the end of RAM, included (pmm.c).
MemFrames ==
  /\ frames_held = pmm_bitmap \ (0 .. RESERVE_END - 1)
  /\ pmm_free_count = FRAMES - Cardinality(pmm_bitmap)
  /\ pmm_bitmap \subseteq Frames

\* The units of the blocks handed out
HandedOut == UNION {b[1] .. b[1] + b[2] - 1 : b \in blocks}

\* Heap blocks lie in the heap and do not overlap, and the bytes accounted
\* as used are those handed out, whatever was lost to alignment or refused
\* (kmalloc, kmalloc_aligned).
MemBlocks ==
  /\ \A b \in blocks : b[1] + b[2] <= HEAP_SIZE
  /\ \A b, c \in blocks : b # c => b[1] + b[2] <= c[1] \/ c[1] + c[2] <= b[1]
  /\ heap_used = Cardinality(HandedOut)

\* The blocks that vmm_init maps are mapped to themselves: the one PMD that
\* all entries of the PUD share has room for the devices and RAM side by
\* side (map_block, vmm_get_phys).
MemIdentity == \A i \in DOMAIN IdentityBlocks :
                 vmm_get_phys(IdentityBlocks[i]) = IdentityBlocks[i]

\* No part of memory has two users: frames and blocks are handed out once and
\* accounted for, and the kernel's addresses lead where it takes them to lead
\* (pmm.c, heap.c, vmm_init).
MemSound == MemFrames /\ MemBlocks /\ MemIdentity

\* No frame of the heap is given out as a page (pmm_init).
MemHeapReserved ==
  \A b \in blocks : \A f \in frames_held :
    ~(HEAP_FRAME + b[1] \div FRAME_UNITS <= f /\ f <= HEAP_FRAME + (b[1] + b[2] - 1) \div FRAME_UNITS)

=============================================================================
