----------------------------- MODULE RustFrames -----------------------------
(***************************************************************************)
(* The Rust frame allocator (memory/src/frame_alloc.rs): a bitmap in words *)
(* and a stack of free frames beside it.  alloc_frames takes frames out of *)
(* the bitmap and leaves them on the stack, where alloc_frame pops them    *)
(* without looking at the bitmap.  The client mixes both calls as it       *)
(* likes and frees frames it holds.                                        *)
(***************************************************************************)
EXTENDS Integers, Sequences, FiniteSets

CONSTANTS
  TOTAL_FRAMES, RESERVED_FRAMES,
  WORD,                       \* bits of a bitmap word: 64
  FREE_STACK_SIZE,            \* 8192
  USIZE,                      \* 2^64
  MAX_HELD                    \* bound on the holders of one frame

ASSUME RustFramesAssumption ==
  /\ TOTAL_FRAMES \in Nat \ {0} /\ RESERVED_FRAMES \in Nat
  /\ WORD \in Nat \ {0} /\ FREE_STACK_SIZE \in Nat
  /\ USIZE \in Nat /\ USIZE > TOTAL_FRAMES
  /\ MAX_HELD \in Nat

PhysFrame == 0 .. TOTAL_FRAMES - 1

VARIABLES
  rfBitmap,                   \* the frames whose bit is set: free
  rfStack, rfFreeCount,       \* free_stack[0 .. free_top - 1], free_count
  rfHeld,                     \* ghost: how often each frame is handed out
  rfStale,                    \* ghost: frames a range took from under the stack
  rfTwice                     \* ghost: frames popped while not free

rfVars == <<rfBitmap, rfStack, rfFreeCount, rfHeld, rfStale, rfTwice>>

\* Frame 0 is always reserved.
FirstFree == IF RESERVED_FRAMES > 1 THEN RESERVED_FRAMES ELSE 1

Usable == FirstFree .. TOTAL_FRAMES - 1

\* Frames that find no room on the stack are free in the bitmap only.
RfInit ==
  /\ rfBitmap = Usable
  /\ rfStack = [i \in {j \in 1 .. FREE_STACK_SIZE : FirstFree + j - 1 \in Usable}
                  |-> FirstFree + i - 1]
  /\ rfFreeCount = Cardinality(Usable)
  /\ rfHeld = [f \in PhysFrame |-> 0]
  /\ rfStale = {} /\ rfTwice = {}

\* The bits of the frames are cleared, whatever they were.  The count wraps:
\* a pop of a frame that is not free may take it below zero.
HandOut(F) ==
  /\ rfBitmap' = rfBitmap \ F
  /\ rfFreeCount' = (rfFreeCount - Cardinality(F)) % USIZE
  /\ rfHeld' = [f \in PhysFrame |-> rfHeld[f] + (IF f \in F THEN 1 ELSE 0)]

OnStack == {rfStack[i] : i \in 1 .. Len(rfStack)}

Top == rfStack[Len(rfStack)]

PopFrame ==
  /\ rfStack # <<>>
  /\ Top \in rfBitmap \/ rfHeld[Top] < MAX_HELD
  /\ rfStack' = SubSeq(rfStack, 1, Len(rfStack) - 1)
  /\ HandOut({Top})
  /\ rfTwice' = rfTwice \cup ({Top} \ rfBitmap)
  /\ UNCHANGED rfStale

ScanFrame ==
  /\ rfStack = <<>>
  /\ \E f \in rfBitmap : (\A g \in rfBitmap : f <= g) /\ HandOut({f})
  /\ UNCHANGED <<rfStack, rfStale, rfTwice>>

alloc_frame == PopFrame \/ ScanFrame

\* Only the first free frame of each word is tried as a start.
Starts(count) ==
  {f \in rfBitmap :
     /\ \A g \in rfBitmap : g \div WORD = f \div WORD => f <= g
     /\ f .. f + count - 1 \subseteq rfBitmap}

alloc_frames(count) ==
  /\ \E f \in Starts(count) :
       /\ \A g \in Starts(count) : f <= g
       /\ HandOut(f .. f + count - 1)
       /\ rfStale' = rfStale \cup ((f .. f + count - 1) \cap OnStack)
  /\ UNCHANGED <<rfStack, rfTwice>>

Pushed(stack, f) ==
  IF Len(stack) < FREE_STACK_SIZE THEN Append(stack, f) ELSE stack

\* A free that does not look at the bitmap first, called twice.
Bug_free_frame(f) ==
  /\ rfHeld[f] > 0 \/ f \in rfBitmap
  /\ rfBitmap' = rfBitmap \cup {f}
  /\ rfStack' = Pushed(rfStack, f)
  /\ rfFreeCount' = (rfFreeCount + 1) % USIZE
  /\ rfHeld' = [rfHeld EXCEPT ![f] = IF @ > 0 THEN @ - 1 ELSE 0]
  /\ UNCHANGED <<rfStale, rfTwice>>

\* Of a frame the client holds; one whose bit is set is refused.
free_frame(f) ==
  /\ rfHeld[f] > 0 /\ f \notin rfBitmap
  /\ rfBitmap' = rfBitmap \cup {f}
  /\ rfStack' = Pushed(rfStack, f)
  /\ rfFreeCount' = (rfFreeCount + 1) % USIZE
  /\ rfHeld' = [rfHeld EXCEPT ![f] = @ - 1]
  /\ UNCHANGED <<rfStale, rfTwice>>

\* free_frames is free_frame for each frame of the range in turn.
RfNext ==
  \/ alloc_frame
  \/ \E count \in 2 .. TOTAL_FRAMES : alloc_frames(count)
  \/ \E f \in PhysFrame : free_frame(f)

RfSpec == RfInit /\ [][RfNext]_rfVars

(***************************************************************************)
(* Properties                                                              *)
(***************************************************************************)

(***************************************************************************)
(* A frame has one owner: a usable frame is either free in the bitmap or   *)
(* handed out once, a reserved one neither, unless a pop handed it out     *)
(* while it was not free, and that happens only to frames that             *)
(* alloc_frames took from under the stack.  Until it happens, free_count   *)
(* is the number of free frames, whichever of stack and bitmap they came   *)
(* from and with a stack too small to hold them all.                       *)
(***************************************************************************)
RfOneOwner ==
  /\ \A f \in PhysFrame \ rfTwice :
       rfHeld[f] = IF f \in Usable \ rfBitmap THEN 1 ELSE 0
  /\ rfTwice \subseteq rfStale
  /\ rfBitmap \subseteq Usable
  /\ rfTwice = {} => rfFreeCount = Cardinality(rfBitmap)

(***************************************************************************)
(* Except for the frames that alloc_frames took from under it, the stack   *)
(* holds free frames, each once: what alloc_frame relies on when it pops   *)
(* without looking at the bitmap.                                          *)
(***************************************************************************)
RfStackFree ==
  \A i, j \in 1 .. Len(rfStack) :
    rfStack[i] \notin rfStale =>
      rfStack[i] \in rfBitmap /\ (rfStack[i] = rfStack[j] => i = j)

(***************************************************************************)
(* The bitmap, the stack and the count agree with who holds which frame    *)
(* (alloc_frame, alloc_frames, free_frame) for every order of calls, and   *)
(* what breaks the agreement is one thing only: a frame that alloc_frames  *)
(* took and left on the stack.                                             *)
(***************************************************************************)
RfSound == RfOneOwner /\ RfStackFree
=============================================================================
