--------------------------- MODULE FrameAllocator ---------------------------
(***************************************************************************)
(* The physical frame allocator of the kernel (kernel/src/memory.rs): a    *)
(* bitmap with one bit per 4 KiB frame, a count of the frames in use and   *)
(* a hint where the next search starts.  Every operation runs under the    *)
(* FRAME_ALLOCATOR spin lock and never from an interrupt handler, so each  *)
(* one is a single step.  allocate_contiguous() is in FrameContig.         *)
(***************************************************************************)
EXTENDS Integers, FiniteSets

CONSTANT TotalFrames  \* total_frames, the frames the boot map describes

ASSUME TotalFramesAssumption == TotalFrames \in Nat \ {0}

VARIABLES
  bitmap,      \* the set of frames whose bit is set
  used_frames,
  next_hint

frameVars == <<bitmap, used_frames, next_hint>>

Frames == 0 .. TotalFrames - 1

Free == Frames \ bitmap

-----------------------------------------------------------------------------

\* The frame the scan of allocate() stops at: the first one free when
\* walking next_hint, next_hint + 1, ... modulo TotalFrames.
ScanDistance(f) == (f - next_hint + TotalFrames) % TotalFrames

FirstFree(f) ==
  /\ f \in Free
  /\ \A g \in Free : ScanDistance(f) <= ScanDistance(g)

\* Variants of Allocate and DeallocateAll with a mistake in them (the README's
\* table of mutants says which run detects each).
Allocate_HintNotWrapped(f) ==
  /\ FirstFree(f)
  /\ bitmap' = bitmap \cup {f}
  /\ used_frames' = used_frames + 1
  /\ next_hint' = f + 1

DeallocateAll_NoUsedTest(S) ==
  /\ bitmap' = bitmap \ S
  /\ used_frames' = used_frames - Cardinality(S)
  /\ UNCHANGED next_hint

DeallocateAll_NotCounted(S) ==
  /\ bitmap' = bitmap \ S
  /\ UNCHANGED <<used_frames, next_hint>>

\* allocate() returning Some(f).  It returns None, changing nothing, exactly
\* when Free = {}.
Allocate(f) ==
  /\ FirstFree(f)
  /\ bitmap' = bitmap \cup {f}
  /\ used_frames' = used_frames + 1
  /\ next_hint' = (f + 1) % TotalFrames

\* deallocate() called on every frame of S: a frame whose bit is clear is
\* left alone.
DeallocateAll(S) ==
  /\ bitmap' = bitmap \ S
  /\ used_frames' = used_frames - Cardinality(S \cap bitmap)
  /\ UNCHANGED next_hint

\* mark_range_used(), the reservation of the kernel heap.
MarkRangeUsed(start, count) ==
  LET range == start .. start + count - 1 IN
  /\ bitmap' = bitmap \cup range
  /\ used_frames' = used_frames + Cardinality(range \ bitmap)
  /\ UNCHANGED next_hint

-----------------------------------------------------------------------------

\* FrameAllocator::init(): whatever frames the boot map and the ISA hole
\* reserve, counted once.
FrameInit ==
  /\ bitmap \in SUBSET Frames
  /\ used_frames = Cardinality(bitmap)
  /\ next_hint = 0

\* Callers free what they were given, and may free it twice.
FrameNext ==
  \/ \E f \in Frames : Allocate(f)
  \/ \E S \in SUBSET Frames : DeallocateAll(S)
  \/ \E start, count \in Frames :
       start + count <= TotalFrames /\ MarkRangeUsed(start, count)

FrameSpec == FrameInit /\ [][FrameNext]_frameVars

-----------------------------------------------------------------------------

\* Type of the allocator's state: only bits of existing frames are ever set
\* (memory.rs indexes the bitmap without a bounds check of its own).
FrameTypeOK ==
  /\ bitmap \in SUBSET Frames
  /\ used_frames \in Nat
  /\ next_hint \in Frames

\* The figure print_info() shows is the truth: used_frames is the number of
\* set bits among the existing frames, whatever is freed twice or reserved
\* over frames already in use; so `used_frames -= 1` never underflows and
\* total_frames - used_frames is the memory that can still be allocated.
UsedFramesExact == used_frames = Cardinality(bitmap \cap Frames)

=============================================================================
