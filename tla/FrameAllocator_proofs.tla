------------------------ MODULE FrameAllocator_proofs ------------------------
(***************************************************************************)
(* Proofs about the frame allocator, for every number of frames.  The      *)
(* lemmas that say what each operation preserves are also used by          *)
(* Process_proofs.  At the end, the allocator with allocate_contiguous().  *)
(***************************************************************************)
EXTENDS FrameContig, FiniteSetTheorems, TLAPS

\* The inductive invariant.  FrameTypeOK alone is not inductive: that
\* used_frames stays a natural number when frames are freed is because it
\* counts at least the bits that are cleared.
FrameInv ==
  /\ bitmap \subseteq Frames
  /\ next_hint \in Frames
  /\ used_frames = Cardinality(bitmap)

\* The bitmap of a machine is finite, and so is every part of it.
LEMMA FramesFinite ==
  ASSUME NEW S \in SUBSET Frames
  PROVE  IsFiniteSet(S) /\ Cardinality(S) \in Nat
<1>1. IsFiniteSet(Frames)
  BY FS_Interval, TotalFramesAssumption DEF Frames
<1>2. IsFiniteSet(S)
  BY <1>1, FS_Subset
<1>. QED
  BY <1>2, FS_CardinalityType

\* FrameInv says both FrameTypeOK and UsedFramesExact.
LEMMA FrameInvImplies == FrameInv => FrameTypeOK /\ UsedFramesExact
<1> SUFFICES ASSUME FrameInv PROVE FrameTypeOK /\ UsedFramesExact
  OBVIOUS
<1>1. Cardinality(bitmap) \in Nat
  BY FramesFinite DEF FrameInv
<1>2. bitmap \cap Frames = bitmap
  BY DEF FrameInv
<1>. QED
  BY <1>1, <1>2 DEF FrameInv, FrameTypeOK, UsedFramesExact

\* FrameAllocator::init() establishes FrameInv.
LEMMA FrameInitCorrect == FrameInit => FrameInv
BY TotalFramesAssumption DEF FrameInit, FrameInv, Frames

\* allocate() takes a frame whose bit is clear and counts it.
LEMMA AllocateCorrect ==
  ASSUME FrameInv, NEW f \in Frames, Allocate(f)
  PROVE  FrameInv' /\ f \notin bitmap /\ bitmap' = bitmap \cup {f}
<1>1. f \notin bitmap /\ bitmap' = bitmap \cup {f}
  BY DEF Allocate, FirstFree, Free
<1>2. next_hint' \in Frames
  <2>1. f + 1 \in 1 .. TotalFrames
    BY TotalFramesAssumption DEF Frames
  <2>2. (f + 1) % TotalFrames \in 0 .. TotalFrames - 1
    BY <2>1, TotalFramesAssumption
  <2>. QED
    BY <2>2 DEF Allocate, Frames
<1>3. used_frames' = Cardinality(bitmap')
  <2>1. IsFiniteSet(bitmap)
    BY FramesFinite DEF FrameInv
  <2>2. Cardinality(bitmap \cup {f}) = Cardinality(bitmap) + 1
    BY <2>1, <1>1, FS_AddElement
  <2>. QED
    BY <2>2, <1>1 DEF Allocate, FrameInv
<1>. QED
  BY <1>1, <1>2, <1>3 DEF FrameInv

\* deallocate() on a set of frames subtracts exactly the bits it clears.
LEMMA DeallocateAllCorrect ==
  ASSUME FrameInv, NEW S, DeallocateAll(S)
  PROVE  FrameInv' /\ bitmap' = bitmap \ S
<1>1. IsFiniteSet(bitmap)
  BY FramesFinite DEF FrameInv
<1>2. Cardinality(bitmap \ S) = Cardinality(bitmap) - Cardinality(bitmap \cap S)
  BY <1>1, FS_Difference
<1>3. S \cap bitmap = bitmap \cap S
  OBVIOUS
<1>. QED
  BY <1>2, <1>3 DEF DeallocateAll, FrameInv

\* mark_range_used() counts exactly the bits it sets.
LEMMA MarkRangeUsedCorrect ==
  ASSUME FrameInv, NEW start \in Frames, NEW count \in Frames,
         start + count <= TotalFrames, MarkRangeUsed(start, count)
  PROVE  FrameInv'
<1> DEFINE range == start .. start + count - 1
<1>1. range \subseteq Frames
  BY TotalFramesAssumption DEF Frames
<1>2. /\ bitmap' = bitmap \cup range
      /\ used_frames' = used_frames + Cardinality(range \ bitmap)
      /\ next_hint' = next_hint
  BY DEF MarkRangeUsed
<1> HIDE DEF range
<1>3. IsFiniteSet(bitmap) /\ IsFiniteSet(range \ bitmap)
  <2>1. range \ bitmap \in SUBSET Frames
    BY <1>1
  <2>. QED
    BY <2>1, FramesFinite DEF FrameInv
<1>4. /\ Cardinality(bitmap) \in Nat
      /\ Cardinality(range \ bitmap) \in Nat
  BY <1>3, FS_CardinalityType
<1>5. Cardinality(bitmap \cup (range \ bitmap)) =
        Cardinality(bitmap) + Cardinality(range \ bitmap)
        - Cardinality(bitmap \cap (range \ bitmap))
  BY <1>3, FS_Union
<1>6. bitmap \cup (range \ bitmap) = bitmap \cup range
  OBVIOUS
<1>7. Cardinality(bitmap \cap (range \ bitmap)) = 0
  <2>1. bitmap \cap (range \ bitmap) = {}
    OBVIOUS
  <2>. QED
    BY <2>1, FS_EmptySet
<1>8. used_frames' = Cardinality(bitmap')
  <2>1. Cardinality(bitmap \cup range) = Cardinality(bitmap) + Cardinality(range \ bitmap)
    BY <1>4, <1>5, <1>6, <1>7
  <2>2. Cardinality(bitmap') = Cardinality(bitmap \cup range)
    BY <1>2
  <2>. QED
    BY <1>2, <2>1, <2>2 DEF FrameInv
<1>. QED
  BY <1>1, <1>2, <1>8 DEF FrameInv

\* No operation of the allocator breaks FrameInv.
LEMMA FrameStep == FrameInv /\ [FrameNext]_frameVars => FrameInv'
<1> SUFFICES ASSUME FrameInv, [FrameNext]_frameVars PROVE FrameInv'
  OBVIOUS
<1>1. CASE \E f \in Frames : Allocate(f)
  BY <1>1, AllocateCorrect
<1>2. CASE \E S \in SUBSET Frames : DeallocateAll(S)
  BY <1>2, DeallocateAllCorrect
<1>3. CASE \E start, count \in Frames :
             start + count <= TotalFrames /\ MarkRangeUsed(start, count)
  BY <1>3, MarkRangeUsedCorrect
<1>4. CASE UNCHANGED frameVars
  BY <1>4 DEF FrameInv, frameVars
<1>. QED
  BY <1>1, <1>2, <1>3, <1>4 DEF FrameNext

-----------------------------------------------------------------------------

\* Only bits of existing frames are ever set, the hint never leaves the
\* bitmap and used_frames never goes below zero, for every number of frames.
THEOREM FrameTypeCorrect == FrameSpec => []FrameTypeOK
<1>1. FrameSpec => []FrameInv
  BY FrameInitCorrect, FrameStep, PTL DEF FrameSpec
<1>. QED
  BY <1>1, FrameInvImplies, PTL

\* What print_info() shows is the number of frames in use, for every number
\* of frames and any order of allocations, frees - also repeated ones - and
\* reservations.
THEOREM UsedFramesCorrect == FrameSpec => []UsedFramesExact
<1>1. FrameSpec => []FrameInv
  BY FrameInitCorrect, FrameStep, PTL DEF FrameSpec
<1>. QED
  BY <1>1, FrameInvImplies, PTL

-----------------------------------------------------------------------------

(***************************************************************************)
(* With allocate_contiguous() neither FrameTypeOK nor UsedFramesExact      *)
(* holds: a run across the end marks bits behind it, and counts frames     *)
(* that were in use before.  What is left of FrameInv is an inequality.    *)
(***************************************************************************)
ContigInv ==
  /\ IsFiniteSet(bitmap)
  /\ next_hint \in Frames
  /\ used_frames \in Nat
  /\ NeverUnderReports

\* Setting some more bits sets at most that many.
LEMMA AtMostTheSum ==
  ASSUME NEW S, NEW T, IsFiniteSet(S), IsFiniteSet(T)
  PROVE  /\ IsFiniteSet(S \cup T)
         /\ Cardinality(S \cup T) <= Cardinality(S) + Cardinality(T)
<1>1. IsFiniteSet(S \cup T) /\ IsFiniteSet(S \cap T)
  BY FS_Union, FS_Intersection
<1>2. Cardinality(S \cup T) = Cardinality(S) + Cardinality(T) - Cardinality(S \cap T)
  BY FS_Union
<1>3. /\ Cardinality(S) \in Nat /\ Cardinality(T) \in Nat
      /\ Cardinality(S \cap T) \in Nat
  BY <1>1, FS_CardinalityType
<1> QED BY <1>1, <1>2, <1>3

LEMMA ContigAllocate ==
  ASSUME ContigInv, NEW f \in Frames, Allocate(f)
  PROVE  ContigInv'
<1>1. /\ bitmap' = bitmap \cup {f} /\ used_frames' = used_frames + 1
      /\ next_hint' = (f + 1) % TotalFrames
  BY DEF Allocate
<1>2. next_hint' \in Frames
  <2>1. f + 1 \in Nat
    BY TotalFramesAssumption DEF Frames
  <2> QED BY <1>1, <2>1, TotalFramesAssumption DEF Frames
<1>3. IsFiniteSet({f}) /\ Cardinality({f}) = 1
  BY FS_Singleton
<1>4. /\ IsFiniteSet(bitmap')
      /\ Cardinality(bitmap') <= Cardinality(bitmap) + 1
  BY <1>1, <1>3, AtMostTheSum DEF ContigInv
<1>5. Cardinality(bitmap) \in Nat /\ Cardinality(bitmap') \in Nat
  BY <1>4, FS_CardinalityType DEF ContigInv
<1> QED BY <1>1, <1>2, <1>4, <1>5 DEF ContigInv, NeverUnderReports

\* deallocate() takes away from the count what it takes away from the bitmap,
\* also for a bit behind the end; the inequality keeps the count from
\* underflowing.
LEMMA ContigDeallocate ==
  ASSUME ContigInv, NEW S, DeallocateAll(S)
  PROVE  ContigInv'
<1>1. /\ bitmap' = bitmap \ S /\ next_hint' = next_hint
      /\ used_frames' = used_frames - Cardinality(bitmap \cap S)
  <2>1. S \cap bitmap = bitmap \cap S
    OBVIOUS
  <2> QED BY <2>1 DEF DeallocateAll
<1>2. /\ IsFiniteSet(bitmap \ S) /\ IsFiniteSet(bitmap \cap S)
      /\ Cardinality(bitmap \ S) = Cardinality(bitmap) - Cardinality(bitmap \cap S)
  BY FS_Difference, FS_Intersection DEF ContigInv
<1>3. /\ Cardinality(bitmap) \in Nat /\ Cardinality(bitmap \ S) \in Nat
      /\ Cardinality(bitmap \cap S) \in Nat
  BY <1>2, FS_CardinalityType DEF ContigInv
<1> QED BY <1>1, <1>2, <1>3 DEF ContigInv, NeverUnderReports

LEMMA ContigMarkRange ==
  ASSUME ContigInv, NEW start \in Frames, NEW count \in Frames,
         MarkRangeUsed(start, count)
  PROVE  ContigInv'
<1> DEFINE range == start .. start + count - 1
<1>1. /\ bitmap' = bitmap \cup (range \ bitmap) /\ next_hint' = next_hint
      /\ used_frames' = used_frames + Cardinality(range \ bitmap)
  BY DEF MarkRangeUsed
<1>2. start \in Int /\ start + count - 1 \in Int
  BY TotalFramesAssumption DEF Frames
<1>3. IsFiniteSet(range)
  BY <1>2, FS_Interval
<1> HIDE DEF range
<1>4. IsFiniteSet(range \ bitmap)
  BY <1>3, FS_Difference
<1>5. /\ IsFiniteSet(bitmap')
      /\ Cardinality(bitmap') <= Cardinality(bitmap) + Cardinality(range \ bitmap)
  BY <1>1, <1>4, AtMostTheSum DEF ContigInv
<1>6. /\ Cardinality(bitmap) \in Nat /\ Cardinality(bitmap') \in Nat
      /\ Cardinality(range \ bitmap) \in Nat
  BY <1>4, <1>5, FS_CardinalityType DEF ContigInv
<1> QED BY <1>1, <1>5, <1>6 DEF ContigInv, NeverUnderReports

\* Wherever the run begins and whatever of it was in use, `count` bits are
\* set at most, and `count` is what is added.
LEMMA ContigRun ==
  ASSUME ContigInv, NEW count \in Counts, AllocateContiguous(count)
  PROVE  ContigInv'
<1>1. count \in Nat \ {0} /\ TotalFrames \in Nat \ {0}
  BY CountsAssumption, TotalFramesAssumption
<1>2. PICK k \in Frames :
        /\ RunEndsAt(k, count)
        /\ bitmap' = bitmap \cup
             (ScanFrame(k - count + 1) .. ScanFrame(k - count + 1) + count - 1)
        /\ used_frames' = used_frames + count
        /\ next_hint' = (ScanFrame(k - count + 1) + count) % TotalFrames
  BY DEF AllocateContiguous
<1>3. ScanFrame(k - count + 1) \in Nat
  <2>1. k - count + 1 \in Nat /\ next_hint \in Nat
    BY <1>1, <1>2 DEF RunEndsAt, ContigInv, Frames
  <2>2. next_hint + (k - count + 1) \in Nat
    BY <2>1
  <2> QED BY <1>1, <2>2 DEF ScanFrame
<1>4. PICK first \in Nat : first = ScanFrame(k - count + 1)
  BY <1>3
<1> DEFINE run == first .. first + count - 1
<1>5. IsFiniteSet(run) /\ Cardinality(run) = count
  <2>1. PICK last \in Int : last = first + count - 1
    BY <1>1
  <2>2. ~(first > last) /\ last - first + 1 = count
    BY <1>1, <2>1
  <2>3. IsFiniteSet(first .. last) /\ Cardinality(first .. last) = last - first + 1
    BY <2>2, FS_Interval
  <2> QED BY <2>1, <2>2, <2>3
<1>6. /\ bitmap' = bitmap \cup run /\ used_frames' = used_frames + count
      /\ next_hint' = (first + count) % TotalFrames
  BY <1>2, <1>4
<1> HIDE DEF run
<1>7. next_hint' \in Frames
  <2>1. first + count \in Nat
    BY <1>1
  <2> QED BY <1>1, <1>6, <2>1 DEF Frames
<1>8. /\ IsFiniteSet(bitmap')
      /\ Cardinality(bitmap') <= Cardinality(bitmap) + count
  BY <1>5, <1>6, AtMostTheSum DEF ContigInv
<1>9. Cardinality(bitmap) \in Nat /\ Cardinality(bitmap') \in Nat
  BY <1>8, FS_CardinalityType DEF ContigInv
<1> QED BY <1>1, <1>6, <1>7, <1>8, <1>9 DEF ContigInv, NeverUnderReports

\* Even with runs that wrap around the end of memory the allocator counts at
\* least the bits that are set, so that deallocate() never takes the count
\* below zero - for every number of frames and all counts.
THEOREM NeverUnderReportsCorrect == ContigSpec => []NeverUnderReports
<1>1. FrameInit => ContigInv
  <2> SUFFICES ASSUME FrameInit PROVE ContigInv
    OBVIOUS
  <2>1. IsFiniteSet(bitmap) /\ Cardinality(bitmap) \in Nat
    BY FramesFinite DEF FrameInit
  <2> QED BY <2>1, TotalFramesAssumption
        DEF FrameInit, ContigInv, NeverUnderReports, Frames
<1>2. ContigInv /\ [ContigNext]_frameVars => ContigInv'
  <2> SUFFICES ASSUME ContigInv, [ContigNext]_frameVars PROVE ContigInv'
    OBVIOUS
  <2>1. CASE FrameNext
    BY <2>1, ContigAllocate, ContigDeallocate, ContigMarkRange DEF FrameNext
  <2>2. CASE \E count \in Counts :
               used_frames + count <= MaxUsed /\ AllocateContiguous(count)
    BY <2>2, ContigRun
  <2>3. CASE \E f \in bitmap \ Frames : DeallocateAll({f})
    BY <2>3, ContigDeallocate
  <2>4. CASE UNCHANGED frameVars
    BY <2>4 DEF ContigInv, NeverUnderReports, frameVars
  <2> QED BY <2>1, <2>2, <2>3, <2>4 DEF ContigNext
<1>3. ContigInv => NeverUnderReports
  BY DEF ContigInv
<1> QED BY <1>1, <1>2, <1>3, PTL DEF ContigSpec

=============================================================================
