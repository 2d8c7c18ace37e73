----------------------------- MODULE FrameContig -----------------------------
(***************************************************************************)
(* The frame allocator with allocate_contiguous(), which memory.rs offers  *)
(* and no caller uses yet.  Its scan wraps around the end of memory but    *)
(* its marking does not, so a run found across the end marks frames after  *)
(* it, and used_frames drifts from the bitmap.                             *)
(***************************************************************************)
EXTENDS FrameAllocator

CONSTANTS
  Counts,   \* the counts allocate_contiguous() is called with
  MaxUsed   \* bound of the model on used_frames

ASSUME CountsAssumption == Counts \subseteq Nat \ {0} /\ MaxUsed \in Nat

\* Frame number k of the scan, and the step at which `found` reaches count:
\* the last count scanned frames were all free.
ScanFrame(k) == (next_hint + k) % TotalFrames

RunEndsAt(k, count) ==
  /\ k \in count - 1 .. TotalFrames - 1
  /\ \A j \in k - count + 1 .. k : ScanFrame(j) \in Free

AllocateContiguous(count) ==
  \E k \in Frames :
    LET first == ScanFrame(k - count + 1) IN
    /\ RunEndsAt(k, count)
    /\ \A j \in Frames : RunEndsAt(j, count) => k <= j
    /\ bitmap' = bitmap \cup (first .. first + count - 1)
    /\ used_frames' = used_frames + count
    /\ next_hint' = (first + count) % TotalFrames

ContigNext ==
  \/ FrameNext
  \/ \E count \in Counts :
       used_frames + count <= MaxUsed /\ AllocateContiguous(count)
  \/ \E f \in bitmap \ Frames : DeallocateAll({f})

ContigSpec == FrameInit /\ [][ContigNext]_frameVars

-----------------------------------------------------------------------------

\* Even when a contiguous run wraps, the allocator counts at least the bits
\* that are set: deallocate()'s `used_frames -= 1` cannot underflow, and
\* free_memory() is never an over-estimate.
NeverUnderReports == used_frames >= Cardinality(bitmap)

=============================================================================
