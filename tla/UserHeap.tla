------------------------------ MODULE UserHeap ------------------------------
(***************************************************************************)
(* BumpAlloc, the allocator of userspace/src/rt.rs: blocks are cut off a   *)
(* region one behind the other and never given back.                       *)
(***************************************************************************)
EXTENDS Integers, FiniteSets

CONSTANTS
  HeapBase,   \* USER_HEAP_BASE, 1 MiB: aligned for every layout
  HeapSize,   \* USER_HEAP_SIZE
  Layouts     \* <<size, align>> of the requests

ASSUME HeapAssumption ==
  /\ HeapBase \in Nat /\ HeapSize \in Nat
  /\ \A l \in Layouts : l[1] \in Nat /\ l[2] \in Nat \ {0} /\ HeapBase % l[2] = 0

VARIABLES
  brk,     \* ALLOC.brk
  blocks,  \* what the application holds: [at, size, align]
  refused  \* the layout of the request that got a null pointer, or <<>>

heapVars == <<brk, blocks, refused>>

\* (base + align - 1) & !(align - 1), and the same without adding align - 1.
RoundUp_Down(base, align) == base - (base % align)
RoundUp(base, align) == ((base + align - 1) \div align) * align

\* alloc().  A null pointer ends the application: alloc_error() exits.
Alloc ==
  /\ refused = <<>>
  /\ \E l \in Layouts :
       LET size == IF l[1] = 0 THEN 1 ELSE l[1]
           addr == RoundUp(brk, l[2])
       IN IF addr + size > HeapBase + HeapSize
          THEN refused' = l /\ UNCHANGED <<brk, blocks>>
          ELSE /\ brk' = addr + size
               /\ blocks' = blocks \cup {[at |-> addr, size |-> size, align |-> l[2]]}
               /\ UNCHANGED refused

\* dealloc(): the block may be in use no more, its bytes stay taken.
Dealloc ==
  /\ refused = <<>>
  /\ \E b \in blocks : blocks' = blocks \ {b}
  /\ UNCHANGED <<brk, refused>>

HeapInit == brk = HeapBase /\ blocks = {} /\ refused = <<>>
HeapNext == Alloc \/ Dealloc
HeapSpec == HeapInit /\ [][HeapNext]_heapVars

-----------------------------------------------------------------------------

\* No byte belongs to two blocks in use, each block lies in the region and
\* begins at a multiple of its alignment (the contract of GlobalAlloc).
BlocksApart ==
  /\ \A b \in blocks : /\ b.at >= HeapBase /\ b.at + b.size <= HeapBase + HeapSize
                       /\ b.at % b.align = 0
  /\ \A b, c \in blocks : b # c => b.at + b.size <= c.at \/ c.at + c.size <= b.at

=============================================================================
