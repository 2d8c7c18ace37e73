-------------------------- MODULE Userland_proofs --------------------------
(***************************************************************************)
(* Proofs about parts of Userland.  The blocks of the applications' heap   *)
(* never overlap, for every region and every set of layouts.  load_elf     *)
(* panics on no image that has all that its headers declare, and puts the  *)
(* segments of one that needs no relocation page by page into memory, for  *)
(* every page size, memory and layout of segments: where they were linked, *)
(* if they begin on pages of their own.  A binary that the daemon hands out*)
(* is built from what was asked for, whatever is answered and in whatever  *)
(* main.rs it is put.  What the todo list, the calendar and the editor     *)
(* store is what they read back, for every limit, every text they find in  *)
(* their file and everything that is typed.                                *)
(***************************************************************************)
EXTENDS ElfImage, UserHeap, TextStore, AppBuild,
        SequenceTheorems, FiniteSetTheorems, WellFoundedInduction, TLAPS

Block == [at : Nat, size : Nat \ {0}, align : Nat \ {0}]

\* The inductive invariant: BlocksApart alone does not say that the next block
\* begins behind all those that are held.
HeapInv ==
  /\ brk \in Nat /\ brk >= HeapBase
  /\ blocks \subseteq Block
  /\ \A b \in blocks : b.at + b.size <= brk
  /\ BlocksApart

\* Rounding up does not go down, and ends at a multiple of the alignment.
LEMMA RoundUpAligned ==
  ASSUME NEW base \in Nat, NEW align \in Nat \ {0}
  PROVE  /\ RoundUp(base, align) \in Nat
         /\ RoundUp(base, align) >= base
         /\ RoundUp(base, align) % align = 0
<1> DEFINE n == base + align - 1
<1> DEFINE q == n \div align
<1>1. n \in Nat /\ q \in Nat /\ n % align \in 0 .. align - 1
  OBVIOUS
<1>2. n = align * q + (n % align)
  OBVIOUS
<1>3. RoundUp(base, align) = q * align
  BY DEF RoundUp
<1>4. q * align \in Nat /\ q * align = align * q
  BY <1>1
<1>5. (q * align) % align = 0
  BY <1>1
<1>6. align * q >= base
  <2> HIDE DEF q
  <2> QED BY <1>1, <1>2, <1>4
<1> QED BY <1>3, <1>4, <1>5, <1>6

LEMMA HeapInit_Inv == ASSUME HeapInit PROVE HeapInv
BY HeapAssumption DEF HeapInit, HeapInv, BlocksApart

\* alloc(): the new block lies between the old brk and the new one.
LEMMA Alloc_Inv == ASSUME HeapInv, Alloc PROVE HeapInv'
<1>1. PICK l \in Layouts :
        LET size == IF l[1] = 0 THEN 1 ELSE l[1]
            addr == RoundUp(brk, l[2])
        IN IF addr + size > HeapBase + HeapSize
           THEN refused' = l /\ UNCHANGED <<brk, blocks>>
           ELSE /\ brk' = addr + size
                /\ blocks' = blocks \cup {[at |-> addr, size |-> size, align |-> l[2]]}
                /\ UNCHANGED refused
  BY DEF Alloc
<1> DEFINE size == IF l[1] = 0 THEN 1 ELSE l[1]
           addr == RoundUp(brk, l[2])
           new == [at |-> addr, size |-> size, align |-> l[2]]
<1>2. size \in Nat \ {0} /\ l[2] \in Nat \ {0} /\ brk \in Nat
  BY HeapAssumption DEF HeapInv
<1>3. addr \in Nat /\ addr >= brk /\ addr % l[2] = 0
  BY <1>2, RoundUpAligned
<1>4. HeapBase \in Nat /\ HeapSize \in Nat
  BY HeapAssumption
<1> HIDE DEF size, addr
<1>5. CASE addr + size > HeapBase + HeapSize
  BY <1>1, <1>5 DEF HeapInv, BlocksApart, size, addr
<1>6. CASE ~(addr + size > HeapBase + HeapSize)
  <2>1. brk' = addr + size /\ blocks' = blocks \cup {new}
    BY <1>1, <1>6 DEF size, addr
  <2>2. new \in Block /\ new.at = addr /\ new.size = size /\ new.align = l[2]
    BY <1>2, <1>3 DEF Block
  <2> HIDE DEF new
  <2>3. brk' \in Nat /\ brk' >= HeapBase /\ brk' >= brk
    BY <2>1, <1>2, <1>3, <1>4 DEF HeapInv
  <2>4. blocks' \subseteq Block
    BY <2>1, <2>2 DEF HeapInv
  <2>5. \A b \in blocks' : b.at + b.size <= brk'
    BY <2>1, <2>2, <2>3, <1>2, <1>3 DEF HeapInv, Block
  <2>6. \A b \in blocks' : /\ b.at >= HeapBase /\ b.at + b.size <= HeapBase + HeapSize
                           /\ b.at % b.align = 0
    BY <2>1, <2>2, <1>2, <1>3, <1>4, <1>6 DEF HeapInv, BlocksApart
  <2>7. \A b \in blocks : b.at + b.size <= new.at
    BY <2>2, <1>2, <1>3 DEF HeapInv, Block
  <2>8. \A b, c \in blocks' : b # c => b.at + b.size <= c.at \/ c.at + c.size <= b.at
    BY <2>1, <2>7 DEF HeapInv, BlocksApart
  <2> QED BY <2>3, <2>4, <2>5, <2>6, <2>8 DEF HeapInv, BlocksApart
<1> QED BY <1>5, <1>6

LEMMA Dealloc_Inv == ASSUME HeapInv, Dealloc PROVE HeapInv'
BY DEF Dealloc, HeapInv, BlocksApart

(***************************************************************************)
(* Blocks that an application holds at the same time have no byte in       *)
(* common, lie in the region of rt.rs and are aligned as asked for.        *)
(***************************************************************************)
THEOREM BlocksApartCorrect == HeapSpec => []BlocksApart
<1>1. HeapInit => HeapInv
  BY HeapInit_Inv
<1>2. HeapInv /\ [HeapNext]_heapVars => HeapInv'
  <2> SUFFICES ASSUME HeapInv, [HeapNext]_heapVars PROVE HeapInv'
    OBVIOUS
  <2>1. CASE Alloc
    BY <2>1, Alloc_Inv
  <2>2. CASE Dealloc
    BY <2>2, Dealloc_Inv
  <2>3. CASE UNCHANGED heapVars
    BY <2>3 DEF heapVars, HeapInv, BlocksApart
  <2> QED BY <2>1, <2>2, <2>3 DEF HeapNext
<1>3. HeapInv => BlocksApart
  BY DEF HeapInv
<1> QED BY <1>1, <1>2, <1>3, PTL DEF HeapSpec

-----------------------------------------------------------------------------

(***************************************************************************)
(* load_elf().  What it guarantees for any image; then, for an image that  *)
(* needs no relocation, where the bytes are that it has gone through.      *)
(***************************************************************************)

\* load_elf() has come to segment s and found an end for it.
Visited(s) ==
  \/ at \in {"sections", "relocs", "start", "main", "fault"}
  \/ at \in {"segment", "page"} /\ s < seg
  \/ at = "page" /\ s = seg
InUserHalf(s) == image.segments[s].vaddr + image.segments[s].memsz <= NPages * PageSize

ImageInv ==
  /\ image \in Images /\ v \in Nat /\ seg \in Nat /\ taken \in 0 .. UserFrames
  /\ pages \in [Pages -> Int]
  /\ at \in {"segment", "page"} => seg \in 1 .. Len(image.segments) /\ image.phentsize >= 56
  /\ at = "page" => seg \in Loads /\ v >= Segment.vaddr
  /\ at = "sections" => seg >= 1
  /\ at = "relocs" => /\ MoreSections /\ seg >= 1 /\ v >= 1
                     /\ Section.rela /\ Section.entsize >= 24
  /\ \A s \in Loads : Visited(s) => InUserHalf(s)
  /\ PanicsOnlyForCause

\* load_elf() is past byte i of segment s.
Reached(s, i) ==
  \/ at \in {"sections", "relocs", "start", "main"}
  \/ at \in {"segment", "page"} /\ s < seg
  \/ at = "page" /\ s = seg /\ i < v - image.segments[s].vaddr

\* A later segment has come into the page of byte i of segment s since.
Overlaid(s, i) ==
  \E t \in Loads : \E j \in BytesOf(t) :
    t > s /\ Reached(t, j) /\ Page(LoadedAt(t, j)) = Page(LoadedAt(s, i))
Cleared == IF at \in {"start", "main"} THEN image.bss[1] .. v - 1 ELSE {}

InPlace(s, i) ==
  /\ pages[Page(LoadedAt(s, i))] # Foreign
  /\ InMemory(LoadedAt(s, i)) = IF LoadedAt(s, i) \in Cleared THEN 0 ELSE Linked(s, i)
Placed ==
  \A s \in Loads : \A i \in BytesOf(s) :
    Reached(s, i) /\ ~Overlaid(s, i) => InPlace(s, i)

\* Each page has a frame of its own, one of those that were taken.
FramesApart ==
  /\ mem \in [Frames -> [Offsets -> Int]]
  /\ \A p \in Pages :
       pages[p] # Foreign => pages[p] \in KernelFrames .. KernelFrames + taken - 1
  /\ \A p, q \in Pages : pages[p] = pages[q] /\ pages[p] # Foreign => p = q

LinkedSoFar ==
  /\ FramesApart
  /\ Placed
  /\ at = "page" => (v - Segment.vaddr) % PageSize = 0
  /\ at \in {"start", "main"} => v >= image.bss[1] /\ (v = image.bss[1] \/ v <= image.bss[2])

\* What LoadedAsLinked supposes of an image.
Linkable == Aligned /\ PagesApart /\ NoRelocs

LinkInv == (NoRelocs => LinkedSoFar) /\ (Linkable => at # "fault")

LEMMA ImageTypes ==
  ASSUME ImageInv
  PROVE  /\ PageSize \in Nat \ {0} /\ NPages \in Nat /\ Top \in Nat
         /\ KernelFrames \in Nat /\ UserFrames \in Nat
         /\ NPages * PageSize \in Nat
         /\ image.len \in Nat /\ image.phoff \in Nat /\ image.phentsize \in Nat
         /\ image.shoff \in Nat /\ image.shentsize \in Nat
         /\ Len(image.segments) \in Nat /\ Len(image.sections) \in Nat
         /\ DOMAIN image.sections = 1 .. Len(image.sections)
         /\ \A s \in 1 .. Len(image.segments) :
              /\ image.segments[s].load \in BOOLEAN
              /\ image.segments[s].offset \in Nat
              /\ image.segments[s].vaddr \in Nat
              /\ image.segments[s].filesz \in Nat
              /\ image.segments[s].memsz \in Nat
              /\ InUserHalf(s) \/ image.segments[s].vaddr + image.segments[s].memsz >= Top
         /\ \A s \in 1 .. Len(image.sections) :
              /\ image.sections[s].rela \in BOOLEAN
              /\ image.sections[s].offset \in Nat
              /\ image.sections[s].entsize \in Nat
              /\ Len(image.sections[s].relocs) \in Nat
              /\ \A j \in 1 .. Len(image.sections[s].relocs) :
                   /\ image.sections[s].relocs[j].offset \in Nat
                   /\ image.sections[s].relocs[j].addend \in Nat
         /\ image.bss[1] \in Nat /\ image.bss[2] \in Nat
<1>1. /\ PageSize \in Nat \ {0} /\ NPages \in Nat /\ Top \in Nat
      /\ KernelFrames \in Nat /\ UserFrames \in Nat
  BY ImageAssumption
<1>2. NPages * PageSize \in Nat
  BY <1>1
<1>3. image \in Image
  BY ImagesAssumption DEF ImageInv
<1>4. /\ image.len \in Nat /\ image.phoff \in Nat /\ image.phentsize \in Nat
      /\ image.shoff \in Nat /\ image.shentsize \in Nat
      /\ image.segments \in Seq(ProgramHeader) /\ image.sections \in Seq(SectionHeader)
      /\ image.bss \in Nat \X Nat
  BY <1>3 DEF Image
<1>5. image.bss[1] \in Nat /\ image.bss[2] \in Nat
  BY <1>4
<1>6. /\ Len(image.segments) \in Nat
      /\ DOMAIN image.segments = 1 .. Len(image.segments)
      /\ Len(image.sections) \in Nat
      /\ DOMAIN image.sections = 1 .. Len(image.sections)
  BY <1>4
<1>7. ASSUME NEW s \in 1 .. Len(image.segments)
      PROVE  /\ image.segments[s].load \in BOOLEAN
             /\ image.segments[s].offset \in Nat
             /\ image.segments[s].vaddr \in Nat
             /\ image.segments[s].filesz \in Nat
             /\ image.segments[s].memsz \in Nat
             /\ InUserHalf(s) \/ image.segments[s].vaddr + image.segments[s].memsz >= Top
  <2>1. image.segments[s] \in ProgramHeader
    BY <1>4, <1>6
  <2>2. InUserHalf(s) \/ image.segments[s].vaddr + image.segments[s].memsz >= Top
    BY <1>6, ImagesAssumption DEF ImageInv, InUserHalf
  <2> QED BY <2>1, <2>2 DEF ProgramHeader
<1>8. ASSUME NEW s \in 1 .. Len(image.sections)
      PROVE  /\ image.sections[s].rela \in BOOLEAN
             /\ image.sections[s].offset \in Nat
             /\ image.sections[s].entsize \in Nat
             /\ Len(image.sections[s].relocs) \in Nat
             /\ \A j \in 1 .. Len(image.sections[s].relocs) :
                  /\ image.sections[s].relocs[j].offset \in Nat
                  /\ image.sections[s].relocs[j].addend \in Nat
  <2>1. image.sections[s] \in SectionHeader
    BY <1>4, <1>6
  <2>2. PICK rs \in Seq(Relocation) : rs = image.sections[s].relocs
    BY <2>1 DEF SectionHeader
  <2>3. Len(rs) \in Nat /\ \A j \in 1 .. Len(rs) : rs[j] \in Relocation
    BY <2>2
  <2>4. \A r \in Relocation : r.offset \in Nat /\ r.addend \in Nat
    BY DEF Relocation
  <2>5. \A j \in 1 .. Len(rs) : rs[j].offset \in Nat /\ rs[j].addend \in Nat
    BY <2>3, <2>4
  <2> QED BY <2>1, <2>2, <2>3, <2>5 DEF SectionHeader
<1> QED BY <1>1, <1>2, <1>4, <1>5, <1>6, <1>7, <1>8

\* An address and its page.
LEMMA Division ==
  ASSUME NEW n \in Nat \ {0}, NEW a \in Nat
  PROVE  /\ a \div n \in Nat /\ a % n \in 0 .. n - 1
         /\ a = n * (a \div n) + (a % n)
OBVIOUS

\* n * p grows by at least n from one p to the next.
LEMMA Multiples ==
  ASSUME NEW n \in Nat \ {0}, NEW p \in Nat, NEW q \in Nat, p < q
  PROVE  n * p + n <= n * q
<1>1. PICK d \in Nat : q = p + 1 + d
  <2>1. q - p - 1 \in Nat /\ q = p + 1 + (q - p - 1)
    OBVIOUS
  <2> QED BY <2>1
<1>2. n * q = n * p + n + n * d /\ n * d \in Nat /\ n * p \in Nat
  BY <1>1
<1> QED BY <1>2

LEMMA PageOfByte ==
  ASSUME NEW n \in Nat \ {0}, NEW w \in Nat, NEW a \in Nat,
         w % n = 0, w <= a, a < w + n
  PROVE  a \div n = w \div n /\ a % n = a - w
<1> DEFINE p == w \div n  q == a \div n
<1>1. /\ p \in Nat /\ q \in Nat /\ w = n * p
      /\ a % n \in 0 .. n - 1 /\ a = n * q + (a % n)
  BY Division
<1>2. n * p \in Nat /\ n * q \in Nat
  BY <1>1
<1> HIDE DEF p, q
<1>3. ~(p < q)
  <2> SUFFICES ASSUME p < q PROVE FALSE
    OBVIOUS
  <2>1. n * p + n <= n * q
    BY <1>1, Multiples
  <2> QED BY <2>1, <1>1, <1>2
<1>4. ~(q < p)
  <2> SUFFICES ASSUME q < p PROVE FALSE
    OBVIOUS
  <2>1. n * q + n <= n * p
    BY <1>1, Multiples
  <2> QED BY <2>1, <1>1, <1>2
<1>5. p = q
  BY <1>1, <1>3, <1>4
<1>6. a % n = a - w
  <2>1. a = w + (a % n) /\ a % n \in Int
    BY <1>1, <1>5
  <2> QED BY <2>1
<1> QED BY <1>5, <1>6 DEF p, q

LEMMA PageGrows ==
  ASSUME NEW n \in Nat \ {0}, NEW a \in Nat, NEW b \in Nat, a <= b
  PROVE  a \div n <= b \div n
<1> DEFINE p == a \div n  q == b \div n
<1>1. /\ p \in Nat /\ q \in Nat
      /\ a % n \in 0 .. n - 1 /\ a = n * p + (a % n)
      /\ b % n \in 0 .. n - 1 /\ b = n * q + (b % n)
  BY Division
<1>2. n * p \in Nat /\ n * q \in Nat
  BY <1>1
<1> HIDE DEF p, q
<1>3. ~(q < p)
  <2> SUFFICES ASSUME q < p PROVE FALSE
    OBVIOUS
  <2>1. n * q + n <= n * p
    BY <1>1, Multiples
  <2> QED BY <2>1, <1>1, <1>2
<1>4. p <= q
  BY <1>1, <1>3
<1> QED BY <1>4 DEF p, q

\* An address below a page boundary is in an earlier page.
LEMMA PageBefore ==
  ASSUME NEW n \in Nat \ {0}, NEW w \in Nat, NEW a \in Nat, w % n = 0, a < w
  PROVE  a \div n < w \div n
<1> DEFINE p == w \div n  q == a \div n
<1>1. /\ p \in Nat /\ q \in Nat /\ w = n * p
      /\ a % n \in 0 .. n - 1 /\ a = n * q + (a % n)
  BY Division
<1>2. n * p \in Nat /\ n * q \in Nat
  BY <1>1
<1> HIDE DEF p, q
<1>3. ~(p < q)
  <2> SUFFICES ASSUME p < q PROVE FALSE
    OBVIOUS
  <2>1. n * p + n <= n * q
    BY <1>1, Multiples
  <2> QED BY <2>1, <1>1, <1>2
<1>4. p # q
  BY <1>1, <1>2
<1>5. q < p
  BY <1>1, <1>3, <1>4
<1> QED BY <1>5 DEF p, q

LEMMA SameAddress ==
  ASSUME NEW n \in Nat \ {0}, NEW a \in Nat, NEW b \in Nat,
         a \div n = b \div n, a % n = b % n
  PROVE  a = b
BY Division

LEMMA AlignedDifference ==
  ASSUME NEW n \in Nat \ {0}, NEW a \in Nat, NEW b \in Nat, a % n = 0, b % n = 0
  PROVE  (a - b) % n = 0
<1>1. PICK p \in Int : a = n * p
  <2>1. a = n * (a \div n)
    OBVIOUS
  <2>2. a \div n \in Int
    BY Division
  <2> QED BY <2>1, <2>2
<1>2. PICK q \in Int : b = n * q
  <2>1. b = n * (b \div n)
    OBVIOUS
  <2>2. b \div n \in Int
    BY Division
  <2> QED BY <2>1, <2>2
<1>3. PICK c \in Int : c = p - q
  OBVIOUS
<1>4. a - b = n * c
  BY <1>1, <1>2, <1>3
<1>5. (n * c) % n = 0
  OBVIOUS
<1> QED BY <1>4, <1>5

\* The next page boundary.
LEMMA NextPage ==
  ASSUME NEW n \in Nat \ {0}, NEW w \in Int, w % n = 0
  PROVE  (w + n) % n = 0
<1>1. w = n * (w \div n)
  OBVIOUS
<1>2. w + n = n * ((w \div n) + 1) /\ w \div n \in Int
  BY <1>1
<1> QED BY <1>2, SMTT(60)

-----------------------------------------------------------------------------

\* A byte whose page begins within the user's half is in one of its pages.
LEMMA InPages ==
  ASSUME ImageInv, NEW a \in Nat, a < NPages * PageSize
  PROVE  a % PageSize \in Offsets /\ Page(a) \in Pages
<1> DEFINE p == a \div PageSize
<1>1. PageSize \in Nat \ {0} /\ NPages \in Nat /\ NPages * PageSize \in Nat
  BY ImageTypes
<1>2. /\ p \in Nat /\ a % PageSize \in 0 .. PageSize - 1
      /\ a = PageSize * p + (a % PageSize)
  BY <1>1, Division
<1>3. PageSize * p \in Nat /\ PageSize * NPages = NPages * PageSize
  BY <1>1, <1>2
<1> HIDE DEF p
<1>4. p < NPages
  <2> SUFFICES ASSUME ~(p < NPages) PROVE FALSE
    OBVIOUS
  <2>1. CASE p = NPages
    BY <1>1, <1>2, <1>3, <2>1
  <2>2. CASE NPages < p
    <3>1. PageSize * NPages + PageSize <= PageSize * p
      BY <1>1, <1>2, <2>2, Multiples
    <3> QED BY <1>1, <1>2, <1>3, <3>1
  <2> QED BY <1>1, <1>2, <2>1, <2>2
<1> QED BY <1>1, <1>2, <1>4 DEF p, Page, Pages, Offsets

LEMMA ByteOfSegment ==
  ASSUME ImageInv, NEW s \in Loads, InUserHalf(s), NEW i \in BytesOf(s)
  PROVE  LET a == image.segments[s].vaddr + i
         IN /\ i \in Nat /\ i < image.segments[s].memsz
            /\ a \in Nat /\ a % PageSize \in Offsets
            /\ Page(a) \in Pages /\ Page(a) \in SegmentPages(s)
<1> DEFINE h == image.segments[s]  a == h.vaddr + i  last == h.vaddr + h.memsz - 1
<1>1. PageSize \in Nat \ {0} /\ h.vaddr \in Nat /\ h.memsz \in Nat
      /\ h.vaddr + h.memsz <= NPages * PageSize /\ NPages * PageSize \in Nat
  BY ImageTypes DEF Loads, InUserHalf
<1>2. i \in Nat /\ i < h.memsz
  BY <1>1 DEF BytesOf
<1>3. /\ a \in Nat /\ last \in Nat
      /\ h.vaddr <= a /\ a <= last /\ a < NPages * PageSize
  BY <1>1, <1>2
<1> HIDE DEF h, a, last
<1>4. a % PageSize \in Offsets /\ Page(a) \in Pages
  BY <1>3, InPages
<1>5. Page(h.vaddr) <= Page(a) /\ Page(a) <= Page(last)
  BY <1>1, <1>3, PageGrows DEF Page
<1>6. Page(a) \in SegmentPages(s)
  BY <1>4, <1>5 DEF SegmentPages, ImageInv, h, last
<1> QED BY <1>2, <1>3, <1>4, <1>6 DEF h, a

\* Where load_elf() puts a byte.
LEMMA MultipleOf ==
  ASSUME NEW n \in Nat \ {0}, NEW p \in Nat
  PROVE  (n * p) % n = 0
OBVIOUS

LEMMA LoadedByte ==
  ASSUME ImageInv, NEW s \in Loads, InUserHalf(s), NEW i \in BytesOf(s)
  PROVE  LET base == PageSize * Page(image.segments[s].vaddr)
             a == LoadedAt(s, i)
         IN /\ i \in Nat /\ i < image.segments[s].memsz
            /\ base \in Nat /\ base % PageSize = 0
            /\ base <= image.segments[s].vaddr /\ image.segments[s].vaddr < base + PageSize
            /\ a = base + i /\ a \in Nat /\ a % PageSize \in Offsets /\ Page(a) \in Pages
<1>1. PICK addr \in Nat : addr = image.segments[s].vaddr
  BY ImageTypes DEF Loads
<1>2. PageSize \in Nat \ {0} /\ NPages * PageSize \in Nat /\ image.segments[s].memsz \in Nat
      /\ addr + image.segments[s].memsz <= NPages * PageSize
  BY <1>1, ImageTypes DEF Loads, InUserHalf
<1>3. i \in Nat /\ i < image.segments[s].memsz
  BY <1>2 DEF BytesOf
<1>4. PICK p \in Nat : p = Page(addr)
  BY <1>1, <1>2, Division DEF Page
<1>5. /\ PageSize * p \in Nat /\ addr % PageSize \in 0 .. PageSize - 1
      /\ addr = PageSize * p + (addr % PageSize)
  <2>1. PageSize * p \in Nat
    BY <1>2
  <2>2. /\ addr % PageSize \in 0 .. PageSize - 1
        /\ addr = PageSize * (addr \div PageSize) + (addr % PageSize)
    BY <1>2, Division
  <2> QED BY <1>4, <2>1, <2>2 DEF Page
<1>6. (PageSize * p) % PageSize = 0
  BY <1>2, <1>4, MultipleOf
<1>7. PICK base \in Nat : base = PageSize * p
  BY <1>5
<1>8. base <= addr /\ addr < base + PageSize
  BY <1>1, <1>2, <1>5, <1>7
<1>9. base + i \in Nat /\ base + i < NPages * PageSize
  BY <1>1, <1>2, <1>3, <1>7, <1>8
<1>10. (base + i) % PageSize \in Offsets /\ Page(base + i) \in Pages
  BY <1>9, InPages
<1>11. LoadedAt(s, i) = base + i
  BY <1>1, <1>4, <1>7 DEF LoadedAt
<1> QED BY <1>1, <1>3, <1>4, <1>6, <1>7, <1>8, <1>9, <1>10, <1>11

\* Two segments have no page in common.
LEMMA OneSegment ==
  ASSUME ImageInv, PagesApart,
         NEW s \in Loads, InUserHalf(s), NEW i \in BytesOf(s),
         NEW t \in Loads, InUserHalf(t), NEW j \in BytesOf(t),
         Page(image.segments[s].vaddr + i) = Page(image.segments[t].vaddr + j)
  PROVE  s = t
<1>1. /\ Page(image.segments[s].vaddr + i) \in SegmentPages(s)
      /\ Page(image.segments[t].vaddr + j) \in SegmentPages(t)
  BY ByteOfSegment
<1> QED BY <1>1 DEF PagesApart

\* From a page boundary on, loading it there is loading it where it is linked.
LEMMA AlignedByte ==
  ASSUME ImageInv, Aligned, NEW s \in Loads, NEW i
  PROVE  LoadedAt(s, i) = image.segments[s].vaddr + i
<1>1. PICK addr \in Nat : addr = image.segments[s].vaddr
  BY ImageTypes DEF Loads
<1>2. PageSize \in Nat \ {0} /\ addr % PageSize = 0
  BY <1>1, ImageTypes DEF Aligned
<1>3. PageSize * Page(addr) = addr
  BY <1>2 DEF Page
<1> QED BY <1>1, <1>3 DEF LoadedAt

LEMMA ImageInitCorrect == ImageInit => ImageInv /\ LinkInv
<1> SUFFICES ASSUME ImageInit PROVE ImageInv /\ LinkInv
  OBVIOUS
<1>1. ImageInv
  BY ImageAssumption DEF ImageInit, ImageInv, Foreign, PanicsOnlyForCause, Visited
<1>2. FramesApart
  BY DEF ImageInit, FramesApart, Foreign
<1>3. Placed
  BY DEF ImageInit, Placed, Reached
<1> QED BY <1>1, <1>2, <1>3 DEF LinkInv, LinkedSoFar, ImageInit

\* What is said of the image alone does not change.
LEMMA SameImage ==
  ASSUME ImageInv, image' = image, pages' \in [Pages -> Int]
  PROVE  /\ Loads' = Loads /\ Linkable' = Linkable /\ NoRelocs' = NoRelocs
         /\ \A s : BytesOf(s)' = BytesOf(s)
         /\ \A s, i : LoadedAt(s, i)' = LoadedAt(s, i) /\ Linked(s, i)' = Linked(s, i)
         /\ \A s : InUserHalf(s)' = InUserHalf(s)
<1>1. Loads' = Loads /\ \A s : BytesOf(s)' = BytesOf(s)
  BY DEF Loads, BytesOf
<1>2. DOMAIN pages' = DOMAIN pages
  BY DEF ImageInv
<1>3. \A s : SegmentPages(s)' = SegmentPages(s)
  BY <1>2 DEF SegmentPages
<1>4. Aligned' = Aligned
  BY <1>1 DEF Aligned
<1>5. PagesApart' = PagesApart
  BY <1>1, <1>3 DEF PagesApart
<1>6. NoRelocs' = NoRelocs
  BY DEF NoRelocs
<1>7. \A s, i : LoadedAt(s, i)' = LoadedAt(s, i) /\ Linked(s, i)' = Linked(s, i)
  BY DEF LoadedAt, Linked
<1>8. \A s : InUserHalf(s)' = InUserHalf(s)
  BY DEF InUserHalf
<1> QED BY <1>1, <1>4, <1>5, <1>6, <1>7, <1>8 DEF Linkable

-----------------------------------------------------------------------------

\* Where load_elf() gives up, with or without a panic that has its cause.
LEMMA StepFinish ==
  ASSUME ImageInv, image' = image, taken' = taken, pages' = pages, seg' = seg, v' = v,
         at' \in {"err", "panic", "kernel fault"},
         at' = "panic" => ~Complete \/ taken = UserFrames
  PROVE  ImageInv'
<1>1. Loads' = Loads /\ Complete' = Complete
  BY DEF Loads, Complete, TableInFile
<1>2. \A s : ~Visited(s)'
  BY DEF Visited
<1>3. PanicsOnlyForCause'
  BY <1>1 DEF PanicsOnlyForCause
<1> QED BY <1>1, <1>2, <1>3 DEF ImageInv

\* Entry k of a table of n lies behind the end of the file with it.
LEMMA EntryInTable ==
  ASSUME ImageInv, NEW off \in Nat, NEW n \in Nat, NEW k \in 1 .. n, NEW size \in Nat,
         NEW need \in Nat, need <= size, CutOff(off + (k - 1) * size, need)
  PROVE  \A needs : ~TableInFile(off, n, size, needs)
<1>1. image.len \in Nat
  BY ImageTypes
<1>2. PICK d \in Nat : n = k + d
  <2>1. n - k \in Nat /\ n = k + (n - k)
    OBVIOUS
  <2> QED BY <2>1
<1>3. n * size = (k - 1) * size + size + d * size
  BY <1>2
<1>4. (k - 1) * size \in Nat /\ d * size \in Nat
  BY <1>2
<1>5. n * size \in Nat /\ off + n * size > image.len
  BY <1>1, <1>3, <1>4 DEF CutOff
<1> QED BY <1>1, <1>5 DEF TableInFile

LEMMA StepHeader == ASSUME ImageInv, CheckHeader PROVE ImageInv'
<1>1. CASE \/ image.len < 64 \/ image.header = "bad"
           \/ image.phentsize < 56 \/ image.segments = <<>>
  BY <1>1, StepFinish DEF CheckHeader, Finish
<1>2. CASE ~(\/ image.len < 64 \/ image.header = "bad"
             \/ image.phentsize < 56 \/ image.segments = <<>>)
  <2>1. at' = "segment" /\ seg' = 1 /\ UNCHANGED <<image, v, pages, mem, taken>>
    BY <1>2 DEF CheckHeader
  <2>2. image.phentsize >= 56
    <3>1. image.phentsize \in Nat
      BY ImageTypes
    <3> QED BY <1>2, <3>1
  <2>3. Len(image.segments) >= 1
    <3>1. image.segments \in Seq(ProgramHeader)
      BY ImagesAssumption DEF ImageInv, Image
    <3> QED BY <1>2, <3>1
  <2>4. \A s \in Loads' : ~Visited(s)'
    BY <2>1, <2>3 DEF Visited, Loads
  <2>5. Len(image.segments) \in Nat
    BY ImageTypes
  <2>6. seg' \in 1 .. Len(image'.segments) /\ image'.phentsize >= 56
    BY <2>1, <2>2, <2>3, <2>5
  <2>7. \A s \in Loads' : Visited(s)' => InUserHalf(s)'
    BY <2>4
  <2>8. PanicsOnlyForCause'
    BY <2>1 DEF PanicsOnlyForCause
  <2> QED BY <2>1, <2>6, <2>7, <2>8 DEF ImageInv
<1> QED BY <1>1, <1>2

\* On to the next segment, or behind the last one.
LEMMA StepNextSegment ==
  ASSUME ImageInv, NextSegment, seg \in 1 .. Len(image.segments), image.phentsize >= 56,
         at \in {"segment", "page"}, seg \in Loads => InUserHalf(seg),
         UNCHANGED <<image, pages, mem, taken>>, v' = v
  PROVE  ImageInv'
<1>1. Len(image.segments) \in Nat
  BY ImageTypes
<1>2. \/ at' = "segment" /\ seg' = seg + 1 /\ seg < Len(image.segments)
      \/ at' = "sections" /\ seg' = 1 /\ seg = Len(image.segments)
  BY <1>1 DEF NextSegment
<1>3. Loads' = Loads /\ \A s : InUserHalf(s)' = InUserHalf(s)
  BY DEF Loads, InUserHalf
<1>4. ASSUME NEW s \in Loads, Visited(s)' PROVE InUserHalf(s)
  <2>1. s = seg \/ s < seg
    BY <1>1, <1>2, <1>4 DEF Visited, Loads
  <2>2. CASE s < seg
    BY <2>2 DEF Visited, ImageInv
  <2> QED BY <2>1, <2>2
<1>5. at' # "panic"
  BY <1>2
<1> QED BY <1>1, <1>2, <1>3, <1>4, <1>5 DEF ImageInv, PanicsOnlyForCause

LEMMA StepVisit == ASSUME ImageInv, VisitSegment PROVE ImageInv'
<1> DEFINE ph == image.phoff + (seg - 1) * image.phentsize
<1>1. /\ at = "segment" /\ seg \in 1 .. Len(image.segments) /\ image.phentsize >= 56
      /\ Segment.vaddr \in Nat /\ Segment.memsz \in Nat /\ Segment.load \in BOOLEAN
      /\ image.phoff \in Nat /\ image.phentsize \in Nat /\ Len(image.segments) \in Nat
      /\ Top \in Nat
  BY ImageTypes DEF VisitSegment, ImageInv, Segment
<1>2. CutOff(ph, 4) => CutOff(ph, 48)
  <2>1. PICK pos \in Nat : pos = ph
    <3>1. (seg - 1) * image.phentsize \in Nat
      BY <1>1
    <3> QED BY <1>1, <3>1
  <2>2. image.len \in Nat
    BY ImageTypes
  <2> QED BY <2>1, <2>2 DEF CutOff
<1>3. CASE SegmentRead = "err"
  BY <1>3, StepFinish DEF VisitSegment, Finish
<1>4. CASE SegmentRead = "panic"
  <2>1. CutOff(ph, 48) \/ (Segment.load /\ Segment.vaddr + Segment.memsz >= Top)
    BY <1>2, <1>4 DEF SegmentRead
  <2>2. CASE CutOff(ph, 48)
    <3>1. ~TableInFile(image.phoff, Len(image.segments), image.phentsize, 56)
      <4>1. 48 <= image.phentsize /\ 48 \in Nat
        BY <1>1
      <4> QED BY <1>1, <2>2, <4>1, EntryInTable
    <3> QED BY <1>4, <3>1, StepFinish DEF VisitSegment, Finish, Complete
  <2>3. CASE Segment.load /\ Segment.vaddr + Segment.memsz >= Top
    <3>1. seg \in Loads /\ ~(Segment.vaddr + Segment.memsz < Top)
      BY <1>1, <2>3 DEF Loads, Segment
    <3> QED BY <1>4, <3>1, StepFinish DEF VisitSegment, Finish, Complete, Segment
  <2> QED BY <2>1, <2>2, <2>3
<1>5. seg \in Loads /\ SegmentRead \in {"skip", "page"} => InUserHalf(seg)
  <2>1. seg \in Loads => Segment.load
    BY DEF Loads, Segment
  <2>2. Segment.load /\ SegmentRead \in {"skip", "page"} => ~(Segment.vaddr + Segment.memsz >= Top)
    BY DEF SegmentRead
  <2>3. InUserHalf(seg) \/ Segment.vaddr + Segment.memsz >= Top
    BY <1>1, ImageTypes DEF Segment
  <2> QED BY <2>1, <2>2, <2>3
<1>6. CASE SegmentRead = "skip"
  BY <1>1, <1>5, <1>6, StepNextSegment DEF VisitSegment
<1>7. CASE SegmentRead = "page"
  <2>1. /\ at' = "page" /\ v' = Segment.vaddr /\ seg' = seg
        /\ UNCHANGED <<image, pages, mem, taken>>
    BY <1>7 DEF VisitSegment
  <2>2. seg \in Loads
    BY <1>1, <1>7 DEF Loads, Segment, SegmentRead
  <2>3. /\ Loads' = Loads /\ Segment' = Segment /\ \A s : InUserHalf(s)' = InUserHalf(s)
    BY <2>1 DEF Loads, Segment, InUserHalf
  <2>4. ASSUME NEW s \in Loads, Visited(s)' PROVE InUserHalf(s)
    <3>1. s = seg \/ s < seg
      BY <2>1, <2>4 DEF Visited
    <3>2. CASE s < seg
      BY <1>1, <3>2 DEF Visited, ImageInv
    <3> QED BY <1>5, <1>7, <3>1, <3>2
  <2> QED BY <1>1, <2>1, <2>2, <2>3, <2>4 DEF ImageInv, PanicsOnlyForCause
<1> QED BY <1>3, <1>4, <1>6, <1>7 DEF VisitSegment

\* A slice behind the end of the file is one of a segment that ends there.
LEMMA StepLoadPage == ASSUME ImageInv, LoadPage PROVE ImageInv'
<1> DEFINE page_off == v - Segment.vaddr
           chunk == Chunk(page_off)
           pos == Segment.offset + page_off
           cause == taken = UserFrames \/ (chunk > 0 /\ CutOff(pos, chunk))
<1>1. /\ at = "page" /\ seg \in Loads /\ v >= Segment.vaddr /\ v \in Nat
      /\ seg \in 1 .. Len(image.segments)
  BY DEF LoadPage, ImageInv
<1>2. /\ PageSize \in Nat \ {0} /\ image.len \in Nat /\ KernelFrames \in Nat
      /\ UserFrames \in Nat /\ taken \in 0 .. UserFrames
      /\ Segment.vaddr \in Nat /\ Segment.offset \in Nat /\ Segment.filesz \in Nat
  BY <1>1, ImageTypes DEF ImageInv, Segment
<1>3. CASE cause
  <2>1. at' = "panic" /\ UNCHANGED <<image, seg, v, pages, mem, taken>>
    BY <1>3 DEF LoadPage, Finish
  <2>2. CASE taken = UserFrames
    BY <2>1, <2>2, StepFinish
  <2>3. CASE chunk > 0 /\ CutOff(pos, chunk)
    <3>0. page_off \in Nat
      BY <1>1, <1>2
    <3>. HIDE DEF page_off
    <3>1. page_off \in Nat /\ page_off % PageSize \in 0 .. PageSize - 1
      <4>1. PageSize \in Nat \ {0}
        BY <1>2
      <4>2. page_off % PageSize \in 0 .. PageSize - 1
        BY ONLY <3>0, <4>1
      <4> QED BY <3>0, <4>2
    <3>2. chunk <= Segment.filesz - page_off
      BY <1>2, <2>3, <3>1 DEF Chunk, Min2, Max2
    <3>3. chunk \in Int
      BY <1>2, <3>1 DEF Chunk, Min2, Max2
    <3>. HIDE DEF chunk
    <3>4. ~(Segment.offset + Segment.filesz <= image.len)
      <4>1. Segment.offset + page_off + chunk > image.len
        BY <2>3 DEF CutOff
      <4>2. Segment.offset \in Int /\ Segment.filesz \in Int /\ image.len \in Int
            /\ page_off \in Int
        BY <1>2, <3>1
      <4> QED BY <4>1, <4>2, <3>2, <3>3
    <3>5. ~Complete
      BY <1>1, <3>4 DEF Complete, Segment
    <3> QED BY <2>1, <3>5, StepFinish
  <2> QED BY <1>3, <2>2, <2>3
<1>4. CASE ~cause
  <2>1. /\ pages' = [pages EXCEPT ![Page(v)] = KernelFrames + taken]
        /\ taken' = taken + 1 /\ v' = v + PageSize /\ UNCHANGED <<image, at, seg>>
    BY <1>4 DEF LoadPage
  <2>2. pages' \in [Pages -> Int]
    <3>1. PICK frame \in Int : frame = KernelFrames + taken
      BY <1>2
    <3>2. pages \in [Pages -> Int] /\ pages' = [pages EXCEPT ![Page(v)] = frame]
      BY <2>1, <3>1 DEF ImageInv
    <3> QED BY <3>2
  <2>3. v' \in Nat /\ v' >= Segment.vaddr /\ taken' \in 0 .. UserFrames
    BY <1>1, <1>2, <1>4, <2>1
  <2>4. /\ Loads' = Loads /\ Segment' = Segment
        /\ \A s : InUserHalf(s)' = InUserHalf(s) /\ Visited(s)' = Visited(s)
    BY <2>1 DEF Loads, Segment, InUserHalf, Visited
  <2> QED BY <1>1, <2>1, <2>2, <2>3, <2>4 DEF ImageInv, PanicsOnlyForCause
<1> QED BY <1>3, <1>4

LEMMA StepEndOfSegment == ASSUME ImageInv, EndOfSegment PROVE ImageInv'
<1>1. seg \in 1 .. Len(image.segments) /\ at = "page" /\ (seg \in Loads => InUserHalf(seg))
      /\ image.phentsize >= 56
  BY DEF EndOfSegment, ImageInv, Visited
<1> QED BY <1>1, StepNextSegment DEF EndOfSegment

\* Behind the segments: all of them have been visited, and stay so.
LEMMA StaysBehind ==
  ASSUME ImageInv, UNCHANGED <<image, pages, taken>>, seg' \in Nat, v' \in Nat,
         at \in {"sections", "relocs", "start", "main"},
         at' \in {"sections", "relocs", "start", "main", "fault"},
         at' = "sections" => seg' >= 1,
         at' = "relocs" => /\ MoreSections' /\ seg' >= 1 /\ v' >= 1
                           /\ Section'.rela /\ Section'.entsize >= 24
  PROVE  ImageInv'
<1>1. Loads' = Loads /\ \A s : InUserHalf(s)' = InUserHalf(s) /\ Visited(s)
  BY DEF Loads, InUserHalf, Visited
<1> QED BY <1>1 DEF ImageInv, PanicsOnlyForCause

LEMMA StepVisitSection == ASSUME ImageInv, VisitSection PROVE ImageInv'
<1> DEFINE sh == image.shoff + (seg - 1) * image.shentsize
<1>1. /\ at = "sections" /\ seg \in Nat /\ seg >= 1 /\ MoreSections /\ v \in Nat
      /\ UNCHANGED <<image, pages, mem, taken>>
  BY DEF VisitSection, ImageInv
<1>2. /\ image.shoff \in Nat /\ image.shentsize \in Nat /\ Len(image.sections) \in Nat
      /\ seg \in 1 .. Len(image.sections) /\ image.shoff # 0 /\ image.len \in Nat
  BY <1>1, ImageTypes DEF MoreSections, Section
<1>3. CASE SectionRead = "err"
  BY <1>1, <1>3, StepFinish DEF VisitSection
<1>4. CASE SectionRead = "panic"
  <2>1. CutOff(sh, 64)
    <3>1. PICK pos \in Nat : pos = sh
      <4>1. (seg - 1) * image.shentsize \in Nat
        BY <1>2
      <4> QED BY <1>2, <4>1
    <3>2. CutOff(sh, 8) \/ CutOff(sh, 64)
      BY <1>4 DEF SectionRead
    <3> QED BY <1>2, <3>1, <3>2, SMTT(60) DEF CutOff
  <2>2. ~TableInFile(image.shoff, Len(image.sections), image.shentsize, 64)
    <3>1. CASE 64 <= image.shentsize
      BY <1>2, <2>1, <3>1, EntryInTable
    <3>2. CASE ~(64 <= image.shentsize)
      BY <1>2, <3>2 DEF TableInFile
    <3> QED BY <3>1, <3>2
  <2>3. ~Complete
    BY <1>2, <2>2 DEF Complete
  <2> QED BY <1>1, <1>4, <2>3, StepFinish DEF VisitSection
<1>5. CASE SectionRead = "skip"
  BY <1>1, <1>5, StaysBehind DEF VisitSection, NextSection
<1>6. CASE SectionRead = "relocs"
  <2>1. at' = "relocs" /\ v' = 1 /\ seg' = seg
    BY <1>6 DEF VisitSection
  <2>2. Section.rela /\ Section.entsize >= 24
    <3>1. Section.entsize \in Nat
      BY <1>2, ImageTypes DEF Section
    <3>2. Section.rela /\ ~(Section.entsize < 24)
      BY <1>6 DEF SectionRead
    <3> QED BY <3>1, <3>2
  <2>3. MoreSections' /\ Section' = Section
    BY <1>1, <2>1 DEF MoreSections, Section
  <2> QED BY <1>1, <2>1, <2>2, <2>3, StaysBehind
<1> QED BY <1>3, <1>4, <1>5, <1>6 DEF VisitSection

LEMMA StepRelocate == ASSUME ImageInv, Relocate PROVE ImageInv'
<1> DEFINE re == Section.offset + (v - 1) * Section.entsize
           r == Section.relocs[v]
<1>1. /\ at = "relocs" /\ seg \in Nat /\ seg >= 1 /\ v \in Nat /\ v >= 1
      /\ v <= Len(Section.relocs) /\ MoreSections
      /\ Section.rela /\ Section.entsize >= 24
  BY DEF Relocate, ImageInv
<1>2. /\ seg \in 1 .. Len(image.sections) /\ image.shoff # 0
      /\ Section.offset \in Nat /\ Section.entsize \in Nat /\ Len(Section.relocs) \in Nat
      /\ seg \in DOMAIN image.sections
  <2>1. Len(image.sections) \in Nat /\ DOMAIN image.sections = 1 .. Len(image.sections)
    BY ImageTypes
  <2>2. seg \in 1 .. Len(image.sections) /\ image.shoff # 0
    BY <1>1, <2>1 DEF MoreSections
  <2>3. /\ image.sections[seg].offset \in Nat /\ image.sections[seg].entsize \in Nat
        /\ Len(image.sections[seg].relocs) \in Nat
    BY <2>2, ImageTypes
  <2> QED BY <2>1, <2>2, <2>3 DEF Section
<1>3. CASE CutOff(re, 24)
  <2>1. ~TableInFile(Section.offset, Len(Section.relocs), Section.entsize, 0)
    <3>1. 24 <= Section.entsize /\ 24 \in Nat /\ v \in 1 .. Len(Section.relocs)
      BY <1>1, <1>2
    <3> QED BY <1>2, <1>3, <3>1, EntryInTable
  <2>2. ~Complete
    BY <1>1, <1>2, <2>1 DEF Complete, Section
  <2> QED BY <1>3, <2>2, StepFinish DEF Relocate, Finish
<1>4. CASE ~CutOff(re, 24) /\ r.type # "RELATIVE"
  BY <1>4, StepFinish DEF Relocate, Finish
<1>5. CASE ~CutOff(re, 24) /\ ~(r.type # "RELATIVE") /\ Page(r.offset) \notin Frames
  BY <1>5, StepFinish DEF Relocate, Finish
<1>6. CASE ~CutOff(re, 24) /\ ~(r.type # "RELATIVE") /\ ~(Page(r.offset) \notin Frames)
  <2>1. v' = v + 1 /\ UNCHANGED <<image, at, seg, pages, taken>>
    BY <1>6 DEF Relocate
  <2>2. MoreSections' = MoreSections /\ Section' = Section
    BY <2>1 DEF MoreSections, Section
  <2> QED BY <1>1, <2>1, <2>2, StaysBehind
<1> QED BY <1>3, <1>4, <1>5, <1>6

LEMMA StepEndOfRelocs == ASSUME ImageInv, EndOfRelocs PROVE ImageInv'
<1>1. /\ at = "relocs" /\ at' = "sections" /\ seg' = seg + 1 /\ seg \in Nat /\ v' = v
      /\ v \in Nat /\ UNCHANGED <<image, pages, taken>>
  BY DEF EndOfRelocs, NextSection, ImageInv
<1> QED BY <1>1, StaysBehind

LEMMA StepLoaded == ASSUME ImageInv, Loaded PROVE ImageInv'
<1>1. image.bss[1] \in Nat
  BY ImageTypes
<1>2. CASE image.entry = 0
  BY <1>2, StepFinish DEF Loaded, Finish
<1>3. CASE image.entry # 0
  BY <1>1, <1>3, StaysBehind DEF Loaded, ImageInv
<1> QED BY <1>2, <1>3

LEMMA StepClearBss == ASSUME ImageInv, ClearBss PROVE ImageInv'
<1>1. at = "start" /\ v \in Nat /\ seg \in Nat
  BY DEF ClearBss, ImageInv
<1>2. /\ at' \in {"start", "main", "fault"} /\ v' \in {v, v + 1}
      /\ UNCHANGED <<image, seg, pages, taken>>
  BY <1>1 DEF ClearBss, Finish
<1>3. v' \in Nat
  BY <1>1, <1>2
<1> QED BY <1>1, <1>2, <1>3, StaysBehind

LEMMA ImageStep == ImageInv /\ [ImageNext]_imageVars => ImageInv'
<1> SUFFICES ASSUME ImageInv, [ImageNext]_imageVars PROVE ImageInv'
  OBVIOUS
<1>1. CASE UNCHANGED imageVars
  <2>1. /\ Loads' = Loads /\ Segment' = Segment /\ Section' = Section
        /\ MoreSections' = MoreSections /\ Complete' = Complete
        /\ \A s : InUserHalf(s)' = InUserHalf(s) /\ Visited(s)' = Visited(s)
    BY <1>1 DEF imageVars, Loads, Segment, Section, MoreSections, Complete, TableInFile,
                InUserHalf, Visited
  <2> QED BY <1>1, <2>1 DEF imageVars, ImageInv, PanicsOnlyForCause
<1> QED BY <1>1, StepHeader, StepVisit, StepLoadPage, StepEndOfSegment, StepVisitSection,
           StepRelocate, StepEndOfRelocs, StepLoaded, StepClearBss DEF ImageNext

-----------------------------------------------------------------------------

\* Where load_elf() has given up, or not begun, nothing is said of any byte.
LEMMA NothingReached ==
  ASSUME ImageInv, LinkedSoFar, UNCHANGED <<image, pages, mem, taken>>,
         at' \notin {"page", "start", "main"},
         \A s \in Loads : \A i \in BytesOf(s) : ~Reached(s, i)'
  PROVE  LinkedSoFar'
<1>1. FramesApart'
  BY DEF LinkedSoFar, FramesApart
<1>2. Loads' = Loads /\ \A s : BytesOf(s)' = BytesOf(s)
  BY SameImage DEF ImageInv
<1>3. Placed'
  BY <1>2 DEF Placed
<1> QED BY <1>1, <1>3 DEF LinkedSoFar

LEMMA GivesUp ==
  ASSUME ImageInv, LinkedSoFar, UNCHANGED <<image, pages, mem, taken>>,
         at' \in {"err", "panic", "kernel fault", "fault"}
  PROVE  LinkedSoFar'
BY NothingReached DEF Reached

\* Steps that write no memory and neither reach a byte nor leave one.
LEMMA QuietLoader ==
  ASSUME ImageInv, LinkedSoFar, UNCHANGED <<image, pages, mem, taken>>, Cleared' = Cleared,
         \A s \in Loads : \A i \in BytesOf(s) : Reached(s, i)' <=> Reached(s, i)
  PROVE  FramesApart' /\ Placed'
<1>1. FramesApart'
  BY DEF LinkedSoFar, FramesApart
<1>2. /\ Loads' = Loads /\ \A s : BytesOf(s)' = BytesOf(s)
      /\ \A s, i : LoadedAt(s, i)' = LoadedAt(s, i) /\ Linked(s, i)' = Linked(s, i)
  BY SameImage DEF ImageInv
<1>3. \A s, i : InPlace(s, i)' <=> InPlace(s, i)
  BY <1>2 DEF InPlace, InMemory, Page
<1>4. \A s \in Loads : \A i \in BytesOf(s) : Overlaid(s, i)' <=> Overlaid(s, i)
  BY <1>2 DEF Overlaid, Page
<1> QED BY <1>1, <1>2, <1>3, <1>4 DEF LinkedSoFar, Placed

LEMMA LinkHeader == ASSUME ImageInv, LinkedSoFar, CheckHeader PROVE LinkedSoFar'
<1>1. /\ UNCHANGED <<image, pages, mem, taken>>
      /\ at' = "err" \/ (at' = "segment" /\ seg' = 1)
  BY DEF CheckHeader, Finish
<1>2. \A s \in Loads : \A i \in BytesOf(s) : ~Reached(s, i)'
  BY <1>1 DEF Reached, Loads
<1> QED BY <1>1, <1>2, NothingReached

\* Behind a segment all of whose bytes are reached.
LEMMA LinkNextSegment ==
  ASSUME ImageInv, LinkedSoFar, NextSegment, at \in {"segment", "page"},
         UNCHANGED <<image, pages, mem, taken>>, v' = v,
         seg \in Loads => \A i \in BytesOf(seg) : Reached(seg, i)
  PROVE  LinkedSoFar'
<1>1. Len(image.segments) \in Nat /\ seg \in 1 .. Len(image.segments)
  BY ImageTypes DEF ImageInv
<1>2. \/ at' = "segment" /\ seg' = seg + 1
      \/ at' = "sections" /\ seg = Len(image.segments)
  BY <1>1 DEF NextSegment
<1>3. ASSUME NEW s \in Loads, NEW i \in BytesOf(s)
      PROVE  Reached(s, i)' <=> Reached(s, i)
  <2>1. s \in 1 .. Len(image.segments)
    BY DEF Loads
  <2>2. Reached(s, i)' <=> s <= seg
    BY <1>1, <1>2, <2>1 DEF Reached
  <2>3. CASE s = seg
    BY <1>1, <2>2, <2>3
  <2>4. CASE s < seg
    BY <1>1, <2>1, <2>2, <2>4 DEF Reached
  <2>5. CASE s > seg
    BY <1>1, <2>1, <2>2, <2>5 DEF Reached
  <2> QED BY <1>1, <2>1, <2>3, <2>4, <2>5
<1>4. Cleared' = Cleared
  BY <1>2 DEF Cleared
<1>5. FramesApart' /\ Placed'
  BY <1>3, <1>4, QuietLoader
<1> QED BY <1>2, <1>5 DEF LinkedSoFar

LEMMA LinkVisit == ASSUME ImageInv, LinkedSoFar, VisitSegment PROVE LinkedSoFar'
<1>1. /\ at = "segment" /\ seg \in 1 .. Len(image.segments)
      /\ UNCHANGED <<image, pages, mem, taken>>
      /\ Segment.load \in BOOLEAN /\ Segment.memsz \in Nat /\ Segment.vaddr \in Nat
  BY ImageTypes DEF VisitSegment, Finish, ImageInv, Segment
<1>2. CASE SegmentRead \in {"panic", "err"}
  BY <1>1, <1>2, GivesUp DEF VisitSegment, Finish
<1>3. CASE SegmentRead = "page"
  <2>1. at' = "page" /\ v' = Segment.vaddr /\ seg' = seg
    BY <1>3 DEF VisitSegment
  <2>2. seg \in Loads /\ Segment' = Segment /\ Cleared' = Cleared
    BY <1>1, <1>3, <2>1 DEF Loads, Segment, SegmentRead, Cleared
  <2>3. ASSUME NEW s \in Loads, NEW i \in BytesOf(s)
        PROVE  Reached(s, i)' <=> Reached(s, i)
    <3>1. i \in Nat /\ s \in Int
      BY ImageTypes DEF BytesOf, Loads
    <3>2. Reached(s, i) <=> s < seg
      BY <1>1 DEF Reached
    <3>3. v' - Segment.vaddr = 0
      BY <1>1, <2>1
    <3>4. Reached(s, i)' <=> s < seg \/ (s = seg /\ i < v' - Segment.vaddr)
      BY <1>1, <2>1 DEF Reached, Segment
    <3> QED BY <3>1, <3>2, <3>3, <3>4
  <2>4. FramesApart' /\ Placed'
    BY <1>1, <2>2, <2>3, QuietLoader
  <2>5. (v - v) % PageSize = 0
    <3>1. v \in Nat
      BY DEF ImageInv
    <3>2. v - v = 0
      BY <3>1
    <3>3. PageSize \in Nat \ {0}
      BY ImageTypes
    <3>4. 0 % PageSize = 0
      BY <3>3
    <3> QED BY <3>2, <3>4
  <2>6. (v' - Segment'.vaddr) % PageSize = 0
    <3>1. v' - Segment'.vaddr = v - v
      BY <1>1, <2>1, <2>2 DEF ImageInv
    <3> QED BY <2>5, <3>1
  <2> QED BY <2>1, <2>4, <2>6 DEF LinkedSoFar
<1>4. CASE SegmentRead = "skip"
  <2>1. NextSegment /\ v' = v
    BY <1>4 DEF VisitSegment
  <2>2. seg \in Loads => BytesOf(seg) = {}
    BY <1>1, <1>4, SMTT(60) DEF Loads, Segment, BytesOf, SegmentRead
  <2> QED BY <1>1, <2>1, <2>2, LinkNextSegment
<1> QED BY <1>2, <1>3, <1>4 DEF VisitSegment

LEMMA LinkEndOfSegment ==
  ASSUME ImageInv, LinkedSoFar, EndOfSegment
  PROVE  LinkedSoFar'
<1>1. /\ at = "page" /\ v >= Segment.vaddr + Segment.memsz /\ NextSegment
      /\ UNCHANGED <<image, v, pages, mem, taken>> /\ seg \in Loads /\ v \in Nat
  BY DEF EndOfSegment, ImageInv
<1>2. Segment.vaddr \in Nat /\ Segment.memsz \in Nat
  BY <1>1, ImageTypes DEF Segment, Loads
<1>3. \A i \in BytesOf(seg) : i \in Nat /\ i < Segment.memsz
  BY <1>2 DEF BytesOf, Segment
<1>4. \A i \in BytesOf(seg) : i < v - Segment.vaddr
  BY <1>1, <1>2, <1>3
<1>5. \A i \in BytesOf(seg) : Reached(seg, i)
  BY <1>1, <1>4 DEF Reached, Segment
<1> QED BY <1>1, <1>5, LinkNextSegment

\* An image that needs no relocation passes over its section headers.
LEMMA LinkVisitSection ==
  ASSUME ImageInv, NoRelocs, LinkedSoFar, VisitSection
  PROVE  LinkedSoFar'
<1>1. /\ at = "sections" /\ UNCHANGED <<image, pages, mem, taken>>
      /\ seg \in 1 .. Len(image.sections)
  BY ImageTypes DEF VisitSection, MoreSections, ImageInv
<1>2. ~Section.rela
  BY <1>1, ImageTypes DEF NoRelocs, Section
<1>3. SectionRead \in {"panic", "skip"}
  BY <1>2 DEF SectionRead
<1>4. CASE SectionRead = "panic"
  BY <1>1, <1>4, GivesUp DEF VisitSection
<1>5. CASE SectionRead = "skip"
  <2>1. at' = "sections"
    BY <1>5 DEF VisitSection, NextSection
  <2>2. FramesApart' /\ Placed'
    BY <1>1, <2>1, QuietLoader DEF Reached, Cleared
  <2> QED BY <2>1, <2>2 DEF LinkedSoFar
<1> QED BY <1>3, <1>4, <1>5

LEMMA NoneToRelocate == ASSUME ImageInv, NoRelocs, at = "relocs" PROVE FALSE
<1>1. seg \in DOMAIN image.sections
  BY ImageTypes, SMTT(60) DEF ImageInv, MoreSections
<1> QED BY <1>1 DEF ImageInv, NoRelocs, Section

LEMMA LinkLoaded == ASSUME ImageInv, LinkedSoFar, Loaded PROVE LinkedSoFar'
<1>1. /\ UNCHANGED <<image, pages, mem, taken>> /\ at = "sections"
      /\ at' = "err" \/ (at' = "start" /\ v' = image.bss[1])
  BY DEF Loaded, Finish
<1>2. image.bss[1] \in Nat
  BY ImageTypes
<1>3. CASE at' = "err"
  BY <1>1, <1>3, GivesUp
<1>4. CASE at' = "start" /\ v' = image.bss[1]
  <2>1. Cleared' = Cleared
    BY <1>1, <1>2, <1>4 DEF Cleared
  <2>2. FramesApart' /\ Placed'
    BY <1>1, <1>4, <2>1, QuietLoader DEF Reached
  <2> QED BY <1>1, <1>2, <1>4, <2>2 DEF LinkedSoFar
<1> QED BY <1>1, <1>3, <1>4

\* A page gets a fresh frame, with the bytes that are loaded there.
LEMMA LinkLoadPage ==
  ASSUME ImageInv, LinkedSoFar, LoadPage
  PROVE  LinkedSoFar'
<1> DEFINE page_off == v - Segment.vaddr
           chunk == Chunk(page_off)
           pos == Segment.offset + page_off
           cause == taken = UserFrames \/ (chunk > 0 /\ CutOff(pos, chunk))
           Content == [i \in Offsets |-> IF i < chunk THEN pos + i + 1 ELSE 0]
<1>1. /\ at = "page" /\ seg \in Loads /\ v >= Segment.vaddr /\ v \in Nat
      /\ v < Segment.vaddr + Segment.memsz /\ page_off % PageSize = 0
      /\ InUserHalf(seg)
  BY DEF LoadPage, ImageInv, LinkedSoFar, Visited
<1>2. /\ PageSize \in Nat \ {0} /\ KernelFrames \in Nat
      /\ UserFrames \in Nat /\ taken \in 0 .. UserFrames
      /\ Segment.vaddr \in Nat /\ Segment.offset \in Nat /\ Segment.filesz \in Nat
      /\ Segment.memsz \in Nat
  BY <1>1, ImageTypes DEF ImageInv, Segment, Loads
<1>3. CASE cause
  BY <1>3, GivesUp DEF LoadPage, Finish
<1>4. CASE ~cause
  <2>1. PICK frame \in Nat : frame = KernelFrames + taken
    BY <1>2
  <2>2. /\ pages' = [pages EXCEPT ![Page(v)] = frame]
        /\ mem' = [mem EXCEPT ![frame] = Content]
        /\ taken' = taken + 1 /\ v' = v + PageSize /\ UNCHANGED <<image, at, seg>>
    BY <1>4, <2>1 DEF LoadPage
  <2>3. frame \in Frames /\ frame # Foreign
    BY <1>2, <1>4, <2>1 DEF Frames, Foreign
  <2>4. PICK off \in Nat, start \in Nat, g \in Loads :
          /\ off = page_off /\ start = Segment.vaddr /\ g = seg
          /\ v = start + off /\ off % PageSize = 0
          /\ pos \in Nat /\ off \in BytesOf(g)
    <3>1. PICK a \in Nat, m \in Nat, o \in Nat :
            a = Segment.vaddr /\ m = Segment.memsz /\ o = Segment.offset
      BY <1>2
    <3>2. v \in Nat /\ v >= a /\ v < a + m
      BY <1>1, <3>1
    <3>3. v - a \in Nat /\ v = a + (v - a) /\ o + (v - a) \in Nat /\ v - a \in 0 .. m - 1
      BY <3>2
    <3>4. page_off = v - a /\ pos = o + (v - a) /\ v - a \in BytesOf(seg)
      BY <3>1, <3>3 DEF BytesOf, Segment
    <3> QED BY <1>1, <3>1, <3>3, <3>4
  <2> HIDE DEF page_off, cause
  <2>5. /\ PageSize * Page(Segment.vaddr) \in Nat
        /\ (PageSize * Page(Segment.vaddr)) % PageSize = 0
        /\ PageSize * Page(Segment.vaddr) <= Segment.vaddr
        /\ Segment.vaddr < PageSize * Page(Segment.vaddr) + PageSize
    BY <1>1, <2>4, LoadedByte DEF Segment
  <2>6. PICK base \in Nat : base = PageSize * Page(Segment.vaddr)
    BY <2>5
  <2>7. PICK w \in Nat : w = base + off
    BY <2>4, <2>6
  <2>8. \A i : LoadedAt(seg, i) = base + i
    BY <2>6 DEF LoadedAt, Segment
  <2>9. w % PageSize = 0
    <3>1. PICK m \in Nat : base = PageSize * m
      <4>1. Page(start) \in Nat
        BY <1>2, Division DEF Page
      <4> QED BY <2>4, <2>6, <4>1
    <3>2. PICK k \in Nat : off = PageSize * k
      <4>1. off = PageSize * (off \div PageSize) + (off % PageSize) /\ off \div PageSize \in Nat
        BY <1>2, Division
      <4>2. off = PageSize * (off \div PageSize)
        BY <1>2, <2>4, <4>1
      <4> QED BY <4>1, <4>2
    <3>3. w = PageSize * (m + k)
      BY <1>2, <2>7, <3>1, <3>2
    <3>4. m + k \in Nat
      OBVIOUS
    <3> QED BY <1>2, <3>3, <3>4, MultipleOf
  <2>10. w <= v /\ v < w + PageSize
    <3>1. base <= start /\ start < base + PageSize
      BY <2>4, <2>5, <2>6
    <3> QED BY <1>2, <2>4, <2>7, <3>1
  <2>11. Page(v) = Page(w) /\ Page(w) \in Pages
    <3>1. Page(v) = Page(w)
      BY <1>1, <1>2, <2>9, <2>10, PageOfByte DEF Page
    <3>2. LoadedAt(seg, off) = w
      BY <2>7, <2>8
    <3>3. Page(LoadedAt(seg, off)) \in Pages
      BY <1>1, <2>4, LoadedByte
    <3> QED BY <3>1, <3>2, <3>3
  <2>12. chunk \in Int /\ \A j \in Offsets : j < chunk <=> off + j < Segment.filesz
    <3>1. chunk = Min2(PageSize, Max2(Segment.filesz - off, 0))
      <4>1. PageSize - (off % PageSize) = PageSize
        BY <1>2, <2>4
      <4> QED BY <2>4, <4>1 DEF Chunk
    <3>2. CASE Segment.filesz - off <= 0
      BY <1>2, <2>4, <3>1, <3>2 DEF Min2, Max2, Offsets
    <3>3. CASE Segment.filesz - off > 0
      BY <1>2, <2>4, <3>1, <3>3 DEF Min2, Max2, Offsets
    <3> QED BY <1>2, <2>4, <3>2, <3>3
  <2> HIDE DEF chunk, pos
  <2>13. Content \in [Offsets -> Int]
    BY <2>4, <2>12 DEF Offsets
  <2>14. mem \in [Frames -> [Offsets -> Int]] /\ pages \in [Pages -> Int]
    BY DEF LinkedSoFar, FramesApart, ImageInv
  <2> HIDE DEF Content
  <2>15. /\ pages' \in [Pages -> Int] /\ pages'[Page(w)] = frame
         /\ \A p \in Pages : p # Page(w) => pages'[p] = pages[p]
    BY <2>2, <2>11, <2>14
  <2>16. /\ mem' \in [Frames -> [Offsets -> Int]] /\ mem'[frame] = Content
         /\ \A f \in Frames : f # frame => mem'[f] = mem[f]
    BY <2>2, <2>3, <2>13, <2>14
  <2>17. \A p \in Pages : pages[p] # Foreign => pages[p] \in Frames /\ pages[p] < frame
    BY <1>2, <2>1 DEF LinkedSoFar, FramesApart, Frames
  <2>18. FramesApart'
    <3>1. ASSUME NEW p \in Pages, pages'[p] # Foreign
          PROVE  pages'[p] \in KernelFrames .. KernelFrames + taken' - 1
      <4>1. CASE p = Page(w)
        BY <1>2, <2>1, <2>2, <2>15, <4>1
      <4>2. CASE p # Page(w)
        <5>1. pages[p] \in KernelFrames .. KernelFrames + taken - 1
          BY <2>15, <3>1, <4>2 DEF LinkedSoFar, FramesApart
        <5>2. pages'[p] = pages[p] /\ taken' = taken + 1
          BY <2>2, <2>15, <4>2
        <5> QED BY <1>2, <5>1, <5>2
      <4> QED BY <4>1, <4>2
    <3>2. ASSUME NEW p \in Pages, NEW q \in Pages,
                 pages'[p] = pages'[q], pages'[p] # Foreign
          PROVE  p = q
      <4>1. CASE p = Page(w) \/ q = Page(w)
        BY <2>3, <2>15, <2>17, <3>2, <4>1
      <4>2. CASE p # Page(w) /\ q # Page(w)
        BY <2>15, <3>2, <4>2 DEF LinkedSoFar, FramesApart
      <4> QED BY <4>1, <4>2
    <3> QED BY <2>16, <3>1, <3>2 DEF FramesApart
  <2>19. /\ Loads' = Loads /\ \A s : BytesOf(s)' = BytesOf(s)
         /\ \A s, i : LoadedAt(s, i)' = LoadedAt(s, i) /\ Linked(s, i)' = Linked(s, i)
    BY <2>2, <2>15, SameImage
  <2>20. Cleared' = {} /\ Cleared = {}
    BY <1>1, <2>2 DEF Cleared
  <2>21. \A t \in Loads : \A j \in BytesOf(t) : Reached(t, j) => Reached(t, j)'
    <3> SUFFICES ASSUME NEW t \in Loads, NEW j \in BytesOf(t), Reached(t, j)
                 PROVE  Reached(t, j)'
      OBVIOUS
    <3>1. j \in Int /\ image.segments[t].vaddr \in Nat
      <4>1. image.segments[t].vaddr \in Nat /\ image.segments[t].memsz \in Nat
        BY ImageTypes DEF Loads
      <4> QED BY <4>1 DEF BytesOf
    <3>2. t < seg \/ (t = seg /\ j < v - image.segments[t].vaddr)
      BY <1>1 DEF Reached
    <3>3. t < seg \/ (t = seg /\ j < (v + PageSize) - image.segments[t].vaddr)
      BY <1>1, <1>2, <3>1, <3>2
    <3> QED BY <1>1, <2>2, <3>3 DEF Reached
  <2>22. Reached(g, off)'
    <3>1. off < (v + PageSize) - start
      BY <1>2, <2>4
    <3>2. at' = "page" /\ g = seg' /\ off < v' - image'.segments[g].vaddr
      BY <1>1, <2>2, <2>4, <3>1 DEF Segment
    <3> QED BY <3>2 DEF Reached
  <2>23. ASSUME NEW s \in Loads, NEW i \in BytesOf(s), Reached(s, i)', ~Overlaid(s, i)'
         PROVE  InPlace(s, i)'
    <3>1. s < seg \/ (s = seg /\ i < (v + PageSize) - image.segments[s].vaddr)
      <4>1. at' = "page" /\ seg' = seg /\ v' = v + PageSize /\ image' = image
        BY <1>1, <2>2
      <4>2. s < seg' \/ (s = seg' /\ i < v' - image'.segments[s].vaddr)
        BY <2>23, <4>1 DEF Reached
      <4> QED BY <4>1, <4>2
    <3>2. InUserHalf(s)
      BY <1>1, <3>1 DEF ImageInv, Visited
    <3>3. PICK a \in Nat : a = LoadedAt(s, i)
      BY <3>2, LoadedByte
    <3>4. /\ i \in Nat /\ i < image.segments[s].memsz
          /\ a % PageSize \in Offsets /\ Page(a) \in Pages
      BY <3>2, <3>3, LoadedByte
    <3>5. CASE s = seg /\ i >= off
      <4>1. i < off + PageSize
        <5>1. s = seg /\ ~(s < seg)
          BY <1>1, <3>5, ImageTypes DEF ImageInv
        <5>2. i < (v + PageSize) - Segment.vaddr
          BY <3>1, <5>1 DEF Segment
        <5> QED BY <1>2, <2>4, <3>4, <5>2
      <4>2. w <= a /\ a < w + PageSize /\ a - w = i - off
        BY <1>2, <2>4, <2>7, <2>8, <3>3, <3>4, <3>5, <4>1
      <4>3. Page(a) = Page(w) /\ a % PageSize = i - off
        BY <1>2, <2>9, <4>2, PageOfByte, ZenonT(90) DEF Page
      <4>4. pages'[Page(a)] = frame
        BY <2>15, <4>3
      <4>5. PICK j \in Offsets : j = i - off
        BY <3>4, <4>3
      <4>6. mem'[frame][a % PageSize] = IF j < chunk THEN pos + j + 1 ELSE 0
        BY <2>16, <4>3, <4>5 DEF Content
      <4>7. j < chunk <=> i < Segment.filesz
        BY <2>4, <2>12, <3>4, <4>5 DEF Offsets
      <4>8. pos + j + 1 = Segment.offset + i + 1
        BY <1>2, <2>4, <3>4, <4>5 DEF pos, Offsets
      <4>9. mem'[frame][a % PageSize] = Linked(s, i)
        BY <3>5, <4>6, <4>7, <4>8 DEF Linked, Segment
      <4>10. LoadedAt(s, i)' = a
        BY <2>19, <3>3
      <4>11. InMemory(LoadedAt(s, i))' = mem'[frame][a % PageSize]
        BY <2>3, <4>4, <4>10 DEF InMemory, Page
      <4> QED BY <2>3, <2>19, <2>20, <4>4, <4>9, <4>10, <4>11 DEF InPlace, Page
    <3>6. CASE ~(s = seg /\ i >= off)
      <4>1. Reached(s, i)
        <5>1. CASE s < seg
          BY <1>1, <5>1 DEF Reached
        <5>2. CASE s = seg /\ ~(i >= off)
          BY <1>1, <2>4, <3>4, <5>2 DEF Reached, Segment
        <5> QED BY <3>1, <3>6, <5>1, <5>2
      <4>2. ~Overlaid(s, i)
        BY <2>19, <2>21, <2>23 DEF Overlaid, Page
      <4>3. InPlace(s, i)
        BY <4>1, <4>2 DEF LinkedSoFar, Placed
      <4>4. Page(a) # Page(w)
        <5>1. CASE s = seg
          <6>1. a < w
            BY <2>4, <2>7, <2>8, <3>3, <3>4, <3>6, <5>1
          <6>2. Page(a) < Page(w) /\ Page(a) \in Nat /\ Page(w) \in Nat
            BY <1>2, <2>9, <6>1, PageBefore, Division DEF Page
          <6> QED BY <6>2
        <5>2. CASE s # seg
          <6>1. s \in Nat /\ seg \in Nat /\ seg > s
            BY <1>1, <3>1, <5>2, ImageTypes DEF Loads
          <6>2. LoadedAt(g, off)' = w /\ LoadedAt(s, i)' = a
            BY <2>4, <2>7, <2>8, <2>19, <3>3
          <6>3. g \in Loads' /\ off \in BytesOf(g)' /\ g > s
            BY <2>4, <2>19, <6>1
          <6>4. Page(w) # Page(a)
            BY <2>22, <2>23, <6>2, <6>3 DEF Overlaid, Page
          <6> QED BY <6>4
        <5> QED BY <5>1, <5>2
      <4>5. /\ pages[Page(a)] # Foreign
            /\ InMemory(a) = IF a \in Cleared THEN 0 ELSE Linked(s, i)
        BY <3>3, <4>3 DEF InPlace
      <4>6. pages'[Page(a)] = pages[Page(a)] /\ pages[Page(a)] \in Frames
            /\ pages[Page(a)] # frame
        BY <1>2, <2>1, <2>15, <2>17, <3>4, <4>4, <4>5
      <4>7. mem'[pages[Page(a)]] = mem[pages[Page(a)]]
        BY <2>16, <4>6
      <4>8. LoadedAt(s, i)' = a
        BY <2>19, <3>3
      <4>9. InMemory(LoadedAt(s, i))' = InMemory(a)
        BY <4>5, <4>6, <4>7, <4>8 DEF InMemory, Page
      <4> QED BY <2>19, <2>20, <4>5, <4>6, <4>8, <4>9 DEF InPlace, Page
    <3> QED BY <3>5, <3>6
  <2>24. Placed'
    BY <2>19, <2>23 DEF Placed
  <2>25. (v' - Segment'.vaddr) % PageSize = 0
    <3>1. v' - Segment'.vaddr = off + PageSize
      BY <1>2, <2>2, <2>4 DEF Segment
    <3>2. PageSize \in Nat \ {0} /\ off \in Int /\ off % PageSize = 0
      BY <1>2, <2>4
    <3>3. (off + PageSize) % PageSize = 0
      BY <3>2, NextPage
    <3> QED BY <3>1, <3>3
  <2> QED BY <1>1, <2>2, <2>18, <2>24, <2>25 DEF LinkedSoFar
<1> QED BY <1>3, <1>4

\* Where .bss is, to begin with: in a segment, behind its bytes of the file.
LEMMA BssInSegment ==
  ASSUME ImageInv, NEW a \in Nat, image.bss[1] <= a, a < image.bss[2]
  PROVE  \E s \in Loads : \E i \in BytesOf(s) :
           a = image.segments[s].vaddr + i /\ Linked(s, i) = 0
<1>1. image.bss[1] \in Nat /\ image.bss[2] \in Nat
  BY ImageTypes
<1>2. PICK b \in Loads : /\ image.segments[b].vaddr + image.segments[b].filesz <= image.bss[1]
                         /\ image.bss[2] <= image.segments[b].vaddr + image.segments[b].memsz
  <2>1. \E s \in DOMAIN image.segments :
          /\ image.segments[s].load
          /\ image.segments[s].vaddr + image.segments[s].filesz <= image.bss[1]
          /\ image.bss[2] <= image.segments[s].vaddr + image.segments[s].memsz
    BY <1>1, ImagesAssumption DEF ImageInv
  <2>2. DOMAIN image.segments = 1 .. Len(image.segments)
    BY ImagesAssumption DEF ImageInv, Image
  <2> QED BY <2>1, <2>2 DEF Loads
<1> DEFINE h == image.segments[b]
<1>3. h.vaddr \in Nat /\ h.filesz \in Nat /\ h.memsz \in Nat
  BY ImageTypes DEF Loads
<1>4. PICK k \in Nat : a = h.vaddr + k /\ h.filesz <= k /\ k < h.memsz
  <2>1. a - h.vaddr \in Nat /\ a = h.vaddr + (a - h.vaddr)
        /\ h.filesz <= a - h.vaddr /\ a - h.vaddr < h.memsz
    BY <1>1, <1>2, <1>3
  <2> QED BY <2>1
<1>5. k \in BytesOf(b)
  BY <1>3, <1>4 DEF BytesOf
<1>6. Linked(b, k) = 0
  BY <1>3, <1>4 DEF Linked
<1> QED BY <1>4, <1>5, <1>6

\* Clearing .bss changes one byte at a time, and no byte of another page.
LEMMA LinkClearBss ==
  ASSUME ImageInv, LinkedSoFar, ClearBss
  PROVE  LinkedSoFar'
<1>1. /\ at = "start" /\ v \in Nat /\ v >= image.bss[1]
      /\ v = image.bss[1] \/ v <= image.bss[2]
      /\ image.bss[1] \in Nat /\ image.bss[2] \in Nat
  BY ImageTypes DEF ClearBss, ImageInv, LinkedSoFar
<1>2. CASE v >= BssEnd
  <2>1. at' = "main" /\ UNCHANGED <<image, seg, v, pages, mem, taken>>
    BY <1>2 DEF ClearBss, Finish
  <2>2. FramesApart' /\ Placed'
    BY <1>1, <2>1, QuietLoader DEF Reached, Cleared
  <2> QED BY <1>1, <2>1, <2>2 DEF LinkedSoFar
<1>3. CASE ~(v >= BssEnd) /\ pages[Page(v)] = Foreign
  BY <1>3, GivesUp DEF ClearBss, Finish
<1>4. CASE ~(v >= BssEnd) /\ pages[Page(v)] # Foreign
  <2>1. v < image.bss[2]
    BY <1>1, <1>4 DEF BssEnd
  <2>2. Page(v) \in Pages /\ v % PageSize \in Offsets
    <3>1. PICK b \in Loads : \E k \in BytesOf(b) : v = image.segments[b].vaddr + k
      BY <1>1, <2>1, BssInSegment
    <3>2. PICK k \in BytesOf(b) : v = image.segments[b].vaddr + k
      BY <3>1
    <3>3. InUserHalf(b)
      BY <1>1 DEF ImageInv, Visited
    <3> QED BY <3>2, <3>3, ByteOfSegment
  <2>3. /\ mem' = [mem EXCEPT ![pages[Page(v)]][v % PageSize] = 0]
        /\ v' = v + 1 /\ UNCHANGED <<image, at, seg, pages, taken>>
    BY <1>4 DEF ClearBss
  <2>4. mem \in [Frames -> [Offsets -> Int]]
    BY DEF LinkedSoFar, FramesApart
  <2>5. \A p \in Pages : pages[p] # Foreign => pages[p] \in Frames
    <3>1. KernelFrames \in Nat /\ UserFrames \in Nat /\ taken \in 0 .. UserFrames
      BY ImageTypes DEF ImageInv
    <3> QED BY <3>1 DEF LinkedSoFar, FramesApart, Frames
  <2>6. /\ mem' \in [Frames -> [Offsets -> Int]]
        /\ \A f \in Frames, o \in Offsets :
             mem'[f][o] = IF f = pages[Page(v)] /\ o = v % PageSize THEN 0 ELSE mem[f][o]
    <3>1. PICK f0, o0 : f0 = pages[Page(v)] /\ o0 = v % PageSize
      OBVIOUS
    <3>2. mem' = [mem EXCEPT ![f0] = [mem[f0] EXCEPT ![o0] = 0]]
      BY <2>3, <3>1
    <3>3. mem' \in [Frames -> [Offsets -> Int]]
      <4>1. f0 \in Frames
        BY <1>4, <2>2, <2>5, <3>1
      <4>2. [mem[f0] EXCEPT ![o0] = 0] \in [Offsets -> Int]
        <5>1. PICK row \in [Offsets -> Int] : row = mem[f0]
          BY <2>4, <4>1
        <5>2. o0 \in Offsets
          BY <2>2, <3>1
        <5>3. [row EXCEPT ![o0] = 0] \in [Offsets -> Int]
          BY <5>2
        <5> QED BY <5>1, <5>3
      <4> QED BY <2>4, <3>2, <4>2
    <3>4. \A f \in Frames : mem'[f] = IF f = f0 THEN [mem[f0] EXCEPT ![o0] = 0] ELSE mem[f]
      BY <2>4, <3>2
    <3>5. \A f \in Frames, o \in Offsets :
            mem'[f][o] = IF f = f0 /\ o = o0 THEN 0 ELSE mem[f][o]
      BY <2>4, <3>4
    <3> QED BY <3>1, <3>3, <3>5
  <2>7. FramesApart'
    BY <2>3, <2>6 DEF LinkedSoFar, FramesApart
  <2>8. /\ Loads' = Loads /\ \A s : BytesOf(s)' = BytesOf(s)
        /\ \A s, i : LoadedAt(s, i)' = LoadedAt(s, i) /\ Linked(s, i)' = Linked(s, i)
    BY <2>3, SameImage DEF ImageInv
  <2>9. \A a \in Nat : a \in Cleared' <=> a \in Cleared \/ a = v
    <3>1. Cleared = image.bss[1] .. v - 1 /\ Cleared' = image.bss[1] .. v
      BY <1>1, <2>3 DEF Cleared
    <3> QED BY <1>1, <3>1
  <2>10. ASSUME NEW s \in Loads, NEW i \in BytesOf(s), Reached(s, i)', ~Overlaid(s, i)'
         PROVE  InPlace(s, i)'
    <3>1. Reached(s, i) /\ ~Overlaid(s, i)
      BY <1>1, <2>3, <2>8, <2>10 DEF Reached, Overlaid, Page
    <3>2. PICK a \in Nat : a = LoadedAt(s, i) /\ Page(a) \in Pages /\ a % PageSize \in Offsets
      <4>1. InUserHalf(s)
        BY <1>1 DEF ImageInv, Visited
      <4> QED BY <4>1, LoadedByte
    <3>3. /\ pages[Page(a)] # Foreign
          /\ InMemory(a) = IF a \in Cleared THEN 0 ELSE Linked(s, i)
      BY <3>1, <3>2 DEF LinkedSoFar, Placed, InPlace
    <3>4. pages[Page(a)] \in Frames
      BY <2>5, <3>2, <3>3
    <3>5. LoadedAt(s, i)' = a /\ InMemory(a) = mem[pages[Page(a)]][a % PageSize]
          /\ InMemory(LoadedAt(s, i))' = mem'[pages[Page(a)]][a % PageSize]
      BY <2>3, <2>8, <3>2, <3>3 DEF InMemory, Page
    <3>6. CASE pages[Page(a)] = pages[Page(v)] /\ a % PageSize = v % PageSize
      <4>1. Page(a) = Page(v)
        BY <2>2, <3>2, <3>3, <3>6 DEF LinkedSoFar, FramesApart
      <4>2. a = v
        BY <1>1, <3>6, <4>1, ImageTypes, SameAddress DEF Page
      <4>3. mem'[pages[Page(a)]][a % PageSize] = 0
        BY <2>6, <3>2, <3>4, <3>6
      <4> QED BY <2>3, <2>9, <3>3, <3>5, <4>2, <4>3 DEF InPlace, Page
    <3>7. CASE ~(pages[Page(a)] = pages[Page(v)] /\ a % PageSize = v % PageSize)
      <4>1. mem'[pages[Page(a)]][a % PageSize] = mem[pages[Page(a)]][a % PageSize]
        BY <2>6, <3>2, <3>4, <3>7
      <4>2. a # v
        BY <3>7
      <4> QED BY <2>3, <2>8, <2>9, <3>3, <3>5, <4>1, <4>2 DEF InPlace, Page
    <3> QED BY <3>6, <3>7
  <2>11. Placed'
    BY <2>8, <2>10 DEF Placed
  <2>12. v' >= image'.bss[1] /\ v' <= image'.bss[2] /\ at' = "start"
    BY <1>1, <2>1, <2>3
  <2> QED BY <2>7, <2>11, <2>12 DEF LinkedSoFar
<1> QED BY <1>2, <1>3, <1>4

\* What is linked in pages of its own is loaded there.
LEMMA AllMapped ==
  ASSUME ImageInv, Linkable, LinkedSoFar, at \in {"start", "main"},
         NEW s \in Loads, NEW i \in BytesOf(s)
  PROVE  /\ LoadedAt(s, i) = image.segments[s].vaddr + i
         /\ InPlace(s, i)
<1>1. \A t \in Loads : InUserHalf(t)
  BY DEF ImageInv, Visited
<1>2. \A t \in Loads : \A j : LoadedAt(t, j) = image.segments[t].vaddr + j
  BY AlignedByte DEF Linkable
<1>3. ~Overlaid(s, i)
  <2> SUFFICES ASSUME NEW t \in Loads, NEW j \in BytesOf(t), t > s,
                      Page(LoadedAt(t, j)) = Page(LoadedAt(s, i))
               PROVE  FALSE
    BY DEF Overlaid
  <2>1. Page(image.segments[s].vaddr + i) = Page(image.segments[t].vaddr + j)
    BY <1>2
  <2>2. s = t
    BY <1>1, <2>1, OneSegment DEF Linkable
  <2>3. s \in Int
    BY ImageTypes DEF Loads
  <2> QED BY <2>2, <2>3
<1>4. Reached(s, i)
  BY DEF Reached
<1> QED BY <1>2, <1>3, <1>4 DEF LinkedSoFar, Placed

\* Clearing .bss meets no page that is not mapped.
LEMMA BssMapped ==
  ASSUME ImageInv, Linkable, LinkedSoFar, ClearBss
  PROVE  at' # "fault"
<1>1. /\ at = "start" /\ v \in Nat /\ v >= image.bss[1]
      /\ image.bss[1] \in Nat /\ image.bss[2] \in Nat
  BY ImageTypes DEF ClearBss, ImageInv, LinkedSoFar
<1>2. CASE v >= BssEnd
  BY <1>2 DEF ClearBss, Finish
<1>3. CASE ~(v >= BssEnd)
  <2>1. PICK s \in Loads : \E i \in BytesOf(s) : v = image.segments[s].vaddr + i
    BY <1>1, <1>3, BssInSegment DEF BssEnd
  <2>2. PICK i \in BytesOf(s) : v = image.segments[s].vaddr + i
    BY <2>1
  <2>3. pages[Page(v)] # Foreign
    BY <1>1, <2>2, AllMapped DEF InPlace
  <2> QED BY <1>1, <1>3, <2>3 DEF ClearBss
<1> QED BY <1>2, <1>3

LEMMA LinkStep == ImageInv /\ LinkInv /\ [ImageNext]_imageVars => LinkInv'
<1> SUFFICES ASSUME ImageInv, LinkInv, [ImageNext]_imageVars PROVE LinkInv'
  OBVIOUS
<1>1. image' = image
  BY DEF ImageNext, imageVars, CheckHeader, VisitSegment, LoadPage, EndOfSegment,
         VisitSection, Relocate, EndOfRelocs, Loaded, ClearBss, Finish
<1>2. Linkable' = Linkable /\ NoRelocs' = NoRelocs
  BY <1>1, ImageStep, SameImage DEF ImageInv
<1>3. ASSUME NoRelocs, LinkedSoFar PROVE LinkedSoFar'
  <2>1. CASE UNCHANGED imageVars
    <3>1. Cleared' = Cleared /\ \A s, i : Reached(s, i)' <=> Reached(s, i)
      BY <2>1 DEF imageVars, Cleared, Reached
    <3>2. FramesApart' /\ Placed'
      BY <1>3, <2>1, <3>1, QuietLoader DEF imageVars
    <3> QED BY <1>3, <2>1, <3>2 DEF imageVars, LinkedSoFar, Segment
  <2>2. ~Relocate /\ ~EndOfRelocs
    BY <1>3, NoneToRelocate DEF Relocate, EndOfRelocs
  <2> QED BY <1>3, <2>1, <2>2, LinkHeader, LinkVisit, LinkLoadPage, LinkEndOfSegment,
             LinkVisitSection, LinkLoaded, LinkClearBss DEF ImageNext
<1>4. ASSUME Linkable, LinkedSoFar, at # "fault" PROVE at' # "fault"
  <2>1. CASE ClearBss
    BY <1>4, <2>1, BssMapped
  <2>2. CASE ~ClearBss
    BY <1>4, <2>2 DEF ImageNext, imageVars, CheckHeader, VisitSegment, LoadPage, EndOfSegment,
       VisitSection, Relocate, EndOfRelocs, Loaded, Finish, NextSegment, NextSection
  <2> QED BY <2>1, <2>2
<1> QED BY <1>2, <1>3, <1>4 DEF LinkInv, Linkable

LEMMA ImageCorrect == ImageSpec => [](ImageInv /\ LinkInv)
BY ImageInitCorrect, ImageStep, LinkStep, PTL DEF ImageSpec

\* load_elf() panics for no image whose file has all the tables and bytes that it
\* declares and that fits into memory, however its segments lie - for every
\* image, page size, address space and amount of memory.
THEOREM PanicsOnlyForCauseCorrect == ImageSpec => []PanicsOnlyForCause
<1>1. ImageInv => PanicsOnlyForCause
  BY DEF ImageInv
<1> QED BY <1>1, ImageCorrect, PTL

\* What memory holds when _start clears .bss and when main() begins, for every
\* layout of segments - also those of linker.ld, which begin within pages and
\* share them: each segment is loaded from the beginning of its first page on,
\* and of those that come into one page the last one is there.  This is for
\* every image that needs no relocation, page size and amount of memory.
THEOREM LoadedByPagesCorrect == ImageSpec => []LoadedByPages
<1>1. ImageInv /\ LinkInv => LoadedByPages
  <2> SUFFICES ASSUME LinkedSoFar, at \in {"start", "main"},
                      NEW s \in Loads, NEW i \in BytesOf(s), ~GivenAway(s, LoadedAt(s, i))
               PROVE  InMemory(LoadedAt(s, i)) =
                        IF LoadedAt(s, i) \in image.bss[1] .. v - 1 THEN 0 ELSE Linked(s, i)
    BY DEF LinkInv, LoadedByPages
  <2>1. Reached(s, i) /\ ~Overlaid(s, i)
    BY DEF Reached, Overlaid, GivenAway
  <2> QED BY <2>1 DEF LinkedSoFar, Placed, InPlace, Cleared
<1> QED BY <1>1, ImageCorrect, PTL

\* Every byte of an image that begins its segments on page boundaries, has
\* them in pages of their own and needs no relocation is where it was linked
\* when _start clears .bss and when main() begins, and .bss is all mapped -
\* for every such image, page size and amount of memory.
COROLLARY LoadedAsLinkedCorrect == ImageSpec => []LoadedAsLinked
<1>1. ASSUME ImageInv, LinkInv PROVE LoadedAsLinked
  <2> SUFFICES ASSUME Linkable, at \in {"start", "main"}, NEW s \in Loads, NEW i \in BytesOf(s)
               PROVE  InMemory(image.segments[s].vaddr + i) = Linked(s, i)
    BY <1>1 DEF LinkInv, Linkable, LoadedAsLinked, AsLinked
  <2>1. LinkedSoFar
    BY <1>1 DEF LinkInv, Linkable
  <2>2. PICK a : a = image.segments[s].vaddr + i
    OBVIOUS
  <2>3. InMemory(a) = IF a \in Cleared THEN 0 ELSE Linked(s, i)
    BY <1>1, <2>1, <2>2, AllMapped DEF InPlace
  <2>4. ASSUME a \in Cleared PROVE Linked(s, i) = 0
    <3>1. InUserHalf(s) /\ \A t \in Loads : InUserHalf(t)
      BY <1>1 DEF ImageInv, Visited
    <3>2. a \in Nat
      BY <1>1, <2>2, <3>1, ByteOfSegment
    <3>3. image.bss[1] <= a /\ a < image.bss[2]
      <4>1. image.bss[1] \in Nat /\ image.bss[2] \in Nat /\ v \in Nat
        BY <1>1, ImageTypes DEF ImageInv
      <4>2. a \in image.bss[1] .. v - 1 /\ (v = image.bss[1] \/ v <= image.bss[2])
        BY <2>1, <2>4 DEF Cleared, LinkedSoFar
      <4> QED BY <3>2, <4>1, <4>2
    <3>4. PICK b \in Loads : \E k \in BytesOf(b) :
            a = image.segments[b].vaddr + k /\ Linked(b, k) = 0
      BY <1>1, <3>2, <3>3, BssInSegment
    <3>5. PICK k \in BytesOf(b) : a = image.segments[b].vaddr + k /\ Linked(b, k) = 0
      BY <3>4
    <3>6. s = b
      BY <1>1, <2>2, <3>1, <3>5, OneSegment DEF Linkable
    <3>7. i = k
      <4>1. image.segments[s].vaddr \in Nat /\ i \in Nat /\ k \in Nat
        BY <1>1, <3>1, <3>6, ByteOfSegment, ImageTypes DEF Loads
      <4> QED BY <2>2, <3>5, <3>6, <4>1
    <3> QED BY <3>5, <3>6, <3>7
  <2> QED BY <2>2, <2>3, <2>4
<1> QED BY <1>1, ImageCorrect, PTL

-----------------------------------------------------------------------------

(***************************************************************************)
(* Facts about sequences that the proofs about texts rest on.              *)
(***************************************************************************)
Joined(a, b) == a \o b
Flattening == INSTANCE FoldFacts WITH Op <- Joined

\* g[k] is the concatenation of the first k of the n sequences.
Concatenating(g, E, ss, n) ==
  /\ g[0] = <<>>
  /\ \A k \in 0 .. n : g[k] \in Seq(E)
  /\ \A k \in 1 .. n : g[k] = g[k - 1] \o ss[k]
  /\ FlattenSeq(ss) = g[n]

LEMMA Concatenates ==
  ASSUME NEW E, NEW n \in Nat, NEW ss \in [1 .. n -> Seq(E)]
  PROVE  \E g : Concatenating(g, E, ss, n)
<1>1. ss \in Seq(Seq(E)) /\ Len(ss) = n /\ <<>> \in Seq(E)
  OBVIOUS
<1>10. \A k \in 1 .. n : ss[k] \in Seq(E)
  OBVIOUS
<1>2. PICK f : Flattening!Folding(f, <<>>, ss, n)
  BY Flattening!Folds
<1>3. f[0] = <<>> /\ \A k \in 1 .. n : f[k] = f[k - 1] \o ss[k]
  BY <1>2 DEF Flattening!Folding, Joined
<1>4. \A k \in 0 .. n : k \in {j \in 0 .. n : f[j] \in Seq(E)}
  <2>. DEFINE S == {j \in 0 .. n : f[j] \in Seq(E)}
  <2>1. 0 \in S
    <3>1. f[0] \in Seq(E)
      BY <1>1, <1>3
    <3>. QED BY <3>1
  <2>2. ASSUME NEW k \in 0 .. n - 1, k \in S PROVE k + 1 \in S
    <3>1. k + 1 \in 0 .. n /\ k + 1 \in 1 .. n /\ (k + 1) - 1 = k
      OBVIOUS
    <3>2. f[k + 1] = f[k] \o ss[k + 1]
      BY <1>3, <3>1
    <3>3. f[k] \in Seq(E) /\ ss[k + 1] \in Seq(E)
      BY <1>10, <2>2, <3>1
    <3>4. f[k + 1] \in Seq(E)
      BY <3>2, <3>3, ConcatProperties
    <3>. QED BY <3>1, <3>4
  <2>. HIDE DEF S
  <2>3. \A k \in 0 .. n : k \in S
    BY <2>1, <2>2, Flattening!UpTo, ZenonT(90)
  <2>. QED BY <2>3 DEF S
<1>. DEFINE Adds(h) == h = [i \in 1 .. n |-> IF i = 1 THEN ss[i] ELSE h[i - 1] \o ss[i]]
            h == CHOOSE h : Adds(h)
<1>5. Adds(h)
  <2>. DEFINE e == [i \in 1 .. n |-> f[i]]
  <2>1. ASSUME NEW i \in 1 .. n PROVE e[i] = IF i = 1 THEN ss[i] ELSE e[i - 1] \o ss[i]
    <3>1. CASE i = 1
      <4>0. i - 1 = 0
        BY ONLY <3>1
      <4>1. ss[i] \in Seq(E) /\ f[0] = <<>> /\ f[i] = f[i - 1] \o ss[i]
        BY <1>3, <1>10, Zenon
      <4>2. <<>> \o ss[i] = ss[i]
        BY <4>1, ConcatEmptySeq
      <4>. QED BY <3>1, <4>0, <4>1, <4>2
    <3>2. CASE i # 1
      <4>1. i - 1 \in 1 .. n
        BY <3>2
      <4>2. f[i] = f[i - 1] \o ss[i]
        BY <1>3
      <4>. QED BY <3>2, <4>1, <4>2
    <3>. QED BY <3>1, <3>2
  <2>2. Adds(e)
    BY <2>1
  <2>. QED BY <2>2, ZenonT(90)
<1>6. FlattenSeq(ss) = IF n = 0 THEN ss ELSE h[n]
  BY <1>1 DEF FlattenSeq
<1>. HIDE DEF h
<1>7. \A k \in 1 .. n : k \in {j \in 1 .. n : h[j] = f[j]}
  <2>. DEFINE S == {j \in 0 .. n : j # 0 => h[j] = f[j]}
  <2>1. 0 \in S
    OBVIOUS
  <2>2. ASSUME NEW k \in 0 .. n - 1, k \in S PROVE k + 1 \in S
    <3>1. k + 1 \in 1 .. n /\ (k + 1) - 1 = k
      OBVIOUS
    <3>2. CASE k = 0
      <4>1. 1 \in 1 .. n /\ 1 - 1 = 0
        BY <3>1, <3>2
      <4>4. ss[1] \in Seq(E) /\ f[0] = <<>> /\ f[1] = f[0] \o ss[1]
        BY <1>3, <1>10, <4>1
      <4>2. <<>> \o ss[1] = ss[1]
        BY <4>4, ConcatEmptySeq
      <4>3. h[1] = ss[1]
        BY <1>5, <4>1
      <4>5. h[1] = f[1]
        BY <4>2, <4>3, <4>4
      <4>. QED BY <3>1, <3>2, <4>5
    <3>3. CASE k # 0
      <4>3. k + 1 # 1
        BY <3>3
      <4>1. h[k + 1] = h[k] \o ss[k + 1]
        BY <1>5, <3>1, <4>3
      <4>2. f[k + 1] = f[k] \o ss[k + 1]
        BY <1>3, <3>1
      <4>4. h[k + 1] = f[k + 1]
        BY <2>2, <3>3, <4>1, <4>2
      <4>. QED BY <3>1, <4>4
    <3>. QED BY <3>2, <3>3
  <2>. HIDE DEF S
  <2>3. \A k \in 0 .. n : k \in S
    BY <2>1, <2>2, Flattening!UpTo
  <2>. QED BY <2>3 DEF S
<1>8. FlattenSeq(ss) = f[n]
  <2>1. CASE n = 0
    <3>1. ss = <<>>
      BY <1>1, <2>1, EmptySeq
    <3>. QED BY <1>3, <1>6, <2>1, <3>1
  <2>2. CASE n # 0
    BY <1>6, <1>7, <2>2
  <2>. QED BY <2>1, <2>2
<1>9. Concatenating(f, E, ss, n)
  BY <1>3, <1>4, <1>8 DEF Concatenating
<1>. QED BY <1>9

LEMMA CutIs ==
  ASSUME NEW E, NEW s \in Seq(E), NEW a \in Nat \ {0}, NEW b \in Nat, b <= Len(s)
  PROVE  /\ SubSeq(s, a, b) \in Seq(E)
         /\ Len(SubSeq(s, a, b)) = IF a <= b THEN b - a + 1 ELSE 0
         /\ \A i \in 1 .. b - a + 1 : SubSeq(s, a, b)[i] = s[a + i - 1]
<1>1. \A i \in a .. b : s[i] \in E
  OBVIOUS
<1>. QED BY <1>1, SubSeqProperties

LEMMA AppendIs ==
  ASSUME NEW E, NEW s \in Seq(E), NEW c \in E
  PROVE  /\ Append(s, c) \in Seq(E) /\ Len(Append(s, c)) = Len(s) + 1
         /\ \A i \in 1 .. Len(s) : Append(s, c)[i] = s[i]
         /\ Append(s, c)[Len(s) + 1] = c
OBVIOUS

LEMMA LeastOf ==
  ASSUME NEW n \in Nat, NEW S \in SUBSET (1 .. n), S # {}
  PROVE  Min(S) \in S /\ \A y \in S : Min(S) <= y
<1>1. S \subseteq Nat
  OBVIOUS
<1>2. PICK x \in S : \A y \in S : <<y, x>> \notin OpToRel(<, Nat)
  BY <1>1, NatLessThanWellFounded, WFMin
<1>3. ASSUME NEW y \in S PROVE x <= y
  <2>1. x \in Nat /\ y \in Nat
    BY <1>1
  <2>2. <<y, x>> \notin OpToRel(<, Nat)
    BY <1>2
  <2>. QED BY <2>1, <2>2 DEF OpToRel
<1>. QED BY <1>3 DEF Min

LEMMA GreatestOf ==
  ASSUME NEW n \in Nat, NEW S \in SUBSET (1 .. n), S # {}
  PROVE  Max(S) \in S /\ \A y \in S : Max(S) >= y
<1>. DEFINE T == {n - x : x \in S}
<1>1. T \subseteq Nat
  OBVIOUS
<1>2. PICK z \in S : TRUE
  OBVIOUS
<1>3. n - z \in T
  OBVIOUS
<1>4. T # {}
  BY <1>3
<1>5. PICK t \in T : \A u \in T : <<u, t>> \notin OpToRel(<, Nat)
  BY <1>1, <1>4, NatLessThanWellFounded, WFMin
<1>6. PICK x \in S : t = n - x
  BY <1>5
<1>7. ASSUME NEW y \in S PROVE x >= y
  <2>1. x \in Nat /\ y \in Nat /\ n - y \in Nat /\ n - x \in Nat
    OBVIOUS
  <2>2. <<n - y, n - x>> \notin OpToRel(<, Nat)
    BY <1>5, <1>6
  <2>3. ~(n - y < n - x)
    BY <2>1, <2>2 DEF OpToRel
  <2>. QED BY <2>1, <2>3
<1>. QED BY <1>7 DEF Max

-----------------------------------------------------------------------------

(***************************************************************************)
(* generate_and_build().                                                   *)
(***************************************************************************)

\* g[k] is what the first k lines of s have at the places in S.
Keeping(g, E, s, S) ==
  /\ g[0] = <<>>
  /\ \A k \in 0 .. Len(s) : g[k] \in Seq(E)
  /\ \A k \in 1 .. Len(s) : g[k] = IF k \in S THEN Append(g[k - 1], s[k]) ELSE g[k - 1]
  /\ Keep(s, S) = g[Len(s)]

LEMMA Keeps ==
  ASSUME NEW E, NEW s \in Seq(E), NEW S
  PROVE  /\ Keep(s, S) \in Seq(E)
         /\ \E g : Keeping(g, E, s, S)
<1>. DEFINE n == Len(s)
            ss == [i \in 1 .. n |-> IF i \in S THEN <<s[i]>> ELSE <<>>]
<1>1. n \in Nat /\ DOMAIN s = 1 .. n /\ \A i \in 1 .. n : s[i] \in E
  OBVIOUS
<1>2. Keep(s, S) = FlattenSeq(ss)
  BY <1>1 DEF Keep
<1>3. ASSUME NEW i \in 1 .. n PROVE ss[i] \in Seq(E)
  <2>1. <<s[i]>> \in Seq(E) /\ <<>> \in Seq(E)
    BY <1>1
  <2>. QED BY <2>1
<1>4. ss \in [1 .. n -> Seq(E)]
  BY <1>3
<1>5. PICK g : Concatenating(g, E, ss, n)
  BY <1>1, <1>4, Concatenates
<1>6. ASSUME NEW k \in 1 .. n
      PROVE  g[k] = IF k \in S THEN Append(g[k - 1], s[k]) ELSE g[k - 1]
  <2>1. g[k] = g[k - 1] \o ss[k]
    BY <1>5 DEF Concatenating
  <2>2. k - 1 \in 0 .. n
    BY <1>1
  <2>3. g[k - 1] \in Seq(E)
    BY <1>5, <2>2 DEF Concatenating
  <2>4. s[k] \in E
    BY <1>1
  <2>5. g[k - 1] \o <<>> = g[k - 1]
    BY <2>3, ConcatEmptySeq
  <2>6. g[k - 1] \o <<s[k]>> = Append(g[k - 1], s[k])
    BY <2>3, <2>4, AppendIsConcat
  <2>. QED BY <2>1, <2>5, <2>6
<1>. HIDE DEF ss
<1>7. Keeping(g, E, s, S)
  BY <1>2, <1>5, <1>6 DEF Concatenating, Keeping
<1>8. Keep(s, S) \in Seq(E)
  BY <1>1, <1>7 DEF Keeping
<1>. QED BY <1>7, <1>8

\* What a part of s keeps, where s keeps nothing outside of it.
LEMMA KeepsInPart ==
  ASSUME NEW E, NEW s \in Seq(E), NEW t \in Seq(E),
         NEW a \in Nat, a + Len(t) <= Len(s),
         \A k \in 1 .. Len(t) : t[k] = s[a + k],
         NEW S, NEW T,
         \A k \in 1 .. Len(s) : k \in S <=> k - a \in 1 .. Len(t) /\ k - a \in T
  PROVE  Keep(s, S) = Keep(t, T)
<1>. DEFINE n == Len(s)
            m == Len(t)
            place(k) == IF k <= a THEN 0 ELSE IF k <= a + m THEN k - a ELSE m
<1>1. n \in Nat /\ m \in Nat
  OBVIOUS
<1>2. PICK g : Keeping(g, E, s, S)
  BY Keeps
<1>3. PICK h : Keeping(h, E, t, T)
  BY Keeps
<1>. DEFINE Q == {k \in 0 .. n : g[k] = h[place(k)]}
<1>4. 0 \in Q
  BY <1>1, <1>2, <1>3 DEF Keeping
<1>5. ASSUME NEW k \in 0 .. n - 1, k \in Q PROVE k + 1 \in Q
  <2>1. k + 1 \in 1 .. n /\ (k + 1) - 1 = k
    BY <1>1
  <2>2. g[k + 1] = IF k + 1 \in S THEN Append(g[k], s[k + 1]) ELSE g[k]
    BY <1>2, <2>1 DEF Keeping
  <2>3. g[k] = h[place(k)]
    BY <1>5
  <2>4. CASE k + 1 \in a + 1 .. a + m
    <3>1. /\ place(k + 1) = k + 1 - a /\ place(k + 1) \in 1 .. m /\ place(k) = place(k + 1) - 1
          /\ a + place(k + 1) = k + 1
      BY <1>1, <2>4
    <3>. HIDE DEF place
    <3>2. h[place(k + 1)] = IF place(k + 1) \in T THEN Append(h[place(k)], t[place(k + 1)]) ELSE h[place(k)]
      BY <1>3, <3>1 DEF Keeping
    <3>3. t[place(k + 1)] = s[k + 1]
      BY <3>1
    <3>4. k + 1 \in S <=> place(k + 1) \in T
      BY <2>1, <3>1
    <3>5. g[k + 1] = h[place(k + 1)]
      BY <2>2, <2>3, <3>2, <3>3, <3>4
    <3>. QED BY <2>1, <3>5
  <2>5. CASE k + 1 \notin a + 1 .. a + m
    <3>1. place(k + 1) = place(k) /\ k + 1 - a \notin 1 .. m
      BY <1>1, <2>5
    <3>2. k + 1 \notin S
      BY <2>1, <3>1
    <3>3. g[k + 1] = h[place(k + 1)]
      BY <2>2, <2>3, <3>1, <3>2
    <3>. QED BY <2>1, <3>3
  <2>. QED BY <2>4, <2>5
<1>6. n \in Q
  <2>. HIDE DEF Q
  <2>1. \A k \in 0 .. n : k \in Q
    BY <1>1, <1>4, <1>5, Flattening!UpTo
  <2>. QED BY <1>1, <2>1
<1>7. place(n) = m
  BY <1>1
<1>8. g[n] = h[m]
  BY <1>6, <1>7
<1>. QED BY <1>2, <1>3, <1>8 DEF Keeping

\* One line more.
LEMMA StatementsTyped ==
  ASSUME NEW E, NEW s \in Seq(E) PROVE Statements(s) \in Seq(E)
BY Keeps DEF Statements

LEMMA StatementsAppend ==
  ASSUME NEW E, NEW x \in Seq(E), NEW c \in E
  PROVE  Statements(Append(x, c)) =
           IF Statement(c) THEN Append(Statements(x), c) ELSE Statements(x)
<1>. DEFINE n == Len(x)
            y == Append(x, c)
            X == {i \in DOMAIN x : Statement(x[i])}
            Y == {i \in DOMAIN y : Statement(y[i])}
<1>1. /\ n \in Nat /\ DOMAIN x = 1 .. n
      /\ y \in Seq(E) /\ Len(y) = n + 1 /\ DOMAIN y = 1 .. n + 1 /\ y[n + 1] = c
      /\ \A i \in 1 .. n : y[i] = x[i]
  OBVIOUS
<1>2. PICK h : Keeping(h, E, x, X)
  BY Keeps
<1>3. PICK g : Keeping(g, E, y, Y)
  BY <1>1, Keeps
<1>4. /\ n + 1 \in Y <=> Statement(c)
      /\ \A i \in 1 .. n : i \in Y <=> i \in X
  BY <1>1
<1>5. Statements(x) = h[n] /\ Statements(y) = g[n + 1]
  BY <1>1, <1>2, <1>3 DEF Keeping, Statements
<1>. HIDE DEF y, X, Y
<1>. DEFINE Q == {k \in 0 .. n : g[k] = h[k]}
<1>6. 0 \in Q
  BY <1>1, <1>2, <1>3 DEF Keeping
<1>7. ASSUME NEW k \in 0 .. n - 1, k \in Q PROVE k + 1 \in Q
  <2>1. k + 1 \in 1 .. n /\ k + 1 \in 1 .. n + 1 /\ (k + 1) - 1 = k
    BY <1>1
  <2>2. g[k + 1] = IF k + 1 \in Y THEN Append(g[k], y[k + 1]) ELSE g[k]
    BY <1>1, <1>3, <2>1 DEF Keeping
  <2>3. h[k + 1] = IF k + 1 \in X THEN Append(h[k], x[k + 1]) ELSE h[k]
    BY <1>2, <2>1 DEF Keeping
  <2>4. k + 1 \in Y <=> k + 1 \in X
    BY <1>4, <2>1
  <2>5. y[k + 1] = x[k + 1]
    BY <1>1, <2>1
  <2>6. g[k] = h[k]
    BY <1>7
  <2>7. g[k + 1] = h[k + 1]
    BY <2>2, <2>3, <2>4, <2>5, <2>6
  <2>. QED BY <2>1, <2>7
<1>8. g[n] = h[n]
  <2>. HIDE DEF Q
  <2>1. \A k \in 0 .. n : k \in Q
    BY <1>1, <1>6, <1>7, Flattening!UpTo
  <2>. QED BY <1>1, <2>1 DEF Q
<1>9. g[n + 1] = IF n + 1 \in Y THEN Append(g[n], c) ELSE g[n]
  <2>1. n + 1 \in 1 .. n + 1 /\ (n + 1) - 1 = n
    BY <1>1
  <2>. QED BY <1>1, <1>3, <2>1 DEF Keeping
<1>. QED BY <1>4, <1>5, <1>8, <1>9 DEF y

\* The statements among the lines kept, and which lines are kept at all.
LEMMA StatementsKept ==
  ASSUME NEW E, NEW s \in Seq(E), NEW S
  PROVE  /\ Statements(Keep(s, S)) = Keep(s, {i \in S \cap DOMAIN s : Statement(s[i])})
         /\ \A c : (\E i \in DOMAIN Keep(s, S) : Keep(s, S)[i] = c)
                     <=> \E i \in S \cap DOMAIN s : s[i] = c
<1>. DEFINE n == Len(s)
            R == {i \in S \cap DOMAIN s : Statement(s[i])}
<1>1. n \in Nat /\ DOMAIN s = 1 .. n /\ \A i \in 1 .. n : s[i] \in E
  OBVIOUS
<1>2. PICK g : Keeping(g, E, s, S)
  BY Keeps
<1>3. PICK h : Keeping(h, E, s, R)
  BY Keeps
<1>4. \A i \in 1 .. n : i \in R <=> i \in S /\ Statement(s[i])
  BY <1>1
<1>. HIDE DEF R
<1>. DEFINE Has(k) == \A c : (\E i \in DOMAIN g[k] : g[k][i] = c)
                               <=> \E i \in S \cap 1 .. k : s[i] = c
            Q == {k \in 0 .. n : Statements(g[k]) = h[k] /\ Has(k)}
<1>5. 0 \in Q
  <2>1. g[0] = <<>> /\ h[0] = <<>> /\ 0 \in 0 .. n
    BY <1>1, <1>2, <1>3 DEF Keeping
  <2>2. Statements(<<>>) = <<>>
    <3>. DEFINE Z == {i \in DOMAIN <<>> : Statement((<<>>)[i])}
    <3>1. <<>> \in Seq(E) /\ Len(<<>>) = 0
      BY EmptySeq
    <3>2. PICK z : Keeping(z, E, <<>>, Z)
      BY <3>1, Keeps
    <3>3. Statements(<<>>) = Keep(<<>>, Z)
      BY DEF Statements
    <3>. HIDE DEF Z
    <3>. QED BY <3>1, <3>2, <3>3 DEF Keeping
  <2>3. Has(0)
    BY <2>1
  <2>. QED BY <2>1, <2>2, <2>3
<1>6. ASSUME NEW k \in 0 .. n - 1, k \in Q PROVE k + 1 \in Q
  <2>1. k + 1 \in 1 .. n /\ k + 1 \in 0 .. n /\ (k + 1) - 1 = k /\ k \in 0 .. n
    BY <1>1
  <2>2. g[k + 1] = IF k + 1 \in S THEN Append(g[k], s[k + 1]) ELSE g[k]
    BY <1>2, <2>1 DEF Keeping
  <2>3. h[k + 1] = IF k + 1 \in R THEN Append(h[k], s[k + 1]) ELSE h[k]
    BY <1>3, <2>1 DEF Keeping
  <2>4. k + 1 \in R <=> k + 1 \in S /\ Statement(s[k + 1])
    BY <1>4, <2>1
  <2>5. Statements(g[k]) = h[k] /\ Has(k)
    BY <1>6
  <2>6. g[k] \in Seq(E) /\ s[k + 1] \in E
    BY <1>1, <1>2, <2>1 DEF Keeping
  <2>7. CASE k + 1 \in S
    <3>1. g[k + 1] = Append(g[k], s[k + 1])
      BY <2>2, <2>7
    <3>2. Statements(g[k + 1]) = h[k + 1]
      <4>1. Statements(Append(g[k], s[k + 1])) =
              IF Statement(s[k + 1]) THEN Append(Statements(g[k]), s[k + 1])
              ELSE Statements(g[k])
        BY <2>6, StatementsAppend
      <4>2. Statements(g[k]) = h[k]
        BY <2>5
      <4>. QED BY <2>3, <2>4, <2>7, <3>1, <4>1, <4>2
    <3>3. ASSUME NEW c PROVE (\E i \in DOMAIN g[k + 1] : g[k + 1][i] = c)
                               <=> \E i \in S \cap 1 .. k + 1 : s[i] = c
      <4>1. (\E i \in DOMAIN g[k + 1] : g[k + 1][i] = c)
              <=> (\E i \in DOMAIN g[k] : g[k][i] = c) \/ s[k + 1] = c
        <5>. DEFINE x == g[k]
                    y == Append(x, s[k + 1])
        <5>1. /\ x \in Seq(E) /\ Len(x) \in Nat /\ DOMAIN x = 1 .. Len(x)
              /\ DOMAIN y = 1 .. Len(x) + 1
              /\ y[Len(x) + 1] = s[k + 1]
              /\ \A i \in 1 .. Len(x) : y[i] = x[i]
          BY <2>6
        <5>. HIDE DEF x, y
        <5>2. (\E i \in DOMAIN y : y[i] = c) <=> (\E i \in DOMAIN x : x[i] = c) \/ s[k + 1] = c
          BY <5>1
        <5>. QED BY <3>1, <5>2 DEF x, y
      <4>2. (\E i \in DOMAIN g[k] : g[k][i] = c) <=> \E i \in S \cap 1 .. k : s[i] = c
        BY <2>5
      <4>3. (\E i \in S \cap 1 .. k + 1 : s[i] = c)
              <=> (\E i \in S \cap 1 .. k : s[i] = c) \/ s[k + 1] = c
        BY <2>1, <2>7
      <4>. QED BY <4>1, <4>2, <4>3
    <3>. QED BY <2>1, <3>2, <3>3
  <2>8. CASE k + 1 \notin S
    <3>1. g[k + 1] = g[k] /\ h[k + 1] = h[k]
      BY <2>2, <2>3, <2>4, <2>8
    <3>2. S \cap 1 .. k + 1 = S \cap 1 .. k
      BY <2>1, <2>8
    <3>3. Has(k + 1)
      BY <2>5, <3>1, <3>2
    <3>. QED BY <2>1, <2>5, <3>1, <3>3
  <2>. QED BY <2>7, <2>8
<1>7. n \in Q
  <2>. HIDE DEF Q
  <2>1. \A k \in 0 .. n : k \in Q
    BY <1>1, <1>5, <1>6, Flattening!UpTo
  <2>. QED BY <1>1, <2>1
<1>8. Keep(s, S) = g[n] /\ Keep(s, R) = h[n]
  BY <1>2, <1>3 DEF Keeping
<1>9. S \cap DOMAIN s = S \cap 1 .. n
  BY <1>1
<1>. QED BY <1>7, <1>8, <1>9 DEF R

\* What str::trim() leaves: nothing, where all lines are blank, or what lies
\* between the blank ones at both ends.
TrimmedTo(s, t, a) ==
  /\ a \in Nat /\ a + Len(t) <= Len(s)
  /\ \A k \in 1 .. Len(t) : t[k] = s[a + k]
  /\ \A k \in 1 .. Len(s) : k - a \notin 1 .. Len(t) => s[k] = "blank"

LEMMA Trims ==
  ASSUME NEW E, NEW s \in Seq(E)
  PROVE  /\ Trim(s) \in Seq(E)
         /\ \E a : TrimmedTo(s, Trim(s), a)
         /\ Trim(s) = <<>> <=> \A i \in DOMAIN s : s[i] = "blank"
<1>. DEFINE n == Len(s)
            kept == {i \in DOMAIN s : s[i] # "blank"}
<1>1. n \in Nat /\ DOMAIN s = 1 .. n /\ kept \in SUBSET (1 .. n) /\ <<>> \in Seq(E)
  OBVIOUS
<1>2. CASE kept = {}
  <2>1. Trim(s) = <<>>
    BY <1>2 DEF Trim
  <2>2. \A i \in 1 .. n : s[i] = "blank"
    BY <1>1, <1>2
  <2>3. TrimmedTo(s, <<>>, 0)
    BY <1>1, <2>2 DEF TrimmedTo
  <2>. QED BY <1>1, <2>1, <2>2, <2>3
<1>3. CASE kept # {}
  <2>. DEFINE lo == Min(kept)
              hi == Max(kept)
              t == SubSeq(s, lo, hi)
  <2>1. lo \in kept /\ hi \in kept /\ \A i \in kept : lo <= i /\ i <= hi
    BY <1>1, <1>3, LeastOf, GreatestOf
  <2>2. Trim(s) = t
    BY <1>3 DEF Trim
  <2>. HIDE DEF lo, hi
  <2>3. lo \in 1 .. n /\ hi \in 1 .. n /\ lo <= hi /\ s[lo] # "blank"
    BY <1>1, <2>1
  <2>4. /\ t \in Seq(E) /\ Len(t) = hi - lo + 1
        /\ \A i \in 1 .. hi - lo + 1 : t[i] = s[lo + i - 1]
    BY <1>1, <2>3, CutIs
  <2>5. \A k \in 1 .. n : k \notin lo .. hi => s[k] = "blank"
    BY <1>1, <2>1
  <2>. HIDE DEF t
  <2>6. TrimmedTo(s, t, lo - 1)
    BY <1>1, <2>3, <2>4, <2>5 DEF TrimmedTo
  <2>7. t # <<>>
    BY <2>3, <2>4
  <2>. QED BY <1>1, <2>2, <2>3, <2>4, <2>6, <2>7
<1>. QED BY <1>2, <1>3

LEMMA BlankIsNone == ~Statement("blank") /\ ~Statement("block") /\ ~Statement("open")
BY DEF Statement

LEMMA StatementsTrimmed ==
  ASSUME NEW E, NEW s \in Seq(E)
  PROVE  Statements(Trim(s)) = Statements(s)
<1>. DEFINE t == Trim(s)
            S == {i \in DOMAIN s : Statement(s[i])}
            T == {i \in DOMAIN t : Statement(t[i])}
<1>1. PICK a : t \in Seq(E) /\ TrimmedTo(s, t, a)
  BY Trims
<1>2. DOMAIN s = 1 .. Len(s) /\ DOMAIN t = 1 .. Len(t) /\ Len(s) \in Nat /\ Len(t) \in Nat
  BY <1>1
<1>. HIDE DEF t
<1>3. ASSUME NEW k \in 1 .. Len(s)
      PROVE  k \in S <=> k - a \in 1 .. Len(t) /\ k - a \in T
  <2>1. a \in Nat
    BY <1>1 DEF TrimmedTo
  <2>2. CASE k - a \in 1 .. Len(t)
    <3>1. t[k - a] = s[a + (k - a)]
      BY <1>1, <2>2 DEF TrimmedTo
    <3>2. a + (k - a) = k
      BY <2>1
    <3>. QED BY <1>2, <2>2, <3>1, <3>2
  <2>3. CASE k - a \notin 1 .. Len(t)
    <3>1. s[k] = "blank"
      BY <1>1, <2>3 DEF TrimmedTo
    <3>. QED BY <2>3, <3>1, BlankIsNone
  <2>. QED BY <2>2, <2>3
<1>4. Keep(s, S) = Keep(t, T)
  <2>. HIDE DEF S, T
  <2>. QED BY <1>1, <1>3, KeepsInPart DEF TrimmedTo
<1>. QED BY <1>4 DEF Statements, t

LEMMA StatementsUnbraced ==
  ASSUME NEW E, NEW s \in Seq(E), "open" \in E
  PROVE  /\ Statements(TrimBraces(s)) = Statements(s)
         /\ TrimBraces(s) \in Seq(E)
         /\ TrimBraces(s) = <<>> <=> s = <<>>
<1>1. CASE s # <<>> /\ Last(s) = "block"
  <2>. DEFINE n == Len(s)
              f == Front(s)
  <2>1. n \in Nat \ {0} /\ s[n] = "block" /\ s[n] \in E
    BY <1>1, EmptySeq DEF Last
  <2>2. f \in Seq(E) /\ Len(f) = n - 1 /\ \A i \in 1 .. n - 1 : f[i] = s[i]
    <3>1. n - 1 \in Nat /\ n - 1 <= Len(s) /\ 1 \in Nat \ {0} /\ f = SubSeq(s, 1, n - 1)
      BY <2>1 DEF Front
    <3>. HIDE DEF n, f
    <3>2. /\ SubSeq(s, 1, n - 1) \in Seq(E)
          /\ Len(SubSeq(s, 1, n - 1)) = IF 1 <= n - 1 THEN (n - 1) - 1 + 1 ELSE 0
          /\ \A i \in 1 .. (n - 1) - 1 + 1 : SubSeq(s, 1, n - 1)[i] = s[1 + i - 1]
      BY <3>1, CutIs
    <3>3. (n - 1) - 1 + 1 = n - 1 /\ \A i \in 1 .. n - 1 : 1 + i - 1 = i
      BY <2>1
    <3>4. Len(f) = n - 1
      BY <2>1, <3>1, <3>2
    <3>. QED BY <3>1, <3>2, <3>3, <3>4
  <2>. HIDE DEF f
  <2>3. /\ Append(f, s[n]) \in Seq(E) /\ Len(Append(f, s[n])) = n
        /\ Append(f, s[n])[n] = s[n] /\ \A i \in 1 .. n - 1 : Append(f, s[n])[i] = f[i]
    BY <2>1, <2>2, AppendIs
  <2>4. \A i \in 1 .. n : Append(f, s[n])[i] = s[i]
    BY <2>1, <2>2, <2>3
  <2>5. s = Append(f, s[n])
    BY <2>3, <2>4, SeqEqual
  <2>6. Statements(s) = Statements(f)
    BY <2>1, <2>2, <2>5, StatementsAppend, BlankIsNone
  <2>7. Statements(Append(f, "open")) = Statements(f)
    BY <2>2, StatementsAppend, BlankIsNone
  <2>8. TrimBraces(s) = Append(f, "open")
    BY <1>1 DEF TrimBraces, f
  <2>9. Append(f, "open") \in Seq(E) /\ Append(f, "open") # <<>>
    BY <2>2
  <2>. QED BY <1>1, <2>6, <2>7, <2>8, <2>9
<1>2. CASE ~(s # <<>> /\ Last(s) = "block")
  BY <1>2 DEF TrimBraces
<1>. QED BY <1>1, <1>2

\* The provers do not take a literal for a string.
Line == STRING \cup {"open"}

\* strip_fences() counts the fences before a line, Enclosed those behind it.
LEMMA InFenceIsEnclosed ==
  ASSUME NEW r \in Seq(Line), NEW t \in Seq(Line), NEW a, TrimmedTo(r, t, a),
         NEW k \in 1 .. Len(t), t[k] # "fence"
  PROVE  InFence(t, k) <=> Enclosed(r, a + k)
<1>. DEFINE all == {j \in DOMAIN r : r[j] = "fence"}
            next == {j \in DOMAIN r : j > a + k /\ r[j] = "fence"}
            first == {j \in DOMAIN r : j < a + k /\ r[j] = "fence"}
            before == {j \in 1 .. k - 1 : t[j] = "fence"}
<1>1. /\ Len(r) \in Nat /\ DOMAIN r = 1 .. Len(r) /\ Len(t) \in Nat /\ k \in Nat
      /\ a \in Nat /\ a + Len(t) <= Len(r)
      /\ \A j \in 1 .. Len(t) : t[j] = r[a + j]
      /\ \A j \in 1 .. Len(r) : j - a \notin 1 .. Len(t) => r[j] = "blank"
  BY DEF TrimmedTo
<1>2. all = first \cup next /\ first \cap next = {}
  <2>1. r[a + k] # "fence" /\ a + k \in Nat
    BY <1>1
  <2>2. ASSUME NEW j \in 1 .. Len(r), r[j] = "fence"
        PROVE  /\ j \in Nat /\ j # a + k
               /\ j < a + k \/ j > a + k
               /\ ~(j < a + k /\ j > a + k)
    BY <2>1, <2>2
  <2>3. /\ all = {j \in 1 .. Len(r) : r[j] = "fence"}
        /\ next = {j \in 1 .. Len(r) : j > a + k /\ r[j] = "fence"}
        /\ first = {j \in 1 .. Len(r) : j < a + k /\ r[j] = "fence"}
    BY <1>1
  <2>. HIDE DEF all, next, first
  <2>. QED BY <2>2, <2>3
<1>3. IsFiniteSet(first) /\ IsFiniteSet(next) /\ IsFiniteSet(before)
  <2>1. IsFiniteSet(1 .. Len(r)) /\ IsFiniteSet(1 .. k - 1)
    BY <1>1, FS_Interval
  <2>2. first \subseteq 1 .. Len(r) /\ next \subseteq 1 .. Len(r) /\ before \subseteq 1 .. k - 1
    BY <1>1
  <2>. HIDE DEF first, next, before
  <2>. QED BY <2>1, <2>2, FS_Subset
<1>4. Cardinality(first) = Cardinality(before)
  <2>. DEFINE f == [j \in before |-> a + j]
  <2>1. ASSUME NEW j \in before PROVE a + j \in first
    <3>1. j \in 1 .. k - 1 /\ t[j] = "fence"
      OBVIOUS
    <3>2. j \in 1 .. Len(t) /\ a + j < a + k /\ a + j \in 1 .. Len(r)
      BY <1>1, <3>1
    <3>3. r[a + j] = "fence"
      BY <1>1, <3>1, <3>2
    <3>. QED BY <1>1, <3>2, <3>3
  <2>2. ASSUME NEW i \in first PROVE i - a \in before /\ a + (i - a) = i
    <3>1. i \in 1 .. Len(r) /\ i < a + k /\ r[i] = "fence"
      BY <1>1
    <3>2. i - a \in 1 .. Len(t)
      BY <1>1, <3>1
    <3>3. a + (i - a) = i /\ i - a \in 1 .. k - 1
      BY <1>1, <3>1, <3>2
    <3>4. t[i - a] = r[i]
      BY <1>1, <3>2, <3>3
    <3>. QED BY <3>1, <3>3, <3>4
  <2>3. \A j \in before : j \in Nat
    BY <1>1
  <2>. HIDE DEF before, first
  <2>4. f \in Surjection(before, first)
    BY <2>1, <2>2 DEF Surjection
  <2>5. f \in Injection(before, first)
    BY <1>1, <2>1, <2>3 DEF Injection, IsInjective
  <2>6. ExistsBijection(before, first)
    BY <2>4, <2>5 DEF ExistsBijection, Bijection
  <2>. QED BY <1>3, <2>6, FS_Bijection
<1>5. Cardinality(first) \in Nat /\ Cardinality(next) \in Nat
  BY <1>3, FS_CardinalityType
<1>6. Cardinality(all) = Cardinality(first) + Cardinality(next)
  <2>. HIDE DEF all, first, next
  <2>1. Cardinality(first \cup next) =
          Cardinality(first) + Cardinality(next) - Cardinality(first \cap next)
    BY <1>3, FS_Union
  <2>2. Cardinality(first \cap next) = 0
    BY <1>2, FS_EmptySet
  <2>. QED BY <1>2, <1>5, <2>1, <2>2
<1>7. \A x, y \in Nat : (x + y) % 2 # y % 2 <=> x % 2 = 1
  OBVIOUS
<1>8. InFence(t, k) <=> Cardinality(before) % 2 = 1
  BY DEF InFence, FencesBefore
<1>9. Enclosed(r, a + k) <=> Cardinality(all) % 2 # Cardinality(next) % 2
  BY DEF Enclosed
<1>. HIDE DEF all, first, next, before
<1>. QED BY <1>4, <1>5, <1>6, <1>7, <1>8, <1>9, SMTT(60)

\* Whether the answer begins with a fence and its fences enclose any code.
Fenced(r) ==
  /\ Trim(r)[1] = "fence"
  /\ \E i \in DOMAIN r : Enclosed(r, i) /\ r[i] \notin {"fence", "fn", "close", "blank"}

\* strip_fences() takes the statements between the fences, or all of them.
LEMMA StripsFences ==
  ASSUME NEW r \in Seq(Line), StripFences(Trim(r)) # <<>>
  PROVE  Statements(StripFences(Trim(r))) =
           Statements(Keep(r, {i \in DOMAIN r : Fenced(r) => Enclosed(r, i)}))
<1>. DEFINE t == Trim(r)
            ins == {i \in DOMAIN t : InFence(t, i) /\ t[i] \notin {"fence", "fn", "close"}}
            K == Keep(t, ins)
            kept == TrimBraces(Trim(K))
            inside == {i \in DOMAIN r : Fenced(r) => Enclosed(r, i)}
<1>1. PICK a : t \in Seq(Line) /\ TrimmedTo(r, t, a)
  BY Trims
<1>2. StripFences(t) = IF t = <<>> \/ t[1] # "fence" \/ kept = <<>> THEN t ELSE kept
  BY DEF StripFences
<1>. HIDE DEF t
<1>3. /\ Len(r) \in Nat /\ DOMAIN r = 1 .. Len(r) /\ Len(t) \in Nat /\ DOMAIN t = 1 .. Len(t)
      /\ a \in Nat /\ a + Len(t) <= Len(r)
      /\ \A j \in 1 .. Len(t) : t[j] = r[a + j]
      /\ \A j \in 1 .. Len(r) : j - a \notin 1 .. Len(t) => r[j] = "blank"
  BY <1>1 DEF TrimmedTo
<1>4. ASSUME NEW i \in 1 .. Len(t), t[i] # "fence" PROVE InFence(t, i) <=> Enclosed(r, a + i)
  BY <1>1, <1>4, InFenceIsEnclosed
<1>5. K \in Seq(Line) /\ Trim(K) \in Seq(Line) /\ DOMAIN K = 1 .. Len(K)
  <2>1. K \in Seq(Line)
    BY <1>1, Keeps
  <2>. HIDE DEF K
  <2>. QED BY <2>1, Trims
<1>14. /\ Statements(TrimBraces(Trim(K))) = Statements(Trim(K))
       /\ TrimBraces(Trim(K)) = <<>> <=> Trim(K) = <<>>
  <2>. DEFINE u == Trim(K)
  <2>1. u \in Seq(Line) /\ "open" \in Line
    <3>1. u \in Seq(Line)
      BY <1>5
    <3>2. "open" \in Line
      BY DEF Line
    <3>. QED BY <3>1, <3>2
  <2>. HIDE DEF u
  <2>2. /\ Statements(TrimBraces(u)) = Statements(u)
        /\ TrimBraces(u) = <<>> <=> u = <<>>
    BY <2>1, StatementsUnbraced
  <2>. QED BY <2>2 DEF u
<1>6. kept = <<>> <=> \A i \in ins : t[i] = "blank"
  <2>1. Trim(K) = <<>> <=> \A i \in DOMAIN K : K[i] = "blank"
    BY <1>5, Trims
  <2>2. kept = <<>> <=> Trim(K) = <<>>
    BY <1>14
  <2>3. \A c : (\E i \in DOMAIN K : K[i] = c) <=> \E i \in ins \cap DOMAIN t : t[i] = c
    BY <1>1, StatementsKept
  <2>4. ins \cap DOMAIN t = ins
    OBVIOUS
  <2>. HIDE DEF K, ins, kept
  <2>. QED BY <2>1, <2>2, <2>3, <2>4
<1>7. (\E i \in ins : t[i] # "blank")
        <=> \E i \in DOMAIN r : Enclosed(r, i) /\ r[i] \notin {"fence", "fn", "close", "blank"}
  <2>1. ASSUME NEW i \in ins, t[i] # "blank"
        PROVE  \E j \in DOMAIN r : Enclosed(r, j) /\ r[j] \notin {"fence", "fn", "close", "blank"}
    <3>1. /\ i \in 1 .. Len(t) /\ InFence(t, i) /\ t[i] \notin {"fence", "fn", "close"}
          /\ t[i] = r[a + i] /\ a + i \in 1 .. Len(r)
      BY <1>3
    <3>2. Enclosed(r, a + i)
      BY <1>4, <3>1
    <3>. QED BY <1>3, <2>1, <3>1, <3>2
  <2>2. ASSUME NEW j \in DOMAIN r, Enclosed(r, j),
               r[j] \notin {"fence", "fn", "close", "blank"}
        PROVE  \E i \in ins : t[i] # "blank"
    <3>1. j - a \in 1 .. Len(t) /\ a + (j - a) = j
      BY <1>3, <2>2
    <3>2. t[j - a] = r[j]
      BY <1>3, <3>1
    <3>3. InFence(t, j - a)
      BY <1>4, <2>2, <3>1, <3>2
    <3>4. j - a \in ins
      BY <1>3, <2>2, <3>1, <3>2, <3>3
    <3>. QED BY <2>2, <3>2, <3>4
  <2>. QED BY <2>1, <2>2
<1>8. Fenced(r) <=> t[1] = "fence" /\ kept # <<>>
  <2>1. Fenced(r) <=> t[1] = "fence" /\ \E i \in ins : t[i] # "blank"
    BY <1>7 DEF Fenced, t
  <2>. HIDE DEF ins, kept
  <2>. QED BY <1>6, <2>1
<1>9. StripFences(t) # <<>>
  BY DEF t
<1>10. Statements(r) = Statements(t)
  BY StatementsTrimmed DEF t
<1>11. Statements(Keep(r, inside)) = Keep(r, {i \in inside \cap DOMAIN r : Statement(r[i])})
  BY StatementsKept
<1>12. CASE ~Fenced(r)
  <2>1. StripFences(t) = t
    BY <1>2, <1>8, <1>12
  <2>2. {i \in inside \cap DOMAIN r : Statement(r[i])} = {i \in DOMAIN r : Statement(r[i])}
    BY <1>12
  <2>3. Statements(Keep(r, inside)) = Statements(r)
    BY <1>11, <2>2 DEF Statements
  <2>. QED BY <1>10, <2>1, <2>3 DEF t
<1>13. CASE Fenced(r)
  <2>. DEFINE T == {i \in ins \cap DOMAIN t : Statement(t[i])}
              R == {i \in inside \cap DOMAIN r : Statement(r[i])}
  <2>1. StripFences(t) = kept
    BY <1>2, <1>8, <1>9, <1>13
  <2>2. Statements(kept) = Statements(Trim(K))
    BY <1>14
  <2>3. Statements(Trim(K)) = Statements(K)
    BY <1>5, StatementsTrimmed
  <2>4. Statements(K) = Keep(t, T)
    BY <1>1, StatementsKept
  <2>5. ASSUME NEW k \in 1 .. Len(r)
        PROVE  k \in R <=> k - a \in 1 .. Len(t) /\ k - a \in T
    <3>1. k \in R <=> Enclosed(r, k) /\ Statement(r[k])
      BY <1>3, <1>13
    <3>2. CASE k - a \in 1 .. Len(t)
      <4>1. a + (k - a) = k
        BY <1>3
      <4>2. t[k - a] = r[k]
        BY <1>3, <3>2, <4>1
      <4>3. k - a \in T <=> InFence(t, k - a) /\ Statement(t[k - a])
        BY <1>3, <3>2 DEF Statement
      <4>4. Statement(t[k - a]) => (InFence(t, k - a) <=> Enclosed(r, k))
        BY <1>4, <3>2, <4>1 DEF Statement
      <4>. HIDE DEF T, R
      <4>. QED BY <3>1, <3>2, <4>2, <4>3, <4>4
    <3>3. CASE k - a \notin 1 .. Len(t)
      BY <1>3, <3>1, <3>3, BlankIsNone
    <3>. QED BY <3>2, <3>3
  <2>6. Keep(r, R) = Keep(t, T)
    <3>. HIDE DEF R, T
    <3>. QED BY <1>1, <1>3, <2>5, KeepsInPart
  <2>. HIDE DEF K, kept, inside
  <2>. QED BY <1>11, <2>1, <2>2, <2>3, <2>4, <2>6 DEF t, inside
<1>. QED BY <1>12, <1>13

LEMMA TwoInARow ==
  ASSUME NEW E, NEW a \in Seq(E), NEW b \in Seq(E)
  PROVE  /\ a \o b \in Seq(E) /\ Len(a \o b) = Len(a) + Len(b)
         /\ \A i \in 1 .. Len(a) : (a \o b)[i] = a[i]
         /\ \A i \in 1 .. Len(b) : (a \o b)[Len(a) + i] = b[i]
OBVIOUS

LEMMA ThreeInARow ==
  ASSUME NEW E, NEW a \in Seq(E), NEW b \in Seq(E), NEW c \in Seq(E)
  PROVE  /\ a \o b \o c \in Seq(E)
         /\ Len(a \o b \o c) = Len(a) + Len(b) + Len(c)
         /\ \A i \in 1 .. Len(a) : (a \o b \o c)[i] = a[i]
         /\ \A i \in 1 .. Len(b) : (a \o b \o c)[Len(a) + i] = b[i]
         /\ \A i \in 1 .. Len(c) : (a \o b \o c)[Len(a) + Len(b) + i] = c[i]
<1>. DEFINE ab == a \o b
<1>1. Len(a) \in Nat /\ Len(b) \in Nat /\ Len(c) \in Nat
  OBVIOUS
<1>2. /\ ab \in Seq(E) /\ Len(ab) = Len(a) + Len(b)
      /\ \A i \in 1 .. Len(a) : ab[i] = a[i]
      /\ \A i \in 1 .. Len(b) : ab[Len(a) + i] = b[i]
  OBVIOUS
<1>. HIDE DEF ab
<1>. DEFINE abc == ab \o c
<1>3. /\ abc \in Seq(E) /\ Len(abc) = Len(ab) + Len(c)
      /\ \A i \in 1 .. Len(ab) : abc[i] = ab[i]
      /\ \A i \in 1 .. Len(c) : abc[Len(ab) + i] = c[i]
  <2>1. ab \in Seq(E)
    BY <1>2
  <2>. QED BY ONLY <2>1, c \in Seq(E), TwoInARow
<1>. HIDE DEF abc
<1>4. \A i \in 1 .. Len(a) : abc[i] = a[i]
  BY <1>1, <1>2, <1>3
<1>5. \A i \in 1 .. Len(b) : abc[Len(a) + i] = b[i]
  BY <1>1, <1>2, <1>3
<1>6. /\ abc \in Seq(E) /\ Len(abc) = Len(a) + Len(b) + Len(c)
      /\ \A i \in 1 .. Len(c) : abc[Len(a) + Len(b) + i] = c[i]
  BY <1>1, <1>2, <1>3
<1>. QED BY <1>4, <1>5, <1>6 DEF ab, abc

LEMMA MiddleIs ==
  ASSUME NEW E, NEW a \in Seq(E), NEW b \in Seq(E), NEW c \in Seq(E)
  PROVE  SubSeq(a \o b \o c, Len(a) + 1, Len(a \o b \o c) - Len(c)) = b
<1>. DEFINE s == a \o b \o c
            lo == Len(a) + 1
            hi == Len(s) - Len(c)
<1>1. /\ s \in Seq(E) /\ Len(s) = Len(a) + Len(b) + Len(c)
      /\ \A i \in 1 .. Len(b) : s[Len(a) + i] = b[i]
      /\ Len(a) \in Nat /\ Len(b) \in Nat /\ Len(c) \in Nat
  BY ThreeInARow
<1>. HIDE DEF s
<1>2. /\ lo \in Nat \ {0} /\ hi \in Nat /\ hi <= Len(s)
      /\ hi - lo + 1 = Len(b) /\ (lo > hi => Len(b) = 0)
      /\ \A i \in 1 .. Len(b) : lo + i - 1 = Len(a) + i
  BY <1>1
<1>. HIDE DEF lo, hi
<1>3. /\ SubSeq(s, lo, hi) \in Seq(E)
      /\ Len(SubSeq(s, lo, hi)) = IF lo <= hi THEN hi - lo + 1 ELSE 0
      /\ \A i \in 1 .. hi - lo + 1 : SubSeq(s, lo, hi)[i] = s[lo + i - 1]
  BY <1>1, <1>2, CutIs
<1>4. Len(SubSeq(s, lo, hi)) = Len(b)
  BY <1>2, <1>3
<1>5. \A i \in 1 .. Len(b) : SubSeq(s, lo, hi)[i] = b[i]
  BY <1>1, <1>2, <1>3
<1>6. SubSeq(s, lo, hi) = b
  BY <1>3, <1>4, <1>5, SeqEqual
<1>. QED BY <1>6 DEF s, lo, hi

\* existing.find() finds the first.
LEMMA FirstIs ==
  ASSUME NEW s \in Seq(Line), NEW l, Contains(s, l)
  PROVE  /\ FirstOf(s, l) \in 1 .. Len(s) /\ s[FirstOf(s, l)] = l
         /\ \A i \in 1 .. Len(s) : s[i] = l => FirstOf(s, l) <= i
<1>. DEFINE S == {i \in DOMAIN s : s[i] = l}
<1>1. Len(s) \in Nat /\ DOMAIN s = 1 .. Len(s) /\ S \in SUBSET (1 .. Len(s)) /\ S # {}
  BY DEF Contains
<1>. HIDE DEF S
<1>2. Min(S) \in S /\ \A y \in S : Min(S) <= y
  BY <1>1, LeastOf
<1>. QED BY <1>1, <1>2 DEF FirstOf, S

LEMMA FirstIsIt ==
  ASSUME NEW s \in Seq(Line), NEW l, NEW k \in 1 .. Len(s), s[k] = l,
         \A i \in 1 .. Len(s) : s[i] = l => k <= i
  PROVE  FirstOf(s, l) = k /\ Contains(s, l)
<1>1. Contains(s, l) /\ Len(s) \in Nat
  BY DEF Contains
<1>2. FirstOf(s, l) <= k /\ k <= FirstOf(s, l) /\ FirstOf(s, l) \in Nat
  BY <1>1, FirstIs
<1>. QED BY <1>1, <1>2

LEMMA PartsAre ==
  ASSUME NEW s \in Seq(Line), HasMarkers(s)
  PROVE  /\ UpToStart(s) \in Seq(Line) /\ Len(UpToStart(s)) = FirstOf(s, "START")
         /\ \A i \in 1 .. Len(UpToStart(s)) : UpToStart(s)[i] = s[i]
         /\ FromEnd(s) \in Seq(Line) /\ Len(FromEnd(s)) = Len(s) - FirstOf(s, "END") + 1
         /\ \A i \in 1 .. Len(FromEnd(s)) : FromEnd(s)[i] = s[FirstOf(s, "END") + i - 1]
<1>. DEFINE p == FirstOf(s, "START")
            q == FirstOf(s, "END")
<1>1. p \in 1 .. Len(s) /\ q \in 1 .. Len(s) /\ Len(s) \in Nat
  BY FirstIs DEF HasMarkers
<1>. HIDE DEF p, q
<1>2. /\ SubSeq(s, 1, p) \in Seq(Line) /\ Len(SubSeq(s, 1, p)) = p
      /\ \A i \in 1 .. p : SubSeq(s, 1, p)[i] = s[i]
  <2>1. 1 \in Nat \ {0} /\ p \in Nat /\ p <= Len(s) /\ 1 <= p
    BY <1>1
  <2>2. /\ SubSeq(s, 1, p) \in Seq(Line)
        /\ Len(SubSeq(s, 1, p)) = IF 1 <= p THEN p - 1 + 1 ELSE 0
        /\ \A i \in 1 .. p - 1 + 1 : SubSeq(s, 1, p)[i] = s[1 + i - 1]
    BY <2>1, CutIs
  <2>3. p - 1 + 1 = p /\ \A i \in 1 .. p : 1 + i - 1 = i
    BY <1>1
  <2>. QED BY <2>1, <2>2, <2>3
<1>3. /\ SubSeq(s, q, Len(s)) \in Seq(Line) /\ Len(SubSeq(s, q, Len(s))) = Len(s) - q + 1
      /\ \A i \in 1 .. Len(s) - q + 1 : SubSeq(s, q, Len(s))[i] = s[q + i - 1]
  <2>1. q \in Nat \ {0} /\ Len(s) \in Nat /\ Len(s) <= Len(s) /\ q <= Len(s)
    BY <1>1
  <2>. QED BY <2>1, CutIs
<1>. QED BY <1>2, <1>3 DEF UpToStart, FromEnd, p, q

LEMMA OnceIs ==
  ASSUME NEW s \in Seq(Line), NEW l
  PROVE  Once(s, l) <=> \E k \in 1 .. Len(s) : /\ s[k] = l
                                               /\ \A i \in 1 .. Len(s) : s[i] = l => i = k
<1>. DEFINE S == {i \in DOMAIN s : s[i] = l}
<1>1. Len(s) \in Nat /\ DOMAIN s = 1 .. Len(s) /\ S \subseteq 1 .. Len(s)
  OBVIOUS
<1>2. IsFiniteSet(S)
  <2>1. IsFiniteSet(1 .. Len(s))
    BY <1>1, FS_Interval
  <2>. HIDE DEF S
  <2>. QED BY <1>1, <2>1, FS_Subset
<1>3. Cardinality(S) = 1 <=> \E k : S = {k}
  <2>. HIDE DEF S
  <2>1. (IsFiniteSet(S) /\ Cardinality(S) = 1) <=> \E x : S = {x}
    BY FS_Singleton, Zenon
  <2>. QED BY <1>2, <2>1
<1>4. (\E k : S = {k}) <=> \E k \in 1 .. Len(s) : /\ s[k] = l
                                                  /\ \A i \in 1 .. Len(s) : s[i] = l => i = k
  <2>1. ASSUME NEW k, S = {k}
        PROVE  k \in 1 .. Len(s) /\ s[k] = l /\ \A i \in 1 .. Len(s) : s[i] = l => i = k
    <3>1. k \in S /\ \A i \in S : i = k
      BY <2>1
    <3>. QED BY <1>1, <3>1
  <2>2. ASSUME NEW k \in 1 .. Len(s), s[k] = l, \A i \in 1 .. Len(s) : s[i] = l => i = k
        PROVE  S = {k}
    BY <1>1, <2>2
  <2>. HIDE DEF S
  <2>. QED BY <2>1, <2>2
<1>. QED BY <1>3, <1>4 DEF Once

\* What Build makes of main.rs: the markers are where they were, and where one
\* end marker is left it is the one that Build has put there.
LEMMA BodyReplaced ==
  ASSUME NEW s \in Seq(Line), HasMarkers(s), NEW b \in Seq(Line)
  PROVE  LET t == UpToStart(s) \o b \o FromEnd(s) IN
         /\ t \in Seq(Line) /\ HasMarkers(t) /\ UpToStart(t) = UpToStart(s)
         /\ Once(t, "END") => Once(s, "END") /\ FromEnd(t) = FromEnd(s)
<1>. DEFINE u == UpToStart(s)
            f == FromEnd(s)
            t == u \o b \o f
            p == FirstOf(s, "START")
            q == FirstOf(s, "END")
            e == Len(u) + Len(b) + 1
<1>1. /\ p \in 1 .. Len(s) /\ s[p] = "START"
      /\ \A i \in 1 .. Len(s) : s[i] = "START" => p <= i
  BY FirstIs DEF HasMarkers
<1>2. /\ q \in 1 .. Len(s) /\ s[q] = "END"
      /\ \A i \in 1 .. Len(s) : s[i] = "END" => q <= i
  BY FirstIs DEF HasMarkers
<1>3. /\ u \in Seq(Line) /\ Len(u) = p /\ \A i \in 1 .. Len(u) : u[i] = s[i]
      /\ f \in Seq(Line) /\ Len(f) = Len(s) - q + 1
      /\ \A i \in 1 .. Len(f) : f[i] = s[q + i - 1]
  BY PartsAre
<1>. HIDE DEF u, f, p, q
<1>4. /\ t \in Seq(Line) /\ Len(t) = Len(u) + Len(b) + Len(f)
      /\ \A i \in 1 .. Len(u) : t[i] = u[i]
      /\ \A i \in 1 .. Len(b) : t[Len(u) + i] = b[i]
      /\ \A i \in 1 .. Len(f) : t[Len(u) + Len(b) + i] = f[i]
  <2>1. u \in Seq(Line) /\ b \in Seq(Line) /\ f \in Seq(Line)
    BY <1>3
  <2>2. \A x, y, z \in Seq(Line) :
          /\ x \o y \o z \in Seq(Line) /\ Len(x \o y \o z) = Len(x) + Len(y) + Len(z)
          /\ \A i \in 1 .. Len(x) : (x \o y \o z)[i] = x[i]
          /\ \A i \in 1 .. Len(y) : (x \o y \o z)[Len(x) + i] = y[i]
          /\ \A i \in 1 .. Len(z) : (x \o y \o z)[Len(x) + Len(y) + i] = z[i]
    BY ONLY ThreeInARow, SMTT(60)
  <2>. QED BY ONLY <2>1, <2>2, ZenonT(90)
<1>. HIDE DEF t
<1>5. Len(s) \in Nat /\ Len(b) \in Nat /\ Len(u) \in Nat \ {0} /\ Len(f) \in Nat \ {0}
  BY <1>1, <1>2, <1>3
<1>6. FirstOf(t, "START") = p /\ Contains(t, "START")
  <2>1. p \in 1 .. Len(t) /\ t[p] = "START"
    BY <1>1, <1>3, <1>4, <1>5
  <2>2. ASSUME NEW i \in 1 .. Len(t), t[i] = "START" PROVE p <= i
    <3>1. CASE i \in 1 .. Len(u)
      <4>1. s[i] = "START" /\ i \in 1 .. Len(s)
        BY <1>1, <1>3, <1>4, <2>2, <3>1
      <4>. QED BY <1>1, <4>1
    <3>2. CASE i \notin 1 .. Len(u)
      BY <1>3, <1>5, <3>2
    <3>. QED BY <3>1, <3>2
  <2>. QED BY <1>4, <2>1, <2>2, FirstIsIt
<1>7. e \in 1 .. Len(t) /\ t[e] = "END"
  <2>1. f[1] = s[q + 1 - 1] /\ q + 1 - 1 = q /\ 1 \in 1 .. Len(f)
    BY <1>2, <1>3, <1>5
  <2>2. t[Len(u) + Len(b) + 1] = f[1]
    BY <1>4, <2>1
  <2>. QED BY <1>2, <1>4, <1>5, <2>1, <2>2
<1>. HIDE DEF e
<1>8. HasMarkers(t)
  BY <1>6, <1>7 DEF HasMarkers, Contains
<1>9. UpToStart(t) = u
  <2>. DEFINE vv == UpToStart(t)
  <2>1. vv \in Seq(Line) /\ Len(vv) = p /\ \A i \in 1 .. Len(vv) : vv[i] = t[i]
    BY <1>4, <1>6, <1>8, PartsAre
  <2>. HIDE DEF vv
  <2>2. \A i \in 1 .. Len(u) : vv[i] = u[i]
    BY <1>3, <1>4, <2>1
  <2>3. vv = u
    BY <1>3, <2>1, <2>2, SeqEqual
  <2>. QED BY <2>3 DEF vv
<1>10. ASSUME Once(t, "END") PROVE Once(s, "END") /\ FromEnd(t) = f
  <2>1. \A i \in 1 .. Len(t) : t[i] = "END" => i = e
    BY <1>4, <1>7, <1>10, OnceIs, SMTT(60)
  <2>2. FirstOf(t, "END") = e
    <3>1. \A i \in 1 .. Len(t) : t[i] = "END" => e <= i
      BY <1>4, <1>7, <2>1
    <3>. QED BY <1>4, <1>7, <3>1, FirstIsIt, ZenonT(90)
  <2>. DEFINE g == FromEnd(t)
  <2>3. /\ g \in Seq(Line) /\ Len(g) = Len(t) - e + 1
        /\ \A i \in 1 .. Len(g) : g[i] = t[e + i - 1]
    BY <1>4, <1>8, <2>2, PartsAre
  <2>. HIDE DEF g
  <2>4. Len(g) = Len(f) /\ \A i \in 1 .. Len(f) : e + i - 1 = Len(u) + Len(b) + i
    BY <1>4, <1>5, <2>3 DEF e
  <2>5. \A i \in 1 .. Len(f) : g[i] = f[i]
    BY <1>4, <2>3, <2>4
  <2>6. g = f
    BY <1>3, <2>3, <2>4, <2>5, SeqEqual
  <2>7. ASSUME NEW i \in 1 .. Len(s), s[i] = "END" PROVE i = q
    <3>1. q <= i /\ i - q + 1 \in 1 .. Len(f) /\ q + (i - q + 1) - 1 = i
      BY <1>2, <1>3, <1>5, <2>7
    <3>2. f[i - q + 1] = "END"
      BY <1>3, <2>7, <3>1
    <3>3. t[Len(u) + Len(b) + (i - q + 1)] = "END"
      BY <1>4, <3>1, <3>2
    <3>4. Len(u) + Len(b) + (i - q + 1) = e
      <4>1. Len(u) + Len(b) + (i - q + 1) \in 1 .. Len(t)
        BY <1>4, <1>5, <3>1
      <4>. QED BY <2>1, <3>3, <4>1
    <3>. QED BY <1>2, <1>5, <3>4 DEF e
  <2>8. Once(s, "END")
    BY <1>2, <2>7, OnceIs
  <2>. QED BY <2>6, <2>8 DEF g
<1>. QED BY <1>4, <1>8, <1>9, <1>10 DEF t, u, f

LEMMA StripsToLines ==
  ASSUME NEW r \in Seq(Line) PROVE StripFences(Trim(r)) \in Seq(Line)
<1>. DEFINE t == Trim(r)
            ins == {i \in DOMAIN t : InFence(t, i) /\ t[i] \notin {"fence", "fn", "close"}}
            u == Trim(Keep(t, ins))
<1>1. t \in Seq(Line)
  BY Trims
<1>. HIDE DEF t
<1>2. Keep(t, ins) \in Seq(Line)
  BY <1>1, Keeps
<1>3. u \in Seq(Line)
  <2>. DEFINE k == Keep(t, ins)
  <2>. HIDE DEF k
  <2>1. k \in Seq(Line)
    BY <1>2 DEF k
  <2>2. Trim(k) \in Seq(Line)
    BY <2>1, Trims
  <2>. QED BY <2>2 DEF k
<1>4. StripFences(t) \in {t, TrimBraces(u)}
  BY DEF StripFences
<1>. HIDE DEF u
<1>5. TrimBraces(u) \in Seq(Line)
  BY <1>3, StatementsUnbraced DEF Line
<1>6. StripFences(t) \in Seq(Line)
  BY <1>1, <1>4, <1>5
<1>. QED BY <1>6 DEF t

-----------------------------------------------------------------------------

\* What BuiltFromAnswer needs to be inductive: whatever main.rs has become, its
\* start is the original one, and so is its end while one end marker is in it.
BuildInv ==
  /\ main \in Seq(Line) /\ original \in Seq(Line) /\ response \in Seq(Line)
  /\ HasMarkers(main) => HasMarkers(original) /\ UpToStart(main) = UpToStart(original)
  /\ HasMarkers(main) /\ Once(main, "END") => FromEnd(main) = FromEnd(original)
  /\ reply.ok =>
       /\ reply.text = main /\ HasMarkers(main)
       /\ StripFences(Trim(response)) # <<>>
       /\ \E tail \in Seq(Line) :
            /\ main = UpToStart(original) \o StripFences(Trim(response)) \o tail
            /\ Once(main, "END") => tail = FromEnd(original)

LEMMA TextsAreLines == Mains \subseteq Seq(Line) /\ Responses \subseteq Seq(Line)
<1>1. ASSUME NEW s \in Seq(STRING) PROVE s \in Seq(Line)
  BY DEF Line
<1>. QED BY <1>1, BuildAssumption

LEMMA BuildInitInv == BuildInit => BuildInv
BY TextsAreLines DEF BuildInit, BuildInv, Failure

LEMMA OkReplies ==
  ASSUME NEW x, NEW y
  PROVE  /\ x = Failure(y) => ~x.ok
         /\ x = Delivered(y) => x.text = y
BY DEF Failure, Delivered

LEMMA BuildStepInv == BuildInv /\ [BuildNext]_buildVars => BuildInv'
<1>. SUFFICES ASSUME BuildInv, [BuildNext]_buildVars PROVE BuildInv'
  OBVIOUS
<1>. USE DEF BuildInv
<1>1. CASE LlmFails
  BY <1>1 DEF LlmFails, Asking, Failure
<1>2. CASE NothingToBuild
  <2>1. main' = main /\ original' = original /\ response' \in Responses /\ ~reply'.ok
    <3>1. main' = main /\ original' = original
      BY <1>2 DEF NothingToBuild, Asking
    <3>2. PICK r \in Responses :
            /\ response' = r
            /\ reply' = Failure("too short") \/ reply' = Failure("dropped")
      BY <1>2 DEF NothingToBuild
    <3>3. ~reply'.ok
      BY <3>2, OkReplies
    <3>. QED BY <3>1, <3>2, <3>3
  <2>. QED BY <2>1, TextsAreLines
<1>3. CASE Build
  <2>1. HasMarkers(main) /\ original' = original
    BY <1>3 DEF Build, Asking
  <2>2. PICK r \in Responses, ok \in BOOLEAN :
          LET body == StripFences(Trim(r)) IN
          /\ body # <<>>
          /\ response' = r
          /\ main' = UpToStart(main) \o body \o FromEnd(main)
          /\ binary' = IF ok THEN main' ELSE binary
          /\ \/ reply' = Built(ok, binary')
             \/ ok /\ reply' = Failure("too large")
    BY <1>3 DEF Build
  <2>. DEFINE b == StripFences(Trim(r))
  <2>3. r \in Seq(Line) /\ b \in Seq(Line)
    BY TextsAreLines, StripsToLines
  <2>4. b # <<>> /\ response' = r /\ main' = UpToStart(main) \o b \o FromEnd(main)
    BY <2>2
  <2>5. reply'.ok => reply'.text = main'
    <3>2. CASE ok
      <4>1. binary' = main'
        BY <2>2, <3>2
      <4>2. reply' = Delivered(main') \/ reply' = Failure("too large")
        BY <2>2, <3>2, <4>1 DEF Built
      <4>. QED BY <4>2, OkReplies
    <3>3. CASE ~ok
      <4>1. reply' = Failure("BUILD_FAILED")
        BY <2>2, <3>3 DEF Built
      <4>. QED BY <4>1, OkReplies
    <3>. QED BY <3>2, <3>3
  <2>. HIDE DEF b
  <2>6. /\ main' \in Seq(Line) /\ HasMarkers(main') /\ UpToStart(main') = UpToStart(main)
        /\ Once(main', "END") => Once(main, "END") /\ FromEnd(main') = FromEnd(main)
    BY <2>1, <2>3, <2>4, BodyReplaced
  <2>7. FromEnd(main) \in Seq(Line)
    BY <2>1, PartsAre
  <2>8. UpToStart(main) = UpToStart(original)
    BY <2>1
  <2>9. Once(main', "END") => FromEnd(main) = FromEnd(original)
    BY <2>1, <2>6
  <2>10. main' = UpToStart(original) \o b \o FromEnd(main)
    BY <2>4, <2>8
  <2>11. response' \in Seq(Line) /\ original' \in Seq(Line) /\ StripFences(Trim(response')) = b
    BY <2>1, <2>3, <2>4 DEF b
  <2>12. /\ HasMarkers(main') => HasMarkers(original') /\ UpToStart(main') = UpToStart(original')
         /\ HasMarkers(main') /\ Once(main', "END") => FromEnd(main') = FromEnd(original')
    BY <2>1, <2>6, <2>8, <2>9
  <2>13. reply'.ok =>
           /\ reply'.text = main' /\ HasMarkers(main')
           /\ StripFences(Trim(response')) # <<>>
           /\ \E tail \in Seq(Line) :
                /\ main' = UpToStart(original') \o StripFences(Trim(response')) \o tail
                /\ Once(main', "END") => tail = FromEnd(original')
    BY <2>1, <2>4, <2>5, <2>6, <2>7, <2>9, <2>10, <2>11
  <2>. QED BY <2>6, <2>11, <2>12, <2>13
<1>4. CASE UNCHANGED buildVars
  BY <1>4 DEF buildVars
<1>. QED BY <1>1, <1>2, <1>3, <1>4 DEF BuildNext

LEMMA BuildInvImplies == BuildInv => BuiltFromAnswer
<1>. SUFFICES ASSUME BuildInv, reply.ok, Once(main, "END") PROVE BuiltFromAnswer
  BY DEF BuiltFromAnswer
<1>. DEFINE u == UpToStart(original)
            f == FromEnd(original)
            b == StripFences(Trim(response))
            body == SubSeq(reply.text, Len(u) + 1, Len(reply.text) - Len(f))
<1>1. /\ original \in Seq(Line) /\ response \in Seq(Line) /\ HasMarkers(original)
      /\ reply.text = u \o b \o f /\ b # <<>>
  BY DEF BuildInv
<1>2. u \in Seq(Line) /\ f \in Seq(Line) /\ b \in Seq(Line)
  BY <1>1, PartsAre, StripsToLines
<1>3. Statements(b) =
        Statements(Keep(response, {i \in DOMAIN response :
                                     Fenced(response) => Enclosed(response, i)}))
  BY <1>1, StripsFences
<1>. HIDE DEF u, f, b
<1>4. body = b
  BY <1>1, <1>2, MiddleIs
<1>. HIDE DEF body
<1>5. reply.text = u \o body \o f
  BY <1>1, <1>4
<1>. QED BY <1>3, <1>4, <1>5 DEF BuiltFromAnswer, Fenced, u, f, body

\* Whatever main.rs, the LLM's answers, failing builds and the number of requests:
\* the binary that `gen` gets holds the statements of the answer to this request,
\* in order, in the main.rs that the daemon started with (generate_and_build()).
THEOREM BuiltFromAnswerCorrect == BuildSpec => []BuiltFromAnswer
<1>. QED BY BuildInitInv, BuildStepInv, BuildInvImplies, PTL DEF BuildSpec

-----------------------------------------------------------------------------

(***************************************************************************)
(* trim_ascii() and splitn(2).                                             *)
(***************************************************************************)
Trimmed(s) == s # <<>> => ~Blank(s[1]) /\ ~Blank(s[Len(s)])

\* t is what s has behind its first a elements.
Within(s, t, a) ==
  a \in Nat /\ a + Len(t) <= Len(s) /\ \A i \in 1 .. Len(t) : t[i] = s[a + i]

LEMMA CutWithin ==
  ASSUME NEW E, NEW s \in Seq(E), NEW a \in Nat, NEW b \in Nat, a <= b, b <= Len(s)
  PROVE  /\ SubSeq(s, a + 1, b) \in Seq(E) /\ Len(SubSeq(s, a + 1, b)) = b - a
         /\ Within(s, SubSeq(s, a + 1, b), a)
<1>1. a + 1 \in Nat \ {0}
  OBVIOUS
<1>2. /\ SubSeq(s, a + 1, b) \in Seq(E)
      /\ Len(SubSeq(s, a + 1, b)) = IF a + 1 <= b THEN b - (a + 1) + 1 ELSE 0
      /\ \A i \in 1 .. b - (a + 1) + 1 : SubSeq(s, a + 1, b)[i] = s[a + 1 + i - 1]
  BY <1>1, CutIs
<1>. DEFINE t == SubSeq(s, a + 1, b)
<1>. HIDE DEF t
<1>3. Len(t) = b - a
  BY <1>2 DEF t
<1>4. \A i \in 1 .. b - a : t[i] = s[a + i]
  <2>1. b - (a + 1) + 1 = b - a /\ \A i \in 1 .. b - a : a + 1 + i - 1 = a + i
    OBVIOUS
  <2>. QED BY <1>2, <2>1 DEF t
<1>5. Within(s, t, a)
  BY <1>3, <1>4 DEF Within
<1>. QED BY <1>2, <1>3, <1>5 DEF t

LEMMA TrimsTo ==
  ASSUME NEW E, NEW s \in Seq(E)
  PROVE  /\ TrimAscii(s) \in Seq(E) /\ Trimmed(TrimAscii(s))
         /\ \E a : Within(s, TrimAscii(s), a)
         /\ \A i \in 1 .. Len(s) : ~Blank(s[i]) => TrimAscii(s) # <<>>
<1>. DEFINE n == Len(s)
            S == Filled(s)
<1>1. n \in Nat /\ S \in SUBSET (1 .. n) /\ \A i \in 1 .. n : i \in S <=> ~Blank(s[i])
  BY DEF Filled
<1>2. CASE S = {}
  <2>1. TrimAscii(s) = <<>> /\ <<>> \in Seq(E) /\ Len(<<>>) = 0
    BY <1>2 DEF TrimAscii
  <2>2. Within(s, <<>>, 0)
    BY <1>1, <2>1 DEF Within
  <2>. QED BY <1>1, <1>2, <2>1, <2>2 DEF Trimmed
<1>3. CASE S # {}
  <2>. DEFINE lo == Min(S)
              hi == Max(S)
  <2>. HIDE DEF S
  <2>1. lo \in S /\ hi \in S /\ \A i \in S : lo <= i /\ i <= hi
    BY <1>1, <1>3, LeastOf, GreatestOf
  <2>2. TrimAscii(s) = SubSeq(s, lo, hi)
    BY <1>3 DEF TrimAscii, S
  <2>. HIDE DEF lo, hi
  <2>3. /\ lo \in 1 .. n /\ hi \in 1 .. n /\ lo <= hi /\ lo - 1 \in Nat /\ (lo - 1) + 1 = lo
        /\ ~Blank(s[lo]) /\ ~Blank(s[hi])
    BY <1>1, <2>1
  <2>. DEFINE t == SubSeq(s, (lo - 1) + 1, hi)
  <2>4. t \in Seq(E) /\ Len(t) = hi - (lo - 1) /\ Within(s, t, lo - 1)
    BY <1>1, <2>3, CutWithin
  <2>5. TrimAscii(s) = t
    BY <2>2, <2>3
  <2>. HIDE DEF t
  <2>6. /\ 1 \in 1 .. Len(t) /\ Len(t) \in 1 .. Len(t)
        /\ (lo - 1) + 1 = lo /\ (lo - 1) + Len(t) = hi
    BY <1>1, <2>3, <2>4
  <2>7. t[1] = s[lo] /\ t[Len(t)] = s[hi]
    BY <2>4, <2>6 DEF Within
  <2>8. t # <<>> /\ Trimmed(t)
    BY <2>3, <2>6, <2>7 DEF Trimmed
  <2>. QED BY <2>4, <2>5, <2>8
<1>. QED BY <1>2, <1>3

LEMMA TrimPadded ==
  ASSUME NEW E, NEW a \in Seq(E), NEW m \in Seq(E), NEW b \in Seq(E), Trimmed(m),
         \A i \in 1 .. Len(a) : Blank(a[i]), \A i \in 1 .. Len(b) : Blank(b[i])
  PROVE  TrimAscii(a \o m \o b) = m
<1>. DEFINE s == a \o m \o b
            t == TrimAscii(s)
            p == Len(a)
            k == Len(m)
<1>1. /\ s \in Seq(E) /\ Len(s) = p + k + Len(b)
      /\ \A i \in 1 .. p : s[i] = a[i]
      /\ \A i \in 1 .. k : s[p + i] = m[i]
      /\ \A i \in 1 .. Len(b) : s[p + k + i] = b[i]
      /\ p \in Nat /\ k \in Nat /\ Len(b) \in Nat
  BY ThreeInARow
<1>. HIDE DEF s
<1>2. \A i \in 1 .. Len(s) : ~Blank(s[i]) => i \in p + 1 .. p + k
  <2>. SUFFICES ASSUME NEW i \in 1 .. Len(s), ~Blank(s[i]), i \notin p + 1 .. p + k
                PROVE  FALSE
    OBVIOUS
  <2>1. CASE i <= p
    BY <1>1, <2>1
  <2>2. CASE i > p + k
    <3>1. i - (p + k) \in 1 .. Len(b) /\ p + k + (i - (p + k)) = i
      BY <1>1, <2>2
    <3>. QED BY <1>1, <3>1
  <2>. QED BY <1>1, <2>1, <2>2
<1>3. PICK c : t \in Seq(E) /\ Trimmed(t) /\ Within(s, t, c)
  BY <1>1, TrimsTo
<1>4. \A i \in 1 .. Len(s) : ~Blank(s[i]) => t # <<>>
  BY <1>1, TrimsTo
<1>5. /\ c \in Nat /\ c + Len(t) <= Len(s) /\ Len(t) \in Nat
      /\ \A i \in 1 .. Len(t) : t[i] = s[c + i]
  BY <1>3 DEF Within
<1>6. CASE m = <<>>
  <2>1. t = <<>>
    <3>. SUFFICES ASSUME t # <<>> PROVE FALSE
      OBVIOUS
    <3>1. ~Blank(t[1]) /\ 1 \in 1 .. Len(t)
      BY <1>3, <1>5, EmptySeq DEF Trimmed
    <3>2. ~Blank(s[c + 1]) /\ c + 1 \in 1 .. Len(s)
      BY <1>5, <3>1
    <3>3. k = 0
      BY <1>6
    <3>. QED BY <1>1, <1>2, <3>2, <3>3
  <2>. QED BY <1>6, <2>1 DEF s
<1>7. CASE m # <<>>
  <2>1. k \in Nat \ {0} /\ ~Blank(m[1]) /\ ~Blank(m[k])
    BY <1>1, <1>7, EmptySeq DEF Trimmed
  <2>2. /\ ~Blank(s[p + 1]) /\ ~Blank(s[p + k])
        /\ p + 1 \in 1 .. Len(s) /\ p + k \in 1 .. Len(s)
    <3>1. 1 \in 1 .. k /\ k \in 1 .. k
      BY <2>1
    <3>. QED BY <1>1, <2>1, <3>1, SMTT(60)
  <2>. DEFINE lo == Min(Filled(s))
              hi == Max(Filled(s))
              S == Filled(s)
  <2>3. S \in SUBSET (1 .. Len(s)) /\ \A i \in 1 .. Len(s) : i \in S <=> ~Blank(s[i])
    BY <1>1 DEF Filled
  <2>4. p + 1 \in S /\ p + k \in S /\ S # {} /\ \A i \in S : i \in p + 1 .. p + k
    BY <1>2, <2>2, <2>3
  <2>5. lo \in S /\ hi \in S /\ lo <= p + 1 /\ p + k <= hi
    <3>. HIDE DEF S
    <3>1. Min(S) \in S /\ Max(S) \in S /\ Min(S) <= p + 1 /\ p + k <= Max(S)
      <4>1. Len(s) \in Nat /\ S \in SUBSET (1 .. Len(s)) /\ S # {}
        BY <1>1, <2>3, <2>4
      <4>2. Min(S) \in S /\ \A y \in S : Min(S) <= y
        BY ONLY <4>1, LeastOf
      <4>3. Max(S) \in S /\ \A y \in S : Max(S) >= y
        BY ONLY <4>1, GreatestOf
      <4>6. Max(S) \in Int
        <5>1. Max(S) \in S /\ S \subseteq 1 .. Len(s)
          BY <2>3, <4>3
        <5>2. \A i \in 1 .. Len(s) : i \in Int
          OBVIOUS
        <5>. QED BY ONLY <5>1, <5>2
      <4>7. p + k \in Int
        BY <1>1
      <4>8. p + 1 \in S /\ p + k \in S
        BY <2>4
      <4>. HIDE DEF p, k
      <4>4. p + 1 \in S /\ p + k \in S /\ Max(S) \in Int /\ p + k \in Int
        BY <4>6, <4>7, <4>8
      <4>5. Max(S) >= p + k
        BY ONLY <4>3, <4>4
      <4>. QED BY <4>2, <4>3, <4>4, <4>5
    <3>. QED BY <3>1 DEF S
  <2>6. t = SubSeq(s, lo, hi)
    BY <2>4 DEF TrimAscii
  <2>. HIDE DEF lo, hi, S, t
  <2>7. lo = p + 1 /\ hi = p + k
    BY <1>1, <2>4, <2>5
  <2>8. p + k \in Nat /\ p <= p + k /\ p + k <= Len(s) /\ p + k - p = k
    BY <1>1
  <2>9. /\ SubSeq(s, p + 1, p + k) \in Seq(E) /\ Len(SubSeq(s, p + 1, p + k)) = p + k - p
        /\ Within(s, SubSeq(s, p + 1, p + k), p)
    BY <1>1, <2>8, CutWithin
  <2>10. Len(t) = k /\ \A i \in 1 .. k : t[i] = s[p + i]
    BY <2>6, <2>7, <2>8, <2>9 DEF Within
  <2>11. \A i \in 1 .. Len(t) : t[i] = m[i]
    BY <1>1, <2>10
  <2>12. t = m
    BY <1>3, <2>10, <2>11, SeqEqual
  <2>. QED BY <2>12 DEF t, s
<1>. QED BY <1>6, <1>7

LEMMA SplitsTo ==
  ASSUME NEW E, NEW s \in Seq(E)
  PROVE  /\ SplitN(s).head \in Seq({c \in E : ~Blank(c)}) /\ Trimmed(SplitN(s).head)
         /\ SplitN(s).head \in Seq(E)
         /\ SplitN(s).rest \in Seq(E) /\ Trimmed(SplitN(s).rest)
         /\ HasBlank(s) /\ Trimmed(s) => SplitN(s).rest # <<>>
<1>. DEFINE n == Len(s)
            S == {i \in DOMAIN s : Blank(s[i])} \cup {n + 1}
            F == {c \in E : ~Blank(c)}
            k == FirstBlank(s)
            h == SubSeq(s, 1, k - 1)
            x == SubSeq(s, k + 1, n)
<1>1. /\ n \in Nat /\ DOMAIN s = 1 .. n /\ S \in SUBSET (1 .. n + 1) /\ n + 1 \in S
      /\ n + 1 \in Nat
  OBVIOUS
<1>2. k \in S /\ \A i \in S : k <= i
  <2>. HIDE DEF S, n
  <2>1. Min(S) \in S /\ \A i \in S : Min(S) <= i
    BY <1>1, LeastOf
  <2>. QED BY <2>1 DEF FirstBlank, S, n
<1>. HIDE DEF k
<1>3. k \in 1 .. n + 1 /\ \A i \in 1 .. k - 1 : i \in 1 .. n /\ ~Blank(s[i]) /\ s[i] \in E
  BY <1>1, <1>2
<1>4. h \in Seq(F)
  <2>1. \A i \in 1 .. k - 1 : s[i] \in F
    BY <1>3
  <2>. HIDE DEF F
  <2>2. 1 \in Int /\ k - 1 \in Int
    BY <1>3
  <2>. QED BY <2>1, <2>2, SubSeqProperties
<1>5. x \in Seq(E)
  <2>1. \A i \in k + 1 .. n : s[i] \in E
    BY <1>1, <1>3
  <2>2. k + 1 \in Int /\ n \in Int
    BY <1>1, <1>3
  <2>. QED BY <2>1, <2>2, SubSeqProperties
<1>6. HasBlank(s) /\ Trimmed(s) => \E i \in 1 .. Len(x) : ~Blank(x[i])
  <2>. SUFFICES ASSUME HasBlank(s), Trimmed(s) PROVE \E i \in 1 .. Len(x) : ~Blank(x[i])
    OBVIOUS
  <2>1. PICK j \in 1 .. n : Blank(s[j])
    BY <1>1 DEF HasBlank
  <2>2. k <= j
    BY <1>1, <1>2, <2>1
  <2>3. n # 0 /\ ~Blank(s[n]) /\ k <= n
    BY <1>1, <1>3, <2>1, <2>2 DEF Trimmed
  <2>4. Blank(s[k])
    BY <1>1, <1>2, <1>3, <2>3
  <2>5. k < n
    BY <1>1, <1>3, <2>3, <2>4
  <2>6. Len(x) = n - k /\ Within(s, x, k)
    <3>1. k \in Nat /\ n \in Nat /\ k <= n /\ n <= Len(s)
      BY <1>1, <1>3, <2>3
    <3>. HIDE DEF n
    <3>2. /\ Len(SubSeq(s, k + 1, n)) = n - k
          /\ Within(s, SubSeq(s, k + 1, n), k)
      BY ONLY s \in Seq(E), <3>1, CutWithin
    <3>. QED BY <3>2
  <2>. HIDE DEF x
  <2>7. n - k \in 1 .. Len(x) /\ x[n - k] = s[n]
    <3>1. n - k \in 1 .. Len(x) /\ k + (n - k) = n
      BY <1>1, <1>3, <2>5, <2>6
    <3>. QED BY <2>6, <3>1 DEF Within
  <2>. QED BY <2>3, <2>7
<1>. HIDE DEF h, x, F
<1>7. TrimAscii(h) \in Seq(F) /\ Trimmed(TrimAscii(h))
  BY <1>4, TrimsTo
<1>8. /\ TrimAscii(x) \in Seq(E) /\ Trimmed(TrimAscii(x))
      /\ \A i \in 1 .. Len(x) : ~Blank(x[i]) => TrimAscii(x) # <<>>
  BY <1>5, TrimsTo
<1>9. TrimAscii(h) \in Seq(E)
  <2>1. F \subseteq E
    BY DEF F
  <2>. QED BY <1>7, <2>1, SeqMonotonic
<1>10. SplitN(s).head = TrimAscii(h) /\ SplitN(s).rest = TrimAscii(x)
  BY DEF SplitN, h, x, k
<1>. QED BY <1>6, <1>7, <1>8, <1>9, <1>10 DEF F

-----------------------------------------------------------------------------

(***************************************************************************)
(* str::lines().                                                           *)
(***************************************************************************)
Lining == INSTANCE FoldFacts WITH Op <- TakeChar

\* The provers do not take a literal for a string, and Z3 takes none with a
\* blank in it.
Space == " "
Char == STRING \cup {NL, Colon, Space, "[", "]", "x", "general", "today", "Reminder"}
Plain == Char \ {NL}
Reading(ls, l) == [lines |-> ls, line |-> l]

Continues(z, x, y) == z = x \o y

LEMMA AppendedToConcat ==
  ASSUME NEW E, NEW x \in Seq(E), NEW y \in Seq(E), NEW z \in E
  PROVE  Continues(Append(x \o y, z), x, Append(y, z))
<1>. DEFINE u == <<z>>
<1>0. u \in Seq(E)
  OBVIOUS
<1>1. x \o y \in Seq(E)
  BY ConcatProperties
<1>. HIDE DEF u
<1>2. Append(x \o y, z) = (x \o y) \o u /\ Append(y, z) = y \o u
  BY <1>0, <1>1, AppendIsConcat DEF u
<1>3. (x \o y) \o u = x \o (y \o u)
  BY ONLY <1>0, x \in Seq(E), y \in Seq(E), ConcatAssociative, SMTT(60)
<1>. QED BY <1>2, <1>3 DEF Continues

Concatenated(g, E, ss, n) ==
  n \in Nat /\ ss \in [1 .. n -> Seq(E)] /\ Concatenating(g, E, ss, n)

\* Some of the parts in a row, and the rest.
LEMMA ConcatenatingSplits ==
  ASSUME NEW E, NEW n, NEW ss, NEW g, Concatenated(g, E, ss, n), NEW m \in 0 .. n
  PROVE  \E r \in Seq(E) : Continues(FlattenSeq(ss), g[m], r)
<1>. SUFFICES ASSUME n \in Nat, ss \in [1 .. n -> Seq(E)], Concatenating(g, E, ss, n)
              PROVE  \E r \in Seq(E) : FlattenSeq(ss) = g[m] \o r
  BY DEF Concatenated, Continues
<1>. DEFINE Q == {j \in 0 .. n - m : \E r \in Seq(E) : g[m + j] = g[m] \o r}
<1>1. n - m \in Nat /\ m \in Nat /\ \A k \in 0 .. n : g[k] \in Seq(E)
  BY DEF Concatenating
<1>2. 0 \in Q
  <2>1. g[m] \in Seq(E) /\ <<>> \in Seq(E) /\ m + 0 = m
    BY <1>1
  <2>2. g[m] = g[m] \o <<>>
    BY <2>1, ConcatEmptySeq
  <2>3. g[m + 0] = g[m] \o <<>> /\ 0 \in 0 .. n - m
    BY <1>1, <2>1, <2>2
  <2>. QED BY <2>1, <2>3
<1>3. ASSUME NEW j \in 0 .. n - m - 1, j \in Q PROVE j + 1 \in Q
  <2>1. PICK r \in Seq(E) : g[m + j] = g[m] \o r
    BY <1>3
  <2>2. /\ m + (j + 1) \in 1 .. n /\ m + (j + 1) - 1 = m + j /\ j + 1 \in 0 .. n - m
    BY <1>1
  <2>3. g[m + (j + 1)] = g[m + j] \o ss[m + (j + 1)]
    <3>. DEFINE k == m + (j + 1)
                i == m + j
    <3>. HIDE DEF k, i
    <3>1. k \in 1 .. n /\ i = k - 1
      BY <2>2 DEF k, i
    <3>2. \A h \in 1 .. n : g[h] = g[h - 1] \o ss[h]
      BY DEF Concatenating
    <3>3. g[k] = g[i] \o ss[k]
      BY ONLY <3>1, <3>2
    <3>. QED BY <3>3 DEF k, i
  <2>4. g[m] \in Seq(E) /\ ss[m + (j + 1)] \in Seq(E)
    BY <1>1, <2>2
  <2>5. r \o ss[m + (j + 1)] \in Seq(E)
    BY <2>4, ConcatProperties
  <2>6. (g[m] \o r) \o ss[m + (j + 1)] = g[m] \o (r \o ss[m + (j + 1)])
    <3>. DEFINE u == g[m]
                vv == ss[m + (j + 1)]
    <3>. HIDE DEF u, vv
    <3>1. u \in Seq(E) /\ vv \in Seq(E)
      BY <2>4 DEF u, vv
    <3>2. (u \o r) \o vv = u \o (r \o vv)
      BY ONLY <3>1, r \in Seq(E), ConcatAssociative, SMTT(60)
    <3>. QED BY <3>2 DEF u, vv
  <2>. QED BY <2>1, <2>2, <2>3, <2>5, <2>6
<1>4. n - m \in Q
  <2>. HIDE DEF Q
  <2>1. \A j \in 0 .. n - m : j \in Q
    BY <1>1, <1>2, <1>3, Flattening!UpTo
  <2>. QED BY <1>1, <2>1
<1>5. m + (n - m) = n
  OBVIOUS
<1>. QED BY <1>4, <1>5 DEF Concatenating

\* The first parts, taken alone.
LEMMA ConcatenatingFirst ==
  ASSUME NEW E, NEW n, NEW ss, NEW g, Concatenated(g, E, ss, n), NEW m \in 0 .. n,
         NEW tt \in [1 .. m -> Seq(E)], \A k \in 1 .. m : tt[k] = ss[k]
  PROVE  FlattenSeq(tt) = g[m]
<1>. SUFFICES ASSUME n \in Nat, ss \in [1 .. n -> Seq(E)], Concatenating(g, E, ss, n)
              PROVE  FlattenSeq(tt) = g[m]
  BY DEF Concatenated
<1>1. m \in Nat
  OBVIOUS
<1>2. PICK h : Concatenating(h, E, tt, m)
  BY <1>1, Concatenates
<1>. DEFINE Q == {k \in 0 .. m : h[k] = g[k]}
<1>3. 0 \in Q
  BY <1>1, <1>2 DEF Concatenating
<1>4. ASSUME NEW k \in 0 .. m - 1, k \in Q PROVE k + 1 \in Q
  <2>1. k + 1 \in 1 .. m /\ k + 1 \in 1 .. n /\ (k + 1) - 1 = k
    BY <1>1
  <2>2. g[k + 1] = g[k] \o ss[k + 1] /\ h[k + 1] = h[k] \o tt[k + 1]
    BY <1>2, <2>1 DEF Concatenating
  <2>3. tt[k + 1] = ss[k + 1] /\ h[k] = g[k]
    BY <1>4, <2>1
  <2>4. h[k + 1] = g[k + 1] /\ k + 1 \in 0 .. m
    BY <2>1, <2>2, <2>3
  <2>. QED BY <2>4
<1>5. m \in Q
  <2>. HIDE DEF Q
  <2>1. \A k \in 0 .. m : k \in Q
    BY <1>1, <1>3, <1>4, Flattening!UpTo
  <2>. QED BY <1>1, <2>1
<1>. QED BY <1>2, <1>5 DEF Concatenating

LEMMA SpaceIs ==
  /\ \A c : Blank(c) <=> c = Space
  /\ Space # Colon /\ Space # "x" /\ Space # NL /\ Space \in Plain /\ Colon \in Plain
<1>1. \A c : Blank(c) <=> c = Space
  BY DEF Blank, Space
<1>2. Space # Colon
  BY DEF Space, Colon
<1>3. Space # "x"
  BY DEF Space
<1>4. Space # NL
  BY DEF Space, NL
<1>5. Colon # NL
  BY DEF Colon, NL
<1>. QED BY <1>1, <1>2, <1>3, <1>4, <1>5 DEF Plain, Char

LEMMA TakesChar ==
  ASSUME NEW ls, NEW l, NEW c
  PROVE  /\ c = NL => TakeChar(Reading(ls, l), c) = Reading(Append(ls, l), <<>>)
         /\ c # NL => TakeChar(Reading(ls, l), c) = Reading(ls, Append(l, c))
BY DEF TakeChar, Reading

\* A line being read, and all of it.
LEMMA LineGrows ==
  ASSUME NEW ls, NEW w \in Seq(Plain)
  PROVE  Lining!Folded(Reading(ls, <<>>), w) = Reading(ls, w)
<1>. DEFINE n == Len(w)
<1>1. n \in Nat /\ DOMAIN w = 1 .. n /\ \A i \in 1 .. n : w[i] \in Plain
  OBVIOUS
<1>2. PICK g : Lining!Folding(g, Reading(ls, <<>>), w, n)
  BY <1>1, Lining!Folds
<1>. DEFINE Q == {k \in 0 .. n : g[k] = Reading(ls, SubSeq(w, 1, k))}
<1>3. 0 \in Q
  <2>1. SubSeq(w, 1, 0) = <<>>
    BY SubSeqEmpty
  <2>2. g[0] = Reading(ls, <<>>)
    BY <1>2 DEF Lining!Folding
  <2>3. g[0] = Reading(ls, SubSeq(w, 1, 0))
    BY ONLY <2>1, <2>2
  <2>4. 0 \in 0 .. n
    BY <1>1
  <2>. QED BY <2>3, <2>4
<1>4. ASSUME NEW k \in 0 .. n - 1, k \in Q PROVE k + 1 \in Q
  <2>1. k + 1 \in 1 .. n /\ (k + 1) - 1 = k /\ 1 \in 1 .. n /\ k + 1 \in 1 .. Len(w)
    BY <1>1
  <2>2. g[k + 1] = TakeChar(g[k], w[k + 1])
    BY <1>2, <2>1 DEF Lining!Folding
  <2>3. g[k] = Reading(ls, SubSeq(w, 1, k))
    BY <1>4
  <2>4. w[k + 1] # NL /\ w[k + 1] \in Plain
    BY <1>1, <2>1 DEF Plain
  <2>5. g[k + 1] = Reading(ls, Append(SubSeq(w, 1, k), w[k + 1]))
    BY <2>2, <2>3, <2>4, TakesChar
  <2>6. SubSeq(w, 1, k) \in Seq(Plain)
    <3>1. \A i \in 1 .. k : w[i] \in Plain
      BY <1>1, <2>1
    <3>. QED BY <2>1, <3>1, SubSeqProperties
  <2>7. SubSeq(w, 1, k + 1) = SubSeq(w, 1, k) \o <<w[k + 1]>>
    <3>1. k + 1 \in 1 .. Len(w) /\ 1 \in 1 .. Len(w)
      BY <2>1
    <3>2. SubSeq(w, 1, k + 1) = SubSeq(w, 1, (k + 1) - 1) \o <<w[k + 1]>>
      BY <3>1, SubSeqRecursiveSecond
    <3>. QED BY <2>1, <3>2
  <2>8. Append(SubSeq(w, 1, k), w[k + 1]) = SubSeq(w, 1, k) \o <<w[k + 1]>>
    BY <2>4, <2>6, AppendIsConcat
  <2>9. g[k + 1] = Reading(ls, SubSeq(w, 1, k + 1))
    BY ONLY <2>5, <2>7, <2>8
  <2>10. k + 1 \in 0 .. n
    BY <2>1
  <2>. QED BY <2>9, <2>10
<1>5. n \in Q
  <2>. HIDE DEF Q
  <2>1. \A k \in 0 .. n : k \in Q
    BY <1>1, <1>3, <1>4, Flattening!UpTo
  <2>. QED BY <1>1, <2>1
<1>6. SubSeq(w, 1, n) = w
  BY SubSeqFull
<1>. QED BY <1>2, <1>5, <1>6 DEF Lining!Folding

Ended(ws, ss, m) ==
  /\ ws \in Seq(Seq(Plain)) /\ m <= Len(ws)
  /\ \A k \in 1 .. m : ss[k] = Append(ws[k], NL)

\* Whole lines, each with its newline.
LEMMA LinesRead ==
  ASSUME NEW n, NEW ss, NEW g, Concatenated(g, Char, ss, n),
         NEW ws, NEW m \in 0 .. n, Ended(ws, ss, m)
  PROVE  Lining!Folded(Reading(<<>>, <<>>), g[m]) = Reading(SubSeq(ws, 1, m), <<>>)
<1>. SUFFICES ASSUME n \in Nat, ss \in [1 .. n -> Seq(Char)], Concatenating(g, Char, ss, n),
                     ws \in Seq(Seq(Plain)), m <= Len(ws),
                     \A k \in 1 .. m : ss[k] = Append(ws[k], NL)
              PROVE  Lining!Folded(Reading(<<>>, <<>>), g[m]) = Reading(SubSeq(ws, 1, m), <<>>)
  BY DEF Concatenated, Ended
<1>. DEFINE F(x) == Lining!Folded(Reading(<<>>, <<>>), x)
            Q == {k \in 0 .. m : F(g[k]) = Reading(SubSeq(ws, 1, k), <<>>)}
<1>1. /\ m \in Nat /\ \A k \in 1 .. m : ws[k] \in Seq(Plain)
      /\ \A k \in 0 .. m : g[k] \in Seq(Char)
  <2>1. m \in Nat /\ m <= n /\ \A k \in 0 .. m : k \in 0 .. n
    OBVIOUS
  <2>2. \A k \in 0 .. n : g[k] \in Seq(Char)
    BY DEF Concatenating
  <2>3. Len(ws) \in Nat
    OBVIOUS
  <2>4. \A k \in 1 .. m : k \in 1 .. Len(ws)
    BY <2>1, <2>3
  <2>5. \A k \in 1 .. Len(ws) : ws[k] \in Seq(Plain)
    OBVIOUS
  <2>. QED BY ONLY <2>1, <2>2, <2>4, <2>5
<1>2. 0 \in Q
  <2>1. SubSeq(ws, 1, 0) = <<>> /\ g[0] = <<>>
    BY SubSeqEmpty DEF Concatenating
  <2>2. F(<<>>) = Reading(<<>>, <<>>)
    BY Lining!FoldEmpty
  <2>3. 0 \in 0 .. m
    BY <1>1
  <2>. HIDE DEF F
  <2>4. F(g[0]) = Reading(SubSeq(ws, 1, 0), <<>>)
    BY ONLY <2>1, <2>2
  <2>. QED BY <2>3, <2>4
<1>3. ASSUME NEW k \in 0 .. m - 1, k \in Q PROVE k + 1 \in Q
  <2>1. /\ k + 1 \in 1 .. m /\ k + 1 \in 1 .. n /\ (k + 1) - 1 = k
        /\ 1 \in 1 .. Len(ws) /\ k + 1 \in 1 .. Len(ws)
    BY <1>1
  <2>. DEFINE w == ws[k + 1]
              L == SubSeq(ws, 1, k)
  <2>2. g[k + 1] = g[k] \o Append(w, NL) /\ w \in Seq(Plain) /\ g[k] \in Seq(Char)
    <3>4. \A h \in 1 .. n : g[h] = g[h - 1] \o ss[h]
      BY DEF Concatenating
    <3>5. g[k + 1] = g[k] \o ss[k + 1]
      BY ONLY <2>1, <3>4
    <3>6. g[k] \in Seq(Char)
      BY <1>1
    <3>2. g[k + 1] = g[k] \o ss[k + 1] /\ g[k] \in Seq(Char)
      BY <3>5, <3>6
    <3>3. ss[k + 1] = Append(w, NL) /\ w \in Seq(Plain)
      BY <1>1, <2>1
    <3>. QED BY <3>2, <3>3
  <2>3. w \in Seq(Char) /\ NL \in Char
    <3>1. w \in Seq(Plain) /\ Plain \subseteq Char
      BY <2>2 DEF Plain
    <3>. HIDE DEF w
    <3>2. w \in Seq(Char)
      BY <3>1, SeqMonotonic
    <3>3. NL \in Char
      BY DEF Char
    <3>. QED BY <3>2, <3>3
  <2>. HIDE DEF w
  <2>4. Append(w, NL) = w \o <<NL>> /\ Append(w, NL) \in Seq(Char) /\ <<NL>> \in Seq(Char)
    BY <2>3, AppendIsConcat
  <2>5. F(g[k] \o Append(w, NL)) = Lining!Folded(F(g[k]), Append(w, NL))
    <3>. DEFINE a == g[k]
                b == Append(w, NL)
    <3>. HIDE DEF Q, a, b
    <3>1. a \in Seq(Char) /\ b \in Seq(Char)
      BY <2>2, <2>4 DEF a, b
    <3>2. F(a \o b) = Lining!Folded(F(a), b)
      BY ONLY <3>1, Lining!FoldConcat
    <3>. QED BY <3>2 DEF a, b
  <2>6. F(g[k]) = Reading(L, <<>>)
    BY <1>3
  <2>. HIDE DEF F, Q
  <2>7. Lining!Folded(Reading(L, <<>>), w \o <<NL>>) =
          Lining!Folded(Lining!Folded(Reading(L, <<>>), w), <<NL>>)
    <3>. DEFINE b == <<NL>>
    <3>. HIDE DEF b
    <3>1. w \in Seq(Char) /\ b \in Seq(Char)
      BY <2>3, <2>4 DEF b
    <3>2. Lining!Folded(Reading(L, <<>>), w \o b) =
            Lining!Folded(Lining!Folded(Reading(L, <<>>), w), b)
      BY ONLY <3>1, Lining!FoldConcat
    <3>. QED BY <3>2 DEF b
  <2>8. Lining!Folded(Reading(L, <<>>), w) = Reading(L, w)
    BY <2>2, LineGrows
  <2>9. Lining!Folded(Reading(L, w), <<NL>>) = Reading(Append(L, w), <<>>)
    <3>1. DOMAIN <<NL>> = 1 .. 1 /\ <<NL>>[1] = NL /\ 1 \in Nat
      OBVIOUS
    <3>2. PICK f : Lining!Folding(f, Reading(L, w), <<NL>>, 1)
      BY <3>1, Lining!Folds
    <3>3. f[1] = TakeChar(f[1 - 1], NL) /\ f[1 - 1] = Reading(L, w)
      BY <3>1, <3>2 DEF Lining!Folding
    <3>4. f[1] = Reading(Append(L, w), <<>>)
      BY <3>3, TakesChar
    <3>. QED BY <3>2, <3>4 DEF Lining!Folding
  <2>10. Append(L, w) = SubSeq(ws, 1, k + 1)
    <3>1. SubSeq(ws, 1, k + 1) = SubSeq(ws, 1, (k + 1) - 1) \o <<ws[k + 1]>>
      BY <2>1, SubSeqRecursiveSecond
    <3>2. L \in Seq(Seq(Plain))
      <4>1. \A i \in 1 .. k : ws[i] \in Seq(Plain)
        BY <1>1, <2>1
      <4>. QED BY <2>1, <4>1, SubSeqProperties
    <3>. HIDE DEF L
    <3>3. Append(L, w) = L \o <<w>>
      BY <2>2, <3>2, AppendIsConcat
    <3>. QED BY <2>1, <3>1, <3>3 DEF L, w
  <2>11. F(g[k + 1]) = Reading(SubSeq(ws, 1, k + 1), <<>>)
    BY <2>2, <2>4, <2>5, <2>6, <2>7, <2>8, <2>9, <2>10
  <2>. QED BY <1>1, <2>1, <2>11 DEF Q
<1>4. m \in Q
  <2>. HIDE DEF Q
  <2>1. \A k \in 0 .. m : k \in Q
    BY <1>1, <1>2, <1>3, Flattening!UpTo
  <2>. QED BY <1>1, <2>1
<1>. QED BY <1>4

\* What is read on: lines are only added, and none is taken back.
LEMMA LinesGrow ==
  ASSUME NEW ls \in Seq(Seq(Plain)), NEW l \in Seq(Plain), NEW b \in Seq(Char)
  PROVE  \E ms \in Seq(Seq(Plain)), y \in Seq(Plain) :
           /\ Lining!Folded(Reading(ls, l), b) = Reading(ls \o ms, y)
           /\ l # <<>> => ms # <<>> \/ y # <<>>
<1>. DEFINE n == Len(b)
            Good(k, g) ==
              \E ms \in Seq(Seq(Plain)), y \in Seq(Plain) :
                /\ g[k] = Reading(ls \o ms, y)
                /\ l # <<>> => ms # <<>> \/ y # <<>>
<1>1. n \in Nat /\ DOMAIN b = 1 .. n /\ \A i \in 1 .. n : b[i] \in Char
  OBVIOUS
<1>2. PICK g : Lining!Folding(g, Reading(ls, l), b, n)
  BY <1>1, Lining!Folds
<1>. DEFINE Q == {k \in 0 .. n : Good(k, g)}
<1>3. 0 \in Q
  <2>1. <<>> \in Seq(Seq(Plain)) /\ ls \o <<>> = ls
    BY ConcatEmptySeq
  <2>2. g[0] = Reading(ls \o <<>>, l)
    BY <1>2, <2>1 DEF Lining!Folding
  <2>3. Good(0, g)
    BY ONLY <2>1, <2>2, l \in Seq(Plain)
  <2>4. 0 \in 0 .. n
    BY <1>1
  <2>. QED BY <2>3, <2>4
<1>4. ASSUME NEW k \in 0 .. n - 1, k \in Q PROVE k + 1 \in Q
  <2>1. k + 1 \in 1 .. n /\ (k + 1) - 1 = k /\ k + 1 \in 0 .. n
    BY <1>1
  <2>2. g[k + 1] = TakeChar(g[k], b[k + 1])
    BY <1>2, <2>1 DEF Lining!Folding
  <2>3. PICK ms \in Seq(Seq(Plain)), y \in Seq(Plain) :
          /\ g[k] = Reading(ls \o ms, y)
          /\ l # <<>> => ms # <<>> \/ y # <<>>
    BY <1>4
  <2>4. CASE b[k + 1] = NL
    <3>1. g[k + 1] = Reading(Append(ls \o ms, y), <<>>)
      BY <2>2, <2>3, <2>4, TakesChar
    <3>2. Append(ls \o ms, y) = ls \o Append(ms, y)
      <4>1. Continues(Append(ls \o ms, y), ls, Append(ms, y))
        BY AppendedToConcat
      <4>. QED BY <4>1 DEF Continues
    <3>3. Append(ms, y) \in Seq(Seq(Plain)) /\ Append(ms, y) # <<>>
      BY AppendProperties
    <3>4. <<>> \in Seq(Plain)
      OBVIOUS
    <3>5. Good(k + 1, g)
      BY <3>1, <3>2, <3>3, <3>4
    <3>. QED BY <2>1, <3>5
  <2>5. CASE b[k + 1] # NL
    <3>1. g[k + 1] = Reading(ls \o ms, Append(y, b[k + 1]))
      BY <2>2, <2>3, <2>5, TakesChar
    <3>2. b[k + 1] \in Plain
      BY <1>1, <2>1, <2>5 DEF Plain
    <3>3. Append(y, b[k + 1]) \in Seq(Plain) /\ Append(y, b[k + 1]) # <<>>
      BY <3>2, AppendProperties, SMTT(60)
    <3>4. Good(k + 1, g)
      BY <3>1, <3>3
    <3>. QED BY <2>1, <3>4
  <2>. QED BY <2>4, <2>5
<1>5. n \in Q
  <2>. HIDE DEF Q
  <2>1. \A k \in 0 .. n : k \in Q
    BY <1>1, <1>3, <1>4, Flattening!UpTo
  <2>. QED BY <1>1, <2>1
<1>. QED BY <1>2, <1>5 DEF Lining!Folding

\* LinesOf, by the same fold.
LEMMA LinesOfIs ==
  ASSUME NEW text, NEW ls, NEW l,
         Lining!Folded(Reading(<<>>, <<>>), text) = Reading(ls, l)
  PROVE  LinesOf(text) = IF l = <<>> THEN ls ELSE Append(ls, l)
<1>. DEFINE t == FoldLeft(TakeChar, [lines |-> <<>>, line |-> <<>>], text)
<1>1. t = Reading(ls, l)
  <2>1. Reading(<<>>, <<>>) = [lines |-> <<>>, line |-> <<>>]
    BY DEF Reading
  <2>2. Lining!Folded(Reading(<<>>, <<>>), text) = t
    BY <2>1 DEF Lining!Folded, Lining!FoldLeft, Lining!MapThenFoldSet, Lining!Max,
                FoldLeft, MapThenFoldSet, Max
  <2>. QED BY <2>2
<1>2. LinesOf(text) = IF t.line = <<>> THEN t.lines ELSE Append(t.lines, t.line)
  BY DEF LinesOf
<1>. HIDE DEF t
<1>3. t.line = l /\ t.lines = ls
  BY <1>1 DEF Reading
<1>. QED BY <1>2, <1>3

LEMMA LinesArePlain ==
  ASSUME NEW text \in Seq(Char) PROVE LinesOf(text) \in Seq(Seq(Plain))
<1>1. <<>> \in Seq(Seq(Plain)) /\ <<>> \in Seq(Plain)
  OBVIOUS
<1>2. PICK ms \in Seq(Seq(Plain)), y \in Seq(Plain) :
        Lining!Folded(Reading(<<>>, <<>>), text) = Reading(<<>> \o ms, y)
  BY <1>1, LinesGrow
<1>3. <<>> \o ms = ms
  BY ConcatEmptySeq
<1>4. LinesOf(text) = IF y = <<>> THEN ms ELSE Append(ms, y)
  BY <1>2, <1>3, LinesOfIs
<1>5. Append(ms, y) \in Seq(Seq(Plain))
  BY AppendProperties
<1>. QED BY <1>4, <1>5

\* Of the lines of a text, those of its beginning: whole ones are the same, and
\* there are not more of them.
LEMMA LinesOfBeginning ==
  ASSUME NEW a \in Seq(Char), NEW b \in Seq(Char)
  PROVE  /\ Len(LinesOf(a)) <= Len(LinesOf(a \o b))
         /\ \A ls \in Seq(Seq(Plain)) :
              Lining!Folded(Reading(<<>>, <<>>), a) = Reading(ls, <<>>) =>
                \E ms \in Seq(Seq(Plain)) : LinesOf(a \o b) = ls \o ms
<1>1. <<>> \in Seq(Seq(Plain)) /\ <<>> \in Seq(Plain)
  OBVIOUS
<1>2. PICK ls \in Seq(Seq(Plain)), l \in Seq(Plain) :
        Lining!Folded(Reading(<<>>, <<>>), a) = Reading(<<>> \o ls, l)
  BY <1>1, LinesGrow
<1>3. <<>> \o ls = ls
  BY ConcatEmptySeq
<1>4. Lining!Folded(Reading(<<>>, <<>>), a \o b)
        = Lining!Folded(Lining!Folded(Reading(<<>>, <<>>), a), b)
  BY Lining!FoldConcat
<1>5. PICK ms \in Seq(Seq(Plain)), y \in Seq(Plain) :
        /\ Lining!Folded(Reading(ls, l), b) = Reading(ls \o ms, y)
        /\ l # <<>> => ms # <<>> \/ y # <<>>
  BY LinesGrow
<1>6. LinesOf(a) = IF l = <<>> THEN ls ELSE Append(ls, l)
  BY <1>2, <1>3, LinesOfIs
<1>7. LinesOf(a \o b) = IF y = <<>> THEN ls \o ms ELSE Append(ls \o ms, y)
  <2>1. Lining!Folded(Reading(<<>>, <<>>), a \o b) = Reading(ls \o ms, y)
    BY <1>2, <1>3, <1>4, <1>5
  <2>. QED BY <2>1, LinesOfIs
<1>8. /\ ls \o ms \in Seq(Seq(Plain)) /\ Len(ls \o ms) = Len(ls) + Len(ms)
      /\ Len(ls) \in Nat /\ Len(ms) \in Nat /\ (ms # <<>> => Len(ms) > 0)
  BY ConcatProperties, EmptySeq
<1>9. Len(Append(ls, l)) = Len(ls) + 1 /\ Len(Append(ls \o ms, y)) = Len(ls \o ms) + 1
  BY <1>8, AppendProperties
<1>10. Len(LinesOf(a)) <= Len(LinesOf(a \o b))
  <2>1. Len(ls) <= Len(LinesOf(a)) /\ Len(LinesOf(a)) <= Len(ls) + 1
        /\ (l = <<>> => Len(LinesOf(a)) = Len(ls))
    BY ONLY <1>6, <1>8, <1>9
  <2>2. Len(ls) + Len(ms) <= Len(LinesOf(a \o b))
        /\ (y # <<>> => Len(LinesOf(a \o b)) = Len(ls) + Len(ms) + 1)
    BY ONLY <1>7, <1>8, <1>9
  <2>3. Len(LinesOf(a)) \in Nat /\ Len(LinesOf(a \o b)) \in Nat
    BY ONLY <1>6, <1>7, <1>8, <1>9
  <2>4. l = <<>> \/ Len(ms) > 0 \/ y # <<>>
    BY <1>5, <1>8
  <2>. QED BY ONLY <1>8, <2>1, <2>2, <2>3, <2>4
<1>11. ASSUME NEW ks \in Seq(Seq(Plain)),
              Lining!Folded(Reading(<<>>, <<>>), a) = Reading(ks, <<>>)
       PROVE  \E zs \in Seq(Seq(Plain)) : LinesOf(a \o b) = ks \o zs
  <2>1. ks = ls
    BY <1>2, <1>3, <1>11 DEF Reading
  <2>2. Append(ls \o ms, y) = ls \o Append(ms, y)
    <3>1. Continues(Append(ls \o ms, y), ls, Append(ms, y))
      BY AppendedToConcat
    <3>. QED BY <3>1 DEF Continues
  <2>3. Append(ms, y) \in Seq(Seq(Plain))
    BY AppendProperties
  <2>. QED BY <1>7, <2>1, <2>2, <2>3
<1>. QED BY <1>10, <1>11

-----------------------------------------------------------------------------

(***************************************************************************)
(* parse_todos(), parse_events(), fmt_todos() and fmt_events().            *)
(***************************************************************************)
Places(s, sep) ==
  {i \in 1 .. Len(s) + 1 - Len(sep) : SubSeq(s, i, i + Len(sep) - 1) = sep}

LEMMA PartsAt ==
  ASSUME NEW s \in Seq(Char), NEW sep \in Seq(Char), sep # <<>>,
         NEW k \in Places(s, sep), \A i \in Places(s, sep) : k <= i
  PROVE  /\ Parts(s, sep).found
         /\ Parts(s, sep).head = TrimAscii(SubSeq(s, 1, k - 1))
         /\ Parts(s, sep).text = TrimAscii(SubSeq(s, k + Len(sep), Len(s)))
<1>. DEFINE S == Places(s, sep)
<1>1. /\ Len(s) \in Nat /\ Len(sep) \in Nat \ {0} /\ S \in SUBSET (1 .. Len(s)) /\ S # {}
      /\ k \in S
  <2>1. Len(s) \in Nat /\ k \in S
    OBVIOUS
  <2>2. Len(sep) \in Nat \ {0}
    BY ONLY sep \in Seq(Char), sep # <<>>, EmptySeq
  <2>3. S \subseteq 1 .. Len(s)
    BY <2>1, <2>2 DEF Places
  <2>. HIDE DEF S
  <2>. QED BY ONLY <2>1, <2>2, <2>3
<1>2. Min(S) = k
  <2>. HIDE DEF S
  <2>1. Min(S) \in S /\ \A i \in S : Min(S) <= i
    BY ONLY <1>1, LeastOf
  <2>2. Min(S) <= k /\ k <= Min(S)
    BY <1>1, <2>1 DEF S
  <2>3. Min(S) \in Int /\ k \in Int
    <3>1. \A i \in 1 .. Len(s) : i \in Int
      OBVIOUS
    <3>. QED BY ONLY <1>1, <2>1, <3>1
  <2>. QED BY ONLY <2>2, <2>3
<1>3. Parts(s, sep) =
        [found |-> S # {},
         head |-> IF S = {} THEN <<>> ELSE TrimAscii(SubSeq(s, 1, Min(S) - 1)),
         text |-> IF S = {} THEN s ELSE TrimAscii(SubSeq(s, Min(S) + Len(sep), Len(s)))]
  BY Zenon DEF Parts, Places
<1>. HIDE DEF S
<1>4. S # {}
  BY <1>1
<1>5. Parts(s, sep).found
  BY <1>4 DEF Parts, Places, S
<1>6. /\ Parts(s, sep).head = TrimAscii(SubSeq(s, 1, Min(S) - 1))
      /\ Parts(s, sep).text = TrimAscii(SubSeq(s, Min(S) + Len(sep), Len(s)))
  BY ONLY <1>3, <1>4
<1>. QED BY <1>2, <1>5, <1>6

LEMMA PartsNone ==
  ASSUME NEW s \in Seq(Char), NEW sep \in Seq(Char), Places(s, sep) = {}
  PROVE  ~Parts(s, sep).found /\ Parts(s, sep).text = s
BY DEF Parts, Places

\* The two separators.
LEMMA ColonIsAt ==
  ASSUME NEW s \in Seq(Char)
  PROVE  /\ <<Colon>> \in Seq(Char) /\ Len(<<Colon>>) = 1 /\ <<Colon>> # <<>>
         /\ Places(s, <<Colon>>) = {i \in 1 .. Len(s) : s[i] = Colon}
<1>1. Colon \in Char
  BY DEF Char
<1>2. <<Colon>> \in Seq(Char) /\ Len(<<Colon>>) = 1 /\ <<Colon>> # <<>> /\ <<Colon>>[1] = Colon
  BY <1>1
<1>3. ASSUME NEW i \in 1 .. Len(s)
      PROVE  SubSeq(s, i, i + 1 - 1) = <<Colon>> <=> s[i] = Colon
  <2>1. i \in Nat \ {0} /\ i + 1 - 1 = i /\ i \in Nat /\ i <= Len(s)
    OBVIOUS
  <2>. DEFINE t == SubSeq(s, i, i)
  <2>2. /\ t \in Seq(Char) /\ Len(t) = IF i <= i THEN i - i + 1 ELSE 0
        /\ \A j \in 1 .. i - i + 1 : t[j] = s[i + j - 1]
    BY ONLY <2>1, s \in Seq(Char), CutIs
  <2>. HIDE DEF t
  <2>3. Len(t) = 1 /\ t[1] = s[i]
    <3>1. i - i + 1 = 1 /\ i + 1 - 1 = i /\ i <= i /\ 1 \in 1 .. i - i + 1
      OBVIOUS
    <3>. QED BY ONLY <2>2, <3>1
  <2>4. s[i] = Colon => t = <<Colon>>
    <3>. SUFFICES ASSUME s[i] = Colon PROVE t = <<Colon>>
      OBVIOUS
    <3>1. \A j \in 1 .. Len(t) : t[j] = <<Colon>>[j]
      BY <1>2, <2>3
    <3>. QED BY <1>2, <2>2, <2>3, <3>1, SeqEqual
  <2>5. t = <<Colon>> => s[i] = Colon
    BY <1>2, <2>3
  <2>. QED BY <2>1, <2>4, <2>5 DEF t
<1>4. Len(s) + 1 - 1 = Len(s)
  OBVIOUS
<1>5. Places(s, <<Colon>>) =
        {i \in 1 .. Len(s) + 1 - 1 : SubSeq(s, i, i + 1 - 1) = <<Colon>>}
  BY <1>2 DEF Places
<1>. QED BY <1>2, <1>3, <1>4, <1>5

LEMMA PairIs == ASSUME NEW E, NEW x \in E, NEW y \in E PROVE <<x, y>> \in Seq(E)
OBVIOUS

LEMMA ColonBlankIsAt ==
  ASSUME NEW s \in Seq(Char)
  PROVE  /\ <<Colon, Space>> \in Seq(Char) /\ Len(<<Colon, Space>>) = 2 /\ <<Colon, Space>> # <<>>
         /\ Places(s, <<Colon, Space>>) = {i \in 1 .. Len(s) - 1 : s[i] = Colon /\ s[i + 1] = Space}
<1>. DEFINE u == <<Colon, Space>>
<1>1. Colon \in Char /\ Space \in Char
  BY DEF Char
<1>2. u \in Seq(Char) /\ Len(u) = 2 /\ u # <<>> /\ u[1] = Colon /\ u[2] = Space
  <2>1. u \in Seq(Char)
    BY ONLY <1>1, PairIs
  <2>2. Len(u) = 2 /\ u # <<>>
    BY ONLY TRUE
  <2>3. u[1] = Colon
    BY ONLY TRUE
  <2>4. u[2] = Space
    BY ONLY TRUE
  <2>. QED BY ONLY <2>1, <2>2, <2>3, <2>4
<1>. HIDE DEF u
<1>3. ASSUME NEW i \in 1 .. Len(s) - 1
      PROVE  SubSeq(s, i, i + 2 - 1) = u <=> s[i] = Colon /\ s[i + 1] = Space
  <2>1. i \in Nat \ {0} /\ i + 2 - 1 = i + 1 /\ i + 1 \in Nat /\ i + 1 <= Len(s)
    OBVIOUS
  <2>. DEFINE t == SubSeq(s, i, i + 1)
  <2>2. /\ t \in Seq(Char) /\ Len(t) = IF i <= i + 1 THEN i + 1 - i + 1 ELSE 0
        /\ \A j \in 1 .. i + 1 - i + 1 : t[j] = s[i + j - 1]
    BY ONLY <2>1, s \in Seq(Char), CutIs
  <2>. HIDE DEF t
  <2>3. Len(t) = 2 /\ t[1] = s[i] /\ t[2] = s[i + 1]
    <3>1. /\ i + 1 - i + 1 = 2 /\ i + 1 - 1 = i /\ i + 2 - 1 = i + 1 /\ i <= i + 1
          /\ 1 \in 1 .. i + 1 - i + 1 /\ 2 \in 1 .. i + 1 - i + 1
      OBVIOUS
    <3>2. t[1] = s[i + 1 - 1] /\ t[2] = s[i + 2 - 1]
      BY ONLY <2>2, <3>1
    <3>. QED BY ONLY <2>2, <3>1, <3>2
  <2>4. s[i] = Colon /\ s[i + 1] = Space => t = u
    <3>. SUFFICES ASSUME s[i] = Colon, s[i + 1] = Space PROVE t = u
      OBVIOUS
    <3>1. \A j \in 1 .. Len(t) : t[j] = u[j]
      <4>. SUFFICES ASSUME NEW j \in 1 .. Len(t) PROVE t[j] = u[j]
        OBVIOUS
      <4>1. j \in 1 .. 2
        BY ONLY <2>3, j \in 1 .. Len(t)
      <4>2. j = 1 \/ j = 2
        BY ONLY <4>1
      <4>. QED BY <1>2, <2>3, <4>2
    <3>. QED BY <1>2, <2>2, <2>3, <3>1, SeqEqual
  <2>5. t = u => s[i] = Colon /\ s[i + 1] = Space
    BY <1>2, <2>3
  <2>. QED BY <2>1, <2>4, <2>5 DEF t
<1>4. Len(s) + 1 - 2 = Len(s) - 1
  OBVIOUS
<1>5. Places(s, u) = {i \in 1 .. Len(s) + 1 - 2 : SubSeq(s, i, i + 2 - 1) = u}
  BY <1>2 DEF Places
<1>6. Places(s, u) = {i \in 1 .. Len(s) - 1 : s[i] = Colon /\ s[i + 1] = Space}
  BY <1>3, <1>4, <1>5
<1>. QED BY <1>2, <1>6 DEF u

\* Parts of sequences in a row.
LEMMA ConcatTyped ==
  ASSUME NEW E, NEW x \in Seq(E), NEW y \in Seq(E) PROVE x \o y \in Seq(E)
BY ConcatProperties

LEMMA BeginningIs ==
  ASSUME NEW E, NEW x \in Seq(E), NEW y \in Seq(E)
  PROVE  SubSeq(x \o y, 1, Len(x)) = x
<1>. DEFINE s == x \o y
            n == Len(x)
<1>1. /\ s \in Seq(E) /\ Len(s) = Len(x) + Len(y) /\ \A i \in 1 .. n : s[i] = x[i]
      /\ n \in Nat /\ Len(y) \in Nat
  BY TwoInARow
<1>. HIDE DEF s
<1>2. 1 \in Nat \ {0} /\ n \in Nat /\ n <= Len(s)
  BY <1>1
<1>3. /\ SubSeq(s, 1, n) \in Seq(E)
      /\ Len(SubSeq(s, 1, n)) = IF 1 <= n THEN n - 1 + 1 ELSE 0
      /\ \A i \in 1 .. n - 1 + 1 : SubSeq(s, 1, n)[i] = s[1 + i - 1]
  BY ONLY <1>1, <1>2, CutIs
<1>4. n - 1 + 1 = n /\ \A i \in 1 .. n : 1 + i - 1 = i
  BY <1>1
<1>5. Len(SubSeq(s, 1, n)) = n
  BY <1>1, <1>3
<1>6. \A i \in 1 .. n : SubSeq(s, 1, n)[i] = x[i]
  BY <1>1, <1>3, <1>4
<1>7. SubSeq(s, 1, n) = x
  BY <1>3, <1>5, <1>6, SeqEqual
<1>. QED BY <1>7 DEF s

LEMMA EndIs ==
  ASSUME NEW E, NEW x \in Seq(E), NEW y \in Seq(E)
  PROVE  SubSeq(x \o y, Len(x) + 1, Len(x \o y)) = y
<1>. DEFINE s == x \o y
            n == Len(x)
            t == SubSeq(s, n + 1, Len(s))
<1>1. /\ s \in Seq(E) /\ Len(s) = n + Len(y) /\ \A i \in 1 .. Len(y) : s[n + i] = y[i]
      /\ n \in Nat /\ Len(y) \in Nat
  BY TwoInARow
<1>. HIDE DEF s, n
<1>2. Len(s) \in Nat /\ n <= Len(s) /\ Len(s) - n = Len(y)
  BY <1>1
<1>3. t \in Seq(E) /\ Len(t) = Len(s) - n /\ Within(s, t, n)
  <2>1. Len(s) <= Len(s)
    BY <1>2
  <2>. QED BY ONLY <1>1, <1>2, <2>1, CutWithin
<1>. HIDE DEF t
<1>4. Len(t) = Len(y) /\ \A i \in 1 .. Len(t) : t[i] = y[i]
  BY <1>1, <1>2, <1>3 DEF Within
<1>5. t = y
  BY <1>3, <1>4, SeqEqual
<1>. QED BY <1>5 DEF t, s, n

IsJoined(s, h, c, x) == s = h \o c \o x

LEMMA PartsJoined ==
  ASSUME NEW h \in Seq(Char), NEW sep \in Seq(Char), NEW y \in Seq(Char), sep # <<>>,
         NEW s, IsJoined(s, h, sep, y), \A i \in Places(s, sep) : Len(h) + 1 <= i
  PROVE  /\ Parts(s, sep).found
         /\ Parts(s, sep).head = TrimAscii(h) /\ Parts(s, sep).text = TrimAscii(y)
<1>. DEFINE k == Len(h) + 1
            n == Len(s)
<1>0. s = h \o sep \o y
  BY DEF IsJoined
<1>1. s \in Seq(Char) /\ n = Len(h) + Len(sep) + Len(y)
  <2>1. /\ h \o sep \o y \in Seq(Char)
        /\ Len(h \o sep \o y) = Len(h) + Len(sep) + Len(y)
    BY ThreeInARow
  <2>. QED BY ONLY <1>0, <2>1
<1>2. /\ Len(h) \in Nat /\ Len(sep) \in Nat /\ Len(y) \in Nat
  OBVIOUS
<1>3. Len(sep) # 0
  BY EmptySeq
<1>4. SubSeq(s, k, k + Len(sep) - 1) = sep
  <2>1. SubSeq(h \o sep \o y, Len(h) + 1, Len(h \o sep \o y) - Len(y)) = sep
    BY MiddleIs
  <2>2. SubSeq(s, Len(h) + 1, Len(s) - Len(y)) = sep
    BY ONLY <1>0, <2>1
  <2>3. Len(s) - Len(y) = k + Len(sep) - 1
    BY ONLY <1>1, <1>2
  <2>. QED BY ONLY <2>2, <2>3
<1>5. k \in Places(s, sep)
  <2>1. k \in 1 .. Len(s) + 1 - Len(sep)
    BY ONLY <1>1, <1>2
  <2>. QED BY ONLY <1>4, <2>1 DEF Places
<1>6. SubSeq(s, 1, k - 1) = h
  <2>. DEFINE z == sep \o y
  <2>1. z \in Seq(Char)
    BY ConcatTyped
  <2>2. h \o sep \o y = h \o (sep \o y)
    BY ConcatAssociative, SMTT(60)
  <2>3. s = h \o z
    BY ONLY <1>0, <2>2
  <2>. HIDE DEF z
  <2>4. SubSeq(h \o z, 1, Len(h)) = h
    BY ONLY h \in Seq(Char), <2>1, BeginningIs
  <2>5. k - 1 = Len(h)
    BY ONLY <1>2
  <2>. QED BY ONLY <2>3, <2>4, <2>5
<1>7. SubSeq(s, k + Len(sep), n) = y
  <2>. DEFINE z == h \o sep
  <2>1. z \in Seq(Char) /\ Len(z) = Len(h) + Len(sep)
    BY TwoInARow
  <2>2. s = z \o y
    BY <1>0
  <2>. HIDE DEF z
  <2>3. SubSeq(z \o y, Len(z) + 1, Len(z \o y)) = y
    BY ONLY y \in Seq(Char), <2>1, EndIs
  <2>4. Len(z) + 1 = k + Len(sep)
    BY ONLY <1>2, <2>1
  <2>5. SubSeq(s, Len(z) + 1, Len(s)) = y
    BY ONLY <2>2, <2>3
  <2>. QED BY ONLY <2>4, <2>5
<1>. HIDE DEF k, n
<1>8. \A i \in Places(s, sep) : k <= i
  BY DEF k
<1>9. /\ Parts(s, sep).found
      /\ Parts(s, sep).head = TrimAscii(SubSeq(s, 1, k - 1))
      /\ Parts(s, sep).text = TrimAscii(SubSeq(s, k + Len(sep), Len(s)))
  BY ONLY <1>1, <1>5, <1>8, sep \in Seq(Char), sep # <<>>, PartsAt
<1>. QED BY ONLY <1>6, <1>7, <1>9 DEF n

-----------------------------------------------------------------------------

\* The entries that the applications make and read: trimmed, on one line; an
\* event has a text, and no separator in its date.
Proper(a, done, head, text) ==
  /\ done \in BOOLEAN /\ head \in Seq(Plain) /\ text \in Seq(Plain)
  /\ Trimmed(head) /\ Trimmed(text)
  /\ a = "calendar" =>
       /\ done = FALSE /\ text # <<>>
       /\ \A i \in 1 .. Len(head) - 1 : ~(head[i] = Colon /\ head[i + 1] = Space)
Entries(a) ==
  {e \in [done : BOOLEAN, head : Seq(Plain), text : Seq(Plain)] :
     Proper(a, e.done, e.head, e.text)}

LEMMA EntryIsProper ==
  ASSUME NEW a, NEW done, NEW head, NEW text, Proper(a, done, head, text)
  PROVE  Entry(done, head, text) \in Entries(a)
BY DEF Entry, Entries, Proper

LEMMA ProperIsEntry ==
  ASSUME NEW a, NEW e \in Entries(a)
  PROVE  e = Entry(e.done, e.head, e.text) /\ Proper(a, e.done, e.head, e.text)
BY DEF Entry, Entries

LEMMA PlainIsChar == ASSUME NEW s \in Seq(Plain) PROVE s \in Seq(Char)
<1>1. Plain \subseteq Char
  BY DEF Plain
<1>. QED BY <1>1, SeqMonotonic

\* Where a line is parted at a separator, it is at the first.
LEMMA PartsProper ==
  ASSUME NEW s \in Seq(Plain), NEW sep \in Seq(Char), sep # <<>>, Places(s, sep) # {}
  PROVE  /\ Parts(s, sep).found
         /\ Parts(s, sep).head \in Seq(Plain) /\ Trimmed(Parts(s, sep).head)
         /\ Parts(s, sep).text \in Seq(Plain) /\ Trimmed(Parts(s, sep).text)
         /\ \E k \in Places(s, sep), c \in Nat :
              /\ \A i \in Places(s, sep) : k <= i
              /\ c + Len(Parts(s, sep).head) <= k - 1
              /\ \A i \in 1 .. Len(Parts(s, sep).head) : Parts(s, sep).head[i] = s[c + i]
              /\ \A i \in k + Len(sep) .. Len(s) : ~Blank(s[i]) => Parts(s, sep).text # <<>>
<1>. DEFINE S == Places(s, sep)
<1>1. s \in Seq(Char) /\ Len(s) \in Nat /\ Len(sep) \in Nat /\ Len(sep) # 0
  BY PlainIsChar, EmptySeq
<1>2. S \in SUBSET (1 .. Len(s)) /\ S # {} /\ \A i \in S : i + Len(sep) - 1 <= Len(s)
  <2>1. ASSUME NEW i \in S PROVE i \in 1 .. Len(s) /\ i + Len(sep) - 1 <= Len(s)
    <3>1. i \in 1 .. Len(s) + 1 - Len(sep)
      BY DEF Places
    <3>. QED BY ONLY <1>1, <3>1
  <2>2. S # {}
    OBVIOUS
  <2>. HIDE DEF S
  <2>. QED BY ONLY <2>1, <2>2
<1>3. PICK k \in S : \A i \in S : k <= i
  <2>. HIDE DEF S
  <2>1. Min(S) \in S /\ \A i \in S : Min(S) <= i
    BY ONLY <1>1, <1>2, LeastOf
  <2>. QED BY <2>1
<1>4. /\ k \in 1 .. Len(s) /\ k + Len(sep) - 1 <= Len(s)
  BY <1>2, <1>3
<1>. DEFINE h == SubSeq(s, 1, k - 1)
            x == SubSeq(s, k + Len(sep) - 1 + 1, Len(s))
<1>5. /\ Parts(s, sep).found
      /\ Parts(s, sep).head = TrimAscii(h)
      /\ Parts(s, sep).text = TrimAscii(x)
  <2>1. k + Len(sep) - 1 + 1 = k + Len(sep)
    BY <1>1, <1>4
  <2>2. /\ Parts(s, sep).found
        /\ Parts(s, sep).head = TrimAscii(SubSeq(s, 1, k - 1))
        /\ Parts(s, sep).text = TrimAscii(SubSeq(s, k + Len(sep), Len(s)))
    BY <1>1, <1>3, PartsAt
  <2>. QED BY ONLY <2>1, <2>2
<1>6. h \in Seq(Plain) /\ Len(h) = k - 1 /\ Within(s, h, 0)
  <2>1. 0 \in Nat /\ k - 1 \in Nat /\ 0 <= k - 1 /\ k - 1 <= Len(s) /\ 0 + 1 = 1 /\ k - 1 - 0 = k - 1
    BY <1>1, <1>4
  <2>2. /\ SubSeq(s, 0 + 1, k - 1) \in Seq(Plain) /\ Len(SubSeq(s, 0 + 1, k - 1)) = k - 1 - 0
        /\ Within(s, SubSeq(s, 0 + 1, k - 1), 0)
    BY ONLY s \in Seq(Plain), <2>1, CutWithin
  <2>. QED BY ONLY <2>1, <2>2
<1>7. /\ x \in Seq(Plain) /\ Len(x) = Len(s) - (k + Len(sep) - 1)
      /\ Within(s, x, k + Len(sep) - 1)
  <2>1. k + Len(sep) - 1 \in Nat /\ Len(s) <= Len(s)
    BY <1>1, <1>4
  <2>. QED BY ONLY s \in Seq(Plain), <1>1, <1>4, <2>1, CutWithin
<1>. HIDE DEF h, x, S
<1>8. /\ TrimAscii(h) \in Seq(Plain) /\ Trimmed(TrimAscii(h))
      /\ TrimAscii(x) \in Seq(Plain) /\ Trimmed(TrimAscii(x))
      /\ \A i \in 1 .. Len(x) : ~Blank(x[i]) => TrimAscii(x) # <<>>
  BY ONLY <1>6, <1>7, TrimsTo
<1>9. PICK c : Within(h, TrimAscii(h), c)
  BY ONLY <1>6, TrimsTo
<1>10. /\ c \in Nat /\ c + Len(TrimAscii(h)) <= k - 1
       /\ \A i \in 1 .. Len(TrimAscii(h)) : TrimAscii(h)[i] = s[c + i]
  <2>. DEFINE t == TrimAscii(h)
  <2>1. Len(t) \in Nat
    BY <1>8
  <2>. HIDE DEF t
  <2>2. c \in Nat /\ c + Len(t) <= Len(h) /\ \A i \in 1 .. Len(t) : t[i] = h[c + i]
    BY <1>9 DEF Within, t
  <2>3. \A j \in 1 .. Len(h) : h[j] = s[0 + j]
    BY <1>6 DEF Within
  <2>4. ASSUME NEW i \in 1 .. Len(t) PROVE t[i] = s[c + i]
    <3>1. c + i \in 1 .. Len(h) /\ 0 + (c + i) = c + i
      BY <1>4, <1>6, <2>1, <2>2, SMTT(60)
    <3>. QED BY <2>2, <2>3, <3>1
  <2>. QED BY <1>6, <2>2, <2>4 DEF t
<1>11. ASSUME NEW i \in k + Len(sep) .. Len(s), ~Blank(s[i]) PROVE TrimAscii(x) # <<>>
  <2>1. /\ i - (k + Len(sep) - 1) \in 1 .. Len(x)
        /\ (k + Len(sep) - 1) + (i - (k + Len(sep) - 1)) = i
    BY <1>1, <1>4, <1>7
  <2>2. x[i - (k + Len(sep) - 1)] = s[i]
    BY <1>7, <2>1 DEF Within
  <2>. QED BY <1>8, <1>11, <2>1, <2>2
<1>. QED BY <1>3, <1>5, <1>8, <1>10, <1>11, ZenonT(90) DEF S

\* What is read is proper, at most one entry of a line.
LEMMA ParseTodoProper ==
  ASSUME NEW line \in Seq(Plain)
  PROVE  \/ ParseTodo(line) = <<>>
         \/ \E e \in Entries("todo") : ParseTodo(line) = <<e>>
<1>. DEFINE t == TrimAscii(line)
            done == IsPrefix(Mark(TRUE), t)
            marked == done \/ IsPrefix(Mark(FALSE), t)
            u == IF marked THEN SubSeq(t, 4, Len(t)) ELSE t
            s == TrimAscii(u)
            p == Parts(s, <<Colon>>)
            e == Entry(done, IF p.found THEN p.head ELSE General, p.text)
<1>1. ParseTodo(line) = IF t = <<>> THEN <<>> ELSE <<e>>
  BY DEF ParseTodo
<1>2. t \in Seq(Plain)
  BY TrimsTo
<1>3. done \in BOOLEAN
  BY DEF IsPrefix
<1>. HIDE DEF t, done, marked
<1>4. u \in Seq(Plain)
  <2>1. \A i \in 4 .. Len(t) : t[i] \in Plain
    BY <1>2
  <2>2. SubSeq(t, 4, Len(t)) \in Seq(Plain)
    <3>1. 4 \in Int /\ Len(t) \in Int
      BY <1>2
    <3>. QED BY ONLY <2>1, <3>1, SubSeqProperties
  <2>. QED BY <1>2, <2>2
<1>. HIDE DEF u
<1>5. s \in Seq(Plain) /\ Trimmed(s)
  BY <1>4, TrimsTo
<1>. HIDE DEF s
<1>6. s \in Seq(Char)
  BY <1>5, PlainIsChar
<1>7. <<Colon>> \in Seq(Char) /\ <<Colon>> # <<>>
  BY <1>6, ColonIsAt
<1>. DEFINE head == IF p.found THEN p.head ELSE General
            text == p.text
<1>8. General \in Seq(Plain) /\ Trimmed(General)
  <2>1. "general" \in Plain
    <3>1. "general" # NL
      BY DEF NL
    <3>. QED BY <3>1 DEF Plain, Char
  <2>2. General \in Seq(Plain)
    BY <2>1 DEF General
  <2>3. Len(General) = 1 /\ General[1] = "general"
    BY DEF General
  <2>. QED BY <2>2, <2>3 DEF Trimmed, Blank
<1>9. head \in Seq(Plain) /\ Trimmed(head) /\ text \in Seq(Plain) /\ Trimmed(text)
  <2>1. CASE Places(s, <<Colon>>) = {}
    <3>1. ~p.found /\ p.text = s
      BY <1>6, <1>7, <2>1, PartsNone
    <3>. QED BY <1>5, <1>8, <3>1
  <2>2. CASE Places(s, <<Colon>>) # {}
    <3>. DEFINE sep == <<Colon>>
    <3>. HIDE DEF sep
    <3>1. sep \in Seq(Char) /\ sep # <<>> /\ Places(s, sep) # {}
      BY <1>7, <2>2 DEF sep
    <3>2. /\ Parts(s, sep).found
          /\ Parts(s, sep).head \in Seq(Plain) /\ Trimmed(Parts(s, sep).head)
          /\ Parts(s, sep).text \in Seq(Plain) /\ Trimmed(Parts(s, sep).text)
      BY ONLY <1>5, <3>1, PartsProper
    <3>. QED BY <3>2 DEF sep
  <2>. QED BY <2>1, <2>2
<1>10. e = Entry(done, head, text)
  OBVIOUS
<1>. HIDE DEF head, text, p
<1>11. Proper("todo", done, head, text)
  BY <1>3, <1>9 DEF Proper
<1>12. e \in Entries("todo")
  <2>1. Entry(done, head, text) \in Entries("todo")
    BY ONLY <1>11, EntryIsProper
  <2>. QED BY ONLY <1>10, <2>1
<1>. HIDE DEF e
<1>. QED BY <1>1, <1>12

LEMMA ParseEventProper ==
  ASSUME NEW line \in Seq(Plain)
  PROVE  \/ ParseEvent(line) = <<>>
         \/ \E e \in Entries("calendar") : ParseEvent(line) = <<e>>
<1>. DEFINE s == TrimAscii(line)
            sep == <<Colon, Space>>
            p == Parts(s, sep)
<1>1. ParseEvent(line) = IF p.found THEN <<Entry(FALSE, p.head, p.text)>> ELSE <<>>
  BY DEF ParseEvent, Space
<1>2. s \in Seq(Plain) /\ Trimmed(s)
  BY TrimsTo
<1>. HIDE DEF s
<1>3. s \in Seq(Char)
  BY <1>2, PlainIsChar
<1>4. /\ sep \in Seq(Char) /\ Len(sep) = 2 /\ sep # <<>>
      /\ Places(s, sep) = {i \in 1 .. Len(s) - 1 : s[i] = Colon /\ s[i + 1] = Space}
  BY <1>3, ColonBlankIsAt
<1>. HIDE DEF sep
<1>5. CASE Places(s, sep) = {}
  <2>1. ~p.found
    BY <1>3, <1>4, <1>5, PartsNone
  <2>. QED BY <1>1, <2>1
<1>6. CASE Places(s, sep) # {}
  <2>. DEFINE head == p.head
              text == p.text
  <2>1. /\ p.found
        /\ head \in Seq(Plain) /\ Trimmed(head) /\ text \in Seq(Plain) /\ Trimmed(text)
    BY ONLY <1>2, <1>4, <1>6, PartsProper
  <2>2. PICK k \in Places(s, sep), c \in Nat :
          /\ \A i \in Places(s, sep) : k <= i
          /\ c + Len(head) <= k - 1
          /\ \A i \in 1 .. Len(head) : head[i] = s[c + i]
          /\ \A i \in k + Len(sep) .. Len(s) : ~Blank(s[i]) => text # <<>>
    BY ONLY <1>2, <1>4, <1>6, PartsProper
  <2>. HIDE DEF head, text
  <2>3. /\ k \in 1 .. Len(s) - 1 /\ s[k + 1] = Space /\ Len(s) \in Nat /\ Len(head) \in Nat
    <3>1. k \in 1 .. Len(s) - 1 /\ s[k + 1] = Space
      BY ONLY k \in Places(s, sep), <1>4
    <3>2. Len(s) \in Nat
      BY ONLY <1>2
    <3>3. Len(head) \in Nat
      BY ONLY <2>1
    <3>. QED BY ONLY <3>1, <3>2, <3>3
  <2>9. k \in Nat /\ k >= 1 /\ k + 1 <= Len(s) /\ k + Len(sep) = k + 2
    BY ONLY <1>4, <2>3
  <2>4. text # <<>>
    <3>1. s # <<>> /\ ~Blank(s[Len(s)])
      <4>1. s # <<>>
        BY ONLY <1>2, <2>3, <2>9, EmptySeq
      <4>. QED BY <1>2, <4>1 DEF Trimmed
    <3>2. Blank(s[k + 1])
      BY <2>3, SpaceIs
    <3>3. k + 1 # Len(s)
      BY <3>1, <3>2
    <3>4. Len(s) \in k + Len(sep) .. Len(s)
      BY ONLY <2>3, <2>9, <3>3
    <3>. QED BY <2>2, <3>1, <3>4
  <2>5. ASSUME NEW i \in 1 .. Len(head) - 1, head[i] = Colon, head[i + 1] = Space PROVE FALSE
    <3>1. /\ i \in 1 .. Len(head) /\ i + 1 \in 1 .. Len(head) /\ c + (i + 1) = (c + i) + 1
          /\ c + i \in 1 .. Len(s) - 1 /\ c + i < k
      BY ONLY <2>2, <2>3, <2>9, c \in Nat, i \in 1 .. Len(head) - 1
    <3>2. s[c + i] = Colon /\ s[(c + i) + 1] = Space
      <4>1. \A j \in 1 .. Len(head) : head[j] = s[c + j]
        BY <2>2
      <4>2. head[i] = s[c + i] /\ head[i + 1] = s[c + (i + 1)]
        BY ONLY <3>1, <4>1
      <4>3. head[i] = Colon /\ head[i + 1] = Space
        BY <2>5
      <4>4. c + (i + 1) = (c + i) + 1
        BY ONLY <3>1
      <4>. QED BY ONLY <4>2, <4>3, <4>4
    <3>3. c + i \in Places(s, sep)
      BY <1>4, <3>1, <3>2
    <3>4. k <= c + i /\ k \in Int /\ c + i \in Int
      BY ONLY <2>2, <2>3, <2>9, <3>1, <3>3
    <3>. QED BY ONLY <3>1, <3>4
  <2>6. Proper("calendar", FALSE, head, text)
    BY <2>1, <2>4, <2>5 DEF Proper
  <2>7. Entry(FALSE, head, text) \in Entries("calendar")
    BY ONLY <2>6, EntryIsProper
  <2>8. ParseEvent(line) = <<Entry(FALSE, head, text)>>
    BY <1>1, <2>1 DEF head, text
  <2>. QED BY <2>7, <2>8
<1>. QED BY <1>5, <1>6

\* The line of an entry, without its newline.
EntryLine(e) ==
  (IF app = "todo" THEN Append(Mark(e.done), Space) ELSE <<>>)
    \o e.head \o <<Colon, Space>> \o e.text

LEMMA TrimmedAgain ==
  ASSUME NEW m \in Seq(Plain), Trimmed(m) PROVE TrimAscii(m) = m
<1>. DEFINE e == <<>>
<1>1. e \in Seq(Plain) /\ Len(e) = 0
  BY EmptySeq
<1>2. e \o m = m /\ m \o e = m
  BY ConcatEmptySeq
<1>. HIDE DEF e
<1>3. \A i \in 1 .. Len(e) : Blank(e[i])
  BY <1>1
<1>4. TrimAscii(e \o m \o e) = m
  BY <1>1, <1>3, TrimPadded
<1>. QED BY <1>2, <1>4

\* A head, a separator and what is behind it have nothing to trim.
LEMMA TrimmedJoined ==
  ASSUME NEW h \in Seq(Plain), NEW c \in Seq(Plain), NEW x \in Seq(Plain),
         Trimmed(h), Trimmed(c), c # <<>>,
         x # <<>> => ~Blank(x[Len(x)]), x = <<>> \/ c # <<>>
  PROVE  Trimmed(h \o c \o x)
<1>. DEFINE s == h \o c \o x
<1>1. /\ s \in Seq(Plain) /\ Len(s) = Len(h) + Len(c) + Len(x)
      /\ \A i \in 1 .. Len(h) : s[i] = h[i]
      /\ \A i \in 1 .. Len(c) : s[Len(h) + i] = c[i]
      /\ \A i \in 1 .. Len(x) : s[Len(h) + Len(c) + i] = x[i]
      /\ Len(h) \in Nat /\ Len(c) \in Nat /\ Len(x) \in Nat
  BY ThreeInARow, SMTT(60)
<1>. HIDE DEF s
<1>2. Len(c) # 0
  BY EmptySeq
<1>3. ~Blank(s[1])
  <2>1. CASE h = <<>>
    <3>1. Len(h) = 0 /\ 1 \in 1 .. Len(c) /\ Len(h) + 1 = 1
      BY <1>1, <1>2, <2>1
    <3>2. s[1] = c[1]
      BY <1>1, <3>1
    <3>. QED BY <3>2 DEF Trimmed
  <2>2. CASE h # <<>>
    <3>1. 1 \in 1 .. Len(h)
      BY <1>1, <2>2, EmptySeq
    <3>2. s[1] = h[1]
      BY <1>1, <3>1
    <3>. QED BY <2>2, <3>2 DEF Trimmed
  <2>. QED BY <2>1, <2>2
<1>4. ~Blank(s[Len(s)])
  <2>1. CASE x = <<>>
    <3>1. Len(x) = 0 /\ Len(c) \in 1 .. Len(c) /\ Len(h) + Len(c) = Len(s)
      BY <1>1, <1>2, <2>1
    <3>2. s[Len(s)] = c[Len(c)]
      BY <1>1, <3>1
    <3>. QED BY <3>2 DEF Trimmed
  <2>2. CASE x # <<>>
    <3>1. Len(x) \in 1 .. Len(x) /\ Len(h) + Len(c) + Len(x) = Len(s)
      BY <1>1, <2>2, EmptySeq
    <3>2. s[Len(s)] = x[Len(x)]
      BY <1>1, <3>1
    <3>. QED BY <2>2, <3>2
  <2>. QED BY <2>1, <2>2
<1>5. Trimmed(s)
  BY <1>3, <1>4 DEF Trimmed
<1>. QED BY <1>5 DEF s

LEMMA Separators ==
  /\ <<Colon>> \in Seq(Plain) /\ <<Colon>> \in Seq(Char) /\ <<Colon>> # <<>>
  /\ Len(<<Colon>>) = 1 /\ <<Colon>>[1] = Colon /\ Trimmed(<<Colon>>)
  /\ <<Space>> \in Seq(Plain) /\ <<Space>> # <<>>
  /\ Len(<<Space>>) = 1 /\ <<Space>>[1] = Space /\ \A i \in 1 .. 1 : Blank(<<Space>>[i])
  /\ <<Colon, Space>> \in Seq(Plain) /\ <<Colon, Space>> \in Seq(Char)
  /\ <<Colon, Space>> # <<>> /\ Len(<<Colon, Space>>) = 2
  /\ <<Colon, Space>>[1] = Colon /\ <<Colon, Space>>[2] = Space
  /\ <<Colon, Space>> = <<Colon>> \o <<Space>>
<1>1. Colon \in Plain /\ Space \in Plain /\ ~Blank(Colon) /\ Blank(Space)
  BY SpaceIs
<1>2. <<Colon>> \in Seq(Plain) /\ <<Space>> \in Seq(Plain) /\ <<Colon, Space>> \in Seq(Plain)
  BY <1>1, PairIs
<1>3. <<Colon>> \in Seq(Char) /\ <<Colon, Space>> \in Seq(Char)
  BY <1>2, PlainIsChar
<1>4. Len(<<Colon>>) = 1 /\ <<Colon>>[1] = Colon /\ Len(<<Space>>) = 1 /\ <<Space>>[1] = Space
  OBVIOUS
<1>5. Trimmed(<<Colon>>)
  BY <1>1, <1>4 DEF Trimmed
<1>6. \A i \in 1 .. 1 : Blank(<<Space>>[i])
  BY <1>1, <1>4
<1>7. /\ Len(<<Colon, Space>>) = 2 /\ <<Colon, Space>>[1] = Colon /\ <<Colon, Space>>[2] = Space
      /\ <<Colon, Space>> # <<>> /\ <<Colon>> # <<>> /\ <<Space>> # <<>>
  OBVIOUS
<1>8. <<Colon, Space>> = <<Colon>> \o <<Space>>
  OBVIOUS
<1>. QED BY ONLY <1>2, <1>3, <1>4, <1>5, <1>6, <1>7, <1>8

LEMMA EventParsedBack ==
  ASSUME app = "calendar", NEW e \in Entries("calendar")
  PROVE  ParseLine(EntryLine(e)) = <<e>> /\ EntryLine(e) \in Seq(Plain)
<1>. DEFINE h == e.head
            x == e.text
            sep == <<Colon, Space>>
            s == h \o sep \o x
<1>1. /\ h \in Seq(Plain) /\ x \in Seq(Plain) /\ Trimmed(h) /\ Trimmed(x)
      /\ e.done = FALSE /\ x # <<>>
      /\ \A i \in 1 .. Len(h) - 1 : ~(h[i] = Colon /\ h[i + 1] = Space)
      /\ e = Entry(e.done, h, x)
  BY ProperIsEntry DEF Proper
<1>2. EntryLine(e) = s
  <2>1. EntryLine(e) = <<>> \o h \o sep \o x
    BY DEF EntryLine
  <2>2. <<>> \o h = h
    BY <1>1, ConcatEmptySeq
  <2>. QED BY <2>1, <2>2
<1>. HIDE DEF h, x
<1>3. /\ sep \in Seq(Plain) /\ sep \in Seq(Char) /\ sep # <<>> /\ Len(sep) = 2
      /\ sep[1] = Colon /\ sep[2] = Space
  BY Separators
<1>. HIDE DEF sep
<1>4. h \in Seq(Char) /\ x \in Seq(Char)
  BY <1>1, PlainIsChar
<1>5. /\ s \in Seq(Plain) /\ Len(s) = Len(h) + Len(sep) + Len(x)
      /\ \A i \in 1 .. Len(h) : s[i] = h[i]
      /\ \A i \in 1 .. Len(sep) : s[Len(h) + i] = sep[i]
      /\ \A i \in 1 .. Len(x) : s[Len(h) + Len(sep) + i] = x[i]
      /\ Len(h) \in Nat /\ Len(x) \in Nat
  <2>3. h \in Seq(Plain) /\ sep \in Seq(Plain) /\ x \in Seq(Plain)
    BY <1>1, <1>3
  <2>1. /\ s \in Seq(Plain) /\ Len(s) = Len(h) + Len(sep) + Len(x)
        /\ \A i \in 1 .. Len(h) : s[i] = h[i]
        /\ \A i \in 1 .. Len(sep) : s[Len(h) + i] = sep[i]
        /\ \A i \in 1 .. Len(x) : s[Len(h) + Len(sep) + i] = x[i]
    BY ONLY <2>3, ThreeInARow
  <2>2. Len(h) \in Nat /\ Len(x) \in Nat
    BY <1>1
  <2>. QED BY <2>1, <2>2
<1>6. ~Blank(s[1]) /\ ~Blank(s[Len(s)])
  <2>1. s[1] = IF h = <<>> THEN Colon ELSE h[1]
    <3>1. CASE h = <<>>
      <4>1. Len(h) = 0 /\ 1 \in 1 .. Len(sep) /\ 0 + 1 = 1
        BY ONLY <1>3, <3>1, EmptySeq
      <4>2. s[Len(h) + 1] = sep[1]
        BY ONLY <1>5, <4>1
      <4>. QED BY ONLY <1>3, <3>1, <4>1, <4>2
    <3>2. CASE h # <<>>
      <4>1. 1 \in 1 .. Len(h)
        BY ONLY <1>1, <1>5, <3>2, EmptySeq
      <4>. QED BY ONLY <1>5, <3>2, <4>1
    <3>. QED BY <3>1, <3>2
  <2>2. s[Len(s)] = x[Len(x)]
    <3>1. Len(x) \in 1 .. Len(x) /\ Len(h) + Len(sep) + Len(x) = Len(s)
      BY ONLY <1>1, <1>5, EmptySeq
    <3>. QED BY ONLY <1>5, <3>1
  <2>3. ~Blank(Colon)
    BY SpaceIs
  <2>. HIDE DEF s
  <2>. QED BY <1>1, <2>1, <2>2, <2>3 DEF Trimmed
<1>. HIDE DEF s
<1>7. TrimAscii(s) = s
  <2>1. Trimmed(s)
    BY <1>6 DEF Trimmed
  <2>. QED BY <1>5, <2>1, TrimmedAgain
<1>8. \A i \in Places(s, sep) : Len(h) + 1 <= i
  <2>1. s \in Seq(Char)
    BY <1>5, PlainIsChar
  <2>2. Places(s, sep) = {i \in 1 .. Len(s) - 1 : s[i] = Colon /\ s[i + 1] = Space}
    BY <2>1, ColonBlankIsAt DEF sep
  <2>. SUFFICES ASSUME NEW i \in Places(s, sep), ~(Len(h) + 1 <= i) PROVE FALSE
    OBVIOUS
  <2>3. i \in 1 .. Len(s) - 1 /\ s[i] = Colon /\ s[i + 1] = Space
    BY <2>2
  <2>4. i \in 1 .. Len(h) /\ Len(s) \in Nat
    BY <1>5, <2>3
  <2>5. CASE i = Len(h)
    <3>1. s[i + 1] = sep[1]
      <4>1. 1 \in 1 .. Len(sep)
        BY <1>3
      <4>. QED BY <1>5, <2>5, <4>1
    <3>. QED BY <1>3, <2>3, <3>1, SpaceIs
  <2>6. CASE i # Len(h)
    <3>1. i \in 1 .. Len(h) - 1 /\ i + 1 \in 1 .. Len(h)
      BY <1>5, <2>4, <2>6
    <3>2. h[i] = Colon /\ h[i + 1] = Space
      BY <1>5, <2>3, <2>4, <3>1
    <3>. QED BY <1>1, <3>1, <3>2
  <2>. QED BY <2>5, <2>6
<1>9. /\ Parts(s, sep).found
      /\ Parts(s, sep).head = TrimAscii(h) /\ Parts(s, sep).text = TrimAscii(x)
  <2>1. IsJoined(s, h, sep, x)
    BY DEF s, IsJoined
  <2>2. h \in Seq(Char) /\ sep \in Seq(Char) /\ x \in Seq(Char) /\ sep # <<>>
    BY <1>3, <1>4
  <2>. QED BY ONLY <1>8, <2>1, <2>2, PartsJoined
<1>10. TrimAscii(h) = h /\ TrimAscii(x) = x
  BY <1>1, TrimmedAgain
<1>11. ParseEvent(s) = <<Entry(FALSE, Parts(s, sep).head, Parts(s, sep).text)>>
  <2>1. ParseEvent(s) = IF Parts(TrimAscii(s), sep).found
                        THEN <<Entry(FALSE, Parts(TrimAscii(s), sep).head,
                                     Parts(TrimAscii(s), sep).text)>>
                        ELSE <<>>
    BY Zenon DEF ParseEvent, sep, Space
  <2>. QED BY ONLY <1>7, <1>9, <2>1
<1>12. ParseLine(s) = ParseEvent(s)
  BY DEF ParseLine
<1>13. ParseLine(s) = <<e>>
  BY <1>1, <1>9, <1>10, <1>11, <1>12
<1>. QED BY <1>2, <1>5, <1>13

\* The two marks.
LEMMA MarkIs ==
  ASSUME NEW d \in BOOLEAN
  PROVE  /\ Mark(d) \in Seq(Plain) /\ Len(Mark(d)) = 3 /\ Mark(d) # <<>>
         /\ Mark(d)[1] = "[" /\ Mark(d)[3] = "]"
         /\ Mark(d)[2] = IF d THEN "x" ELSE Space
<1>. DEFINE c == IF d THEN "x" ELSE Space
<1>1. Mark(d) = <<"[", c, "]">>
  BY Zenon DEF Mark, Space
<1>2. "[" \in Plain /\ "]" \in Plain /\ "x" \in Plain /\ Space \in Plain
  <2>1. "[" # NL /\ "]" # NL /\ "x" # NL
    BY DEF NL
  <2>. QED BY <2>1, SpaceIs DEF Plain, Char
<1>3. c \in Plain
  BY <1>2
<1>. HIDE DEF c
<1>4. <<"[", c, "]">> \in Seq(Plain)
  BY <1>2, <1>3
<1>5. Len(<<"[", c, "]">>) = 3 /\ <<"[", c, "]">> # <<>>
  OBVIOUS
<1>6. <<"[", c, "]">>[1] = "[" /\ <<"[", c, "]">>[2] = c /\ <<"[", c, "]">>[3] = "]"
  OBVIOUS
<1>. QED BY ONLY <1>1, <1>4, <1>5, <1>6 DEF c

LEMMA MarkTrimmed ==
  ASSUME NEW d \in BOOLEAN
  PROVE  ~Blank(Mark(d)[1]) /\ ~Blank(Mark(d)[3])
<1>1. "[" # Space /\ "]" # Space
  BY Zenon DEF Space
<1>. QED BY <1>1, MarkIs, SpaceIs

\* A text with a mark in front begins with this one and not with the other.
LEMMA MarkIsPrefix ==
  ASSUME NEW d \in BOOLEAN, NEW b \in BOOLEAN, NEW y \in Seq(Plain)
  PROVE  IsPrefix(Mark(b), Mark(d) \o y) <=> b = d
<1>. DEFINE m == Mark(d)
            n == Mark(b)
            s == m \o y
<1>1. m \in Seq(Plain) /\ n \in Seq(Plain) /\ Len(m) = 3 /\ Len(n) = 3
  BY MarkIs
<1>. HIDE DEF m, n
<1>2. SubSeq(s, 1, 3) = m
  <2>1. SubSeq(m \o y, 1, Len(m)) = m
    BY ONLY <1>1, y \in Seq(Plain), BeginningIs
  <2>. QED BY ONLY <1>1, <2>1
<1>3. SubSeq(n, 1, 3) = n
  <2>1. SubSeq(n, 1, Len(n)) = n
    BY ONLY <1>1, SubSeqFull
  <2>. QED BY ONLY <1>1, <2>1
<1>4. Len(s) \in Nat /\ 3 <= Len(s)
  <2>1. Len(m \o y) = Len(m) + Len(y)
    BY ONLY <1>1, y \in Seq(Plain), TwoInARow, ZenonT(90)
  <2>. QED BY <1>1, <2>1
<1>. HIDE DEF s
<1>5. IsPrefix(n, s) <=> n = m
  BY <1>1, <1>2, <1>3, <1>4 DEF IsPrefix
<1>6. n = m <=> b = d
  <2>1. b # d => n # m
    <3>1. m[2] = (IF d THEN "x" ELSE Space) /\ n[2] = (IF b THEN "x" ELSE Space)
      BY MarkIs DEF m, n
    <3>. QED BY <3>1, SpaceIs
  <2>. QED BY <2>1 DEF m, n
<1>. QED BY <1>5, <1>6 DEF m, n, s

\* parse_todos() behind the mark.
Behind(t) ==
  IF IsPrefix(Mark(TRUE), t) \/ IsPrefix(Mark(FALSE), t) THEN SubSeq(t, 4, Len(t)) ELSE t

LEMMA ParseTodoIs ==
  ASSUME NEW line, NEW p, p = Parts(TrimAscii(Behind(TrimAscii(line))), <<Colon>>), p.found,
         TrimAscii(line) # <<>>
  PROVE  ParseTodo(line) = <<Entry(IsPrefix(Mark(TRUE), TrimAscii(line)), p.head, p.text)>>
BY DEF ParseTodo, Behind

\* What is behind the mark in the line of a todo: the category, the separator
\* and the text, without blanks around them.
LEMMA TodoBody ==
  ASSUME NEW h \in Seq(Plain), NEW x \in Seq(Plain), Trimmed(h), Trimmed(x)
  PROVE  \E y \in Seq(Plain), z \in Seq(Plain) :
           /\ Continues(<<Space>> \o x, y, z)
           /\ TrimAscii(y) = x
           /\ Trimmed(h \o <<Colon>> \o y)
           /\ \A i \in 1 .. Len(z) : Blank(z[i])
<1>. DEFINE b == <<Space>>
            c == <<Colon>>
            e == <<>>
<1>1. /\ b \in Seq(Plain) /\ \A i \in 1 .. Len(b) : Blank(b[i])
      /\ c \in Seq(Plain) /\ c # <<>> /\ Trimmed(c)
  BY Separators
<1>2. e \in Seq(Plain) /\ e = <<>> /\ Len(e) = 0 /\ \A i \in 1 .. Len(e) : Blank(e[i])
  BY EmptySeq
<1>. HIDE DEF b, c, e
<1>3. CASE x = <<>>
  <2>1. b \o x = b /\ e \o b = b
    BY <1>1, <1>2, <1>3, ConcatEmptySeq
  <2>2. Continues(b \o x, e, b)
    BY <2>1 DEF Continues
  <2>3. Trimmed(e)
    BY <1>2 DEF Trimmed
  <2>4. TrimAscii(e) = x
    BY <1>2, <1>3, <2>3, TrimmedAgain
  <2>5. Trimmed(h \o c \o e)
    BY <1>1, <1>2, TrimmedJoined
  <2>. QED BY <1>1, <1>2, <2>2, <2>4, <2>5 DEF b, c
<1>4. CASE x # <<>>
  <2>. DEFINE y == b \o x
  <2>1. /\ y \in Seq(Plain) /\ Len(y) = Len(b) + Len(x)
        /\ \A i \in 1 .. Len(x) : y[Len(b) + i] = x[i]
        /\ Len(b) \in Nat /\ Len(x) \in Nat
    BY ONLY <1>1, x \in Seq(Plain), TwoInARow
  <2>2. y \o e = y
    BY <1>2, <2>1, ConcatEmptySeq
  <2>3. Continues(b \o x, y, e)
    BY <2>2 DEF Continues
  <2>4. TrimAscii(y) = x
    <3>1. TrimAscii(b \o x \o e) = x
      BY <1>1, <1>2, TrimPadded
    <3>. QED BY <2>2, <3>1
  <2>. HIDE DEF y
  <2>5. ~Blank(y[Len(y)])
    <3>1. Len(x) \in 1 .. Len(x)
      BY <1>4, <2>1, EmptySeq
    <3>2. y[Len(y)] = x[Len(x)]
      BY <2>1, <3>1
    <3>. QED BY <1>4, <3>2 DEF Trimmed
  <2>6. Trimmed(h \o c \o y)
    BY <1>1, <2>1, <2>5, TrimmedJoined
  <2>. QED BY <1>2, <2>1, <2>3, <2>4, <2>6 DEF b, c, e
<1>. QED BY <1>3, <1>4

LEMMA JoinedFacts ==
  ASSUME NEW E, NEW a \in Seq(E), NEW b \in Seq(E), NEW c \in Seq(E)
  PROVE  Joined(a, b) \in Seq(E) /\ Joined(Joined(a, b), c) = Joined(a, Joined(b, c))
BY ConcatTyped, ConcatAssociative, SMTT(60) DEF Joined

LEMMA Regroup ==
  ASSUME NEW E, NEW m \in Seq(E), NEW b \in Seq(E), NEW h \in Seq(E), NEW c \in Seq(E),
         NEW x \in Seq(E), NEW y \in Seq(E), NEW z \in Seq(E), Continues(b \o x, y, z)
  PROVE  Continues((m \o b) \o h \o (c \o b) \o x, m \o (b \o (h \o c \o y)), z)
<1>. DEFINE mb == Joined(m, b)
            p == Joined(mb, h)
            cy == Joined(c, y)
            body == Joined(Joined(h, c), y)
<1>1. /\ mb \in Seq(E) /\ p \in Seq(E) /\ cy \in Seq(E) /\ body \in Seq(E)
      /\ Joined(c, b) \in Seq(E) /\ Joined(b, x) \in Seq(E) /\ Joined(h, c) \in Seq(E)
  BY JoinedFacts
<1>2. Joined(b, x) = Joined(y, z)
  BY DEF Joined, Continues
<1>3. Joined(Joined(p, Joined(c, b)), x) = Joined(p, Joined(Joined(c, b), x))
  BY <1>1, JoinedFacts, SMTT(60)
<1>4. Joined(Joined(c, b), x) = Joined(c, Joined(y, z))
  BY <1>2, JoinedFacts
<1>5. Joined(c, Joined(y, z)) = Joined(cy, z)
  BY JoinedFacts
<1>6. Joined(p, Joined(cy, z)) = Joined(Joined(p, cy), z)
  BY <1>1, JoinedFacts, SMTT(60)
<1>7. Joined(p, cy) = Joined(mb, Joined(h, cy))
  BY <1>1, JoinedFacts, SMTT(60)
<1>8. Joined(h, cy) = body
  BY JoinedFacts
<1>9. Joined(mb, body) = Joined(m, Joined(b, body))
  BY <1>1, JoinedFacts
<1>10. Joined(Joined(p, Joined(c, b)), x) = Joined(Joined(m, Joined(b, body)), z)
  BY ONLY <1>3, <1>4, <1>5, <1>6, <1>7, <1>8, <1>9
<1>. QED BY ONLY <1>10 DEF Continues, Joined

LEMMA TodoParsedBack ==
  ASSUME app = "todo", NEW e \in Entries("todo"), ~Contains(e.head, Colon)
  PROVE  ParseLine(EntryLine(e)) = <<e>>
<1>. DEFINE h == e.head
            x == e.text
            d == e.done
            m == Mark(d)
            b == <<Space>>
            c == <<Colon>>
            line == EntryLine(e)
<1>1. /\ h \in Seq(Plain) /\ x \in Seq(Plain) /\ Trimmed(h) /\ Trimmed(x) /\ d \in BOOLEAN
      /\ e = Entry(d, h, x)
  BY ProperIsEntry DEF Proper
<1>2. \A i \in 1 .. Len(h) : h[i] # Colon
  BY <1>1 DEF Contains
<1>3. m \in Seq(Plain) /\ Len(m) = 3 /\ ~Blank(m[1])
  BY <1>1, MarkIs, MarkTrimmed
<1>4. /\ b \in Seq(Plain) /\ Len(b) = 1 /\ \A i \in 1 .. Len(b) : Blank(b[i])
      /\ c \in Seq(Plain) /\ Len(c) = 1 /\ c # <<>> /\ c[1] = Colon
  BY Separators
<1>5. line = (m \o b) \o h \o (c \o b) \o x
  <2>1. line = Append(m, Space) \o h \o <<Colon, Space>> \o x
    BY DEF EntryLine
  <2>2. Append(m, Space) = m \o b
    BY <1>3, SpaceIs, AppendIsConcat
  <2>3. <<Colon, Space>> = c \o b
    BY Separators
  <2>. HIDE DEF line, m, b, c, h, x
  <2>. QED BY ONLY <2>1, <2>2, <2>3
<1>6. PICK y \in Seq(Plain), z \in Seq(Plain) :
        /\ Continues(b \o x, y, z)
        /\ TrimAscii(y) = x
        /\ Trimmed(h \o c \o y)
        /\ \A i \in 1 .. Len(z) : Blank(z[i])
  BY <1>1, TodoBody
<1>. DEFINE body == h \o c \o y
            u == b \o body
            q == m \o u
<1>. HIDE DEF m, b, c, h, x, d, line
<1>7. Continues(line, q, z)
  BY <1>1, <1>3, <1>4, <1>5, <1>6, Regroup
<1>8. /\ body \in Seq(Plain) /\ Len(body) = Len(h) + Len(c) + Len(y)
      /\ \A i \in 1 .. Len(h) : body[i] = h[i]
      /\ Len(h) \in Nat /\ Len(y) \in Nat
  <2>1. h \in Seq(Plain) /\ c \in Seq(Plain) /\ y \in Seq(Plain)
    BY <1>1, <1>4
  <2>2. /\ body \in Seq(Plain) /\ Len(body) = Len(h) + Len(c) + Len(y)
        /\ \A i \in 1 .. Len(h) : body[i] = h[i]
    BY ONLY <2>1, ThreeInARow DEF body
  <2>. QED BY <2>1, <2>2
<1>9. body # <<>> /\ Trimmed(body)
  BY <1>4, <1>6, <1>8
<1>20. IsJoined(body, h, c, y)
  BY DEF IsJoined
<1>. HIDE DEF body
<1>10. /\ u \in Seq(Plain) /\ Len(u) = 1 + Len(body) /\ Len(body) \in Nat \ {0}
       /\ \A i \in 1 .. Len(body) : u[1 + i] = body[i]
  <2>1. /\ u \in Seq(Plain) /\ Len(u) = Len(b) + Len(body)
        /\ \A i \in 1 .. Len(body) : u[Len(b) + i] = body[i]
    <3>1. b \in Seq(Plain) /\ body \in Seq(Plain)
      BY <1>4, <1>8
    <3>. QED BY ONLY <3>1, TwoInARow
  <2>2. Len(body) \in Nat \ {0}
    BY <1>8, <1>9, EmptySeq
  <2>. HIDE DEF u
  <2>. QED BY <1>4, <2>1, <2>2
<1>11. TrimAscii(u) = body
  <2>. DEFINE o == <<>>
  <2>1. o \in Seq(Plain) /\ \A i \in 1 .. Len(o) : Blank(o[i])
    BY EmptySeq
  <2>2. u \o o = u
    BY <1>10, ConcatEmptySeq
  <2>. HIDE DEF o
  <2>3. TrimAscii(b \o body \o o) = body
    BY <1>4, <1>8, <1>9, <2>1, TrimPadded
  <2>. QED BY <2>2, <2>3
<1>. HIDE DEF u
<1>12. /\ q \in Seq(Plain) /\ Len(q) = 3 + Len(u)
       /\ \A i \in 1 .. 3 : q[i] = m[i]
       /\ \A i \in 1 .. Len(u) : q[3 + i] = u[i]
  <2>1. /\ q \in Seq(Plain) /\ Len(q) = Len(m) + Len(u)
        /\ \A i \in 1 .. Len(m) : q[i] = m[i]
        /\ \A i \in 1 .. Len(u) : q[Len(m) + i] = u[i]
    <3>1. m \in Seq(Plain) /\ u \in Seq(Plain)
      BY <1>3, <1>10
    <3>. QED BY ONLY <3>1, TwoInARow
  <2>. HIDE DEF q
  <2>. QED BY ONLY <1>3, <2>1
<1>13. Behind(q) = u
  <2>1. IsPrefix(Mark(d), m \o u)
    BY <1>1, <1>10, MarkIsPrefix DEF m
  <2>2. IsPrefix(Mark(TRUE), q) \/ IsPrefix(Mark(FALSE), q)
    BY <1>1, <2>1
  <2>3. SubSeq(m \o u, Len(m) + 1, Len(m \o u)) = u
    BY <1>3, <1>10, EndIs
  <2>4. SubSeq(q, 4, Len(q)) = u
    BY <1>3, <2>3
  <2>. QED BY <2>2, <2>4 DEF Behind
<1>14. IsPrefix(Mark(TRUE), q) = d
  <2>1. IsPrefix(Mark(TRUE), m \o u) <=> TRUE = d
    BY <1>1, <1>10, MarkIsPrefix DEF m
  <2>2. IsPrefix(Mark(TRUE), q) \in BOOLEAN
    BY DEF IsPrefix
  <2>. QED BY <1>1, <2>1, <2>2
<1>. HIDE DEF q
<1>15. Trimmed(q) /\ q # <<>>
  <2>1. q[1] = m[1] /\ Len(q) = 3 + (1 + Len(body)) /\ Len(u) \in 1 .. Len(u)
    BY <1>10, <1>12
  <2>2. q[Len(q)] = u[Len(u)]
    BY <1>12, <2>1
  <2>3. u[Len(u)] = body[Len(body)]
    <3>1. Len(body) \in 1 .. Len(body)
      BY <1>10
    <3>. QED BY <1>10, <3>1
  <2>4. q # <<>>
    BY <1>10, <2>1
  <2>. QED BY <1>3, <1>9, <2>1, <2>2, <2>3, <2>4 DEF Trimmed
<1>16. TrimAscii(line) = q
  <2>. DEFINE o == <<>>
  <2>1. o \in Seq(Plain) /\ \A i \in 1 .. Len(o) : Blank(o[i])
    BY EmptySeq
  <2>2. o \o q = q
    BY <1>12, ConcatEmptySeq
  <2>. HIDE DEF o
  <2>3. TrimAscii(o \o q \o z) = q
    BY <1>6, <1>12, <1>15, <2>1, TrimPadded
  <2>4. line = q \o z
    BY <1>7 DEF Continues
  <2>. QED BY ONLY <2>2, <2>3, <2>4
<1>17. /\ Parts(body, c).found
       /\ Parts(body, c).head = h /\ Parts(body, c).text = x
  <2>1. body \in Seq(Char) /\ h \in Seq(Char) /\ y \in Seq(Char) /\ c \in Seq(Char)
    BY <1>1, <1>4, <1>8, PlainIsChar
  <2>2. Places(body, c) = {i \in 1 .. Len(body) : body[i] = Colon}
    BY <2>1, ColonIsAt DEF c
  <2>3. \A i \in Places(body, c) : Len(h) + 1 <= i
    BY <1>2, <1>8, <2>2
  <2>4. /\ Parts(body, c).found
        /\ Parts(body, c).head = TrimAscii(h) /\ Parts(body, c).text = TrimAscii(y)
    BY ONLY <1>4, <1>20, <2>1, <2>3, PartsJoined
  <2>5. TrimAscii(h) = h
    BY <1>1, TrimmedAgain
  <2>. QED BY ONLY <1>6, <2>4, <2>5
<1>18. ParseTodo(line) = <<Entry(d, h, x)>>
  <2>1. Parts(body, c) = Parts(TrimAscii(Behind(TrimAscii(line))), <<Colon>>)
    BY <1>11, <1>13, <1>16 DEF c
  <2>2. ParseTodo(line) =
          <<Entry(IsPrefix(Mark(TRUE), TrimAscii(line)), Parts(body, c).head, Parts(body, c).text)>>
    BY ONLY <1>15, <1>16, <1>17, <2>1, ParseTodoIs
  <2>. QED BY ONLY <1>14, <1>16, <1>17, <2>2
<1>19. ParseLine(line) = ParseTodo(line)
  BY DEF ParseLine
<1>. QED BY <1>1, <1>18, <1>19 DEF line

-----------------------------------------------------------------------------

(***************************************************************************)
(* What is typed, and what the applications make of it.                    *)
(***************************************************************************)
Keying == INSTANCE FoldFacts WITH Op <- TakeKey

LEMMA KeyTaken ==
  ASSUME NEW s \in Seq(Plain), NEW k \in Plain PROVE TakeKey(s, k) \in Seq(Plain)
<1>1. Append(s, k) \in Seq(Plain)
  BY AppendProperties
<1>2. ASSUME s # <<>> PROVE Front(s) \in Seq(Plain)
  <2>1. Len(s) \in Nat /\ \A i \in 1 .. Len(s) - 1 : s[i] \in Plain
    OBVIOUS
  <2>2. 1 \in Int /\ Len(s) - 1 \in Int
    BY <2>1
  <2>3. SubSeq(s, 1, Len(s) - 1) \in Seq(Plain)
    BY ONLY <2>1, <2>2, SubSeqProperties
  <2>. QED BY <2>3 DEF Front
<1>. QED BY <1>1, <1>2 DEF TakeKey

LEMMA ReadLineTyped ==
  ASSUME NEW keys \in Seq(STRING \ {NL}) PROVE ReadLine(keys) \in Seq(Plain)
<1>. DEFINE n == Len(keys)
<1>1. n \in Nat /\ DOMAIN keys = 1 .. n /\ \A i \in 1 .. n : keys[i] \in Plain
  BY DEF Plain, Char
<1>2. PICK g : Keying!Folding(g, <<>>, keys, n)
  BY <1>1, Keying!Folds
<1>. DEFINE Q == {k \in 0 .. n : g[k] \in Seq(Plain)}
<1>3. 0 \in Q
  <2>2. g[0] = <<>> /\ 0 \in 0 .. n
    BY <1>1, <1>2 DEF Keying!Folding
  <2>3. <<>> \in Seq(Plain)
    BY EmptySeq
  <2>1. g[0] \in Seq(Plain) /\ 0 \in 0 .. n
    BY ONLY <2>2, <2>3
  <2>. QED BY <2>1
<1>4. ASSUME NEW k \in 0 .. n - 1, k \in Q PROVE k + 1 \in Q
  <2>1. k + 1 \in 1 .. n /\ (k + 1) - 1 = k /\ k + 1 \in 0 .. n
    BY <1>1
  <2>2. g[k + 1] = TakeKey(g[k], keys[k + 1])
    BY <1>2, <2>1 DEF Keying!Folding
  <2>3. g[k] \in Seq(Plain) /\ keys[k + 1] \in Plain
    BY <1>1, <1>4, <2>1
  <2>4. g[k + 1] \in Seq(Plain)
    BY ONLY <2>2, <2>3, KeyTaken
  <2>. QED BY <2>1, <2>4
<1>5. n \in Q
  <2>. HIDE DEF Q
  <2>1. \A k \in 0 .. n : k \in Q
    BY <1>1, <1>3, <1>4, Flattening!UpTo
  <2>. QED BY <1>1, <2>1
<1>6. ReadLine(keys) = Keying!Folded(<<>>, keys)
  BY DEF ReadLine, Keying!Folded, Keying!FoldLeft, Keying!MapThenFoldSet, Keying!Max,
         FoldLeft, MapThenFoldSet, Max
<1>7. Keying!Folded(<<>>, keys) = g[n]
  BY <1>2 DEF Keying!Folding
<1>. QED BY <1>5, <1>6, <1>7

\* A command line, taken apart.
LEMMA CommandIs ==
  ASSUME TextAssumption, app \in DOMAIN TypedKeys, NEW c \in Command
  PROVE  /\ c.head \in Seq(Plain) /\ Trimmed(c.head)
         /\ c.rest \in Seq(Plain) /\ Trimmed(c.rest)
<1>1. PICK keys \in TypedKeys[app] : c = SplitN(TrimAscii(ReadLine(keys)))
  BY DEF Command
<1>2. keys \in Seq(STRING \ {NL})
  BY DEF TextAssumption
<1>3. ReadLine(keys) \in Seq(Plain)
  BY <1>2, ReadLineTyped
<1>4. TrimAscii(ReadLine(keys)) \in Seq(Plain)
  BY <1>3, TrimsTo
<1>5. /\ SplitN(TrimAscii(ReadLine(keys))).head \in Seq(Plain)
      /\ Trimmed(SplitN(TrimAscii(ReadLine(keys))).head)
      /\ SplitN(TrimAscii(ReadLine(keys))).rest \in Seq(Plain)
      /\ Trimmed(SplitN(TrimAscii(ReadLine(keys))).rest)
  BY <1>4, SplitsTo
<1>. QED BY <1>1, <1>5

LEMMA WordsAreProper ==
  /\ General \in Seq(Plain) /\ Trimmed(General)
  /\ <<"today">> \in Seq(Plain) /\ Trimmed(<<"today">>) /\ Len(<<"today">>) = 1
  /\ <<"Reminder">> \in Seq(Plain) /\ Trimmed(<<"Reminder">>) /\ <<"Reminder">> # <<>>
<1>1. "general" \in Plain /\ "today" \in Plain /\ "Reminder" \in Plain
  <2>1. "general" # NL /\ "today" # NL /\ "Reminder" # NL
    BY DEF NL
  <2>. QED BY <2>1 DEF Plain, Char
<1>2. ~Blank("general") /\ ~Blank("today") /\ ~Blank("Reminder")
  BY Zenon DEF Blank
<1>3. \A w \in Plain : <<w>> \in Seq(Plain) /\ Len(<<w>>) = 1 /\ <<w>>[1] = w
  OBVIOUS
<1>4. \A w \in Plain : ~Blank(w) => Trimmed(<<w>>)
  BY <1>3 DEF Trimmed
<1>. QED BY <1>1, <1>2, <1>3, <1>4 DEF General

\* `add` makes a proper entry, and so does `today`.
LEMMA AddedIsProper ==
  ASSUME NEW rest \in Seq(Plain), Trimmed(rest), rest # <<>>,
         app = "calendar" => HasBlank(rest)
  PROVE  (IF HasBlank(rest) THEN Entry(FALSE, SplitN(rest).head, SplitN(rest).rest)
          ELSE Entry(FALSE, General, rest)) \in Entries(app)
<1>1. CASE HasBlank(rest)
  <2>. DEFINE h == SplitN(rest).head
              x == SplitN(rest).rest
  <2>1. /\ h \in Seq({c \in Plain : ~Blank(c)}) /\ Trimmed(h) /\ h \in Seq(Plain)
        /\ x \in Seq(Plain) /\ Trimmed(x) /\ x # <<>>
    BY <1>1, SplitsTo
  <2>. HIDE DEF h, x
  <2>2. \A i \in 1 .. Len(h) : ~Blank(h[i])
    <3>. DEFINE F == {c \in Plain : ~Blank(c)}
    <3>1. h \in Seq(F) /\ \A c \in F : ~Blank(c)
      BY <2>1
    <3>. HIDE DEF F
    <3>2. \A i \in 1 .. Len(h) : h[i] \in F
      BY ONLY <3>1, ElementOfSeq
    <3>. QED BY <3>1, <3>2
  <2>3. ASSUME NEW i \in 1 .. Len(h) - 1 PROVE h[i + 1] # Space
    <3>1. Len(h) \in Nat
      BY <2>1
    <3>2. i + 1 \in 1 .. Len(h)
      BY <3>1
    <3>. QED BY <2>2, <3>2, SpaceIs
  <2>4. Proper(app, FALSE, h, x)
    BY <2>1, <2>3 DEF Proper
  <2>5. Entry(FALSE, h, x) \in Entries(app)
    BY <2>4, EntryIsProper
  <2>. QED BY <1>1, <2>5 DEF h, x
<1>2. CASE ~HasBlank(rest)
  <2>1. app # "calendar"
    BY <1>2
  <2>2. Proper(app, FALSE, General, rest)
    BY <2>1, WordsAreProper DEF Proper
  <2>3. Entry(FALSE, General, rest) \in Entries(app)
    BY <2>2, EntryIsProper
  <2>. QED BY <1>2, <2>3
<1>. QED BY <1>1, <1>2

LEMMA TodayIsProper ==
  ASSUME NEW rest \in Seq(Plain), Trimmed(rest)
  PROVE  Entry(FALSE, <<"today">>, IF rest = <<>> THEN <<"Reminder">> ELSE rest)
           \in Entries("calendar")
<1>. DEFINE h == <<"today">>
            x == IF rest = <<>> THEN <<"Reminder">> ELSE rest
<1>1. x \in Seq(Plain) /\ Trimmed(x) /\ x # <<>> /\ h \in Seq(Plain) /\ Trimmed(h) /\ Len(h) = 1
  BY WordsAreProper
<1>. HIDE DEF h, x
<1>2. Proper("calendar", FALSE, h, x)
  BY <1>1 DEF Proper
<1>3. Entry(FALSE, h, x) \in Entries("calendar")
  BY <1>2, EntryIsProper
<1>. QED BY <1>3 DEF h, x

\* One entry taken out, and one done.
LEMMA RemovedTyped ==
  ASSUME NEW E, NEW s \in Seq(E), NEW n \in DOMAIN s PROVE RemoveAt(s, n) \in Seq(E)
<1>1. n \in 1 .. Len(s) /\ Len(s) \in Nat /\ \A i \in 1 .. Len(s) : s[i] \in E
  OBVIOUS
<1>2. SubSeq(s, 1, n - 1) \in Seq(E)
  <2>1. 1 \in Int /\ n - 1 \in Int /\ \A i \in 1 .. n - 1 : s[i] \in E
    BY <1>1
  <2>. QED BY ONLY <2>1, SubSeqProperties
<1>3. SubSeq(s, n + 1, Len(s)) \in Seq(E)
  <2>1. n + 1 \in Int /\ Len(s) \in Int /\ \A i \in n + 1 .. Len(s) : s[i] \in E
    BY <1>1
  <2>. QED BY ONLY <2>1, SubSeqProperties
<1>. QED BY ONLY <1>2, <1>3, ConcatTyped DEF RemoveAt

LEMMA MadeDone ==
  ASSUME NEW d, NEW h, NEW x, NEW vv
  PROVE  [Entry(d, h, x) EXCEPT !.done = vv] = Entry(vv, h, x)
BY DEF Entry

LEMMA MadeDoneIsProper ==
  ASSUME NEW es \in Seq(Entries("todo")), NEW n \in DOMAIN es, NEW vv \in BOOLEAN
  PROVE  [es EXCEPT ![n].done = vv] \in Seq(Entries("todo"))
<1>. DEFINE e == es[n]
            f == [e EXCEPT !.done = vv]
<1>1. e \in Entries("todo") /\ n \in 1 .. Len(es)
  OBVIOUS
<1>2. Proper("todo", e.done, e.head, e.text) /\ e = Entry(e.done, e.head, e.text)
  BY <1>1, ProperIsEntry
<1>. HIDE DEF e
<1>3. f = Entry(vv, e.head, e.text)
  <2>1. [Entry(e.done, e.head, e.text) EXCEPT !.done = vv] = Entry(vv, e.head, e.text)
    BY MadeDone
  <2>. QED BY ONLY <1>2, <2>1 DEF f
<1>4. Proper("todo", vv, e.head, e.text)
  BY <1>2 DEF Proper
<1>. HIDE DEF f
<1>5. f \in Entries("todo")
  <2>1. Entry(vv, e.head, e.text) \in Entries("todo")
    BY ONLY <1>4, EntryIsProper
  <2>. QED BY ONLY <1>3, <2>1
<1>6. [es EXCEPT ![n] = f] \in Seq(Entries("todo"))
  BY <1>1, <1>5, ExceptSeq
<1>7. [es EXCEPT ![n].done = vv] = [es EXCEPT ![n] = f]
  BY DEF f, e
<1>. QED BY <1>6, <1>7

LEMMA DoneIsProper ==
  ASSUME NEW es \in Seq(Entries("todo")), NEW n \in DOMAIN es
  PROVE  [es EXCEPT ![n].done = TRUE] \in Seq(Entries("todo"))
<1>. DEFINE vv == TRUE
<1>1. vv \in BOOLEAN
  OBVIOUS
<1>. HIDE DEF vv
<1>2. [es EXCEPT ![n].done = vv] \in Seq(Entries("todo"))
  BY <1>1, MadeDoneIsProper
<1>. QED BY <1>2 DEF vv

\* Parsing any text.
LEMMA ParsedLine ==
  ASSUME app \in {"todo", "calendar"}, NEW line \in Seq(Plain)
  PROVE  ParseLine(line) \in Seq(Entries(app)) /\ Len(ParseLine(line)) <= 1
<1>1. \/ ParseLine(line) = <<>>
      \/ \E e \in Entries(app) : ParseLine(line) = <<e>>
  BY ParseTodoProper, ParseEventProper DEF ParseLine
<1>. DEFINE E == Entries(app)
<1>. HIDE DEF E
<1>2. \A e \in E : <<e>> \in Seq(E) /\ Len(<<e>>) = 1
  OBVIOUS
<1>3. <<>> \in Seq(E) /\ Len(<<>>) = 0
  BY EmptySeq
<1>4. ParseLine(line) = <<>> \/ \E e \in E : ParseLine(line) = <<e>>
  BY <1>1 DEF E
<1>5. ParseLine(line) \in Seq(E) /\ Len(ParseLine(line)) <= 1
  <2>1. CASE ParseLine(line) = <<>>
    BY <1>3, <2>1
  <2>2. CASE \E e \in E : ParseLine(line) = <<e>>
    <3>1. PICK e \in E : ParseLine(line) = <<e>>
      BY <2>2
    <3>. DEFINE u == <<e>>
    <3>2. u \in Seq(E) /\ Len(u) = 1
      BY <1>2
    <3>. HIDE DEF u
    <3>. QED BY <3>1, <3>2 DEF u
  <2>. QED BY <1>4, <2>1, <2>2
<1>. QED BY <1>5 DEF E

LEMMA ConcatenatingShort ==
  ASSUME NEW E, NEW n \in Nat, NEW ss \in [1 .. n -> Seq(E)], NEW g,
         Concatenating(g, E, ss, n), \A k \in 1 .. n : Len(ss[k]) <= 1
  PROVE  Len(FlattenSeq(ss)) <= n
<1>. DEFINE Q == {k \in 0 .. n : Len(g[k]) <= k}
<1>0. \A k \in 0 .. n : g[k] \in Seq(E)
  BY DEF Concatenating
<1>1. 0 \in Q
  <2>1. g[0] = <<>> /\ Len(<<>>) = 0 /\ 0 \in 0 .. n
    BY EmptySeq DEF Concatenating
  <2>. QED BY <2>1
<1>2. ASSUME NEW k \in 0 .. n - 1, k \in Q PROVE k + 1 \in Q
  <2>1. k + 1 \in 1 .. n /\ (k + 1) - 1 = k /\ k + 1 \in 0 .. n /\ k \in 0 .. n
    OBVIOUS
  <2>. DEFINE a == g[k]
              b == ss[k + 1]
  <2>2. g[k + 1] = a \o b
    <3>1. \A h \in 1 .. n : g[h] = g[h - 1] \o ss[h]
      BY DEF Concatenating
    <3>. QED BY ONLY <2>1, <3>1
  <2>3. a \in Seq(E) /\ b \in Seq(E) /\ Len(a) <= k /\ Len(b) <= 1
    BY <1>0, <1>2, <2>1
  <2>. HIDE DEF a, b, Q
  <2>4. Len(a \o b) = Len(a) + Len(b) /\ Len(a) \in Nat /\ Len(b) \in Nat
    BY <2>3, TwoInARow
  <2>5. Len(g[k + 1]) <= k + 1
    BY <2>2, <2>3, <2>4
  <2>. QED BY <2>1, <2>5 DEF Q
<1>3. n \in Q
  <2>. HIDE DEF Q
  <2>1. \A k \in 0 .. n : k \in Q
    BY <1>1, <1>2, Flattening!UpTo
  <2>. QED BY <2>1
<1>. QED BY <1>3 DEF Concatenating

\* The entries of each of the lines, in a row.
Parsing(pp, text) ==
  /\ pp \in [1 .. Len(LinesOf(text)) -> Seq(Entries(app))]
  /\ \A k \in 1 .. Len(LinesOf(text)) : pp[k] = ParseLine(LinesOf(text)[k])
  /\ Parse(text) = FlattenSeq(pp)

LEMMA ParseTyped ==
  ASSUME app \in {"todo", "calendar"}, NEW text \in Seq(Char)
  PROVE  /\ Parse(text) \in Seq(Entries(app)) /\ Len(Parse(text)) <= Len(LinesOf(text))
         /\ \E pp : Parsing(pp, text)
<1>. DEFINE all == LinesOf(text)
            n == Len(all)
            pp == [k \in DOMAIN all |-> ParseLine(all[k])]
            E == Entries(app)
<1>1. all \in Seq(Seq(Plain))
  BY LinesArePlain
<1>2. Parse(text) = FlattenSeq(pp)
  BY DEF Parse
<1>. HIDE DEF all, E
<1>3. DOMAIN all = 1 .. n /\ n \in Nat /\ \A k \in 1 .. n : all[k] \in Seq(Plain)
  BY <1>1
<1>4. \A k \in 1 .. n : ParseLine(all[k]) \in Seq(E) /\ Len(ParseLine(all[k])) <= 1
  BY <1>3, ParsedLine DEF E
<1>5. pp \in [1 .. n -> Seq(E)] /\ \A k \in 1 .. n : pp[k] = ParseLine(all[k])
  BY <1>3, <1>4
<1>. HIDE DEF pp
<1>6. PICK g : Concatenating(g, E, pp, n)
  BY <1>3, <1>5, Concatenates
<1>7. FlattenSeq(pp) \in Seq(E)
  <2>1. n \in 0 .. n
    BY <1>3
  <2>. QED BY <1>6, <2>1 DEF Concatenating
<1>8. Len(FlattenSeq(pp)) <= n
  BY <1>3, <1>4, <1>5, <1>6, ConcatenatingShort
<1>9. Parsing(pp, text)
  BY <1>2, <1>5 DEF Parsing, all, E
<1>. QED BY <1>2, <1>7, <1>8, <1>9 DEF all, E

-----------------------------------------------------------------------------

(***************************************************************************)
(* sw(): what the limit cuts off.                                          *)
(***************************************************************************)
LEMMA MinOfTwo ==
  ASSUME NEW a \in Nat, NEW b \in Nat
  PROVE  Min({a, b}) = IF a <= b THEN a ELSE b
<1>. DEFINE m == IF a <= b THEN a ELSE b
<1>1. m \in {a, b} /\ \A y \in {a, b} : m <= y
  OBVIOUS
<1>2. \A x \in {a, b} : (\A y \in {a, b} : x <= y) => x = m
  OBVIOUS
<1>. QED BY <1>1, <1>2 DEF Min

LEMMA CutTo ==
  ASSUME Limit \in Nat, NEW f \in Seq(Char)
  PROVE  /\ Cut(f) \in Seq(Char) /\ \E b \in Seq(Char) : f = Cut(f) \o b
         /\ Len(f) <= Limit => Cut(f) = f
<1>. DEFINE k == Min({Len(f), Limit})
<1>1. k \in 0 .. Len(f) /\ Len(f) \in Nat /\ (Len(f) <= Limit => k = Len(f))
  <2>1. Len(f) \in Nat
    OBVIOUS
  <2>. QED BY <2>1, MinOfTwo
<1>2. Cut(f) = SubSeq(f, 1, k)
  BY DEF Cut
<1>. HIDE DEF k
<1>3. SubSeq(f, 1, k) \in Seq(Char) /\ SubSeq(f, k + 1, Len(f)) \in Seq(Char)
  <2>1. /\ 1 \in Int /\ k \in Int /\ k + 1 \in Int /\ Len(f) \in Int
        /\ \A i \in 1 .. k : f[i] \in Char
        /\ \A i \in k + 1 .. Len(f) : f[i] \in Char
    BY <1>1
  <2>2. SubSeq(f, 1, k) \in Seq(Char)
    BY ONLY <2>1, SubSeqProperties
  <2>3. SubSeq(f, k + 1, Len(f)) \in Seq(Char)
    BY ONLY <2>1, SubSeqProperties
  <2>. QED BY <2>2, <2>3
<1>4. SubSeq(f, 1, k) \o SubSeq(f, k + 1, Len(f)) = SubSeq(f, 1, Len(f))
  <2>1. 1 \in 1 .. Len(f) + 1 /\ k \in 1 - 1 .. Len(f) /\ Len(f) \in k .. Len(f)
    BY <1>1
  <2>. QED BY ONLY <2>1, f \in Seq(Char), ConcatAdjacentSubSeq
<1>5. SubSeq(f, 1, Len(f)) = f
  BY SubSeqFull
<1>6. \E b \in Seq(Char) : f = SubSeq(f, 1, k) \o b
  BY ONLY <1>3, <1>4, <1>5
<1>7. Len(f) <= Limit => SubSeq(f, 1, k) = f
  BY <1>1, <1>5
<1>. QED BY ONLY <1>2, <1>3, <1>6, <1>7

\* A beginning within the limit is not touched.
LEMMA CutBehind ==
  ASSUME Limit \in Nat, NEW a \in Seq(Char), NEW r \in Seq(Char), Len(a) <= Limit
  PROVE  \E b \in Seq(Char) : Cut(a \o r) = a \o b
<1>. DEFINE f == a \o r
            k == Min({Len(f), Limit})
            n == Len(a)
<1>1. f \in Seq(Char) /\ Len(f) = n + Len(r) /\ n \in Nat /\ Len(r) \in Nat
  BY TwoInARow
<1>2. SubSeq(f, 1, n) = a
  BY BeginningIs
<1>. HIDE DEF f, n
<1>3. k \in n .. Len(f)
  BY <1>1, MinOfTwo DEF n
<1>. HIDE DEF k
<1>4. SubSeq(f, 1, n) \o SubSeq(f, n + 1, k) = SubSeq(f, 1, k)
  <2>1. 1 \in 1 .. Len(f) + 1 /\ n \in 1 - 1 .. Len(f) /\ k \in n .. Len(f)
    BY <1>1, <1>3
  <2>. QED BY ONLY <1>1, <2>1, ConcatAdjacentSubSeq
<1>5. SubSeq(f, n + 1, k) \in Seq(Char)
  <2>1. n + 1 \in Int /\ k \in Int /\ \A i \in n + 1 .. k : f[i] \in Char
    BY <1>1, <1>3
  <2>. QED BY ONLY <2>1, SubSeqProperties
<1>6. Cut(f) = SubSeq(f, 1, k)
  BY DEF Cut, k
<1>7. \E b \in Seq(Char) : Cut(f) = a \o b
  BY ONLY <1>2, <1>4, <1>5, <1>6
<1>. QED BY <1>7 DEF f

-----------------------------------------------------------------------------

(***************************************************************************)
(* The texts of todo and calendar: what fmt_todos() and fmt_events() make  *)
(* of the entries, line by line.                                           *)
(***************************************************************************)
\* The same as Fmt, of an application given.
FmtOf(a, entries) ==
  FlattenSeq([n \in DOMAIN entries |->
    (IF a = "todo" THEN Append(Mark(entries[n].done), " ") ELSE <<>>)
      \o entries[n].head \o <<Colon, " ">> \o entries[n].text \o <<NL>>])

LEMMA FmtIsOf == ASSUME NEW entries PROVE Fmt(entries) = FmtOf(app, entries)
BY Zenon DEF Fmt, FmtOf, FmtEntry

LEMMA EntryLineTyped ==
  ASSUME app \in {"todo", "calendar"}, NEW e \in Entries(app)
  PROVE  EntryLine(e) \in Seq(Plain) /\ FmtEntry(e) = Append(EntryLine(e), NL)
<1>. DEFINE m == IF app = "todo" THEN Append(Mark(e.done), Space) ELSE <<>>
            h == e.head
            x == e.text
            s == <<Colon, Space>>
            l == m \o h \o s \o x
<1>1. /\ h \in Seq(Plain) /\ x \in Seq(Plain) /\ e.done \in BOOLEAN /\ s \in Seq(Plain)
  BY ProperIsEntry, Separators DEF Proper
<1>2. m \in Seq(Plain)
  <2>1. Append(Mark(e.done), Space) \in Seq(Plain)
    BY <1>1, MarkIs, SpaceIs, AppendProperties
  <2>2. <<>> \in Seq(Plain)
    BY EmptySeq
  <2>. QED BY <2>1, <2>2
<1>3. EntryLine(e) = l
  BY DEF EntryLine
<1>4. FmtEntry(e) = l \o <<NL>>
  BY Zenon DEF FmtEntry, Space
<1>. HIDE DEF m, h, x, s
<1>5. l \in Seq(Plain)
  <2>. DEFINE mh == m \o h
              mhs == mh \o s
  <2>1. mh \in Seq(Plain)
    BY ONLY <1>1, <1>2, ConcatTyped
  <2>. HIDE DEF mh
  <2>2. mhs \in Seq(Plain)
    BY ONLY <1>1, <2>1, ConcatTyped
  <2>. HIDE DEF mhs
  <2>3. mhs \o x \in Seq(Plain)
    BY ONLY <1>1, <2>2, ConcatTyped
  <2>. QED BY <2>3 DEF mhs, mh
<1>. HIDE DEF l
<1>6. Append(l, NL) = l \o <<NL>>
  <2>1. l \in Seq(Char) /\ NL \in Char
    BY <1>5, PlainIsChar DEF Char
  <2>. QED BY <2>1, AppendIsConcat
<1>. QED BY ONLY <1>3, <1>4, <1>5, <1>6

\* The entries, their lines and their texts.
Formatting(entries, ss, ws) ==
  /\ ss \in [1 .. Len(entries) -> Seq(Char)] /\ ws \in Seq(Seq(Plain))
  /\ Len(ws) = Len(entries)
  /\ \A k \in 1 .. Len(entries) : ss[k] = Append(ws[k], NL)
  /\ \A k \in 1 .. Len(entries) : ws[k] = EntryLine(entries[k])
  /\ \A k \in 1 .. Len(entries) : ss[k] = FmtEntry(entries[k])
  /\ Fmt(entries) = FlattenSeq(ss)

LEMMA Formats ==
  ASSUME app \in {"todo", "calendar"}, NEW entries \in Seq(Entries(app))
  PROVE  \E ss, ws : Formatting(entries, ss, ws)
<1>. DEFINE n == Len(entries)
            ss == [k \in DOMAIN entries |-> FmtEntry(entries[k])]
            ws == [k \in 1 .. n |-> EntryLine(entries[k])]
<1>1. n \in Nat /\ DOMAIN entries = 1 .. n /\ \A k \in 1 .. n : entries[k] \in Entries(app)
  OBVIOUS
<1>2. \A k \in 1 .. n : /\ EntryLine(entries[k]) \in Seq(Plain)
                        /\ FmtEntry(entries[k]) = Append(EntryLine(entries[k]), NL)
  BY <1>1, EntryLineTyped
<1>3. Fmt(entries) = FlattenSeq(ss)
  BY DEF Fmt
<1>4. \A k \in 1 .. n : FmtEntry(entries[k]) \in Seq(Char)
  <2>. SUFFICES ASSUME NEW k \in 1 .. n PROVE FmtEntry(entries[k]) \in Seq(Char)
    OBVIOUS
  <2>. DEFINE l == EntryLine(entries[k])
  <2>1. l \in Seq(Plain) /\ FmtEntry(entries[k]) = Append(l, NL)
    BY <1>2
  <2>. HIDE DEF l
  <2>2. l \in Seq(Char) /\ NL \in Char
    BY <2>1, PlainIsChar DEF Char
  <2>3. Append(l, NL) \in Seq(Char)
    BY ONLY <2>2, AppendProperties
  <2>. QED BY ONLY <2>1, <2>3
<1>5. ss \in [1 .. n -> Seq(Char)] /\ \A k \in 1 .. n : ss[k] = FmtEntry(entries[k])
  BY <1>1, <1>4
<1>6. /\ ws \in Seq(Seq(Plain)) /\ Len(ws) = n
      /\ \A k \in 1 .. n : ws[k] = EntryLine(entries[k])
  BY <1>1, <1>2
<1>. HIDE DEF ss, ws, n
<1>7. \A k \in 1 .. n : ss[k] = Append(ws[k], NL)
  BY <1>2, <1>5, <1>6
<1>8. Formatting(entries, ss, ws)
  BY <1>3, <1>5, <1>6, <1>7 DEF Formatting, n
<1>. QED BY <1>8

\* The lines of the text of all the entries, and of those up to one.
LEMMA FmtRead ==
  ASSUME app \in {"todo", "calendar"}, NEW entries \in Seq(Entries(app)),
         NEW ss, NEW ws, Formatting(entries, ss, ws)
  PROVE  /\ Fmt(entries) \in Seq(Char) /\ LinesOf(Fmt(entries)) = ws
         /\ \A m \in 0 .. Len(entries) :
              /\ Fmt(SubSeq(entries, 1, m)) \in Seq(Char)
              /\ \E r \in Seq(Char) : Continues(Fmt(entries), Fmt(SubSeq(entries, 1, m)), r)
              /\ Lining!Folded(Reading(<<>>, <<>>), Fmt(SubSeq(entries, 1, m)))
                   = Reading(SubSeq(ws, 1, m), <<>>)
<1>. DEFINE n == Len(entries)
<1>1. /\ ss \in [1 .. n -> Seq(Char)] /\ ws \in Seq(Seq(Plain)) /\ Len(ws) = n
      /\ \A k \in 1 .. n : ss[k] = Append(ws[k], NL)
      /\ \A k \in 1 .. n : ss[k] = FmtEntry(entries[k])
      /\ Fmt(entries) = FlattenSeq(ss) /\ n \in Nat
  BY DEF Formatting
<1>. HIDE DEF n
<1>2. PICK g : Concatenating(g, Char, ss, n)
  BY <1>1, Concatenates
<1>3. Fmt(entries) = g[n] /\ \A k \in 0 .. n : g[k] \in Seq(Char)
  BY <1>1, <1>2 DEF Concatenating
<1>7. /\ n \in Nat /\ ss \in [1 .. n -> Seq(Char)] /\ ws \in Seq(Seq(Plain))
      /\ Concatenated(g, Char, ss, n)
  BY <1>1, <1>2 DEF Concatenated
<1>4. ASSUME NEW m \in 0 .. n
      PROVE  /\ Fmt(SubSeq(entries, 1, m)) = g[m]
             /\ \E r \in Seq(Char) : Continues(Fmt(entries), g[m], r)
             /\ Lining!Folded(Reading(<<>>, <<>>), g[m]) = Reading(SubSeq(ws, 1, m), <<>>)
  <2>. DEFINE es == SubSeq(entries, 1, m)
              tt == [k \in DOMAIN es |-> FmtEntry(es[k])]
  <2>1. /\ Len(es) = m /\ DOMAIN es = 1 .. m
        /\ \A k \in 1 .. m : es[k] = entries[k]
    <3>1. 1 \in Nat \ {0} /\ m \in Nat /\ m <= Len(entries)
      BY <1>1 DEF n
    <3>2. /\ es \in Seq(Entries(app)) /\ Len(es) = IF 1 <= m THEN m - 1 + 1 ELSE 0
          /\ \A k \in 1 .. m - 1 + 1 : es[k] = entries[1 + k - 1]
      BY ONLY <3>1, entries \in Seq(Entries(app)), CutIs
    <3>. HIDE DEF es
    <3>3. m - 1 + 1 = m /\ \A k \in 1 .. m : 1 + k - 1 = k
      BY <3>1
    <3>4. Len(es) = m
      BY <3>1, <3>2
    <3>5. DOMAIN es = 1 .. Len(es)
      BY <3>2
    <3>. QED BY ONLY <3>2, <3>3, <3>4, <3>5
  <2>2. Fmt(es) = FlattenSeq(tt)
    BY DEF Fmt
  <2>. HIDE DEF es
  <2>3. tt \in [1 .. m -> Seq(Char)] /\ \A k \in 1 .. m : tt[k] = ss[k]
    <3>2. \A k \in 1 .. m : k \in 1 .. n
      BY <1>7
    <3>3. \A k \in 1 .. n : ss[k] \in Seq(Char)
      BY ONLY <1>7
    <3>1. \A k \in 1 .. m : FmtEntry(es[k]) = ss[k] /\ ss[k] \in Seq(Char)
      BY ONLY <1>1, <2>1, <3>2, <3>3
    <3>. QED BY <2>1, <3>1
  <2>. HIDE DEF tt
  <2>4. FlattenSeq(tt) = g[m]
    <3>1. Concatenated(g, Char, ss, n)
      BY <1>7
    <3>. QED BY ONLY <2>3, <3>1, m \in 0 .. n, ConcatenatingFirst
  <2>5. \E r \in Seq(Char) : Continues(FlattenSeq(ss), g[m], r)
    BY ONLY <1>7, m \in 0 .. n, ConcatenatingSplits
  <2>6. Lining!Folded(Reading(<<>>, <<>>), g[m]) = Reading(SubSeq(ws, 1, m), <<>>)
    <3>2. \A k \in 1 .. m : k \in 1 .. n
      BY <1>7
    <3>3. m <= Len(ws)
      BY <1>1
    <3>1. Ended(ws, ss, m)
      BY ONLY <1>1, <3>2, <3>3 DEF Ended
    <3>. QED BY ONLY <1>7, <3>1, m \in 0 .. n, LinesRead
  <2>. QED BY <1>1, <2>2, <2>4, <2>5, <2>6 DEF es
<1>5. LinesOf(Fmt(entries)) = ws
  <2>1. n \in 0 .. n /\ SubSeq(ws, 1, n) = ws
    BY <1>1, SubSeqFull
  <2>2. Lining!Folded(Reading(<<>>, <<>>), Fmt(entries)) = Reading(ws, <<>>)
    BY <1>3, <1>4, <2>1
  <2>. QED BY <2>2, LinesOfIs
<1>6. n \in 0 .. n
  BY <1>1
<1>. QED BY <1>3, <1>4, <1>5, <1>6 DEF n

\* An entry of the list, read back from the file.
LEMMA ReadBackOne ==
  ASSUME app \in {"todo", "calendar"}, Limit \in Nat, wanted \in Seq(Entries(app)),
         file = Cut(Fmt(wanted)), NEW n \in DOMAIN wanted, Intact(n)
  PROVE  n \in DOMAIN Parse(file) /\ Parse(file)[n] = wanted[n]
<1>. DEFINE N == Len(wanted)
            E == Entries(app)
            a == Fmt(SubSeq(wanted, 1, n))
<1>1. N \in Nat /\ n \in 1 .. N /\ n \in 0 .. N /\ n \in Nat
  OBVIOUS
<1>2. PICK ss, ws : Formatting(wanted, ss, ws)
  BY Formats
<1>3. /\ a \in Seq(Char) /\ Len(a) <= Limit
      /\ \E r \in Seq(Char) : Continues(Fmt(wanted), a, r)
      /\ Lining!Folded(Reading(<<>>, <<>>), a) = Reading(SubSeq(ws, 1, n), <<>>)
  BY <1>1, <1>2, FmtRead DEF Intact
<1>4. /\ ws \in Seq(Seq(Plain)) /\ Len(ws) = N
      /\ \A k \in 1 .. N : ws[k] = EntryLine(wanted[k])
  BY <1>2 DEF Formatting
<1>. HIDE DEF a, N
<1>5. PICK r \in Seq(Char) : Continues(Fmt(wanted), a, r)
  BY <1>3
<1>6. PICK b \in Seq(Char) : Cut(a \o r) = a \o b
  BY <1>3, CutBehind
<1>7. file = a \o b
  BY ONLY <1>5, <1>6, file = Cut(Fmt(wanted)) DEF Continues
<1>. DEFINE ks == SubSeq(ws, 1, n)
<1>8. /\ ks \in Seq(Seq(Plain)) /\ Len(ks) = n
      /\ \A k \in 1 .. n : ks[k] = ws[k]
  <2>1. 1 \in Nat \ {0} /\ n <= Len(ws) /\ n \in Nat
    BY <1>1, <1>4
  <2>2. /\ ks \in Seq(Seq(Plain)) /\ Len(ks) = IF 1 <= n THEN n - 1 + 1 ELSE 0
        /\ \A k \in 1 .. n - 1 + 1 : ks[k] = ws[1 + k - 1]
    BY ONLY <1>4, <2>1, CutIs
  <2>. HIDE DEF ks
  <2>3. n - 1 + 1 = n /\ \A k \in 1 .. n : 1 + k - 1 = k
    BY <1>1
  <2>4. Len(ks) = n
    BY <1>1, <2>2
  <2>. QED BY ONLY <2>2, <2>3, <2>4
<1>. HIDE DEF ks
<1>9. PICK ms \in Seq(Seq(Plain)) : LinesOf(a \o b) = ks \o ms
  <2>1. Lining!Folded(Reading(<<>>, <<>>), a) = Reading(ks, <<>>)
    BY <1>3 DEF ks
  <2>2. a \in Seq(Char)
    BY <1>3
  <2>. QED BY ONLY <1>8, <2>1, <2>2, b \in Seq(Char), LinesOfBeginning
<1>10. file \in Seq(Char)
  <2>1. a \o b \in Seq(Char)
    BY <1>3, ConcatTyped
  <2>. QED BY ONLY <1>7, <2>1
<1>. DEFINE M == Len(LinesOf(file))
<1>11. /\ M \in Nat /\ n \in 0 .. M /\ \A k \in 1 .. n : LinesOf(file)[k] = ws[k]
  <2>1. LinesOf(file) = ks \o ms
    BY ONLY <1>7, <1>9
  <2>2. /\ Len(ks \o ms) = Len(ks) + Len(ms)
        /\ \A k \in 1 .. Len(ks) : (ks \o ms)[k] = ks[k]
    BY <1>8, TwoInARow, ZenonT(90)
  <2>3. Len(ms) \in Nat
    OBVIOUS
  <2>4. M = n + Len(ms)
    BY ONLY <1>8, <2>1, <2>2
  <2>5. \A k \in 1 .. n : LinesOf(file)[k] = ws[k]
    BY ONLY <1>8, <2>1, <2>2
  <2>. HIDE DEF M
  <2>. QED BY <1>1, <2>3, <2>4, <2>5
<1>12. PICK pp : Parsing(pp, file)
  BY <1>10, ParseTyped
<1>13. /\ pp \in [1 .. M -> Seq(E)] /\ Parse(file) = FlattenSeq(pp)
       /\ \A k \in 1 .. M : pp[k] = ParseLine(LinesOf(file)[k])
  BY <1>12 DEF Parsing
<1>. HIDE DEF M
<1>14. \A k \in 1 .. n : k \in 1 .. M /\ k \in 1 .. N
  BY <1>1, <1>11
<1>15. ASSUME NEW k \in 1 .. n PROVE pp[k] = <<wanted[k]>>
  <2>1. pp[k] = ParseLine(EntryLine(wanted[k]))
    BY ONLY <1>4, <1>11, <1>13, <1>14, k \in 1 .. n
  <2>2. wanted[k] \in E
    BY <1>14 DEF N
  <2>3. app = "todo" => ~Contains(wanted[k].head, Colon)
    BY DEF Intact
  <2>4. ParseLine(EntryLine(wanted[k])) = <<wanted[k]>>
    <3>1. CASE app = "todo"
      BY <2>2, <2>3, <3>1, TodoParsedBack
    <3>2. CASE app = "calendar"
      BY <2>2, <3>2, EventParsedBack
    <3>. QED BY <3>1, <3>2
  <2>. QED BY ONLY <2>1, <2>4
<1>16. PICK p : Concatenating(p, E, pp, M)
  BY <1>11, <1>13, Concatenates
<1>17. Concatenated(p, E, pp, M)
  BY <1>11, <1>13, <1>16 DEF Concatenated
<1>. HIDE DEF E
<1>18. PICK z \in Seq(E) : Continues(FlattenSeq(pp), p[n], z)
  BY <1>11, <1>17, ConcatenatingSplits
<1>19. p[n] \in Seq(E) /\ Len(p[n]) = n /\ p[n][n] = wanted[n]
  <2>. DEFINE Q == {k \in 0 .. n : Len(p[k]) = k /\ (k # 0 => p[k][k] = wanted[k])}
  <2>1. \A k \in 0 .. M : p[k] \in Seq(E)
    BY <1>16 DEF Concatenating
  <2>2. 0 \in Q
    <3>1. p[0] = <<>> /\ Len(<<>>) = 0 /\ 0 \in 0 .. n
      BY <1>1, <1>16, EmptySeq DEF Concatenating
    <3>. QED BY <3>1
  <2>3. ASSUME NEW k \in 0 .. n - 1, k \in Q PROVE k + 1 \in Q
    <3>1. k + 1 \in 1 .. n /\ (k + 1) - 1 = k /\ k + 1 \in 0 .. n /\ k \in 0 .. M /\ k \in Nat
      BY <1>1, <1>11, SMTT(60)
    <3>. DEFINE u == p[k]
                w == wanted[k + 1]
    <3>2. p[k + 1] = u \o <<w>>
      <4>1. \A h \in 1 .. M : p[h] = p[h - 1] \o pp[h]
        BY <1>16 DEF Concatenating
      <4>2. k + 1 \in 1 .. M
        BY <1>14, <3>1
      <4>3. p[k + 1] = p[k] \o pp[k + 1]
        BY ONLY <3>1, <4>1, <4>2
      <4>4. pp[k + 1] = <<wanted[k + 1]>>
        BY ONLY <1>15, <3>1
      <4>. QED BY ONLY <4>3, <4>4
    <3>3. u \in Seq(E) /\ Len(u) = k
      BY <2>1, <2>3, <3>1
    <3>4. w \in E
      BY <1>14, <3>1 DEF N, E
    <3>. HIDE DEF u, w, Q
    <3>5. p[k + 1] = Append(u, w)
      <4>1. Append(u, w) = u \o <<w>>
        BY ONLY <3>3, <3>4, AppendIsConcat
      <4>. QED BY ONLY <3>2, <4>1
    <3>6. Len(Append(u, w)) = Len(u) + 1 /\ Append(u, w)[Len(u) + 1] = w
      BY ONLY <3>3, <3>4, AppendProperties
    <3>7. Len(p[k + 1]) = k + 1 /\ p[k + 1][k + 1] = w
      BY ONLY <3>3, <3>5, <3>6
    <3>. QED BY <3>1, <3>7 DEF Q, w
  <2>4. n \in Q
    <3>. HIDE DEF Q
    <3>1. \A k \in 0 .. n : k \in Q
      BY <1>1, <2>2, <2>3, Flattening!UpTo
    <3>. QED BY <1>1, <3>1
  <2>. QED BY <1>1, <1>11, <2>1, <2>4
<1>20. Parse(file) = p[n] \o z
  BY ONLY <1>13, <1>18 DEF Continues
<1>. DEFINE vv == p[n]
<1>. HIDE DEF vv
<1>21. /\ vv \o z \in Seq(E) /\ Len(vv \o z) = Len(vv) + Len(z) /\ Len(z) \in Nat
       /\ \A k \in 1 .. Len(vv) : (vv \o z)[k] = vv[k]
  <2>1. vv \in Seq(E)
    BY <1>19 DEF vv
  <2>. QED BY <2>1, TwoInARow
<1>22. Len(vv) = n /\ vv[n] = wanted[n] /\ Parse(file) = vv \o z
  BY ONLY <1>19, <1>20 DEF vv
<1>23. n \in 1 .. Len(vv)
  BY <1>1, <1>22
<1>24. n \in 1 .. Len(vv \o z)
  BY <1>1, <1>21, <1>22
<1>25. DOMAIN (vv \o z) = 1 .. Len(vv \o z)
  BY ONLY <1>21, LenProperties
<1>. QED BY ONLY <1>21, <1>22, <1>23, <1>24, <1>25

\* And not more of them than there were.
LEMMA ReadBackNoMore ==
  ASSUME app \in {"todo", "calendar"}, Limit \in Nat, wanted \in Seq(Entries(app)),
         file = Cut(Fmt(wanted))
  PROVE  Len(Parse(file)) <= Len(wanted)
<1>. DEFINE f == Fmt(wanted)
<1>1. PICK ss, ws : Formatting(wanted, ss, ws)
  BY Formats
<1>2. f \in Seq(Char) /\ LinesOf(f) = ws
  BY <1>1, FmtRead
<1>3. Len(ws) = Len(wanted) /\ ws \in Seq(Seq(Plain))
  BY <1>1 DEF Formatting
<1>. HIDE DEF f
<1>4. Cut(f) \in Seq(Char) /\ \E b \in Seq(Char) : f = Cut(f) \o b
  BY <1>2, CutTo
<1>5. PICK b \in Seq(Char) : f = Cut(f) \o b
  BY <1>4
<1>6. Len(LinesOf(Cut(f))) <= Len(LinesOf(Cut(f) \o b))
  BY <1>4, LinesOfBeginning
<1>7. file \in Seq(Char)
  BY <1>4 DEF f
<1>8. Parse(file) \in Seq(Entries(app)) /\ Len(Parse(file)) <= Len(LinesOf(file))
  BY <1>7, ParseTyped
<1>9. LinesOf(file) \in Seq(Seq(Plain))
  BY <1>7, LinesArePlain
<1>10. Len(LinesOf(file)) <= Len(wanted)
  BY ONLY <1>2, <1>3, <1>5, <1>6, file = Cut(Fmt(wanted)) DEF f
<1>11. Len(LinesOf(file)) \in Nat /\ Len(Parse(file)) \in Nat /\ Len(wanted) \in Nat
  BY <1>8, <1>9
<1>. QED BY <1>8, <1>10, <1>11

-----------------------------------------------------------------------------

(***************************************************************************)
(* The editor's lines and the text it saves.                               *)
(***************************************************************************)
LEMMA JoinTyped ==
  ASSUME NEW ls \in Seq(Seq(Plain))
  PROVE  /\ Join(ls) \in Seq(Char)
         /\ ls = <<>> => LinesOf(Join(ls)) = ls
         /\ ls # <<>> /\ Last(ls) # <<>> => LinesOf(Join(ls)) = ls
<1>. DEFINE n == Len(ls)
            ss == [k \in DOMAIN ls |-> IF k < n THEN Append(ls[k], NL) ELSE ls[k]]
<1>1. n \in Nat /\ DOMAIN ls = 1 .. n /\ \A k \in 1 .. n : ls[k] \in Seq(Plain)
  OBVIOUS
<1>2. Join(ls) = FlattenSeq(ss)
  BY DEF Join
<1>3. \A k \in 1 .. n : ls[k] \in Seq(Char) /\ Append(ls[k], NL) \in Seq(Char)
  <2>. SUFFICES ASSUME NEW k \in 1 .. n
                PROVE  ls[k] \in Seq(Char) /\ Append(ls[k], NL) \in Seq(Char)
    OBVIOUS
  <2>. DEFINE l == ls[k]
  <2>1. l \in Seq(Plain)
    BY <1>1
  <2>. HIDE DEF l
  <2>2. l \in Seq(Char) /\ NL \in Char
    BY <2>1, PlainIsChar DEF Char
  <2>3. Append(l, NL) \in Seq(Char)
    BY ONLY <2>2, AppendProperties
  <2>. QED BY <2>2, <2>3 DEF l
<1>4. /\ ss \in [1 .. n -> Seq(Char)]
      /\ \A k \in 1 .. n : k < n => ss[k] = Append(ls[k], NL)
      /\ n \in 1 .. n => ss[n] = ls[n]
  <2>1. ss \in [1 .. n -> Seq(Char)]
    BY <1>1, <1>3
  <2>2. \A k \in 1 .. n : k < n => ss[k] = Append(ls[k], NL)
    BY <1>1
  <2>3. n \in 1 .. n => ss[n] = ls[n]
    BY <1>1
  <2>. QED BY ONLY <2>1, <2>2, <2>3
<1>. HIDE DEF ss, n
<1>5. PICK g : Concatenating(g, Char, ss, n)
  BY <1>1, <1>4, Concatenates
<1>6. Concatenated(g, Char, ss, n)
  BY <1>1, <1>4, <1>5 DEF Concatenated
<1>7. Join(ls) = g[n] /\ g[n] \in Seq(Char) /\ g[0] = <<>>
  <2>1. n \in 0 .. n
    BY <1>1
  <2>. QED BY <1>2, <1>5, <2>1 DEF Concatenating
<1>8. ASSUME ls = <<>> PROVE LinesOf(Join(ls)) = ls
  <2>1. n = 0
    BY <1>8, EmptySeq DEF n
  <2>2. Join(ls) = <<>>
    BY ONLY <1>7, <2>1
  <2>3. Lining!Folded(Reading(<<>>, <<>>), <<>>) = Reading(<<>>, <<>>)
    BY Lining!FoldEmpty
  <2>4. LinesOf(<<>>) = <<>>
    BY <2>3, LinesOfIs
  <2>. QED BY ONLY <1>8, <2>2, <2>4
<1>9. ASSUME ls # <<>>, Last(ls) # <<>> PROVE LinesOf(Join(ls)) = ls
  <2>. DEFINE m == n - 1
              w == ls[n]
              L == SubSeq(ls, 1, m)
              a == g[m]
  <2>1. n \in Nat \ {0} /\ n \in 1 .. n
    BY <1>9, EmptySeq DEF n
  <2>2. m \in 0 .. n /\ m + 1 = n /\ n - 1 = m /\ m <= n
    BY <2>1
  <2>3. w \in Seq(Plain) /\ w # <<>>
    BY <1>1, <1>9, <2>1 DEF Last, n
  <2>. HIDE DEF m, w
  <2>4. Ended(ls, ss, m)
    <3>1. \A k \in 1 .. m : k \in 1 .. n /\ k < n
      BY <2>1, <2>2
    <3>2. \A k \in 1 .. m : ss[k] = Append(ls[k], NL)
      BY <1>4, <3>1
    <3>3. m <= Len(ls)
      BY <2>2 DEF n
    <3>. QED BY <3>2, <3>3 DEF Ended
  <2>5. Lining!Folded(Reading(<<>>, <<>>), a) = Reading(L, <<>>)
    BY ONLY <1>6, <2>2, <2>4, LinesRead
  <2>6. g[n] = a \o w /\ a \in Seq(Char)
    <3>1. \A k \in 1 .. n : g[k] = g[k - 1] \o ss[k]
      BY <1>5 DEF Concatenating
    <3>2. g[n] = g[n - 1] \o ss[n]
      BY ONLY <2>1, <3>1
    <3>3. ss[n] = w
      BY <1>4, <2>1 DEF w
    <3>4. a \in Seq(Char)
      BY <1>5, <2>2 DEF Concatenating
    <3>. QED BY ONLY <2>2, <3>2, <3>3, <3>4
  <2>7. w \in Seq(Char)
    BY <2>3, PlainIsChar
  <2>. HIDE DEF a, L
  <2>8. Lining!Folded(Reading(<<>>, <<>>), a \o w)
          = Lining!Folded(Lining!Folded(Reading(<<>>, <<>>), a), w)
    BY ONLY <2>6, <2>7, Lining!FoldConcat
  <2>9. Lining!Folded(Reading(L, <<>>), w) = Reading(L, w)
    BY ONLY <2>3, LineGrows
  <2>10. Lining!Folded(Reading(<<>>, <<>>), Join(ls)) = Reading(L, w)
    BY ONLY <1>7, <2>5, <2>6, <2>8, <2>9
  <2>11. LinesOf(Join(ls)) = Append(L, w)
    BY <2>3, <2>10, LinesOfIs
  <2>12. Append(L, w) = ls
    <3>1. L \in Seq(Seq(Plain))
      <4>1. 1 \in Int /\ m \in Int /\ \A i \in 1 .. m : ls[i] \in Seq(Plain)
        BY <1>1, <2>1, <2>2
      <4>. QED BY ONLY <4>1, SubSeqProperties DEF L
    <3>2. Append(L, w) = L \o <<w>>
      BY ONLY <2>3, <3>1, AppendIsConcat
    <3>3. SubSeq(ls, 1, n) = SubSeq(ls, 1, n - 1) \o <<ls[n]>>
      <4>1. 1 \in 1 .. Len(ls) /\ n \in 1 .. Len(ls)
        BY <2>1 DEF n
      <4>. QED BY ONLY <4>1, ls \in Seq(Seq(Plain)), SubSeqRecursiveSecond
    <3>4. SubSeq(ls, 1, n) = ls
      BY SubSeqFull DEF n
    <3>. QED BY ONLY <2>2, <3>2, <3>3, <3>4 DEF L, w
  <2>. QED BY ONLY <2>11, <2>12
<1>. QED BY <1>7, <1>8, <1>9

LEMMA FirstBlankIs == ASSUME NEW s \in Seq(Plain) PROVE FirstBlank(s) \in 1 .. Len(s) + 1
<1>. DEFINE S == {i \in DOMAIN s : Blank(s[i])} \cup {Len(s) + 1}
            n == Len(s) + 1
<1>1. n \in Nat /\ S \in SUBSET (1 .. n) /\ S # {}
  OBVIOUS
<1>. HIDE DEF S, n
<1>2. Min(S) \in S
  BY ONLY <1>1, LeastOf
<1>3. FirstBlank(s) = Min(S)
  BY DEF FirstBlank, S
<1>4. FirstBlank(s) \in 1 .. n
  BY ONLY <1>1, <1>2, <1>3
<1>. QED BY <1>4 DEF n

LEMMA NumberIs == ASSUME NEW s PROVE Number(s) \in Nat
<1>1. CASE Len(s) = 1 /\ \E n \in 1 .. 9 : ToString(n) = s[1]
  <2>1. Number(s) \in 1 .. 9
    BY <1>1, Zenon DEF Number
  <2>. QED BY <2>1
<1>2. CASE ~(Len(s) = 1 /\ \E n \in 1 .. 9 : ToString(n) = s[1])
  BY <1>2 DEF Number
<1>. QED BY <1>1, <1>2

LEMMA InsertedTyped ==
  ASSUME NEW E, NEW s \in Seq(E), NEW n \in Nat, n > 0, n <= Len(s) + 1, NEW e \in E
  PROVE  InsertAt(s, n, e) \in Seq(E)
<1>1. Len(s) \in Nat /\ \A i \in 1 .. Len(s) : s[i] \in E
  OBVIOUS
<1>2. SubSeq(s, 1, n - 1) \in Seq(E)
  <2>1. 1 \in Int /\ n - 1 \in Int /\ \A i \in 1 .. n - 1 : s[i] \in E
    BY <1>1
  <2>. QED BY ONLY <2>1, SubSeqProperties
<1>3. SubSeq(s, n, Len(s)) \in Seq(E)
  <2>1. n \in Int /\ Len(s) \in Int /\ \A i \in n .. Len(s) : s[i] \in E
    BY <1>1
  <2>. QED BY ONLY <2>1, SubSeqProperties
<1>4. <<e>> \in Seq(E)
  OBVIOUS
<1>. DEFINE a == SubSeq(s, 1, n - 1)
            b == <<e>>
            c == SubSeq(s, n, Len(s))
<1>. HIDE DEF a, b, c
<1>5. a \o b \o c \in Seq(E)
  <2>1. a \in Seq(E) /\ b \in Seq(E) /\ c \in Seq(E)
    BY <1>2, <1>3, <1>4 DEF a, b, c
  <2>2. a \o b \in Seq(E)
    BY ONLY <2>1, ConcatTyped
  <2>. DEFINE ab == a \o b
  <2>. HIDE DEF ab
  <2>3. ab \o c \in Seq(E)
    BY ONLY <2>1, <2>2, ConcatTyped DEF ab
  <2>. QED BY <2>3 DEF ab
<1>. QED BY <1>5 DEF InsertAt, a, b, c

-----------------------------------------------------------------------------

(***************************************************************************)
(* What is read back.                                                      *)
(***************************************************************************)
\* The inductive invariant: what the user wants kept is made of proper entries
\* and lines, and what was stored is the text of it, cut at the limit.
TextInv ==
  /\ app \in DOMAIN TypedKeys
  /\ file \in Seq(Char)
  /\ app = "editor" =>
       /\ lines \in Seq(Seq(Plain)) /\ wanted \in Seq(Seq(Plain))
       /\ stored => file = Cut(Join(wanted))
  /\ app \in {"todo", "calendar"} =>
       /\ wanted \in Seq(Entries(app))
       /\ stored => file = Cut(FmtOf(app, wanted))

LEMMA TextInitInv == ASSUME TextAssumption, TextInit PROVE TextInv
<1>1. app \in DOMAIN TypedKeys /\ ~stored /\ wanted = <<>>
  BY DEF TextInit
<1>2. file \in Seq(Char)
  <2>1. file \in Seq(STRING)
    BY DEF TextInit, TextAssumption
  <2>2. STRING \subseteq Char
    BY DEF Char
  <2>. QED BY ONLY <2>1, <2>2, SeqMonotonic
<1>3. app = "editor" => lines \in Seq(Seq(Plain))
  BY <1>2, LinesArePlain DEF TextInit
<1>4. wanted \in Seq(Seq(Plain)) /\ wanted \in Seq(Entries(app))
  BY <1>1, EmptySeq
<1>. QED BY <1>1, <1>2, <1>3, <1>4 DEF TextInv

\* Storing proper entries.
LEMMA StoreInv ==
  ASSUME TextAssumption, app \in {"todo", "calendar"}, app \in DOMAIN TypedKeys, app' = app,
         NEW entries \in Seq(Entries(app)), Store(entries)
  PROVE  TextInv'
<1>1. file' = Cut(Fmt(entries)) /\ wanted' = entries /\ stored'
  BY DEF Store
<1>2. Fmt(entries) \in Seq(Char)
  <2>1. PICK ss, ws : Formatting(entries, ss, ws)
    BY Formats
  <2>. QED BY <2>1, FmtRead
<1>3. file' \in Seq(Char)
  BY <1>1, <1>2, CutTo DEF TextAssumption
<1>4. file' = Cut(FmtOf(app, entries))
  <2>1. Fmt(entries) = FmtOf(app, entries)
    BY FmtIsOf
  <2>. QED BY ONLY <1>1, <2>1
<1>. QED BY <1>1, <1>3, <1>4 DEF TextInv

LEMMA TextStepInv ==
  ASSUME TextAssumption, TextInv, [TextNext]_textVars
  PROVE  TextInv'
<1>1. /\ app \in DOMAIN TypedKeys /\ file \in Seq(Char) /\ Limit \in Nat
      /\ app = "editor" => lines \in Seq(Seq(Plain)) /\ wanted \in Seq(Seq(Plain))
  BY DEF TextInv, TextAssumption
<1>2. app \in {"todo", "calendar"} => Parse(file) \in Seq(Entries(app))
  BY <1>1, ParseTyped
<1>3. CASE Add
  <2>1. app \in {"todo", "calendar"} /\ app' = app
    BY <1>3 DEF Add, Typing
  <2>2. PICK c \in Command :
          /\ c.rest # <<>>
          /\ app = "calendar" => HasBlank(c.rest)
          /\ LET p == SplitN(c.rest)
             IN Store(Append(Parse(file),
                  IF HasBlank(c.rest) THEN Entry(FALSE, p.head, p.rest)
                  ELSE Entry(FALSE, General, c.rest)))
    BY <1>3 DEF Add
  <2>. DEFINE x == c.rest
              e == IF HasBlank(x) THEN Entry(FALSE, SplitN(x).head, SplitN(x).rest)
                   ELSE Entry(FALSE, General, x)
  <2>3. x \in Seq(Plain) /\ Trimmed(x)
    BY <1>1, CommandIs
  <2>4. Store(Append(Parse(file), e))
    BY <2>2
  <2>5. e \in Entries(app)
    BY <2>2, <2>3, AddedIsProper
  <2>. HIDE DEF e
  <2>6. Append(Parse(file), e) \in Seq(Entries(app))
    BY <1>2, <2>1, <2>5, AppendProperties
  <2>. QED BY <1>1, <2>1, <2>4, <2>6, StoreInv
<1>4. CASE Today
  <2>1. app = "calendar" /\ app' = app
    BY <1>4 DEF Today, Typing
  <2>2. PICK c \in Command :
          Store(Append(Parse(file),
            Entry(FALSE, <<"today">>, IF c.rest = <<>> THEN <<"Reminder">> ELSE c.rest)))
    BY <1>4 DEF Today
  <2>. DEFINE e == Entry(FALSE, <<"today">>, IF c.rest = <<>> THEN <<"Reminder">> ELSE c.rest)
  <2>3. c.rest \in Seq(Plain) /\ Trimmed(c.rest)
    BY <1>1, CommandIs
  <2>4. e \in Entries("calendar")
    BY <2>3, TodayIsProper
  <2>5. Store(Append(Parse(file), e))
    BY <2>2
  <2>. HIDE DEF e
  <2>6. Append(Parse(file), e) \in Seq(Entries(app))
    BY <1>2, <2>1, <2>4, AppendProperties
  <2>. QED BY <1>1, <2>1, <2>5, <2>6, StoreInv
<1>5. CASE Done
  <2>1. app = "todo" /\ app' = app
    BY <1>5 DEF Done, Typing
  <2>2. PICK n \in DOMAIN Parse(file) : Store([Parse(file) EXCEPT ![n].done = TRUE])
    BY <1>5 DEF Done
  <2>. DEFINE es == Parse(file)
  <2>3. es \in Seq(Entries("todo"))
    BY <1>2, <2>1
  <2>. HIDE DEF es
  <2>4. [es EXCEPT ![n].done = TRUE] \in Seq(Entries("todo"))
    BY <2>3, DoneIsProper DEF es
  <2>. DEFINE fs == [es EXCEPT ![n].done = TRUE]
  <2>5. Store(fs)
    BY <2>2 DEF es
  <2>6. fs \in Seq(Entries(app))
    BY ONLY <2>1, <2>4
  <2>. HIDE DEF fs
  <2>. QED BY <1>1, <2>1, <2>5, <2>6, StoreInv
<1>6. CASE Del
  <2>1. app \in {"todo", "calendar"} /\ app' = app
    BY <1>6 DEF Del, Typing
  <2>2. PICK n \in DOMAIN Parse(file) : Store(RemoveAt(Parse(file), n))
    BY <1>6 DEF Del
  <2>3. RemoveAt(Parse(file), n) \in Seq(Entries(app))
    BY <1>2, <2>1, RemovedTyped
  <2>. QED BY <1>1, <2>1, <2>2, <2>3, StoreInv
<1>7. CASE Edit
  <2>1. /\ app = "editor" /\ app' = app /\ file' = file /\ wanted' = wanted /\ stored' = stored
    BY <1>7 DEF Edit, Typing
  <2>2. PICK c \in Command :
       LET n == Number(SubSeq(c.rest, 1, FirstBlank(c.rest) - 1))
           text == SubSeq(c.rest, FirstBlank(c.rest) + 1, Len(c.rest))
       IN \/ /\ c.head = <<":i">> /\ HasBlank(c.rest)
             /\ n > 0 /\ n <= Len(lines) + 1
             /\ lines' = InsertAt(lines, n, text)
          \/ /\ c.head = <<":r">> /\ HasBlank(c.rest)
             /\ n \in DOMAIN lines
             /\ lines' = [lines EXCEPT ![n] = text]
          \/ /\ c.head = <<":d">>
             /\ Number(c.rest) \in DOMAIN lines
             /\ lines' = RemoveAt(lines, Number(c.rest))
    BY <1>7 DEF Edit
  <2>. DEFINE x == c.rest
              n == Number(SubSeq(x, 1, FirstBlank(x) - 1))
              text == SubSeq(x, FirstBlank(x) + 1, Len(x))
  <2>3. x \in Seq(Plain)
    BY <1>1, CommandIs
  <2>4. text \in Seq(Plain)
    <3>. HIDE DEF x
    <3>1. FirstBlank(x) \in 1 .. Len(x) + 1 /\ Len(x) \in Nat
      BY <2>3, FirstBlankIs
    <3>2. /\ FirstBlank(x) + 1 \in Int /\ Len(x) \in Int
          /\ \A i \in FirstBlank(x) + 1 .. Len(x) : x[i] \in Plain
      BY <2>3, <3>1
    <3>. QED BY ONLY <3>2, SubSeqProperties
  <2>5. n \in Nat /\ lines \in Seq(Seq(Plain))
    BY <1>1, <2>1, NumberIs
  <2>6. \/ n > 0 /\ n <= Len(lines) + 1 /\ lines' = InsertAt(lines, n, text)
        \/ n \in DOMAIN lines /\ lines' = [lines EXCEPT ![n] = text]
        \/ Number(x) \in DOMAIN lines /\ lines' = RemoveAt(lines, Number(x))
    BY <2>2
  <2>. HIDE DEF n, text, x
  <2>7. lines' \in Seq(Seq(Plain))
    <3>1. CASE n > 0 /\ n <= Len(lines) + 1 /\ lines' = InsertAt(lines, n, text)
      BY <2>4, <2>5, <3>1, InsertedTyped
    <3>2. CASE n \in DOMAIN lines /\ lines' = [lines EXCEPT ![n] = text]
      BY <2>4, <2>5, <3>2, ExceptSeq
    <3>3. CASE Number(x) \in DOMAIN lines /\ lines' = RemoveAt(lines, Number(x))
      BY <2>5, <3>3, RemovedTyped
    <3>. QED BY <2>6, <3>1, <3>2, <3>3
  <2>. QED BY <2>1, <2>7 DEF TextInv
<1>8. CASE Save
  <2>1. /\ app = "editor" /\ app' = app /\ lines' = lines
        /\ file' = Cut(Join(lines)) /\ wanted' = lines
    BY <1>8 DEF Save, Typing
  <2>2. Join(lines) \in Seq(Char)
    BY <1>1, <2>1, JoinTyped
  <2>3. file' \in Seq(Char)
    BY <1>1, <2>1, <2>2, CutTo
  <2>. QED BY <1>1, <2>1, <2>3 DEF TextInv
<1>9. CASE Reopen
  <2>1. /\ app = "editor" /\ app' = app /\ lines' = LinesOf(file)
        /\ file' = file /\ wanted' = wanted /\ stored' = stored
    BY <1>9 DEF Reopen, Typing
  <2>2. lines' \in Seq(Seq(Plain))
    BY <1>1, <2>1, LinesArePlain
  <2>. QED BY <2>1, <2>2 DEF TextInv
<1>10. CASE UNCHANGED textVars
  <2>1. app' = app /\ file' = file /\ lines' = lines /\ wanted' = wanted /\ stored' = stored
    BY <1>10 DEF textVars
  <2>. QED BY <2>1 DEF TextInv
<1>. QED BY <1>3, <1>4, <1>5, <1>6, <1>7, <1>8, <1>9, <1>10 DEF TextNext

LEMMA TextInvEntries == ASSUME TextAssumption, TextInv PROVE EntriesReadBack
<1>. SUFFICES ASSUME stored, app \in {"todo", "calendar"}
              PROVE  /\ Len(Parse(file)) <= Len(wanted)
                     /\ \A n \in DOMAIN wanted :
                          Intact(n) => n \in DOMAIN Parse(file) /\ Parse(file)[n] = wanted[n]
  BY DEF EntriesReadBack
<1>1. Limit \in Nat /\ wanted \in Seq(Entries(app)) /\ file = Cut(FmtOf(app, wanted))
  BY DEF TextInv, TextAssumption
<1>2. file = Cut(Fmt(wanted))
  <2>1. Fmt(wanted) = FmtOf(app, wanted)
    BY FmtIsOf
  <2>. QED BY ONLY <1>1, <2>1
<1>. QED BY <1>1, <1>2, ReadBackOne, ReadBackNoMore

LEMMA TextInvEditor == ASSUME TextAssumption, TextInv PROVE EditorReadsBack
<1>. SUFFICES ASSUME stored, app = "editor",
                     Len(Join(wanted)) <= Limit, ~(wanted # <<>> /\ Last(wanted) = <<>>)
              PROVE  LinesOf(file) = wanted
  <2>1. ASSUME stored, app = "editor" PROVE Len(Join(wanted)) \in Nat /\ Limit \in Nat
    BY <2>1, JoinTyped DEF TextInv, TextAssumption
  <2>. QED BY <2>1 DEF EditorReadsBack
<1>1. Limit \in Nat /\ wanted \in Seq(Seq(Plain)) /\ file = Cut(Join(wanted))
  BY DEF TextInv, TextAssumption
<1>2. Join(wanted) \in Seq(Char) /\ LinesOf(Join(wanted)) = wanted
  BY <1>1, JoinTyped
<1>3. Cut(Join(wanted)) = Join(wanted)
  BY <1>1, <1>2, CutTo
<1>. QED BY ONLY <1>1, <1>2, <1>3

\* What todo and calendar store in their file is what they show afterwards, for
\* every limit, every text found in the file and every sequence of commands.
THEOREM EntriesReadBackCorrect == TextSpec => []EntriesReadBack
<1>1. TextInit => TextInv
  BY TextAssumption, TextInitInv
<1>2. TextInv /\ [TextNext]_textVars => TextInv'
  BY TextAssumption, TextStepInv
<1>3. TextInv => EntriesReadBack
  BY TextAssumption, TextInvEntries
<1>. QED BY <1>1, <1>2, <1>3, PTL DEF TextSpec

\* The editor, started again after ":w", shows the lines it had, within the
\* limit and but for an empty line at the end.
THEOREM EditorReadsBackCorrect == TextSpec => []EditorReadsBack
<1>1. TextInit => TextInv
  BY TextAssumption, TextInitInv
<1>2. TextInv /\ [TextNext]_textVars => TextInv'
  BY TextAssumption, TextStepInv
<1>3. TextInv => EditorReadsBack
  BY TextAssumption, TextInvEditor
<1>. QED BY <1>1, <1>2, <1>3, PTL DEF TextSpec

=============================================================================
