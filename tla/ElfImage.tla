----------------------------- MODULE ElfImage -----------------------------
(***************************************************************************)
(* load_elf() of kernel/src/loader.rs on the contents of an image: which   *)
(* byte of the file ends up at which virtual address, and which images it  *)
(* refuses or panics on; then _start of userspace/src/rt.rs, which clears  *)
(* the .bss through the page tables.                                       *)
(*                                                                         *)
(* A page is PageSize bytes.  Byte i of the file has the value i + 1 and   *)
(* what the kernel keeps in a frame is Foreign, so that every byte of      *)
(* memory tells where it comes from.  Page tables and the allocator are in *)
(* Process; here a page maps to a frame and frames are taken in order.     *)
(* The tables of the file are the records of an image, at the offsets and  *)
(* with the sizes that its header gives.  The eight bytes that a           *)
(* relocation stores, at an aligned place, are one byte here.              *)
(***************************************************************************)
EXTENDS Integers, Sequences

CONSTANTS
  PageSize,    \* 4096
  NPages,      \* pages of the user's half of the address space
  Top,         \* 2^64, where addresses overflow
  KernelFrames,\* the first frames of memory belong to the kernel
  UserFrames,  \* frames that a process can get
  Images       \* the images

ASSUME ImageAssumption ==
  /\ PageSize \in Nat \ {0} /\ NPages \in Nat
  /\ Top \in Nat /\ (NPages + 1) * PageSize < Top
  /\ KernelFrames \in Nat /\ UserFrames \in Nat

Pages == 0 .. NPages - 1

ProgramHeader ==
  [load : BOOLEAN, offset : Nat, vaddr : Nat, filesz : Nat, memsz : Nat]
Relocation == [type : STRING, offset : Nat, addend : Nat]
SectionHeader == [rela : BOOLEAN, offset : Nat, entsize : Nat, relocs : Seq(Relocation)]

\* What load_elf() reads: len is the length of the file, header whether its
\* first 20 bytes are those of an x86-64 program.  .bss is where
\* userspace/linker.ld puts it: in a segment, behind its bytes of the file,
\* unless it is empty.  A segment lies in the user's half, if it has an end at
\* all: what one in the kernel's half does to the kernel is not modelled.
Image ==
  [len : Nat, header : {"good", "bad"},
   phoff : Nat, phentsize : Nat, segments : Seq(ProgramHeader),
   shoff : Nat, shentsize : Nat, sections : Seq(SectionHeader),
   entry : Nat, bss : Nat \X Nat]

ASSUME ImagesAssumption ==
  \A im \in Images :
    /\ im \in Image
    /\ \A s \in DOMAIN im.segments :
         LET end == im.segments[s].vaddr + im.segments[s].memsz
         IN end <= NPages * PageSize \/ end >= Top
    /\ im.bss[1] < im.bss[2] =>
         \E s \in DOMAIN im.segments :
           /\ im.segments[s].load
           /\ im.segments[s].vaddr + im.segments[s].filesz <= im.bss[1]
           /\ im.bss[2] <= im.segments[s].vaddr + im.segments[s].memsz

VARIABLES
  image,   \* the image that is loaded
  at,      \* where load_elf() is, and "start", "main" in the application
  seg,     \* the program header being looked at, or the section header
  v,       \* the address whose page is mapped or byte cleared next, or the
           \* number of the relocation
  pages,   \* pages[p]: the frame that page p maps to
  mem,     \* mem[f][i]: physical memory
  taken    \* how many frames the process has

imageVars == <<image, at, seg, v, pages, mem, taken>>

Foreign == -1
Frames == 0 .. KernelFrames + UserFrames - 1
Offsets == 0 .. PageSize - 1
Min2(a, b) == IF a < b THEN a ELSE b
Max2(a, b) == IF a < b THEN b ELSE a
Page(a) == a \div PageSize

Segment == image.segments[seg]
Finish(how) == at' = how /\ UNCHANGED <<image, seg, v, pages, mem, taken>>

\* Bytes pos .. pos + n - 1 of the file: slicing behind its end panics.
CutOff(pos, n) == pos + n > image.len

\* The tests of the ELF header, of 64 bytes.
CheckHeader ==
  /\ at = "header"
  /\ IF \/ image.len < 64 \/ image.header = "bad"
        \/ image.phentsize < 56 \/ image.segments = <<>>
     THEN Finish("err")
     ELSE /\ at' = "segment" /\ seg' = 1
          /\ UNCHANGED <<image, v, pages, mem, taken>>

NextSegment ==
  IF seg < Len(image.segments)
  THEN at' = "segment" /\ seg' = seg + 1
  ELSE at' = "sections" /\ seg' = 1

\* Reading a program header: its type first, the rest of it - up to p_memsz -
\* if it is to be loaded.  The end of the segment must be an address.
SegmentRead ==
  LET ph == image.phoff + (seg - 1) * image.phentsize
  IN IF CutOff(ph, 4) \/ (Segment.load /\ CutOff(ph, 48)) THEN "panic"
     ELSE IF ~Segment.load THEN "skip"
     ELSE IF Segment.vaddr = 0 THEN "err"
     ELSE IF Segment.vaddr + Segment.memsz >= Top THEN "panic"
     ELSE IF Segment.memsz = 0 THEN "skip"
     ELSE "page"

\* The head of the loop over program headers.
VisitSegment ==
  /\ at = "segment"
  /\ \/ SegmentRead \in {"panic", "err"} /\ Finish(SegmentRead)
     \/ SegmentRead = "skip" /\ NextSegment /\ UNCHANGED <<image, v, pages, mem, taken>>
     \/ /\ SegmentRead = "page" /\ at' = "page" /\ v' = Segment.vaddr
        /\ UNCHANGED <<image, seg, pages, mem, taken>>

\* How much of the file goes into the page at v; a loader that always copies
\* whole pages; and one that goes by p_memsz.
Chunk_WholePage(page_off) == IF page_off < Segment.filesz THEN PageSize ELSE 0
Chunk_MemSize(page_off) ==
  Min2(PageSize - (page_off % PageSize), Max2(Segment.memsz - page_off, 0))
Chunk(page_off) ==
  Min2(PageSize - (page_off % PageSize), Max2(Segment.filesz - page_off, 0))

\* One round of the loop over pages: a fresh frame, cleared, and the file's
\* bytes from its beginning on.  Slicing behind the end of the file panics.
LoadPage ==
  LET page_off == v - Segment.vaddr
      chunk == Chunk(page_off)
      pos == Segment.offset + page_off
      frame == KernelFrames + taken
  IN
  /\ at = "page" /\ v < Segment.vaddr + Segment.memsz
  /\ IF taken = UserFrames \/ (chunk > 0 /\ CutOff(pos, chunk))
     THEN Finish("panic")
     ELSE /\ pages' = [pages EXCEPT ![Page(v)] = frame]
          /\ mem' = [mem EXCEPT ![frame] =
                       [i \in Offsets |-> IF i < chunk THEN pos + i + 1 ELSE 0]]
          /\ taken' = taken + 1
          /\ v' = v + PageSize
          /\ UNCHANGED <<image, at, seg>>

EndOfSegment ==
  /\ at = "page" /\ v >= Segment.vaddr + Segment.memsz
  /\ NextSegment
  /\ UNCHANGED <<image, v, pages, mem, taken>>

Section == image.sections[seg]
NextSection == at' = "sections" /\ seg' = seg + 1
MoreSections == image.shoff # 0 /\ seg <= Len(image.sections)

\* Reading a section header: its type first, the rest of it if it holds
\* relocations.  Nobody looks at e_shentsize.
SectionRead ==
  LET sh == image.shoff + (seg - 1) * image.shentsize
  IN IF CutOff(sh, 8) \/ (Section.rela /\ CutOff(sh, 64)) THEN "panic"
     ELSE IF ~Section.rela THEN "skip"
     ELSE IF Section.entsize < 24 THEN "err"
     ELSE "relocs"

VisitSection ==
  /\ at = "sections" /\ MoreSections
  /\ UNCHANGED <<image, pages, mem, taken>>
  /\ \/ SectionRead \in {"panic", "err"} /\ at' = SectionRead /\ UNCHANGED <<seg, v>>
     \/ SectionRead = "skip" /\ NextSection /\ UNCHANGED v
     \/ SectionRead = "relocs" /\ at' = "relocs" /\ v' = 1 /\ UNCHANGED seg

\* A relocation: the address is taken for a physical one, and where there is no
\* memory the kernel itself faults.
Relocate ==
  /\ at = "relocs" /\ v <= Len(Section.relocs)
  /\ LET r == Section.relocs[v] IN
     IF CutOff(Section.offset + (v - 1) * Section.entsize, 24) THEN Finish("panic")
     ELSE IF r.type # "RELATIVE" THEN Finish("err")
     ELSE IF Page(r.offset) \notin Frames THEN Finish("kernel fault")
     ELSE /\ mem' = [mem EXCEPT ![Page(r.offset)][r.offset % PageSize] = r.addend]
          /\ v' = v + 1
          /\ UNCHANGED <<image, at, seg, pages, taken>>

EndOfRelocs ==
  /\ at = "relocs" /\ v > Len(Section.relocs)
  /\ NextSection
  /\ UNCHANGED <<image, v, pages, mem, taken>>

Loaded ==
  /\ at = "sections" /\ ~MoreSections
  /\ IF image.entry = 0 THEN Finish("err")
     ELSE /\ at' = "start" /\ v' = image.bss[1]
          /\ UNCHANGED <<image, seg, pages, mem, taken>>

\* _start: one byte of .bss after the other; an address that is not mapped
\* stops the machine.  The variant goes on to __bss_end itself.
BssEnd_Included == image.bss[2] + 1
BssEnd == image.bss[2]

ClearBss ==
  /\ at = "start"
  /\ IF v >= BssEnd THEN Finish("main")
     ELSE IF pages[Page(v)] = Foreign THEN Finish("fault")
     ELSE /\ mem' = [mem EXCEPT ![pages[Page(v)]][v % PageSize] = 0]
          /\ v' = v + 1
          /\ UNCHANGED <<image, at, seg, pages, taken>>

-----------------------------------------------------------------------------

ImageInit ==
  /\ image \in Images
  /\ at = "header" /\ seg = 0 /\ v = 0
  /\ pages = [p \in Pages |-> Foreign]
  /\ mem = [f \in Frames |-> [i \in Offsets |-> Foreign]]
  /\ taken = 0

ImageNext ==
  \/ CheckHeader
  \/ VisitSegment
  \/ LoadPage
  \/ EndOfSegment
  \/ VisitSection
  \/ Relocate
  \/ EndOfRelocs
  \/ Loaded
  \/ ClearBss

ImageSpec == ImageInit /\ [][ImageNext]_imageVars

-----------------------------------------------------------------------------

Loads == {s \in 1 .. Len(image.segments) : image.segments[s].load}
SegmentPages(s) == {p \in DOMAIN pages :
  /\ Page(image.segments[s].vaddr) <= p
  /\ p <= Page(image.segments[s].vaddr + image.segments[s].memsz - 1)}
BytesOf(s) == 0 .. image.segments[s].memsz - 1

\* What the ELF format says is at byte i of segment s.
Linked(s, i) ==
  IF i < image.segments[s].filesz THEN image.segments[s].offset + i + 1 ELSE 0
InMemory(a) ==
  IF pages[Page(a)] = Foreign THEN Foreign ELSE mem[pages[Page(a)]][a % PageSize]

NoRelocs == \A s \in DOMAIN image.sections : ~image.sections[s].rela

\* load_elf() copies each segment from the beginning of its first page on, not
\* from its address on, and gives a page that several segments have a new frame
\* each time.
LoadedAt(s, i) == PageSize * Page(image.segments[s].vaddr) + i
GivenAway(s, a) == \E t \in Loads : /\ t > s
                                  /\ \E j \in BytesOf(t) : Page(LoadedAt(t, j)) = Page(a)

\* For any layout of segments, when _start clears .bss and when main() begins: in
\* each page is the last segment that came there, all of its bytes from the
\* beginning of its first page on and zeros behind those of the file, but for
\* the addresses of .bss already cleared.
LoadedByPages ==
  NoRelocs /\ at \in {"start", "main"} =>
    \A s \in Loads : \A i \in BytesOf(s) :
      LET a == LoadedAt(s, i) IN
      ~GivenAway(s, a) =>
        InMemory(a) = IF a \in image.bss[1] .. v - 1 THEN 0 ELSE Linked(s, i)

Aligned == \A s \in Loads : image.segments[s].vaddr % PageSize = 0
PagesApart == \A s, t \in Loads : s # t => SegmentPages(s) \cap SegmentPages(t) = {}
AsLinked ==
  \A s \in Loads : \A i \in BytesOf(s) : InMemory(image.segments[s].vaddr + i) = Linked(s, i)

\* When _start clears .bss, and when main() begins, every byte of the image is
\* where it was linked: those of the file, and zeros behind them - for images
\* whose segments begin on a page boundary, share no page and need no
\* relocation; and .bss is all mapped.
LoadedAsLinked ==
  Aligned /\ PagesApart /\ NoRelocs =>
    at # "fault" /\ (at \in {"start", "main"} => AsLinked)

\* A table of n entries lies within the file, each with room for what is read.
TableInFile(off, n, size, needs) == off + n * size <= image.len /\ size >= needs

\* The file has all that its header, its program headers and its section
\* headers say, and every segment has an end.
Complete ==
  /\ TableInFile(image.phoff, Len(image.segments), image.phentsize, 56)
  /\ \A s \in Loads :
       /\ image.segments[s].offset + image.segments[s].filesz <= image.len
       /\ image.segments[s].vaddr + image.segments[s].memsz < Top
  /\ image.shoff # 0 =>
       /\ TableInFile(image.shoff, Len(image.sections), image.shentsize, 64)
       /\ \A s \in DOMAIN image.sections :
            LET sec == image.sections[s] IN
            sec.rela => TableInFile(sec.offset, Len(sec.relocs), sec.entsize, 0)

\* An image that has all that it declares never makes the kernel panic, as long
\* as there is memory for it: however its segments lie, no page reads a byte of
\* the file that the image does not declare.  (One that is cut short does: no
\* offset is checked before the file is sliced.)
PanicsOnlyForCause == at = "panic" => ~Complete \/ taken = UserFrames

-----------------------------------------------------------------------------

\* loader.rs:4 - "the image is mapped 1:1 at its link-time virtual addresses":
\* also where a segment begins within a page, as .rodata and .data of
\* userspace/linker.ld do.  The bytes go to the beginning of the frame instead,
\* and a page that two segments share keeps those of the second only.
UnalignedLoadedAsLinked == at = "main" /\ NoRelocs => AsLinked

\* loader.rs:6 - "each R_X86_64_RELATIVE relocation simply stores its addend"
\* at its place in the image.  It goes to the physical address instead, which
\* may be anybody's frame.
RelocationsInImage ==
  \A f \in 0 .. KernelFrames - 1, i \in Offsets : mem[f][i] = Foreign

=============================================================================
