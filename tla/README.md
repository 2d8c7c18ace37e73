# Karnelos in TLA+

TLA+ modules for the Karnelos kernel (`kernel/`), the daemon that builds its
applications (`daemon/`) and the runtime and applications of ring 3
(`userspace/`), the TLC configurations that check them on small instances, and
proofs checked by TLAPS. Paths below are those of the repository.
`PROJECT.json` lists runs, mutants, findings, hazards and theorems and maps
every definition to the lines it models.

    tlc -config process.cfg MCProcess          # check one configuration
    tlapm Process_proofs.tla                   # check the proofs of a module

## 1. The system

Karnelos is a one-CPU x86-64 kernel with a shell. The user types `gen <prompt>`;
the kernel sends the prompt over COM2 to a daemon on the host, which has an LLM
write a program, builds it as an ELF file and streams it back; the kernel loads
it into a fresh address space and runs it in ring 3 until it makes system call 0.
Files live on an ATA disk in a flat file system.

| Component | State | Operations | Interacts with |
|---|---|---|---|
| Frame allocator `memory.rs` | bitmap, `used_frames`, `next_hint` | init, allocate, deallocate, mark_range_used, allocate_contiguous | called by the heap, loader and process manager |
| Kernel heap `memory.rs` | a library's free list | init_heap | reserves frames |
| Process manager `process.rs` | TSS stack, `GDT_SEL`, `EXIT_CTX`, `CURRENT_PROCESS`, CR3 | init, run_elf, run_user_demo, enter_ring3, exit | loader, allocator, system calls |
| ELF loader `loader.rs` | page tables, the process's memory | load_elf, map_user_page, relocations | allocator |
| System calls `interrupts.rs` | registers on the ring-0 stack | exit, write, read, storage read/write/list/delete, getchar, metrics | all of them |
| Interrupts `interrupts.rs` | IDT, PIC | timer, keyboard, exceptions | keyboard driver |
| Keyboard driver `keyboard.rs` | modifiers, ring buffer and its lock | handle_scancode (in the handler), read_char | shell loop, system calls 2 and 6 |
| File system `filesystem.rs`, `ata.rs` | superblock, directory, bitmap, data sectors | format, write, read, delete, list, boot mode | shell, system calls, boot |
| Boot and shell loop `main.rs` | order of initialisation | boot profile, bootstrap check, polling of keyboard, COM1 and COM2 | all of them |
| Shell `shell.rs` | line buffer, last binary; the ELF receiver's state | handle_char, commands; handle_daemon_byte | console, file system, process manager, daemon |
| Console `io.rs` | frame buffer, cursor | console_write, vga_clear | shell, system call 1 |
| Metrics `metrics.rs` | counters | record_*, `perf` | shell, process manager |
| Daemon `daemon/src/main.rs` | one TCP connection and its BufReader; `userspace/src/main.rs` and the last build | gen, profile and bootstrap requests | shell, over COM2 |
| User runtime `userspace/src/rt.rs`, `syscall.rs` | bump heap, `.bss` | _start, alloc, syscall_raw | kernel |
| Applications `userspace/src/bin/` | a file each of todo, calendar, editor; the calculator's expression | their commands | runtime, files |
| ACPI/SMP, generator, image tools | - | a count of CPUs; host tools | - |

What makes it correct, and what is hard about it:

* **Frames and processes.** Every frame has one owner; CR3 never points into
  freed memory; exit returns to a P4 and a stack that still exist; an
  application reaches only its own frames. Hard: a run takes a dozen frames one
  at a time and may fail, or the machine stop, at each; `enter_ring3()` never
  returns, so nothing after it runs; page tables live in frames that held
  something else.
* **Images.** Every byte of a program is where the linker put it. Hard: segments
  that begin or end within a page, share one, or reach behind the file, as may
  every table that the headers point to.
* **Keyboard.** One CPU, a handler and readers that share a spin lock: the
  handler comes in between any two instructions of a reader. Hard: a lock held
  by the code that was interrupted, the interrupt flag through `int 0x80`, `hlt`
  and the jump back at exit, a full ring, a shell that halts just when a key
  comes.
* **File system.** No journal: a write is some ten sector writes. Hard: power
  failures between them, writes that the drive does not take and nobody hears
  of, what such a failure leaves for the writes after it, a disk or directory that fills up in the middle, sizes 0 and exact
  multiples of a sector, names that are prefixes.
* **`gen` stream.** Two state machines joined by an unframed byte stream. Hard:
  bytes meant for another state, errors in place of a size, impatient users,
  timeouts, chunk boundaries.
* **Session.** What Enter executes is the line on the screen; the counters agree
  with what happened. Hard: wrapping, scrolling and clearing in the middle of a
  line, answers of the daemon printed into it, commands that start an
  application and never return to the line editor.
* **User programs.** A binary belongs to the request it answers; heap blocks keep
  apart; files are read back as they were written; expressions get their value.
  Hard: failed builds that leave a changed `main.rs`, alignment, texts cut at a
  limit, blanks and separators inside entries, arithmetic that panics on overflow.

## 2. The modules

| Module | Models | Composition |
|---|---|---|
| `FrameAllocator` | the allocator, each operation one step (all run under one lock and never in a handler) | - |
| `FrameContig` | adds `allocate_contiguous()` | extends FrameAllocator |
| `Process` | process::init, run_elf, run_user_demo, map_user_page, enter_ring3, exit | extends FrameAllocator |
| `KeyQueue` | abstract: a bounded FIFO that drops when full | - |
| `Keyboard` | controller, PIC, CPU interrupt flag, handler, reader, shell loop, system calls 0, 2, 6 | implements KeyQueue (`QueueRefined`) |
| `FileStore` | abstract: a map from names to contents, changed by one request at a time | - |
| `FlatFS` | every operation on the disk, one step per sector write, boot, power failure, lost writes | implements FileStore (`StoreRefined`) |
| `GenService` | abstract: for each request one build and one binary | - |
| `ElfStream` | cmd_gen, handle_daemon_byte, handle_connection and the bytes between them | implements GenService when nothing goes wrong (`GenRefined`) |
| `Console` | the text screen; and what a console promises, as a list of lines | - |
| `ShellLine` | how a command line is taken apart; the same told by words | - |
| `SyscallStub` | int_80_stub: pushes, the handler's arguments, the result, pops | - |
| `Session` | line editor, commands, answers of the daemon, system calls of an application, metrics | extends Console, ShellLine, SyscallStub |
| `ElfImage` | load_elf on the bytes of an image, relocations, `_start` clearing `.bss` | - |
| `UserHeap` | BumpAlloc | - |
| `TextStore` | todo, calendar and editor and their files | extends ShellLine |
| `Calculator` | mathc's evaluator; the value of an expression by its last operator | - |
| `AppBuild` | strip_fences, generate_and_build | - |
| `Userland` | the five user-program modules side by side; they share no state, and a behaviour shows one of them | extends ElfImage, UserHeap, TextStore, Calculator, AppBuild |
| `FrameAllocator_proofs`, `Process_proofs`, `Keyboard_proofs`, `FlatFS_proofs`, `ElfStream_proofs`, `Session_proofs`, `Userland_proofs` | proofs | extend the modules they are about |
| `FoldFacts` | lemmas about folding a sequence from the left, for any operator | instantiated by `Session_proofs` for pushes, pops and the characters of a text |
| `MC*` | values of the constants for TLC | extend the modules they run |

**Process.** Steps are the places where a run may stop: each allocation and each
return. `pc` says where the one kernel thread is, `run` holds the locals of
`run_elf()`, `pt[f][i]` is entry *i* of page table *f* below user space, and
`stale` the frames that were never cleared: a walk may read anything there.
`lost` is a history of frames of failed runs. Actions bear the code's names
(`StartRun` is `switch_to_new_p4()` behind the lock; `Map`, `FollowEntry`,
`AddTable` and `MapLeaf` are the levels of `map_user_page()`). The kernel's
upper-half entries, page flags, registers and the bytes of the image are left
out; how a malformed image makes `load_elf()` fail or panic is a choice at any
page (`LoadFails`, `ImagePanic`).

**Keyboard.** `isr` is the handler's step, `ctx`/`pc` what the CPU runs when no
handler does. Every instruction of `without_interrupts(|| KEY_BUFFER.lock().pop())`
that another actor can see is a step. The PIC is modelled as the code uses it:
IRQ 1 waits for the timer's EOI. Seven scan codes reach every branch of
`handle_scancode()` but Ctrl and Alt, whose bits nobody reads.

**FlatFS.** `op` holds the locals of the operation, `pc` its next sector write.
A sector's contents are the pair of the file's content and the sector's number,
so a file that reads as a mix of two is recognised. `Matches` is the code's
comparison of names. `expect` and `torn` are histories: what each file was last
told to hold, and which ones a failure hit while they were replaced. There are
two kinds of failure: the power (`PowerFails`, between any two sector writes)
and a sector write that `write_sector()` gives up without telling its caller
(`WriteLost`, at any sector of a file). A file that a failure hit stays torn until
it is written or deleted without a failure. What is left of it may point at sectors
that were freed and given to other files, and `write_file()` frees them again: the
files that lose a sector so are torn from then on, too (`Frees`). Nothing else makes
a file torn: a write after a crash costs only files in whose sectors a torn file lies.

`FileStore` is what a user of names may rely on: a request settles one file,
which is `Unsure` meanwhile, and formatting removes the files one by one. Only a
request for a file that was `Unsure` when it came may make others so (`Spread`). The mapping takes for the content of a file what `read_file()` would
return from the sectors at that instant (`Shown`), and `Unsure` for torn
files and those the operation is about to replace; the request is what `op` is to
write (`Request`).

**ElfStream.** `fifo`, `d2k`, `k2d` and `rbuf` are the bytes in the UART, on the
way, and in the daemon's BufReader, which later reads of single ACKs do not see
because those go to the socket. `trouble`, chosen from `Troubles` at the
beginning, says what may go wrong in a behaviour: the boot profile's answer,
error texts and failed builds, a user who types `gen` again, silence for 30
seconds, a FIFO that overruns. `Decimal` is what
`format!` writes for a size: any digits that `parse()` reads back and that fit `size_buf`.

**Session.** One step is what the shell does in one wake: a burst of characters,
an Enter with the command it executes, the end of a `gen`, or a system call of
the application. `screen` is the frame buffer with its cursor, `lines` the text
written to it since it was cleared. Words are one or two letters and a message
is one character: the wording is left out, the parsing is not. `mixed` records that something else
was printed into the line, or that it wrapped. `regs` are the registers of ring
3 as the stub restores them. The commands' work on disk, frames and COM2 is in
FlatFS, Process and ElfStream; here a load succeeds, fails, panics - for want of a frame also before its P4 is
counted - or spins on the lock that an earlier application left held. Commands that only print (`help`,
`info`, `memory` and the like) are an unknown command to the model: both print
something and return.

**ElfImage.** A page is `PageSize` bytes; every byte of the file has a value of
its own and what the kernel keeps is `Foreign`, so each byte of memory tells
where it came from. Steps are the program headers, the pages of a segment, the
section headers and the relocations, each read at the offset the image gives:
behind the end of the file this panics (`CutOff`), as does a segment whose end is no address.
Page tables are in Process, here a page maps to a frame.

**UserHeap, TextStore, Calculator, AppBuild.** The heap is `brk` and the set of
blocks in use. A text of TextStore is a sequence of characters in which a
command word stands for its letters; every command of todo and calendar parses the
whole file and writes it back, as the code does. Calculator has the five
mutually recursive functions of `mathc.rs` over tokens; a result is a value, an error or a
panic, since the applications are built with the dev profile, which checks
arithmetic. What it is compared with shares nothing with it: an expression is split at
its last operator, a quotient is told by its remainder, a power is a repeated product. AppBuild's texts are
sequences of lines, told apart by what `strip_fences()` looks at; a binary is
the text it was built from, and a build may fail. In this build the user heap's region is mapped by
nobody (section 4), so the applications are modelled for a system that maps it.

## 3. The runs

| Run | Checks | Bounds |
|---|---|---|
| `frames` | `NeverUnderReports` | six frames, every initial bitmap, contiguous counts 2 and 3 |
| `process` | `ProcessTypeOK`, `UsedFramesExact`, `FrameAccounting`, `LiveTablesAllocated`, `StackUsable`, `ExitContextReady` | 18 frames, clear when the kernel starts, 2-page images out of 3 pages, 2-page stack |
| `process_olddata` | `FrameAccounting` | as above, 1-page images, one frame with old data |
| `process_again` | `ReadyForNextApp` - violated | |
| `fs` | `FilesKeptApart`, `NoLeakedSectors`, `StoreRefined` | 3 names, files of 1 and 2 sectors, 4 commands, 2 boots, 1 power failure or lost write, space enough |
| `fs_full` | `FSTypeOK`, `Durable` | 2 directory entries for 3 names, 5 sectors, all files of 2, 4 commands, 3 boots, 1 power failure or lost write |
| `keyboard` | `KeyboardTypeOK`, `NoSelfDeadlock`, `FlagRestored`, `EveryInterruptEnded`, `QueueRefined`, `KeysDelivered` | ring of 3, 4 scan codes, 1 application |
| `stream` | `StreamTypeOK`, `ReceiverInBounds`, `GenDelivers`, `AckPacing`, `StreamClean`, `GenRefined`, `GenAnswered` | chunks of 2, binaries of 1 to 5 and of 10 bytes, FIFO of 1, 3 requests; no trouble, or every trouble at once |
| `stream_profile` | `GenDelivers` - violated | the daemon's answer to the boot profile |
| `session` | `SessionTypeOK`, `ConsoleShowsOutput`, `LineIsShown`, `ParsedAsWords`, `RegistersKept`, `LoadsCounted` | 3 rows of 10 columns, lines of 9 characters, 5 bursts of keys, 2 system calls; the first prompt or a later one |
| `syscall_abi` | `SyscallAbi` - violated | |
| `userland` | `LoadedAsLinked`, `LoadedByPages`, `PanicsOnlyForCause`, `BlocksApart`, `EntriesReadBack`, `EditorReadsBack`, `CalculatesRight`, `BuiltFromAnswer` | pages of 2 bytes, 3 bytes to load behind the headers, up to three program headers, two section headers, two relocations, files cut at 8 places, 3 frames, 8 pages of addresses of which 97 is the overflow; a heap of 8 bytes; files of 20 characters, 4 commands; expressions of 5 tokens, integers of 8 bits, exponents of 4; 3 requests |

Why the bounds are enough. *Process*: the two entries of a table make shared and
separate tables at every level; ten frames are the most one run takes, so 18
frames hold one complete run after a failed one and also run out at any point; more failed
runs only make memory shorter. A second run after an exit cannot start
(`process_again`). *FlatFS*: files interact in pairs (the third name is the boot
profile); a multi-sector file has a first and a last sector; two boots see a
failure and a recovery, three (`fs_full`) an ordinary boot behind them, and four commands a write after the recovery
that takes sectors the torn file points at, and the one that frees them again. *Keyboard*: a ring of three has empty,
partly filled and full states and wraps within four characters; the handler may
come in at each step. *ElfStream*: a chunk of two distinguishes within, at and
behind its end; binaries are shorter than, equal to, multiples of and longer
than a chunk, and one size has two digits; a FIFO of one is the tightest back-pressure. *Session*: five
bursts make a `gen` with the `run` after it, or an `app save` with two blanks and an
Enter; the prompt and a full line wrap in ten columns, and the third line of
output scrolls. *Userland*: segments of three bytes end within a page,
fill it, begin within one, share one, and reach behind the file, memory or the last
address; the file is cut within each kind of table and the last relocation; the
heap refuses its second or third block, with every alignment in between; twenty
characters cut the third entry; five tokens make two operators with a sign or
parentheses, and eight bits overflow in each operator; after two failed or odd builds the third must still be right.

Deadlock is checked for `frames` and `keyboard`. `process` may stop: a panic, an
exception and a spin on a held lock are final. `fs` stops when its
commands or boots are used up or the kernel panics; `stream` when its requests are used up
or the connection is closed; `session` when no more keys are typed, or after a
fault, a panic or a spin; `userland` when an image runs or was refused, memory or the
commands are used up.

### Fairness

* `Keyboard!FairSpec`. The CPU executes the code it is in: `WF(Handler)`. Thread
  steps are interrupted again and again, so for them it is `SF(Kernel)`: a
  handler is far shorter than the timer's period, so the thread gets its next
  step between two interrupts. The timer never stops: `WF(TimerInterrupt)`. IRQ 1
  stays raised while a scan code waits and the PIC remembers it, though it
  is blocked whenever interrupts are off: `SF(KeyInterrupt)`. Nobody has
  to press keys, start applications, make system calls or exit.
* `ElfStream!FairSpec`. The shell's loop is woken by the timer and polls COM2
  (`WF` of `Shell`), QEMU passes bytes on (`WF` of `Deliver`), the daemon's thread runs
  and the LLM and the build return (`WF` of `Daemon`). The user need not type, and
  no timeout has to strike. (`UNCHANGED trouble` in these formulas belongs to
  every step of Next.)

### The table of mutants

For each property a plausible mistake in the code that it detects:

| Run | Property | Mistake |
|---|---|---|
| frames | NeverUnderReports | `DeallocateAll_NoUsedTest`: a repeated free is counted again |
| process | ProcessTypeOK | `Allocate_HintNotWrapped`: the hint runs off the bitmap |
| process | UsedFramesExact | `DeallocateAll_NotCounted`: frees do not lower the count |
| process, process_olddata | FrameAccounting | `ExitSyscall_P4Kept`: exit forgets the P4 |
| process | LiveTablesAllocated | `ExitSyscall_Cr3Kept`: exit stays on the process's tables |
| process | StackUsable | `StackMapped_OneShort`: one stack page too few |
| process | ExitContextReady | `EnterRing3_SavesOwnP4`: the process's own P4 is saved |
| fs | FilesKeptApart | `ClearBit_OneMore`: one sector too many is freed |
| fs_full | Durable | `RunsOf_FirstOnly`: a run need only begin with a free sector |
| fs | NoLeakedSectors | `ClearBit_OneLess`: the last sector stays marked |
| fs | StoreRefined | `Lookup_FreeFirst`: a free entry is taken before a matching one behind it |
| fs_full | FSTypeOK | `RunsOf_OneTooFar`: a run may end behind the disk |
| keyboard | KeyboardTypeOK | `Push_NoWrap` |
| keyboard | NoSelfDeadlock | `DisableInterrupts_Not`: read_char() without without_interrupts() |
| keyboard | FlagRestored | `RestoreInterrupts_Always` |
| keyboard | EveryInterruptEnded | `EndOfInterrupt_NoKeyEoi` |
| keyboard | QueueRefined | `Push_NoFullTest` |
| keyboard | KeysDelivered | `Pop_Peeks`: the tail does not move |
| stream | GenDelivers | `LastByte_CopiedEarly` |
| stream | AckPacing | `SendChunk_NoWait` |
| stream | StreamClean | `LastByte_ChunkAckToo`: two ACKs at the end |
| stream | GenRefined | `ReadLine_Kept`: the daemon serves the same line again |
| stream | GenAnswered | `ChunkComplete_OneLate`: both sides wait |
| stream | StreamTypeOK | `DataByte_NoEndTest`: `remaining` below zero |
| stream | ReceiverInBounds | `ValidSize_NoUpperBound` |
| session | SessionTypeOK | `Fit_OneMore`: the line takes one character too many |
| session | ConsoleShowsOutput | `VgaPutc_LateWrap`: a row takes one column too many |
| session | LineIsShown | `Backspace_NotEchoed` |
| session | ParsedAsWords | `TrimAscii_FrontOnly`: blanks stay behind a word |
| session | RegistersKept | `Pops_Swapped`: rdi and rsi are restored in the wrong order |
| session | LoadsCounted | `LoadFails_P4NotCounted` |
| userland | LoadedAsLinked | `BssEnd_Included`: `_start` clears one byte too many |
| userland | LoadedByPages | `Chunk_MemSize`: the size in memory instead of that in the file says how much is copied |
| userland | PanicsOnlyForCause | `Chunk_WholePage`: the last page is copied whole |
| userland | BlocksApart | `RoundUp_Down`: alignment rounds down into the last block |
| userland | EntriesReadBack | `ParseTodo_DoneOnly`: the mark of an open entry stays in its category |
| userland | EditorReadsBack | `Join_TwoShort`: lines are joined with one newline too few |
| userland | CalculatesRight | `Product_FromTheRight`: products associate to the right |
| userland | BuiltFromAnswer | `Built_StatusIgnored`: a failed build returns the old binary |

## 4. Divergences

Runs that find the code to disagree with what the repository says of it:

* `process_again`: the guard of `GDT_SEL` is alive when `enter_ring3()` is
  called and never dropped; the second application spins for ever.
* `stream_profile`: the daemon's `OK\n` to the boot profile is taken for the size
  of the first binary.
* `syscall_abi`: the stub's offsets are those of other registers than
  interrupts.rs:135 names: the handler gets r10, r11 and r12 for its arguments, and the
  result is stored over r15 instead of rax.

Others are defined in the modules, but have no configuration of their own. TLC
violates each when it is the only property of the given configuration, changed
as stated:

| Property | Configuration | What the code does |
|---|---|---|
| `FrameTypeOK`, `UsedFramesExact` (FrameAllocator) | `frames` | a contiguous run across the end is marked behind the end (memory.rs:130; no caller yet) |
| `SavedP4IsKernels` | `process_again` | after a failed load the next run saves the failed run's P4 (process.rs:142) |
| `FailedRunsCleanUp` | `process_again` | a failed load leaks its frames (process.rs:234) |
| `Isolation` | `process_olddata` | a page table made in a frame with old data maps what that data says: tables are not cleared (loader.rs:74) |
| `OnlyFailuresTear` (PROPERTY) | `fs` | rewriting a file after a power failure frees sectors that another file got since (filesystem.rs:199) |
| `Durable` | `fs`, `Names <- PrefixNames`, `Matches <- Prefix`, `MaxFailures = 0` | names are compared over the shorter one: writing `a` replaces `ab` (filesystem.rs:198) |
| `Durable` | `fs`, `NBlocks = 3`, `MaxFailures = 0` | an overwrite that runs out of space has freed the old sectors and left the entry (filesystem.rs:204, 227) |
| `NoLeakedSectors` | `fs`, `Contents = {"empty", "one"}` | an empty file's sector is never freed (filesystem.rs:223) |
| `ReadReturns` | `fs`, `Contents = {"one", "big"}` | reading a file longer than the buffer panics (filesystem.rs:273) |
| `EphemeralEveryBoot` | `fs` | ephemeral mode lasts one boot (main.rs:113) |
| `EmptyStorageBootstraps` | `fs` | the profile is written before storage is found empty (main.rs:133) |
| `DaemonUnblocks` (PROPERTY) | `stream_profile`, `Troubles = {{"errors"}}`, FairSpec | an error text gets one ACK, the daemon awaits two (daemon main.rs:281) |
| `NoByteLost` | `stream_profile`, `Troubles = {{"overrun"}}` | a chunk is 16 FIFOs long; only back-pressure saves it (daemon main.rs:270) |
| `OnlyAckReadsTimeOut` | `stream_profile`, `Troubles = {{"silence"}}` | the ACK timeout also closes an idle connection (daemon main.rs:208) |
| `PromptMeansEmptyLine` (PROPERTY) | `session` | after an application that a command started, the old line is still in the buffer under a fresh prompt (shell.rs:129) |
| `SaveTakesAName` (PROPERTY) | `session` | `app save <name>` is refused unless a blank and more follow the name (shell.rs:231, 306) |
| `ClearResetsMetrics` (PROPERTY) | `session` | `perf clear` resets the boot time only (shell.rs:298, metrics.rs:136) |
| `RelocationsInImage` | `userland` | a relocation is stored at the physical address with its virtual address's number (loader.rs:203) |
| `UnalignedLoadedAsLinked` | `userland` | a segment that begins within a page is copied to the beginning of the frame, and a page that two share keeps the second only (loader.rs:162) |
| `SavedMeansSaved` | `userland` | "Saved" is printed also when the file was cut at its limit (editor.rs:87) |
| `CategoriesReadBack` | `userland` | a category with a `:` in it is read back as a shorter one (todo.rs:68) |
| `PowersChain` | `userland` | a second `^` is left out of the result (mathc.rs:142) |
| `PromptComesBack` | `userland`, `Tokens = {"2", "-", "^"}` | `2 ^ -2` takes an exponent close to 2^32; the power overflows, and the panic ends the program (mathc.rs:75) |
| `OldBodyReplaced` | `userland` | an answer with a marker in it leaves parts of itself in `main.rs` for good (daemon main.rs:145) |

Two of them bear on what the runs say.

*Isolation.* No page table is ever cleared, so isolation rests on what memory holds.
After a reset - `make run` does not pass `-no-reboot` - that is what it held before.
Within one boot no freed frame is used again today, because the lock that is never
released (`process_again`) keeps every later run out: repairing that alone, without
clearing new tables, breaks isolation without any reset. No run claims it.

*Files after a power failure.* The power fails while a file is rewritten, after its bits
were cleared; its entry stays and points at free sectors. The next boot's profile, or
any other file, goes there. Rewriting or deleting the first file frees them once
more, and the next write goes over them: a file is lost that no failure hit. Where
names are exact and overwrites find room this is the only way to lose one. `Durable`, `FilesKeptApart`
and `StoreRefined`, checked and proved, excuse exactly the files whose sectors a write or
delete of a torn file frees, and no others.

And some that were met on the way and need no run:

* The region of the applications' heap at 0x100000 (rt.rs:11) is mapped by no
  part of the kernel for a process; the first allocation faults.
* File names reach system calls 4, 5 and 8 without a terminating zero, and
  `read_name()` goes on reading up to 55 bytes.
* The ring-0 stack is one frame; system calls 4 and 5 put a buffer of 4096 bytes on it
  (interrupts.rs:255).
* syscall.rs:12 lists number 3 as another exit; the kernel answers it as unknown.
  `syscall_raw()` promises with `options(nomem)` that calls touch no memory,
  though some fill a buffer.
* README.md:199 and phases.md:163 describe markers in `userspace/src/main.rs`,
  which the file of this commit does not have: every request then ends in an
  error.
* In mathc an exponent of 2^32 or more is taken modulo 2^32, `0 ^ -1` prints 0 and `1 ^ -1` prints 1
  (mathc.rs:75).
* The help of mathc says that `7*exp(7)` is 896; it evaluates to 14.
* Backspace does not move back across a wrapped row.
* A directory or bitmap sector whose *read* fails (ata.rs:123) is taken as zeros, and the next
  write of that sector stores them.

## 5. What is proved

39 listed theorems in seven modules, each for every value of the constants that
the named assumptions admit. A theorem that needs more than those says so in its
statement.

**`FrameAllocator_proofs`** (`TotalFramesAssumption`: there is a frame;
`CountsAssumption`: a contiguous run has one frame or more).

* `FrameTypeCorrect`, `UsedFramesCorrect`: the allocator without
  `allocate_contiguous()`. The type invariant is not inductive (why does
  `used_frames -= n` stay natural?), so `FrameInv` says that the count is the
  cardinality of the bitmap. One lemma per operation; the process proofs cite
  them.
* `NeverUnderReportsCorrect`: with `allocate_contiguous()` too, the count is at
  least the number of frames in use. `ContigInv` lets bits lie behind the end
  of memory (section 4); `AtMostTheSum` bounds what a run adds.

**`Process_proofs`** (`MemoryAssumption`: the kernel's P4 is reserved, all within
memory; `PagesAssumption`: types, and that two pages differ in an index).

* For every memory layout, geometry of page tables (`Index`, `Walk`,
  `StackPages`), image and content of frames never cleared (`Dirty`):
  `ProcessTypeCorrect`, `UsedFramesInProcess`, `FrameAccountingCorrect`,
  `ExitContextCorrect`. The inductive invariant `ProcInv` adds three parts to
  type and accounting:
  - `Partition`, the accounting as pairwise disjoint sets, so that a step that
    moves a frame from *free* to *the run*, to *the process* or to *lost* is one
    set-algebra lemma (`PartitionSteps`);
  - `Phases`, which locals are in use in which phase (no process while a run is
    set up, no run while ring 3 runs), and that the P4 a run saved is the kernel's
    **or that of a failed run**, both of which are never freed: this is why exit
    always finds a P4 although failed loads never switch back;
  - `Walking`, that a walk has a table and returns to the phase it came from.

  `ProcInv` holds whatever a walk finds in an old frame: accounting and the
  exit context do not depend on page-table contents, which is the point of
  `process_olddata`.
* What the tables map does depend on them, since `map_user_page()` clears no table
  (section 4). `LiveTablesCorrect` and `StackUsableCorrect`
  assume memory that is clear when the kernel starts, `Dirty = {}`; the code does not see to
  that. Isolation is what goes wrong without it (section 4), and is not stated as a theorem. `TableInv` adds to `ProcInv` that frames become stale
  at exit only, behind a lock that keeps every later run out (`CleanUntilExit`);
  that an entry maps a frame of the share its table belongs to
  (`EntriesStayInShare`), and no frame has two (`OneParent`); and where the P4, CR3
  and the walk are (`RootsAndTables`). For the stack, `StackPaths` says that the
  walk is where its page's indices lead, and that the stack pages mapped
  before it still are.

**`Keyboard_proofs`** (`KeyboardAssumption`: the ring has two places or more).

* `KeyboardTypeCorrect`, `NoSelfDeadlockCorrect`, `FlagRestoredCorrect`,
  `EveryInterruptEndedCorrect` for every ring and any number of keys,
  applications and reads. `NoSelfDeadlock` is not inductive: `KeyInv` adds which
  code runs in which context (`Contexts`), that the lock is held in the critical
  section only and that this runs with interrupts off (`Locking`), and what the
  PIC thinks while a handler runs (`Interrupting`).
* `QueueImplemented` is the refinement `Spec => QueueRefined`: `head` and `tail`
  of the ring map to a sequence; `PushAppends` and `PopTakes` are the two steps
  that change it, through lemmas about counting modulo the ring
  (`ModuloRing`, `QueueIsRing`), and `StepRefines` has one case per action.

**`FlatFS_proofs`** (`NamesAssumption`: types, and a disk with a data sector).

* `FSTypeCorrect`, for every disk and every way of comparing names: every run of
  sectors lies on the disk (`Fitting`), also in the middle of an operation and after
  any failure.
* `FilesKeptApartCorrect` and `DurableCorrect`, through any number of power failures and lost
  writes, for all files but the torn ones (section 2: those that a failure hit, and those that lose sectors
  to a write or delete of such a file; section 4 says how that happens),
  under two hypotheses. `ExactNames`: a name finds the entry stored under it and no
  other one (no name begins another, none is empty or longer than 56 bytes).
  `RoomToReplace`: an overwrite that has freed the old version finds room for the
  new one. Section 4 shows `Durable` violated where either fails; the constants of `fs`
  and `fs_full` satisfy both. `FileInv` says that the operation
  in hand only touches its own entry (`Targets`), that its sectors belong to
  nobody else and are marked and written as far as it got (`NewRun`), that the entries
  that are not torn are apart and marked, and that such an entry is the one last
  written (`Kept`). Entries of torn files may point anywhere; all that has to be shown of them is
  that whatever `bitmap_clear()` takes from an entry makes that one torn.
* `SameSizesAreSafe`: `RoomToReplace` need not be assumed where all files take the same
  number of sectors; the sectors just freed are room enough (`Freed`).
* `StoreImplemented` is the refinement `StoreRefined`, under the same two hypotheses, and
  `SameSizesImplement` without the second one. With `Durable` the sectors drop out of it: what
  a name shows is what it was last told to hold, or unsure (`Promised`), so each step is about
  the histories and the request (`SameShown`, `OneShown`, one lemma per action).
  `Orderly` adds which operations write and which delete, and that a disk that is not yet
  formatted was never used.
* `NoLeakedSectorsCorrect`, for all names but the empty one and all files but empty
  ones (section 4), however full the disk: `Accounted` names the owner of each
  marked sector, the old version not yet freed and the new one already marked
  included.

**`ElfStream_proofs`** (`StreamAssumption`, types and the bounds on binaries;
`DigitAssumption`, bytes are different; `DecimalAssumption`, a size that is written fits
`size_buf` and is read as what it was).

* `StreamTypeCorrect` and
  `ReceiverInBoundsCorrect` hold with every trouble at once: their invariant
  `RecvInv` is just the two together, because the receiver's bounds do not
  depend on what the other side does - whatever bytes come.
* When nothing goes wrong, the shell's state, the
  daemon's state and the bytes between them fit in one of ten phases
  (`AllDone`, `Asked`, `Generating`, `SizeSent`, `SizeTaken`, `Sending`,
  `ChunkSent`, `RestSent`, `Received`, `AskedAgain`); each action leads from a
  phase to the next. The phases of a transfer say that what the shell has, what
  is on the wire and what the daemon still holds make up the binary. From this
  follow `AckPacingCorrect`, `StreamCleanCorrect` and `GenDeliversWhenCalm`, and
  `ServiceImplemented`, the refinement `GenRefined`, for
  every chunk, FIFO, number of requests and set of binaries. In `SizeSent` the digits
  read and those on their way make up the size (`SizeSplit`), so sizes may have any
  number of digits; `NumberSteps` says what one more digit does to the number read.

**`Session_proofs`** (`ScreenAssumption`: two columns, one row, a framebuffer no
smaller than the text; `SessionAssumption`: letters are printable, commands are the
known ones, types).

* `RegistersKeptCorrect`: the stub's pushes and pops are folds over lists of registers; after *k*
  of them the stack holds the first *k* (`PushStep`, `PopStep`), whatever the
  handler clobbers. `RegsInv` carries what the application had before the call.
* `LoadsCountedCorrect`: `EnterExecutes` sums up every command as `clear` or as whole lines of
  output with one of a few outcomes; each outcome counts what `LoadsCounted`
  compares. `CoreInv` is this with the types of line, files and counters.
* `ParsedAsWordsCorrect`, for lines of any length and spacing. `RestFrom(s, n, r)`: *r* is what
  *s* holds from its *n*-th word on. Trimming the line gives the rest from word 1
  (`FirstWord`); cutting a rest at its first blank, with the blank or without, gives
  the word in front and the rest from the next word behind (`CutsWord`); the nested
  splitting is three of these cuts.
* `ConsoleShowsOutputCorrect`, `LineIsShownCorrect`, for every screen, banner, line and
  output. The property is not inductive: it is silent about the rows below the
  cursor and about where the last line ends. `Pictured` adds that
  the rows below the cursor, and the bands below the text that scrolling brings up,
  hold no text, `Showing` that the cursor stands behind the last line. One lemma for each thing a character
  does (`DrawsLast`, `FeedsLine` with `Scrolls`, `ErasesLast`); `TextShows` lifts them to whole
  texts by `FoldFacts`, for texts in which every CR is followed by LF (`Paced`), as all output
  of the shell is. `ConsoleInv` adds that the last line of the console is the prompt with the line
  being edited unless `mixed`.
* `SessionTypeCorrect` puts the three together; that no stored file has the empty
  name comes from the parsing (`NamesAFile`, `PerfNamesAFile`).

**`Userland_proofs`** (`HeapAssumption`: the region's base is aligned for every
layout, as 1 MiB is; `ImagesAssumption`: the fields of headers and relocations have their types, a segment
that has an end lies in the user's half of the address space, and `.bss` lies in one, behind its bytes of the file, as
`userspace/linker.ld` puts it; `TextAssumption`: characters are strings and what is typed
has no newline in it, since Enter ends it; `BuildAssumption`: types).

* `BlocksApartCorrect`, with `HeapInv`: all blocks in use end at or below `brk`.
* `PanicsOnlyForCauseCorrect`: for every page size, memory and set of images, those cut
  short anywhere or with odd tables included: a panic means that the file lacks something it declares, a
  segment has no end, or memory is used up.
* `LoadedByPagesCorrect`: what memory holds, for every layout of segments, also those that
  begin within pages and share them, as `linker.ld` makes them. `LinkedSoFar`: every byte that `load_elf()` is past is in
  place, counted from the beginning of its segment's first page (`LoadedAt`, `InPlace`, `Visited`), unless a later
  segment came into its page (`Overlaid`, `GivenAway`); each page has a frame of its own
  (`FramesApart`), and `_start` clears nothing below `.bss`. `LoadedAsLinkedCorrect` follows for segments
  that begin on page boundaries and share no page.
* `BuiltFromAnswerCorrect`, for every `main.rs`, every sequence of answers and of failed
  builds. `BodyReplaced`: putting a body between the markers keeps what is in front of the
  first and behind the last, unless the body has an end marker of its own.
  `StripsFences`: of an answer in fences the statements between them remain, in order
  (`StatementsKept` for lines left out, `StatementsTrimmed` and `StatementsUnbraced` for what is
  cut off at the ends); that an opening fence is told from a closing one by parity
  counted from the front is compared with the property's count from behind.
* `EntriesReadBackCorrect` and `EditorReadsBackCorrect`, for every old file, limit, number of
  commands and anything typed. `TextInv`: after a save the file is the text of what the
  application wanted, cut at the limit, and every entry and line has the form in which
  its reader gives it back (trimmed, no newline, a text that `TrimAscii` leaves as it is). One lemma goes each way: a
  formatted entry parses to itself (`TodoParsedBack`, `EventParsedBack`, which rest on where the
  first separator is, `SplitsTo`), and a text that begins with the lines of some entries, of which the cut
  leaves as many as lie within the limit, splits into these lines and more
  (`LinesRead`, `LinesOfBeginning`, `FmtRead`, `CutBehind`). Flattening and folding are
  brought to prefixes first (`Concatenates`).

Induction is done with least elements (`WFMin` of the well-founded relation `<`, packed into
`FoldFacts!UpTo`), which needs no operator as a parameter.

Every safety invariant and all three refinements that the passing runs check are proved, but
for one invariant.
Out of the prover's reach: `KeysDelivered` and `GenAnswered`
(liveness under fairness), and `CalculatesRight`, whose evaluator is recursive.

## 6. What is not modelled, and why

* The kernel's half of the address space, page flags, TLB: every P4 shares the
  same entries and the code never changes them.
* The depth of the ring-0 stack: what lies below its frame depends on the
  allocator's neighbours and on stack frames that the source does not tell.
* ATA commands, their polling and failed reads; lost writes of `format()`, which
  promises no file.
* A dropped outgoing byte (`serial_putc_port()` gives up after 10000 polls):
  QEMU's UART always accepts one. The one case with a visible effect, the boot
  profile that does not reach the daemon, is in `ElfStream!Init`.
* The daemon's bootstrap branch: the bootstrap request is never sent.
* The texts of `storage_list` and `get_metrics`, of `help` and the like; times and the
  counters of heap, storage and received bytes.
* The length of requests on the wire: a `gen` line is one byte in ElfStream, so a read that
  takes it for an ACK takes all of it, where the code takes its first byte and leaves the rest. This
  differs only when the daemon still waits for an ACK that the kernel does not owe.
* What a segment in the kernel's half of the address space does: `load_elf()` would
  map it over the kernel.
* Glyphs, pixel formats, port numbers; Ctrl and Alt; `ps2_reset()`; COM1 input
  (polled by the same loop and handled like a key).
* The applications `files` and `perf`, which hand system calls through, and the
  launcher, which prints.
* ACPI/SMP (counts CPUs, starts none), the generator, image tools: no state of their
  own. The kernel heap is a library.

## 7. Plan

Done: all modules of section 2, the theorems of section 5.

Left: ATA reads that fail, which need a model of what a torn directory sector holds; and the
evaluator of `mathc` as recursive functions, so that `CalculatesRight` could be stated for
expressions of any length.
