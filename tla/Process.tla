------------------------------ MODULE Process ------------------------------
(***************************************************************************)
(* The life of a ring-3 process (kernel/src/process.rs, the page mapper of *)
(* kernel/src/loader.rs and the exit system call of interrupts.rs): a run  *)
(* takes the GDT_SEL lock, switches CR3 to a fresh P4, maps pages one page *)
(* table at a time, enters ring 3, and comes back through exit.            *)
(*                                                                         *)
(* One kernel thread does all this and no interrupt handler touches what   *)
(* it uses, so the steps are those at which the run may stop half-way:     *)
(* each allocation (which panics when memory is out) and each return.      *)
(***************************************************************************)
EXTENDS FrameAllocator, Sequences

CONSTANTS
  Reserved,    \* the frames in use when process::init() runs
  KernelP4,    \* the one the boot loader left in CR3
  Index,       \* indices of the entries of a page table
  Pages,       \* virtual pages
  Walk,        \* Walk[page][level]: the four indices map_user_page() computes
  ImagePages,  \* pages that an ELF image may ask for
  DemoPage,    \* DEMO_BASE
  StackPages,  \* the pages below USER_STACK_TOP, in the order they are mapped
  Dirty,       \* frames whose memory is not zero when the kernel starts
  MaxImage     \* bound of the model on the pages of an image

Levels == 0 .. 3  \* P4, P3, P2, P1

ASSUME MemoryAssumption ==
  /\ Reserved \subseteq Frames /\ KernelP4 \in Reserved
  /\ Dirty \subseteq Frames

\* A page is known by its four indices: the MMU looks at nothing else.
ASSUME PagesAssumption ==
  /\ Walk \in [Pages -> [Levels -> Index]]
  /\ \A v, w \in Pages : Walk[v] = Walk[w] => v = w
  /\ ImagePages \subseteq Pages /\ DemoPage \in Pages
  /\ StackPages \in Seq(Pages)
  /\ MaxImage \in Nat

VARIABLES
  pt,              \* pt[f][i]: the frame that entry i of page table f maps
  stale,           \* frames holding old data: an entry not in pt is arbitrary
  cr3,
  rsp0,            \* the frame of TSS.privilege_stack_table[0]
  gdt_sel_locked,
  exit_ctx,        \* EXIT_CTX: its kernel_p4_phys, or NoFrame
  current_process, \* CURRENT_PROCESS
  lost,            \* history: frames of runs that returned an error
  pc,
  run              \* the locals of run_elf() / run_user_demo()

hwVars == <<pt, stale, cr3>>
ctxVars == <<rsp0, gdt_sel_locked, exit_ctx, current_process>>
vars == <<frameVars, hwVars, ctxVars, lost, pc, run>>

NoFrame == -1
NoProcess == [p4_frame |-> NoFrame, frames |-> {}]
NoRun == [kind |-> "none", p4_idx |-> NoFrame, kernel_p4_phys |-> NoFrame,
          frames |-> {}, vaddr |-> DemoPage, level |-> 0, table |-> NoFrame,
          mapped |-> 0, then |-> "shell"]

EmptyTable == [i \in Index |-> NoFrame]

-----------------------------------------------------------------------------

\* process::init(): the frame of the ring-0 stack.
ProcessInit ==
  /\ pc = "boot"
  /\ \E f \in Frames : Allocate(f) /\ rsp0' = f
  /\ pc' = "shell"
  /\ UNCHANGED <<hwVars, gdt_sel_locked, exit_ctx, current_process, lost, run>>

\* run_elf() or run_user_demo() up to switch_to_new_p4(): GDT_SEL.lock(),
\* then a zeroed P4 goes into CR3.  The old CR3 is what the run calls the
\* kernel's P4.
StartRun(kind) ==
  /\ pc = "shell" /\ ~gdt_sel_locked
  /\ gdt_sel_locked' = TRUE
  /\ \E f \in Frames :
       /\ Allocate(f)
       /\ cr3' = f
       /\ pt' = [pt EXCEPT ![f] = EmptyTable]
       /\ stale' = stale \ {f}
       /\ run' = [NoRun EXCEPT !.kind = kind, !.p4_idx = f,
                               !.kernel_p4_phys = cr3]
  /\ pc' = "load"
  /\ UNCHANGED <<rsp0, exit_ctx, current_process, lost>>

\* The same calls when the lock is taken: spin::Mutex::lock() never returns.
RunWhileLocked ==
  /\ pc = "shell" /\ gdt_sel_locked
  /\ pc' = "spin"
  /\ UNCHANGED <<frameVars, hwVars, ctxVars, lost, run>>

-----------------------------------------------------------------------------

\* map_user_page(v): the walk starts at CR3.
Map(v, then) ==
  /\ pc' = "walk"
  /\ run' = [run EXCEPT !.vaddr = v, !.level = 0, !.table = cr3,
                        !.mapped = @ + 1, !.then = then]
  /\ UNCHANGED <<frameVars, hwVars, ctxVars, lost>>

\* load_elf() maps the pages of its segments, in the image's order and again
\* when two segments share a page; the demo maps one page.
MapImagePage ==
  /\ pc = "load" /\ run.kind = "elf" /\ run.mapped < MaxImage
  /\ \E v \in ImagePages : Map(v, "load")

MapDemoPage ==
  /\ pc = "load" /\ run.kind = "demo" /\ run.mapped = 0
  /\ Map(DemoPage, "load")

\* enter_ring3() maps the stack, lowest page first.  The variant stops one
\* page early.
StackMapped_OneShort == run.mapped + 1 = Len(StackPages)
StackMapped == run.mapped = Len(StackPages)

MapStackPage ==
  /\ pc = "stack" /\ ~StackMapped
  /\ Map(StackPages[run.mapped + 1], "stack")

Slot == Walk[run.vaddr][run.level]

SetEntry(f) == pt' = [pt EXCEPT ![run.table][Slot] = f]

Descend(f, taken) ==
  run' = [run EXCEPT !.table = f, !.level = @ + 1, !.frames = @ \cup taken]

\* The entry at this level is present: one this run wrote, or whatever bits
\* an old frame that was never cleared happens to hold.
FollowEntry ==
  /\ pc = "walk" /\ run.level < 3
  /\ \/ /\ pt[run.table][Slot] # NoFrame
        /\ Descend(pt[run.table][Slot], {})
        /\ UNCHANGED pt
     \/ /\ pt[run.table][Slot] = NoFrame /\ run.table \in stale
        /\ \E f \in Frames : SetEntry(f) /\ Descend(f, {})
  /\ UNCHANGED <<frameVars, stale, cr3, ctxVars, lost, pc>>

\* The entry is absent: a new table, whose frame is not cleared.
AddTable ==
  /\ pc = "walk" /\ run.level < 3 /\ pt[run.table][Slot] = NoFrame
  /\ \E f \in Frames : Allocate(f) /\ SetEntry(f) /\ Descend(f, {f})
  /\ UNCHANGED <<stale, cr3, ctxVars, lost, pc>>

\* The leaf always gets a new frame, whatever it mapped before.
MapLeaf ==
  /\ pc = "walk" /\ run.level = 3
  /\ \E f \in Frames :
       /\ Allocate(f)
       /\ SetEntry(f)
       /\ run' = [run EXCEPT !.frames = @ \cup {f}]
  /\ pc' = run.then
  /\ UNCHANGED <<stale, cr3, ctxVars, lost>>

-----------------------------------------------------------------------------

\* load_elf() returned Err and run_elf() passes it on: only the lock guard
\* and the locals are dropped.
LoadFails ==
  /\ pc = "load" /\ run.kind = "elf"
  /\ gdt_sel_locked' = FALSE
  /\ lost' = lost \cup run.frames \cup {run.p4_idx}
  /\ run' = NoRun
  /\ pc' = "shell"
  /\ UNCHANGED <<frameVars, hwVars, rsp0, exit_ctx, current_process>>

LoadSucceeds ==
  /\ pc = "load"
  /\ run.kind = "demo" => run.mapped = 1
  /\ run' = [run EXCEPT !.mapped = 0]
  /\ pc' = "stack"
  /\ UNCHANGED <<frameVars, hwVars, ctxVars, lost>>

\* EnterRing3 that saves the process's own P4.
EnterRing3_SavesOwnP4 ==
  /\ pc = "stack" /\ StackMapped
  /\ exit_ctx' = cr3
  /\ current_process' = [p4_frame |-> run.p4_idx, frames |-> run.frames]
  /\ run' = NoRun
  /\ pc' = "ring3"
  /\ UNCHANGED <<frameVars, hwVars, rsp0, gdt_sel_locked, lost>>

\* The end of enter_ring3().  It never returns, so run_elf()'s guard of
\* GDT_SEL is never dropped; the locals go with the stack.
EnterRing3 ==
  /\ pc = "stack" /\ StackMapped
  /\ exit_ctx' = run.kernel_p4_phys
  /\ current_process' = [p4_frame |-> run.p4_idx, frames |-> run.frames]
  /\ run' = NoRun
  /\ pc' = "ring3"
  /\ UNCHANGED <<frameVars, hwVars, rsp0, gdt_sel_locked, lost>>

\* System call 0: restore CR3, free the frames, back to shell_main_loop().
\* What the process and its page tables left in the frames stays there.
Owned(process) == (process.frames \cup {process.p4_frame}) \ {NoFrame}

\* ExitSyscall that forgets p4_frame, and ExitSyscall that stays on the page
\* tables of the process.
ExitSyscall_P4Kept ==
  LET freed == current_process.frames IN
  /\ pc = "ring3" /\ exit_ctx # NoFrame
  /\ cr3' = exit_ctx
  /\ exit_ctx' = NoFrame
  /\ DeallocateAll(freed)
  /\ pt' = [f \in Frames |-> IF f \in freed THEN EmptyTable ELSE pt[f]]
  /\ stale' = stale \cup freed
  /\ current_process' = NoProcess
  /\ pc' = "shell"
  /\ UNCHANGED <<rsp0, gdt_sel_locked, lost, run>>

ExitSyscall_Cr3Kept ==
  LET freed == Owned(current_process) IN
  /\ pc = "ring3" /\ exit_ctx # NoFrame
  /\ exit_ctx' = NoFrame
  /\ DeallocateAll(freed)
  /\ pt' = [f \in Frames |-> IF f \in freed THEN EmptyTable ELSE pt[f]]
  /\ stale' = stale \cup freed
  /\ current_process' = NoProcess
  /\ pc' = "shell"
  /\ UNCHANGED <<cr3, rsp0, gdt_sel_locked, lost, run>>

ExitSyscall ==
  LET freed == Owned(current_process) IN
  /\ pc = "ring3" /\ exit_ctx # NoFrame
  /\ cr3' = exit_ctx
  /\ exit_ctx' = NoFrame
  /\ DeallocateAll(freed)
  /\ pt' = [f \in Frames |-> IF f \in freed THEN EmptyTable ELSE pt[f]]
  /\ stale' = stale \cup freed
  /\ current_process' = NoProcess
  /\ pc' = "shell"
  /\ UNCHANGED <<rsp0, gdt_sel_locked, lost, run>>

\* An exception in ring 3 ends in halt_loop(); a malformed image can make
\* load_elf() index past its end, and an allocation that finds no frame
\* panics.  Each stops the machine where it is.
AppFault == pc = "ring3"
ImagePanic == pc = "load" /\ run.kind = "elf"
OutOfMemory ==
  /\ Free = {}
  /\ \/ pc = "boot"
     \/ pc = "shell" /\ ~gdt_sel_locked
     \/ pc = "walk" /\ (run.level = 3 \/ pt[run.table][Slot] = NoFrame)

Halt ==
  /\ AppFault \/ ImagePanic \/ OutOfMemory
  /\ pc' = "halted"
  /\ UNCHANGED <<frameVars, hwVars, ctxVars, lost, run>>

-----------------------------------------------------------------------------

Init ==
  /\ FrameInit /\ bitmap = Reserved
  /\ pt = [f \in Frames |-> EmptyTable]
  /\ stale = Dirty
  /\ cr3 = KernelP4
  /\ rsp0 = NoFrame
  /\ gdt_sel_locked = FALSE
  /\ exit_ctx = NoFrame
  /\ current_process = NoProcess
  /\ lost = {}
  /\ pc = "boot"
  /\ run = NoRun

Next ==
  \/ ProcessInit
  \/ StartRun("elf")
  \/ StartRun("demo")
  \/ RunWhileLocked
  \/ MapImagePage
  \/ MapDemoPage
  \/ MapStackPage
  \/ FollowEntry
  \/ AddTable
  \/ MapLeaf
  \/ LoadFails
  \/ LoadSucceeds
  \/ EnterRing3
  \/ ExitSyscall
  \/ Halt

Spec == Init /\ [][Next]_vars

-----------------------------------------------------------------------------

Building == (run.frames \cup {run.p4_idx}) \ {NoFrame}
Ring0Stack == {rsp0} \ {NoFrame}
FrameOrNone == Frames \cup {NoFrame}

\* struct Process, and the locals of a run.
Processes == [p4_frame : FrameOrNone, frames : SUBSET Frames]
Runs == [kind : {"none", "elf", "demo"}, p4_idx : FrameOrNone,
         kernel_p4_phys : FrameOrNone, frames : SUBSET Frames,
         vaddr : Pages, level : Levels, table : FrameOrNone,
         mapped : Nat, then : {"shell", "load", "stack"}]

\* Type invariant of the process manager and of the allocator under it.
ProcessTypeOK ==
  /\ FrameTypeOK
  /\ pt \in [Frames -> [Index -> FrameOrNone]]
  /\ stale \subseteq Frames
  /\ cr3 \in Frames
  /\ rsp0 \in FrameOrNone
  /\ gdt_sel_locked \in BOOLEAN
  /\ exit_ctx \in FrameOrNone
  /\ current_process \in Processes
  /\ lost \subseteq Frames
  /\ pc \in {"boot", "shell", "spin", "load", "walk", "stack", "ring3", "halted"}
  /\ run \in Runs

\* Who a frame in use belongs to.
Shares == <<Reserved, Ring0Stack, Building, Owned(current_process), lost>>

\* Every frame in use has exactly one owner - the kernel, the ring-0 stack,
\* the run being set up, the running process, or a run that failed - and
\* every owned frame is in use: exit frees all that its run took and nothing
\* else, and no frame is handed out twice.
FrameAccounting ==
  /\ bitmap = UNION {Shares[i] : i \in 1 .. 5}
  /\ \A i, j \in 1 .. 5 : i # j => Shares[i] \cap Shares[j] = {}

\* The frames the MMU can reach from the P4 in frame p4, level by level.
EntriesOf(S) == {pt[f][i] : f \in S, i \in Index} \ {NoFrame}
P3s(p4) == EntriesOf({p4})
P2s(p4) == EntriesOf(P3s(p4))
P1s(p4) == EntriesOf(P2s(p4))
Tables(p4) == {p4} \cup P3s(p4) \cup P2s(p4) \cup P1s(p4)
Reachable(p4) == Tables(p4) \cup EntriesOf(P1s(p4))

\* Whatever CR3 points at, its page tables are frames in use: the switch
\* back at exit, a failed load that leaves the new P4 in CR3, and the frees
\* at exit never leave the MMU walking freed memory, and the ring-0 stack
\* the shell then runs on is not freed under it.  (On memory that is clear when
\* the kernel starts: a walk through old data may lead anywhere.)
LiveTablesAllocated ==
  /\ Reachable(cr3) \subseteq bitmap
  /\ Ring0Stack \subseteq bitmap
  /\ pc \notin {"boot", "halted"} => Ring0Stack # {}

Translate(p4, v) ==
  LET Step(f, level) == IF f = NoFrame THEN NoFrame ELSE pt[f][Walk[v][level]]
  IN  Step(Step(Step(Step(p4, 0), 1), 2), 3)

\* A process that enters ring 3 has its whole stack mapped, each page to a
\* frame of its own that is no page table, even when the image's segments
\* overlap each other or the stack - on clear memory, too.
StackUsable ==
  pc = "ring3" =>
    LET p4 == current_process.p4_frame
        stack == {StackPages[i] : i \in 1 .. Len(StackPages)} IN
    \A v \in stack :
      /\ Translate(p4, v) \in Owned(current_process) \ Tables(p4)
      /\ \A w \in Pages \ {v} : Translate(p4, w) # Translate(p4, v)

\* System call 0 always finds its way back: the P4 it will restore is in use
\* and is not one of the frames it is about to free, nor is the stack it
\* switches to; and CR3 holds the P4 of the process it ends.
ExitContextReady ==
  pc = "ring3" =>
    /\ exit_ctx \in bitmap \ Owned(current_process)
    /\ rsp0 \notin Owned(current_process)
    /\ cr3 = current_process.p4_frame

-----------------------------------------------------------------------------

\* README.md:41 - "App exits - returns to the shell prompt, ready for the
\* next `gen`": the shell can always start another app.  It cannot: the
\* guard of GDT_SEL outlives the first process.
ReadyForNextApp == pc # "spin"

\* process.rs:138 - switch_to_new_p4() "Returns the new P4 frame index and
\* the (saved) kernel P4 physical address".  After a failed load CR3 holds
\* that run's P4, and this is what the next run saves.
SavedP4IsKernels == run.kernel_p4_phys \in {NoFrame, KernelP4}

\* README.md:56 - "Each app gets its own page tables": all that ring 3 can
\* reach was allocated for this process, and none of its tables is a frame with
\* old data in it.  map_user_page() clears no table and takes every word with
\* bit 0 set for an entry, so that this depends on what memory holds when the
\* kernel starts: after a reset, what it held before.
Isolation ==
  pc = "ring3" =>
    /\ Reachable(current_process.p4_frame) \subseteq Owned(current_process)
    /\ Tables(current_process.p4_frame) \cap stale = {}

\* loader.rs:99 - load_elf() "Records every allocated frame in `frames` for
\* later cleanup".  When it fails nobody cleans up.
FailedRunsCleanUp == lost = {}

=============================================================================
