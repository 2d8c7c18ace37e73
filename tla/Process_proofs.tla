--------------------------- MODULE Process_proofs ---------------------------
(***************************************************************************)
(* Proofs about the life of a process, for every size of memory, every     *)
(* layout of the page tables (Index, Walk), every image and every content  *)
(* of the frames that were never cleared (Dirty).                          *)
(***************************************************************************)
EXTENDS Process, FrameAllocator_proofs

\* The sets R, K, B, O and L are disjoint and make up X.
IsPartition(X, R, K, B, O, L) ==
  /\ X = R \cup K \cup B \cup O \cup L
  /\ R \cap K = {} /\ R \cap B = {} /\ R \cap O = {} /\ R \cap L = {}
  /\ K \cap B = {} /\ K \cap O = {} /\ K \cap L = {}
  /\ B \cap O = {} /\ B \cap L = {} /\ O \cap L = {}

\* FrameAccounting with its five shares written out.
Partition ==
  IsPartition(bitmap, Reserved, Ring0Stack, Building, Owned(current_process), lost)

SettingUp == pc \in {"load", "walk", "stack"}

\* Which parts of the state are in use in which phase of a run, and where the
\* P4 that exit returns to comes from: it is the kernel's, or that of a run
\* that failed and whose frames nobody freed.
Phases ==
  /\ pc = "boot" => rsp0 = NoFrame
  /\ pc \notin {"boot", "halted"} => rsp0 # NoFrame
  /\ pc \in {"boot", "shell", "spin", "ring3"} => run = NoRun
  /\ pc \in {"boot", "shell"} \/ SettingUp => current_process = NoProcess
  /\ pc \in {"boot", "shell"} => cr3 \in Reserved \cup lost
  /\ SettingUp => run.kernel_p4_phys \in Reserved \cup lost /\ cr3 = run.p4_idx
  /\ pc = "ring3" => exit_ctx \in Reserved \cup lost /\ cr3 = current_process.p4_frame

\* The walk has a table, goes back to where it came from, and the stack has
\* no more pages than are mapped.
Walking ==
  /\ pc = "walk" => run.table # NoFrame /\ run.then \in {"load", "stack"}
  /\ pc = "stack" \/ (pc = "walk" /\ run.then = "stack") =>
       run.mapped <= Len(StackPages)

\* The inductive invariant.
ProcInv == FrameInv /\ ProcessTypeOK /\ Partition /\ Phases /\ Walking

-----------------------------------------------------------------------------

\* How the shares change: a frame that was free goes to the ring-0 stack or to
\* the run, a failed run's frames are lost, a run becomes the process, and a
\* process gives its frames back.
LEMMA PartitionSteps ==
  ASSUME NEW X, NEW R, NEW K, NEW B, NEW O, NEW L, IsPartition(X, R, K, B, O, L)
  PROVE  /\ \A f : f \notin X => /\ IsPartition(X \cup {f}, R, K \cup {f}, B, O, L)
                                /\ IsPartition(X \cup {f}, R, K, B \cup {f}, O, L)
         /\ IsPartition(X, R, K, {}, O, L \cup B)
         /\ O = {} => IsPartition(X, R, K, {}, B, L)
         /\ IsPartition(X \ O, R, K, B, {}, L)
<1>1. ASSUME NEW f, f \notin X
      PROVE  /\ IsPartition(X \cup {f}, R, K \cup {f}, B, O, L)
             /\ IsPartition(X \cup {f}, R, K, B \cup {f}, O, L)
  BY <1>1 DEF IsPartition
<1>2. IsPartition(X, R, K, {}, O, L \cup B)
  BY DEF IsPartition
<1>3. O = {} => IsPartition(X, R, K, {}, B, L)
  BY DEF IsPartition
<1>4. IsPartition(X \ O, R, K, B, {}, L)
  BY DEF IsPartition
<1>. QED
  BY <1>1, <1>2, <1>3, <1>4

\* Frames are numbered from 0.
LEMMA NoFrameIsNone == NoFrame \notin Frames
BY TotalFramesAssumption DEF NoFrame, Frames

\* The values of the locals and of CURRENT_PROCESS when there is no run.
LEMMA NothingTypes ==
  /\ NoRun \in Runs /\ NoProcess \in Processes
  /\ EmptyTable \in [Index -> FrameOrNone]
BY PagesAssumption DEF NoRun, NoProcess, Runs, Processes, FrameOrNone, Levels, EmptyTable

\* A partition of the frames in use into five shares is what FrameAccounting
\* says.
LEMMA PartitionIsAccounting == Partition => FrameAccounting
<1> SUFFICES ASSUME Partition PROVE FrameAccounting
  OBVIOUS
<1> DEFINE K == Ring0Stack
           B == Building
           O == Owned(current_process)
<1>1. IsPartition(bitmap, Reserved, K, B, O, lost)
  BY DEF Partition
<1>2. /\ Shares[1] = Reserved /\ Shares[2] = K /\ Shares[3] = B
      /\ Shares[4] = O /\ Shares[5] = lost
  BY DEF Shares
<1>3. \A i \in 1 .. 5 : i = 1 \/ i = 2 \/ i = 3 \/ i = 4 \/ i = 5
  OBVIOUS
<1>4. 1 \in 1 .. 5 /\ 2 \in 1 .. 5 /\ 3 \in 1 .. 5 /\ 4 \in 1 .. 5 /\ 5 \in 1 .. 5
  OBVIOUS
<1> HIDE DEF K, B, O
<1>5. bitmap = UNION {Shares[i] : i \in 1 .. 5}
  <2>1. bitmap = Reserved \cup K \cup B \cup O \cup lost
    BY <1>1 DEF IsPartition
  <2>2. \A x : x \in UNION {Shares[i] : i \in 1 .. 5} <=> \E i \in 1 .. 5 : x \in Shares[i]
    OBVIOUS
  <2>. QED
    BY <2>1, <2>2, <1>2, <1>3, <1>4
<1>6. \A i, j \in 1 .. 5 : i # j => Shares[i] \cap Shares[j] = {}
  <2>1. SUFFICES ASSUME NEW i \in 1 .. 5, NEW j \in 1 .. 5, i # j
                 PROVE  Shares[i] \cap Shares[j] = {}
    OBVIOUS
  <2>2. /\ Reserved \cap K = {} /\ Reserved \cap B = {} /\ Reserved \cap O = {}
        /\ Reserved \cap lost = {} /\ K \cap B = {} /\ K \cap O = {}
        /\ K \cap lost = {} /\ B \cap O = {} /\ B \cap lost = {} /\ O \cap lost = {}
    BY <1>1 DEF IsPartition
  <2>3. CASE i = 1
    BY <2>1, <2>2, <2>3, <1>2, <1>3
  <2>4. CASE i = 2
    BY <2>1, <2>2, <2>4, <1>2, <1>3
  <2>5. CASE i = 3
    BY <2>1, <2>2, <2>5, <1>2, <1>3
  <2>6. CASE i = 4
    BY <2>1, <2>2, <2>6, <1>2, <1>3
  <2>7. CASE i = 5
    BY <2>1, <2>2, <2>7, <1>2, <1>3
  <2>. QED
    BY <2>3, <2>4, <2>5, <2>6, <2>7, <1>3
<1>. QED
  BY <1>5, <1>6 DEF FrameAccounting

-----------------------------------------------------------------------------

\* The kernel starts with its own frames in use and nothing else.
LEMMA ProcInit == Init => ProcInv
<1> SUFFICES ASSUME Init PROVE ProcInv
  OBVIOUS
<1>1. FrameInv /\ FrameTypeOK
  BY FrameInitCorrect, FrameInvImplies DEF Init
<1>2. ProcessTypeOK
  BY <1>1, NothingTypes, MemoryAssumption
  DEF Init, ProcessTypeOK, FrameOrNone
<1>3. Partition
  <2>1. Ring0Stack = {} /\ Building = {} /\ Owned(current_process) = {} /\ lost = {}
    BY DEF Init, Ring0Stack, Building, Owned, NoRun, NoProcess
  <2>. QED
    BY <2>1 DEF Init, Partition, IsPartition
<1>4. Phases
  BY MemoryAssumption DEF Init, Phases, SettingUp
<1>5. Walking
  BY DEF Init, Walking
<1>. QED
  BY <1>1, <1>2, <1>3, <1>4, <1>5 DEF ProcInv

-----------------------------------------------------------------------------

\* process::init(): the ring-0 stack's frame was free.
LEMMA ProcessInitStep == ProcInv /\ ProcessInit => ProcInv'
<1> SUFFICES ASSUME ProcInv, ProcessInit PROVE ProcInv'
  OBVIOUS
<1> USE DEF ProcInv
<1>1. PICK f \in Frames : Allocate(f) /\ rsp0' = f
  BY DEF ProcessInit
<1>2. FrameInv' /\ f \notin bitmap /\ bitmap' = bitmap \cup {f}
  BY <1>1, AllocateCorrect
<1>3. FrameTypeOK'
  BY <1>2, FrameInvImplies, PTL
<1>4. ProcessTypeOK'
  BY <1>1, <1>3 DEF ProcessInit, ProcessTypeOK, hwVars, FrameOrNone
<1>5. Partition'
  <2>1. Ring0Stack = {} /\ Ring0Stack' = {f}
    BY <1>1, NoFrameIsNone DEF ProcessInit, Phases, Ring0Stack
  <2>2. /\ Building' = Building /\ lost' = lost
        /\ Owned(current_process)' = Owned(current_process)
    BY DEF ProcessInit, Building, Owned
  <2>3. IsPartition(bitmap \cup {f}, Reserved, Ring0Stack \cup {f}, Building,
                    Owned(current_process), lost)
    BY <1>2, PartitionSteps DEF Partition
  <2>4. Ring0Stack' = Ring0Stack \cup {f}
    BY <2>1
  <2>. QED
    BY <1>2, <2>2, <2>3, <2>4 DEF Partition
<1>6. Phases' /\ Walking'
  BY <1>1, NoFrameIsNone DEF ProcessInit, Phases, Walking, SettingUp, hwVars
<1>. QED
  BY <1>2, <1>4, <1>5, <1>6

\* The start of a run: its P4 was free, and what it will return to is the
\* kernel's P4 or the P4 of a run that failed.
LEMMA StartRunStep ==
  ASSUME ProcInv, NEW kind \in {"elf", "demo"}, StartRun(kind)
  PROVE  ProcInv'
<1> USE DEF ProcInv
<1>1. PICK f \in Frames :
        /\ Allocate(f)
        /\ cr3' = f
        /\ pt' = [pt EXCEPT ![f] = EmptyTable]
        /\ stale' = stale \ {f}
        /\ run' = [NoRun EXCEPT !.kind = kind, !.p4_idx = f, !.kernel_p4_phys = cr3]
  BY DEF StartRun
<1>2. FrameInv' /\ f \notin bitmap /\ bitmap' = bitmap \cup {f}
  BY <1>1, AllocateCorrect
<1>3. FrameTypeOK'
  BY <1>2, FrameInvImplies, PTL
<1>4. /\ run' \in Runs
      /\ run'.p4_idx = f /\ run'.kernel_p4_phys = cr3 /\ run'.frames = {}
  BY <1>1, NothingTypes DEF ProcessTypeOK, Runs, FrameOrNone, NoRun
<1>5. ProcessTypeOK'
  <2>1. pt' \in [Frames -> [Index -> FrameOrNone]]
    BY <1>1, NothingTypes DEF ProcessTypeOK
  <2>. QED
    BY <1>1, <1>3, <1>4, <2>1 DEF StartRun, ProcessTypeOK
<1>6. Partition'
  <2>1. Building = {}
    BY DEF StartRun, Phases, Building, NoRun
  <2>2. Building' = Building \cup {f}
    BY <1>4, <2>1, NoFrameIsNone DEF Building
  <2>3. /\ Ring0Stack' = Ring0Stack /\ lost' = lost
        /\ Owned(current_process)' = Owned(current_process)
    BY DEF StartRun, Ring0Stack, Owned
  <2>4. IsPartition(bitmap \cup {f}, Reserved, Ring0Stack, Building \cup {f},
                    Owned(current_process), lost)
    BY <1>2, PartitionSteps DEF Partition
  <2>. QED
    BY <1>2, <2>2, <2>3, <2>4 DEF Partition
<1>7. Phases' /\ Walking'
  BY <1>1, <1>4 DEF StartRun, Phases, Walking, SettingUp
<1>. QED
  BY <1>2, <1>5, <1>6, <1>7

\* Steps that allocate nothing and free nothing.
LEMMA SamePartition ==
  ASSUME ProcInv, UNCHANGED <<frameVars, rsp0, current_process, lost>>,
         run'.frames = run.frames, run'.p4_idx = run.p4_idx
  PROVE  FrameInv' /\ FrameTypeOK' /\ Partition'
<1>1. FrameInv'
  BY DEF ProcInv, FrameInv, frameVars
<1>2. FrameTypeOK'
  BY <1>1, FrameInvImplies, PTL
<1>3. /\ Ring0Stack' = Ring0Stack /\ Building' = Building
      /\ Owned(current_process)' = Owned(current_process)
  BY DEF Ring0Stack, Building, Owned
<1>. QED
  BY <1>1, <1>2, <1>3 DEF ProcInv, Partition, frameVars

\* A call of map_user_page() begins.
LEMMA MapStep ==
  ASSUME ProcInv, NEW v \in Pages, NEW then \in {"load", "stack"}, Map(v, then),
         SettingUp, then = "stack" => run.mapped + 1 <= Len(StackPages)
  PROVE  ProcInv'
<1> USE DEF ProcInv
<1>1. /\ run' \in Runs
      /\ run'.frames = run.frames /\ run'.p4_idx = run.p4_idx
      /\ run'.kernel_p4_phys = run.kernel_p4_phys /\ run'.table = cr3
      /\ run'.then = then /\ run'.mapped = run.mapped + 1
  <2>1. run \in Runs /\ cr3 \in FrameOrNone /\ 0 \in Levels
    BY DEF ProcessTypeOK, FrameOrNone, Levels
  <2>2. run' = [run EXCEPT !.vaddr = v, !.level = 0, !.table = cr3,
                           !.mapped = @ + 1, !.then = then]
    BY DEF Map
  <2>3. /\ run'.frames = run.frames /\ run'.p4_idx = run.p4_idx
        /\ run'.kernel_p4_phys = run.kernel_p4_phys /\ run'.table = cr3
        /\ run'.then = then /\ run'.mapped = run.mapped + 1
    BY <2>1, <2>2 DEF Runs
  <2>4. run.mapped + 1 \in Nat
    BY <2>1 DEF Runs
  <2>5. run' \in Runs
    BY <2>1, <2>2, <2>4 DEF Runs
  <2>. QED
    BY <2>3, <2>5
<1>2. FrameInv' /\ FrameTypeOK' /\ Partition'
  BY <1>1, SamePartition DEF Map, ctxVars
<1>3. ProcessTypeOK'
  BY <1>1, <1>2 DEF Map, ProcessTypeOK, hwVars, ctxVars
<1>4. Phases'
  BY <1>1 DEF Map, Phases, SettingUp, hwVars, ctxVars
<1>5. Walking'
  BY <1>1, NoFrameIsNone DEF Map, Walking, ProcessTypeOK
<1>. QED
  BY <1>2, <1>3, <1>4, <1>5

\* The pages of the image, the demo and the stack are pages, and the stack's
\* come one after the other.
LEMMA MapSteps ==
  ProcInv /\ (MapImagePage \/ MapDemoPage \/ MapStackPage) => ProcInv'
<1> SUFFICES ASSUME ProcInv, MapImagePage \/ MapDemoPage \/ MapStackPage PROVE ProcInv'
  OBVIOUS
<1>1. CASE MapImagePage
  BY <1>1, MapStep, PagesAssumption DEF MapImagePage, SettingUp
<1>2. CASE MapDemoPage
  BY <1>2, MapStep, PagesAssumption DEF MapDemoPage, SettingUp
<1>3. CASE MapStackPage
  <2>1. run.mapped \in Nat /\ run.mapped <= Len(StackPages) /\ Len(StackPages) \in Nat
    BY <1>3, PagesAssumption DEF MapStackPage, ProcInv, Walking, ProcessTypeOK, Runs
  <2>2. run.mapped + 1 \in 1 .. Len(StackPages)
    BY <1>3, <2>1 DEF MapStackPage, StackMapped
  <2>3. StackPages[run.mapped + 1] \in Pages
    BY <2>2, PagesAssumption
  <2>. QED
    BY <1>3, <2>2, <2>3, MapStep DEF MapStackPage, SettingUp
<1>. QED
  BY <1>1, <1>2, <1>3

-----------------------------------------------------------------------------

\* An entry that is written leaves pt a table of entries, and the walk goes
\* down to a frame.
LEMMA DescendTypes ==
  ASSUME ProcessTypeOK, pc = "walk", NEW f \in Frames, NEW taken \in SUBSET Frames,
         run.level < 3, Descend(f, taken)
  PROVE  /\ run' \in Runs
         /\ run'.frames = run.frames \cup taken /\ run'.p4_idx = run.p4_idx
         /\ run'.kernel_p4_phys = run.kernel_p4_phys /\ run'.table = f
         /\ run'.then = run.then /\ run'.mapped = run.mapped
<1>1. run \in Runs /\ f \in FrameOrNone
  BY DEF ProcessTypeOK, FrameOrNone
<1>2. run' = [run EXCEPT !.table = f, !.level = @ + 1, !.frames = @ \cup taken]
  BY DEF Descend
<1>3. /\ run'.frames = run.frames \cup taken /\ run'.p4_idx = run.p4_idx
      /\ run'.kernel_p4_phys = run.kernel_p4_phys /\ run'.table = f
      /\ run'.then = run.then /\ run'.mapped = run.mapped
  BY <1>1, <1>2 DEF Runs
<1>4. run.level + 1 \in Levels /\ run.frames \cup taken \in SUBSET Frames
  BY <1>1 DEF Runs, Levels
<1>5. run' \in Runs
  BY <1>1, <1>2, <1>4 DEF Runs
<1>. QED
  BY <1>3, <1>5

\* Writing one entry leaves the page tables well typed.
LEMMA SetEntryType ==
  ASSUME ProcessTypeOK, NEW f \in Frames, SetEntry(f)
  PROVE  pt' \in [Frames -> [Index -> FrameOrNone]]
<1>1. f \in FrameOrNone
  BY DEF FrameOrNone
<1>. QED
  BY <1>1 DEF SetEntry, ProcessTypeOK

\* A walk that follows an entry, also one it finds in an old frame, owns no
\* more than before.
LEMMA FollowEntryStep == ProcInv /\ FollowEntry => ProcInv'
<1> SUFFICES ASSUME ProcInv, FollowEntry PROVE ProcInv'
  OBVIOUS
<1> USE DEF ProcInv
<1>1. PICK f \in Frames :
        Descend(f, {}) /\ pt' \in [Frames -> [Index -> FrameOrNone]]
  <2>1. CASE /\ pt[run.table][Slot] # NoFrame
             /\ Descend(pt[run.table][Slot], {})
             /\ UNCHANGED pt
    <3>1. run.table \in Frames /\ Slot \in Index
      BY PagesAssumption
      DEF FollowEntry, Walking, ProcessTypeOK, Runs, FrameOrNone, Slot
    <3>2. pt[run.table][Slot] \in Frames
      BY <2>1, <3>1 DEF ProcessTypeOK, FrameOrNone
    <3>. QED
      BY <2>1, <3>2 DEF ProcessTypeOK
  <2>2. CASE \E f \in Frames : SetEntry(f) /\ Descend(f, {})
    BY <2>2, SetEntryType
  <2>. QED
    BY <2>1, <2>2 DEF FollowEntry
<1>2. /\ run' \in Runs
      /\ run'.frames = run.frames /\ run'.p4_idx = run.p4_idx
      /\ run'.kernel_p4_phys = run.kernel_p4_phys /\ run'.table = f
      /\ run'.then = run.then /\ run'.mapped = run.mapped
  <2>1. run.frames \cup {} = run.frames
    OBVIOUS
  <2>. QED
    BY <1>1, <2>1, DescendTypes DEF FollowEntry
<1>3. FrameInv' /\ FrameTypeOK' /\ Partition'
  BY <1>2, SamePartition DEF FollowEntry, ctxVars
<1>4. ProcessTypeOK'
  BY <1>1, <1>2, <1>3 DEF FollowEntry, ProcessTypeOK, ctxVars
<1>5. Phases' /\ Walking'
  BY <1>2, NoFrameIsNone DEF FollowEntry, Phases, Walking, SettingUp, ctxVars
<1>. QED
  BY <1>3, <1>4, <1>5

\* A frame that the run takes was free and becomes the run's.
LEMMA TakeFrame ==
  ASSUME ProcInv, NEW f \in Frames, Allocate(f),
         run'.frames = run.frames \cup {f}, run'.p4_idx = run.p4_idx,
         UNCHANGED <<rsp0, current_process, lost>>
  PROVE  FrameInv' /\ FrameTypeOK' /\ Partition'
<1>1. FrameInv' /\ f \notin bitmap /\ bitmap' = bitmap \cup {f}
  BY AllocateCorrect DEF ProcInv
<1>2. FrameTypeOK'
  BY <1>1, FrameInvImplies, PTL
<1>3. Building' = Building \cup {f}
  BY NoFrameIsNone DEF Building
<1>4. /\ Ring0Stack' = Ring0Stack
      /\ Owned(current_process)' = Owned(current_process)
  BY DEF Ring0Stack, Owned
<1>5. IsPartition(bitmap \cup {f}, Reserved, Ring0Stack, Building \cup {f},
                  Owned(current_process), lost)
  BY <1>1, PartitionSteps DEF ProcInv, Partition
<1>. QED
  BY <1>1, <1>2, <1>3, <1>4, <1>5 DEF Partition

\* A new page table is the run's, and so is every entry above it.
LEMMA AddTableStep == ProcInv /\ AddTable => ProcInv'
<1> SUFFICES ASSUME ProcInv, AddTable PROVE ProcInv'
  OBVIOUS
<1> USE DEF ProcInv
<1>1. PICK f \in Frames : Allocate(f) /\ SetEntry(f) /\ Descend(f, {f})
  BY DEF AddTable
<1>2. /\ run' \in Runs
      /\ run'.frames = run.frames \cup {f} /\ run'.p4_idx = run.p4_idx
      /\ run'.kernel_p4_phys = run.kernel_p4_phys /\ run'.table = f
      /\ run'.then = run.then /\ run'.mapped = run.mapped
  <2>1. {f} \in SUBSET Frames
    OBVIOUS
  <2>. QED
    BY <1>1, <2>1, DescendTypes DEF AddTable
<1>3. FrameInv' /\ FrameTypeOK' /\ Partition'
  BY <1>1, <1>2, TakeFrame DEF AddTable, ctxVars
<1>4. ProcessTypeOK'
  <2>1. pt' \in [Frames -> [Index -> FrameOrNone]]
    BY <1>1, SetEntryType
  <2>. QED
    BY <1>2, <1>3, <2>1 DEF AddTable, ProcessTypeOK, ctxVars
<1>5. Phases' /\ Walking'
  BY <1>2, NoFrameIsNone DEF AddTable, Phases, Walking, SettingUp, ctxVars
<1>. QED
  BY <1>3, <1>4, <1>5

\* A mapped page is the run's.
LEMMA MapLeafStep == ProcInv /\ MapLeaf => ProcInv'
<1> SUFFICES ASSUME ProcInv, MapLeaf PROVE ProcInv'
  OBVIOUS
<1> USE DEF ProcInv
<1>1. PICK f \in Frames :
        /\ Allocate(f)
        /\ SetEntry(f)
        /\ run' = [run EXCEPT !.frames = @ \cup {f}]
  BY DEF MapLeaf
<1>2. /\ run' \in Runs
      /\ run'.frames = run.frames \cup {f} /\ run'.p4_idx = run.p4_idx
      /\ run'.kernel_p4_phys = run.kernel_p4_phys
      /\ run'.then = run.then /\ run'.mapped = run.mapped
  <2>1. run \in Runs
    BY DEF ProcessTypeOK
  <2>. QED
    BY <1>1, <2>1 DEF Runs
<1>3. FrameInv' /\ FrameTypeOK' /\ Partition'
  BY <1>1, <1>2, TakeFrame DEF MapLeaf, ctxVars
<1>4. pc' \in {"load", "stack"} /\ pc = "walk" /\ pc' = run.then
  BY DEF MapLeaf, Walking
<1>5. ProcessTypeOK'
  <2>1. pt' \in [Frames -> [Index -> FrameOrNone]]
    BY <1>1, SetEntryType
  <2>. QED
    BY <1>2, <1>3, <1>4, <2>1 DEF MapLeaf, ProcessTypeOK, ctxVars
<1>6. Phases' /\ Walking'
  BY <1>2, <1>4 DEF MapLeaf, Phases, Walking, SettingUp, ctxVars
<1>. QED
  BY <1>3, <1>5, <1>6

-----------------------------------------------------------------------------

\* The frames of a run that fails are lost, its P4 stays in CR3.
LEMMA LoadFailsStep == ProcInv /\ LoadFails => ProcInv'
<1> SUFFICES ASSUME ProcInv, LoadFails PROVE ProcInv'
  OBVIOUS
<1> USE DEF ProcInv
<1>1. /\ run \in Runs /\ run.p4_idx = cr3 /\ cr3 \in Frames
      /\ run.frames \subseteq Frames
  BY DEF LoadFails, ProcessTypeOK, Phases, SettingUp, Runs
<1>2. lost' = lost \cup Building /\ lost' \subseteq Frames /\ cr3' \in lost'
  BY <1>1, NoFrameIsNone DEF LoadFails, Building, ProcessTypeOK, hwVars
<1>3. FrameInv' /\ FrameTypeOK'
  <2>1. FrameInv'
    BY DEF LoadFails, FrameInv, frameVars
  <2>. QED
    BY <2>1, FrameInvImplies, PTL
<1>4. ProcessTypeOK'
  BY <1>2, <1>3, NothingTypes DEF LoadFails, ProcessTypeOK, hwVars
<1>5. Partition'
  <2>1. /\ Building' = {} /\ Ring0Stack' = Ring0Stack
        /\ Owned(current_process)' = Owned(current_process)
        /\ bitmap' = bitmap
    BY DEF LoadFails, Building, NoRun, Ring0Stack, Owned, frameVars
  <2>2. IsPartition(bitmap, Reserved, Ring0Stack, {}, Owned(current_process),
                    lost \cup Building)
    BY PartitionSteps DEF Partition
  <2>. QED
    BY <1>2, <2>1, <2>2 DEF Partition
<1>6. Phases' /\ Walking'
  BY <1>2 DEF LoadFails, Phases, Walking, SettingUp
<1>. QED
  BY <1>3, <1>4, <1>5, <1>6

\* A load that succeeds keeps what it took.
LEMMA LoadSucceedsStep == ProcInv /\ LoadSucceeds => ProcInv'
<1> SUFFICES ASSUME ProcInv, LoadSucceeds PROVE ProcInv'
  OBVIOUS
<1> USE DEF ProcInv
<1>1. /\ run' \in Runs
      /\ run'.frames = run.frames /\ run'.p4_idx = run.p4_idx
      /\ run'.kernel_p4_phys = run.kernel_p4_phys /\ run'.mapped = 0
  BY DEF LoadSucceeds, ProcessTypeOK, Runs
<1>2. FrameInv' /\ FrameTypeOK' /\ Partition'
  BY <1>1, SamePartition DEF LoadSucceeds, ctxVars
<1>3. ProcessTypeOK'
  BY <1>1, <1>2 DEF LoadSucceeds, ProcessTypeOK, hwVars, ctxVars
<1>4. Phases'
  BY <1>1 DEF LoadSucceeds, Phases, SettingUp, hwVars, ctxVars
<1>5. Walking'
  <2>1. 0 <= Len(StackPages)
    BY PagesAssumption
  <2>. QED
    BY <1>1, <2>1 DEF LoadSucceeds, Walking
<1>. QED
  BY <1>2, <1>3, <1>4, <1>5

\* What the run has taken becomes the process's.
LEMMA EnterRing3Step == ProcInv /\ EnterRing3 => ProcInv'
<1> SUFFICES ASSUME ProcInv, EnterRing3 PROVE ProcInv'
  OBVIOUS
<1> USE DEF ProcInv
<1>1. /\ run \in Runs /\ current_process = NoProcess
      /\ run.kernel_p4_phys \in Reserved \cup lost /\ cr3 = run.p4_idx
  BY DEF EnterRing3, ProcessTypeOK, Phases, SettingUp
<1>2. FrameInv' /\ FrameTypeOK'
  <2>1. FrameInv'
    BY DEF EnterRing3, FrameInv, frameVars
  <2>. QED
    BY <2>1, FrameInvImplies, PTL
<1>3. /\ current_process' \in Processes
      /\ current_process'.p4_frame = run.p4_idx
      /\ current_process'.frames = run.frames
  BY <1>1 DEF EnterRing3, Runs, Processes
<1>4. ProcessTypeOK'
  <2>1. run.kernel_p4_phys \in FrameOrNone
    BY <1>1 DEF Runs
  <2>. QED
    BY <1>2, <1>3, <2>1, NothingTypes DEF EnterRing3, ProcessTypeOK, hwVars
<1>5. Partition'
  <2>1. Owned(current_process) = {}
    BY <1>1 DEF Owned, NoProcess
  <2>2. /\ Building' = {} /\ Ring0Stack' = Ring0Stack
        /\ bitmap' = bitmap /\ lost' = lost
    BY DEF EnterRing3, Building, NoRun, Ring0Stack, frameVars
  <2>3. Owned(current_process)' = Building
    BY <1>3 DEF Owned, Building
  <2>4. IsPartition(bitmap, Reserved, Ring0Stack, {}, Building, lost)
    BY <2>1, PartitionSteps DEF Partition
  <2>. QED
    BY <2>2, <2>3, <2>4 DEF Partition
<1>6. Phases' /\ Walking'
  BY <1>1, <1>3 DEF EnterRing3, Phases, Walking, SettingUp, hwVars
<1>. QED
  BY <1>2, <1>4, <1>5, <1>6

\* Exit gives back exactly what the process owned and returns to a P4 that
\* is still in use.
LEMMA ExitSyscallStep == ProcInv /\ ExitSyscall => ProcInv'
<1> SUFFICES ASSUME ProcInv, ExitSyscall PROVE ProcInv'
  OBVIOUS
<1> USE DEF ProcInv
<1> DEFINE freed == Owned(current_process)
<1>1. FrameInv' /\ bitmap' = bitmap \ freed
  BY DeallocateAllCorrect DEF ExitSyscall
<1>2. FrameTypeOK'
  BY <1>1, FrameInvImplies, PTL
<1>3. freed \subseteq Frames
  BY NoFrameIsNone DEF Owned, ProcessTypeOK, Processes, FrameOrNone
<1>4. ProcessTypeOK'
  <2>1. pt' \in [Frames -> [Index -> FrameOrNone]]
    BY NothingTypes DEF ExitSyscall, ProcessTypeOK
  <2>2. cr3' \in Frames /\ exit_ctx' \in FrameOrNone /\ stale' \subseteq Frames
    BY <1>3 DEF ExitSyscall, ProcessTypeOK, FrameOrNone
  <2>. QED
    BY <1>2, <2>1, <2>2, NothingTypes DEF ExitSyscall, ProcessTypeOK
<1>5. Partition'
  <2>1. Owned(current_process)' = {}
    BY DEF ExitSyscall, Owned, NoProcess
  <2>2. Building' = Building /\ Ring0Stack' = Ring0Stack /\ lost' = lost
    BY DEF ExitSyscall, Building, Ring0Stack
  <2>3. IsPartition(bitmap \ freed, Reserved, Ring0Stack, Building, {}, lost)
    BY PartitionSteps DEF Partition
  <2>. QED
    BY <1>1, <2>1, <2>2, <2>3 DEF Partition
<1>6. Phases' /\ Walking'
  BY DEF ExitSyscall, Phases, Walking, SettingUp
<1>. QED
  BY <1>1, <1>4, <1>5, <1>6

\* Waiting for the lock and halting change nothing else.
LEMMA StopStep == ProcInv /\ (RunWhileLocked \/ Halt \/ UNCHANGED vars) => ProcInv'
<1> SUFFICES ASSUME ProcInv, RunWhileLocked \/ Halt \/ UNCHANGED vars PROVE ProcInv'
  OBVIOUS
<1> USE DEF ProcInv
<1>1. UNCHANGED <<frameVars, hwVars, ctxVars, lost, run>>
  BY DEF RunWhileLocked, Halt, vars
<1>2. FrameInv' /\ FrameTypeOK' /\ Partition'
  BY <1>1, SamePartition DEF ctxVars
<1>3. pc' = pc \/ pc' = "halted" \/ (pc = "shell" /\ pc' = "spin")
  BY DEF RunWhileLocked, Halt, vars
<1>4. ProcessTypeOK'
  BY <1>1, <1>2, <1>3 DEF ProcessTypeOK, hwVars, ctxVars
<1>5. Phases' /\ Walking'
  <2>1. pc = "halted" \/ pc # "halted"
    OBVIOUS
  <2>. QED
    BY <1>1, <1>3 DEF Phases, Walking, SettingUp, hwVars, ctxVars
<1>. QED
  BY <1>2, <1>4, <1>5

-----------------------------------------------------------------------------

\* No step of a run breaks ProcInv: one lemma per action above.
LEMMA ProcStep == ProcInv /\ [Next]_vars => ProcInv'
<1> SUFFICES ASSUME ProcInv, [Next]_vars PROVE ProcInv'
  OBVIOUS
<1>. QED
  BY ProcessInitStep, StartRunStep, MapSteps, FollowEntryStep, AddTableStep,
     MapLeafStep, LoadFailsStep, LoadSucceedsStep, EnterRing3Step,
     ExitSyscallStep, StopStep
  DEF Next

\* ProcInv holds at every instant.
LEMMA ProcInvCorrect == Spec => []ProcInv
BY ProcInit, ProcStep, PTL DEF Spec

\* ProcInv says that exit finds its way back.
LEMMA ReadyAtExit == ProcInv => ExitContextReady
<1> SUFFICES ASSUME ProcInv, pc = "ring3" PROVE
      /\ exit_ctx \in bitmap \ Owned(current_process)
      /\ rsp0 \notin Owned(current_process)
      /\ cr3 = current_process.p4_frame
  BY DEF ExitContextReady
<1>1. exit_ctx \in Reserved \cup lost /\ cr3 = current_process.p4_frame
  BY DEF ProcInv, Phases
<1>2. rsp0 \in Ring0Stack
  BY DEF ProcInv, Phases, Ring0Stack
<1>. QED
  BY <1>1, <1>2 DEF ProcInv, Partition, IsPartition

\* The state keeps its type, for every memory size, every geometry of the
\* page tables and every sequence of runs, failures and exits.
THEOREM ProcessTypeCorrect == Spec => []ProcessTypeOK
<1>1. ProcInv => ProcessTypeOK
  BY DEF ProcInv
<1>. QED
  BY <1>1, ProcInvCorrect, PTL

\* The used count of print_info() stays right while runs start, fail and
\* exit: system call 0 subtracts exactly the frames it frees.
THEOREM UsedFramesInProcess == Spec => []UsedFramesExact
<1>1. ProcInv => UsedFramesExact
  BY FrameInvImplies DEF ProcInv
<1>. QED
  BY <1>1, ProcInvCorrect, PTL

\* Every frame in use has one owner, and exit (system call 0) frees all that
\* its run allocated and nothing else, whatever the image maps and whatever
\* stale entries the walks follow.
THEOREM FrameAccountingCorrect == Spec => []FrameAccounting
<1>1. ProcInv => FrameAccounting
  BY PartitionIsAccounting DEF ProcInv
<1>. QED
  BY <1>1, ProcInvCorrect, PTL

\* Whenever ring 3 runs, exit finds a P4 to restore and a stack to run on
\* that its own frees do not take away.
THEOREM ExitContextCorrect == Spec => []ExitContextReady
BY ReadyAtExit, ProcInvCorrect, PTL

-----------------------------------------------------------------------------

(***************************************************************************)
(* Proofs about the page tables of a process, for every size of memory,    *)
(* geometry of the tables and image.  They need that memory is clean when  *)
(* the kernel starts (Dirty = {}): map_user_page() clears no table, so     *)
(* that with old data in a frame anything may be mapped.                   *)
(***************************************************************************)

\* Frames become stale at exit only, and from then on the lock of the first
\* run, which nobody releases, keeps every other one from starting.
CleanUntilExit ==
  /\ stale # {} => gdt_sel_locked /\ pc \in {"shell", "spin", "halted"}
  /\ SettingUp \/ pc = "ring3" => gdt_sel_locked

\* An entry maps a frame of the share that its table belongs to, and never
\* the P4.
EntriesStayInShare ==
  \A f \in Frames, i \in Index : pt[f][i] # NoFrame =>
    \/ f \in lost /\ pt[f][i] \in lost
    \/ f \in Building /\ pt[f][i] \in run.frames
    \/ f \in Owned(current_process) /\ pt[f][i] \in current_process.frames

\* No frame is mapped by two entries.
OneParent ==
  \A f, g \in Frames, i, j \in Index :
    pt[f][i] # NoFrame /\ pt[f][i] = pt[g][j] => f = g /\ i = j

\* The P4 of a run is none of the frames its entries map; the MMU and the
\* walk are in tables in use.
RootsAndTables ==
  /\ run.p4_idx \notin run.frames
  /\ current_process.p4_frame \notin current_process.frames
  /\ cr3 \in bitmap
  /\ pc = "walk" => run.table \in Building

\* The inductive invariant of the page tables.
TableInv ==
  ProcInv /\ CleanUntilExit /\ EntriesStayInShare /\ OneParent /\ RootsAndTables

-----------------------------------------------------------------------------

\* Memory is clean at first, and no table has an entry.
LEMMA TableInit == ASSUME Dirty = {} PROVE Init => TableInv
<1> SUFFICES ASSUME Init PROVE TableInv
  OBVIOUS
<1>1. ProcInv
  BY ProcInit
<1>2. CleanUntilExit
  BY DEF Init, CleanUntilExit, SettingUp
<1>3. \A f \in Frames, i \in Index : pt[f][i] = NoFrame
  BY DEF Init, EmptyTable
<1>4. RootsAndTables
  BY MemoryAssumption DEF Init, RootsAndTables, NoRun, NoProcess
<1>. QED
  BY <1>1, <1>2, <1>3, <1>4 DEF TableInv, EntriesStayInShare, OneParent

\* A free frame has no entry and no entry maps it.
LEMMA FreeFrameUnmapped ==
  ASSUME TableInv, NEW f \in Frames, f \notin bitmap
  PROVE  /\ \A i \in Index : pt[f][i] = NoFrame
         /\ \A g \in Frames, i \in Index : pt[g][i] # f
<1>1. lost \cup Building \cup Owned(current_process) \subseteq bitmap
  BY DEF TableInv, ProcInv, Partition, IsPartition
<1>2. /\ run.frames \subseteq Building
      /\ current_process.frames \subseteq Owned(current_process)
  BY NoFrameIsNone
  DEF TableInv, ProcInv, ProcessTypeOK, Runs, Processes, Building, Owned
<1>3. f # NoFrame
  BY NoFrameIsNone
<1>. QED
  BY <1>1, <1>2, <1>3 DEF TableInv, EntriesStayInShare

\* Steps that leave the tables and the frames of the run and of the process
\* alone.
LEMMA SameTables ==
  ASSUME TableInv, ProcInv', UNCHANGED <<pt, lost, current_process>>,
         run'.frames = run.frames, run'.p4_idx = run.p4_idx,
         CleanUntilExit', cr3' \in bitmap', pc' = "walk" => run'.table \in Building
  PROVE  TableInv'
<1>1. /\ Building' = Building
      /\ Owned(current_process)' = Owned(current_process)
  BY DEF Building, Owned
<1>2. EntriesStayInShare' /\ OneParent'
  BY <1>1 DEF TableInv, EntriesStayInShare, OneParent
<1>3. RootsAndTables'
  BY <1>1 DEF TableInv, RootsAndTables
<1>. QED
  BY <1>2, <1>3 DEF TableInv

\* process::init().
LEMMA TablesProcessInit == TableInv /\ ProcessInit => TableInv'
<1> SUFFICES ASSUME TableInv, ProcessInit PROVE TableInv'
  OBVIOUS
<1>1. ProcInv'
  BY ProcessInitStep DEF TableInv
<1>2. bitmap \subseteq bitmap'
  BY DEF ProcessInit, Allocate
<1>3. CleanUntilExit'
  BY DEF TableInv, CleanUntilExit, ProcessInit, SettingUp, hwVars
<1>. QED
  BY <1>1, <1>2, <1>3, SameTables DEF TableInv, RootsAndTables, ProcessInit, hwVars

\* The P4 of a new run was free, so that clearing it changes nothing.
LEMMA TablesStartRun ==
  ASSUME TableInv, NEW kind \in {"elf", "demo"}, StartRun(kind)
  PROVE  TableInv'
<1>1. ProcInv'
  BY StartRunStep DEF TableInv
<1>2. PICK f \in Frames :
        /\ Allocate(f)
        /\ cr3' = f
        /\ pt' = [pt EXCEPT ![f] = EmptyTable]
        /\ stale' = stale \ {f}
        /\ run' = [NoRun EXCEPT !.kind = kind, !.p4_idx = f, !.kernel_p4_phys = cr3]
  BY DEF StartRun
<1>3. f \notin bitmap /\ bitmap' = bitmap \cup {f}
  BY <1>2 DEF Allocate, FirstFree, Free
<1>4. pt \in [Frames -> [Index -> FrameOrNone]] /\ run = NoRun
  BY DEF TableInv, ProcInv, ProcessTypeOK, Phases, StartRun
<1>5. pt' = pt
  <2>1. pt[f] \in [Index -> FrameOrNone] /\ \A i \in Index : pt[f][i] = NoFrame
    BY <1>3, <1>4, FreeFrameUnmapped
  <2>2. pt[f] = EmptyTable
    BY <2>1 DEF EmptyTable
  <2>. QED
    BY <1>2, <1>4, <2>2
<1>6. run'.p4_idx = f /\ run'.frames = {} /\ run.frames = {}
  BY <1>2, <1>4, NothingTypes DEF Runs, NoRun
<1>7. Building = {} /\ UNCHANGED <<lost, current_process>>
  BY <1>4 DEF Building, NoRun, StartRun
<1>8. EntriesStayInShare' /\ OneParent'
  <2>1. Owned(current_process)' = Owned(current_process)
    BY <1>7 DEF Owned
  <2>. QED
    BY <1>5, <1>6, <1>7, <2>1 DEF TableInv, EntriesStayInShare, OneParent
<1>9. CleanUntilExit'
  BY <1>2 DEF TableInv, CleanUntilExit, StartRun, SettingUp
<1>10. RootsAndTables'
  BY <1>2, <1>3, <1>6, <1>7 DEF TableInv, RootsAndTables, StartRun
<1>. QED
  BY <1>1, <1>8, <1>9, <1>10 DEF TableInv

\* A walk begins at the P4 of the run.
LEMMA TablesMap ==
  TableInv /\ (MapImagePage \/ MapDemoPage \/ MapStackPage) => TableInv'
<1> SUFFICES ASSUME TableInv, MapImagePage \/ MapDemoPage \/ MapStackPage
             PROVE  TableInv'
  OBVIOUS
<1>1. ProcInv'
  BY MapSteps DEF TableInv
<1>2. PICK v, then : Map(v, then)
  BY DEF MapImagePage, MapDemoPage, MapStackPage
<1>3. pc \in {"load", "stack"} /\ run \in Runs
  BY DEF MapImagePage, MapDemoPage, MapStackPage, TableInv, ProcInv, ProcessTypeOK
<1>4. /\ run'.frames = run.frames /\ run'.p4_idx = run.p4_idx
      /\ run'.table = cr3
  BY <1>2, <1>3 DEF Map, Runs
<1>5. cr3 \in Building
  BY <1>3, NoFrameIsNone
  DEF TableInv, ProcInv, Phases, SettingUp, ProcessTypeOK, Building
<1>6. CleanUntilExit'
  BY <1>2, <1>3 DEF TableInv, CleanUntilExit, SettingUp, Map, hwVars, ctxVars
<1>. QED
  BY <1>1, <1>2, <1>4, <1>5, <1>6, SameTables
  DEF TableInv, RootsAndTables, Map, hwVars, ctxVars, frameVars

\* While a page is mapped, the entry the walk looks at is in a table of the
\* run, and what it maps is the run's.
LEMMA WalkInRun ==
  ASSUME TableInv, pc = "walk"
  PROVE  /\ run \in Runs /\ pt \in [Frames -> [Index -> FrameOrNone]]
         /\ run.table \in Frames /\ run.table \in Building /\ Slot \in Index
         /\ Building \subseteq Frames /\ Building \subseteq bitmap
         /\ Building \cap lost = {} /\ Building \cap Owned(current_process) = {}
         /\ stale = {}
         /\ pt[run.table][Slot] # NoFrame => pt[run.table][Slot] \in run.frames
<1>1. run \in Runs /\ pt \in [Frames -> [Index -> FrameOrNone]]
  BY DEF TableInv, ProcInv, ProcessTypeOK
<1>2. Building \subseteq Frames
  BY <1>1, NoFrameIsNone DEF Building, Runs, FrameOrNone
<1>3. run.table \in Building
  BY DEF TableInv, RootsAndTables
<1>4. Slot \in Index
  BY <1>1, PagesAssumption DEF Slot, Runs
<1>5. /\ Building \subseteq bitmap
      /\ Building \cap lost = {} /\ Building \cap Owned(current_process) = {}
  BY DEF TableInv, ProcInv, Partition, IsPartition
<1>6. stale = {}
  BY DEF TableInv, CleanUntilExit
<1>7. pt[run.table][Slot] # NoFrame => pt[run.table][Slot] \in run.frames
  BY <1>2, <1>3, <1>4, <1>5 DEF TableInv, EntriesStayInShare
<1>. QED
  BY <1>1, <1>2, <1>3, <1>4, <1>5, <1>6, <1>7

\* Without stale frames the walk follows only entries that are there.
LEMMA TablesFollowEntry == TableInv /\ FollowEntry => TableInv'
<1> SUFFICES ASSUME TableInv, FollowEntry PROVE TableInv'
  OBVIOUS
<1>1. ProcInv'
  BY FollowEntryStep DEF TableInv
<1> DEFINE f == pt[run.table][Slot]
<1>2. f # NoFrame /\ Descend(f, {}) /\ UNCHANGED pt
  BY WalkInRun DEF FollowEntry
<1>3. f \in run.frames /\ run \in Runs
  BY <1>2, WalkInRun DEF FollowEntry
<1>4. run'.frames = run.frames /\ run'.p4_idx = run.p4_idx /\ run'.table = f
  BY <1>2, <1>3 DEF Descend, Runs
<1>5. f \in Building
  BY <1>2, <1>3 DEF Building
<1>6. CleanUntilExit'
  BY DEF TableInv, CleanUntilExit, FollowEntry, SettingUp, ctxVars
<1>. QED
  BY <1>1, <1>2, <1>4, <1>5, <1>6, SameTables
  DEF TableInv, RootsAndTables, FollowEntry, frameVars, ctxVars

\* An entry of the run's tables gets a frame that was free.
LEMMA NewEntry ==
  ASSUME TableInv, ProcInv', pc = "walk", NEW f \in Frames,
         Allocate(f), SetEntry(f),
         run'.frames = run.frames \cup {f}, run'.p4_idx = run.p4_idx,
         UNCHANGED <<stale, cr3, ctxVars, lost>>,
         pc' \in {"walk", "load", "stack"}, pc' = "walk" => run'.table = f
  PROVE  TableInv'
<1> USE WalkInRun
<1>1. f \notin bitmap /\ bitmap' = bitmap \cup {f} /\ f # NoFrame
  BY NoFrameIsNone DEF Allocate, FirstFree, Free
<1>2. \A g \in Frames, i \in Index :
        /\ pt[g][i] # f
        /\ pt'[g][i] = IF g = run.table /\ i = Slot THEN f ELSE pt[g][i]
  BY <1>1, FreeFrameUnmapped DEF SetEntry
<1>3. /\ Building' = Building \cup {f}
      /\ Owned(current_process)' = Owned(current_process)
  BY <1>1 DEF Building, Owned, ctxVars
<1>4. EntriesStayInShare'
  BY <1>2, <1>3 DEF TableInv, EntriesStayInShare, ctxVars
<1>5. OneParent'
  <2> SUFFICES ASSUME NEW g \in Frames, NEW h \in Frames, NEW i \in Index, NEW j \in Index,
                      pt'[g][i] # NoFrame, pt'[g][i] = pt'[h][j]
               PROVE  g = h /\ i = j
    BY DEF OneParent
  <2>1. CASE pt'[g][i] = f
    <3>1. g = run.table /\ i = Slot
      BY <1>2, <2>1
    <3>2. pt'[h][j] = f /\ pt[h][j] # f
      BY <1>2, <2>1
    <3>3. h = run.table /\ j = Slot
      BY <1>2, <3>2
    <3>. QED
      BY <3>1, <3>3
  <2>2. CASE pt'[g][i] # f
    <3>1. pt[g][i] # NoFrame /\ pt[g][i] = pt[h][j]
      BY <1>2, <2>2
    <3>. QED
      BY <3>1 DEF TableInv, OneParent
  <2>. QED
    BY <2>1, <2>2
<1>6. RootsAndTables'
  <2>1. run.p4_idx \in Building
    BY NoFrameIsNone
    DEF TableInv, ProcInv, Phases, SettingUp, ProcessTypeOK, Building
  <2>2. run'.p4_idx \notin run'.frames
    BY <1>1, <2>1 DEF TableInv, RootsAndTables
  <2>. QED
    BY <1>1, <1>3, <2>2 DEF TableInv, RootsAndTables, ctxVars
<1>7. CleanUntilExit'
  BY DEF TableInv, CleanUntilExit, SettingUp, ctxVars
<1>. QED
  BY <1>4, <1>5, <1>6, <1>7 DEF TableInv

\* A new page table.
LEMMA TablesAddTable == TableInv /\ AddTable => TableInv'
<1> SUFFICES ASSUME TableInv, AddTable PROVE TableInv'
  OBVIOUS
<1>1. ProcInv'
  BY AddTableStep DEF TableInv
<1>2. PICK f \in Frames : Allocate(f) /\ SetEntry(f) /\ Descend(f, {f})
  BY DEF AddTable
<1>3. run \in Runs
  BY DEF TableInv, ProcInv, ProcessTypeOK
<1>4. /\ run'.frames = run.frames \cup {f} /\ run'.p4_idx = run.p4_idx
      /\ run'.table = f
  BY <1>2, <1>3 DEF Descend, Runs
<1>. QED
  BY <1>1, <1>2, <1>4, NewEntry DEF AddTable

\* A new page.
LEMMA TablesMapLeaf == TableInv /\ MapLeaf => TableInv'
<1> SUFFICES ASSUME TableInv, MapLeaf PROVE TableInv'
  OBVIOUS
<1>1. ProcInv'
  BY MapLeafStep DEF TableInv
<1>2. PICK f \in Frames :
        Allocate(f) /\ SetEntry(f) /\ run' = [run EXCEPT !.frames = @ \cup {f}]
  BY DEF MapLeaf
<1>3. run \in Runs
  BY DEF TableInv, ProcInv, ProcessTypeOK
<1>4. run'.frames = run.frames \cup {f} /\ run'.p4_idx = run.p4_idx
  BY <1>2, <1>3 DEF Runs
<1>5. pc' \in {"load", "stack"}
  BY DEF MapLeaf, TableInv, ProcInv, Walking
<1>. QED
  BY <1>1, <1>2, <1>4, <1>5, NewEntry DEF MapLeaf

\* A failed run takes its tables with it, and CR3 stays on them.
LEMMA TablesLoadFails == TableInv /\ LoadFails => TableInv'
<1> SUFFICES ASSUME TableInv, LoadFails PROVE TableInv'
  OBVIOUS
<1>1. ProcInv'
  BY LoadFailsStep DEF TableInv
<1>2. run \in Runs /\ run.p4_idx # NoFrame
  BY NoFrameIsNone
  DEF TableInv, ProcInv, ProcessTypeOK, Phases, SettingUp, LoadFails
<1>3. /\ lost' = lost \cup Building /\ run.frames \subseteq Building
      /\ Owned(current_process)' = Owned(current_process)
  BY <1>2, NoFrameIsNone DEF LoadFails, Building, Runs, Owned
<1>4. EntriesStayInShare' /\ OneParent'
  BY <1>3 DEF TableInv, EntriesStayInShare, OneParent, LoadFails, hwVars
<1>5. CleanUntilExit'
  BY DEF TableInv, CleanUntilExit, LoadFails, SettingUp, hwVars
<1>6. RootsAndTables'
  BY DEF TableInv, RootsAndTables, LoadFails, NoRun, hwVars, frameVars
<1>. QED
  BY <1>1, <1>4, <1>5, <1>6 DEF TableInv

\* The image is loaded; the tables stay.
LEMMA TablesLoadSucceeds == TableInv /\ LoadSucceeds => TableInv'
<1> SUFFICES ASSUME TableInv, LoadSucceeds PROVE TableInv'
  OBVIOUS
<1>1. ProcInv'
  BY LoadSucceedsStep DEF TableInv
<1>2. run'.frames = run.frames /\ run'.p4_idx = run.p4_idx
  BY DEF LoadSucceeds, TableInv, ProcInv, ProcessTypeOK, Runs
<1>3. CleanUntilExit'
  BY DEF TableInv, CleanUntilExit, LoadSucceeds, SettingUp, hwVars, ctxVars
<1>. QED
  BY <1>1, <1>2, <1>3, SameTables
  DEF TableInv, RootsAndTables, LoadSucceeds, hwVars, ctxVars, frameVars

\* The run's tables become the process's.
LEMMA TablesEnterRing3 == TableInv /\ EnterRing3 => TableInv'
<1> SUFFICES ASSUME TableInv, EnterRing3 PROVE TableInv'
  OBVIOUS
<1>1. ProcInv'
  BY EnterRing3Step DEF TableInv
<1>2. run \in Runs /\ current_process = NoProcess
  BY DEF TableInv, ProcInv, ProcessTypeOK, Phases, SettingUp, EnterRing3
<1>3. /\ current_process'.frames = run.frames /\ current_process'.p4_frame = run.p4_idx
      /\ Owned(current_process) = {} /\ Owned(current_process)' = Building
  BY <1>2 DEF EnterRing3, Owned, Building, NoProcess
<1>4. EntriesStayInShare' /\ OneParent'
  BY <1>3 DEF TableInv, EntriesStayInShare, OneParent, EnterRing3, hwVars
<1>5. CleanUntilExit'
  BY DEF TableInv, CleanUntilExit, EnterRing3, SettingUp, hwVars
<1>6. RootsAndTables'
  BY <1>3 DEF TableInv, RootsAndTables, EnterRing3, NoRun, hwVars, frameVars
<1>. QED
  BY <1>1, <1>4, <1>5, <1>6 DEF TableInv

\* Exit clears the entries of the frames it frees, which are the only ones
\* that map them.
LEMMA TablesExitSyscall == TableInv /\ ExitSyscall => TableInv'
<1> SUFFICES ASSUME TableInv, ExitSyscall PROVE TableInv'
  OBVIOUS
<1> DEFINE freed == Owned(current_process)
<1>1. ProcInv'
  BY ExitSyscallStep DEF TableInv
<1>2. \A f \in Frames, i \in Index :
        pt'[f][i] = IF f \in freed THEN NoFrame ELSE pt[f][i]
  BY DEF ExitSyscall, EmptyTable
<1>3. /\ UNCHANGED <<lost, run, gdt_sel_locked>>
      /\ Building' = Building /\ Owned(current_process)' = {}
  BY DEF ExitSyscall, Building, Owned, NoProcess
<1>4. EntriesStayInShare' /\ OneParent'
  BY <1>2, <1>3 DEF TableInv, EntriesStayInShare, OneParent
<1>5. CleanUntilExit'
  BY DEF TableInv, CleanUntilExit, ExitSyscall, SettingUp
<1>6. RootsAndTables'
  <2>1. cr3' \in Reserved \cup lost /\ bitmap' = bitmap \ freed
    BY DEF TableInv, ProcInv, Phases, ExitSyscall, DeallocateAll
  <2>2. cr3' \in bitmap'
    BY <2>1 DEF TableInv, ProcInv, Partition, IsPartition
  <2>. QED
    BY <1>3, <2>2, NoFrameIsNone DEF TableInv, RootsAndTables, ExitSyscall, NoProcess
<1>. QED
  BY <1>1, <1>4, <1>5, <1>6 DEF TableInv

\* Waiting for the lock and halting.
LEMMA TablesStop == TableInv /\ (RunWhileLocked \/ Halt \/ UNCHANGED vars) => TableInv'
<1> SUFFICES ASSUME TableInv, RunWhileLocked \/ Halt \/ UNCHANGED vars PROVE TableInv'
  OBVIOUS
<1>1. ProcInv'
  BY StopStep DEF TableInv
<1>2. UNCHANGED <<frameVars, hwVars, ctxVars, lost, run>>
  BY DEF RunWhileLocked, Halt, vars
<1>3. pc' = pc \/ pc' = "halted" \/ (pc = "shell" /\ pc' = "spin")
  BY DEF RunWhileLocked, Halt, vars
<1>4. CleanUntilExit'
  BY <1>2, <1>3 DEF TableInv, CleanUntilExit, SettingUp, hwVars, ctxVars
<1>. QED
  BY <1>1, <1>2, <1>3, <1>4, SameTables
  DEF TableInv, RootsAndTables, frameVars, hwVars, ctxVars

\* No step breaks the tables.
LEMMA TableStep == TableInv /\ [Next]_vars => TableInv'
<1> SUFFICES ASSUME TableInv, [Next]_vars PROVE TableInv'
  OBVIOUS
<1>. QED
  BY TablesProcessInit, TablesStartRun, TablesMap, TablesFollowEntry, TablesAddTable,
     TablesMapLeaf, TablesLoadFails, TablesLoadSucceeds, TablesEnterRing3,
     TablesExitSyscall, TablesStop
  DEF Next

\* With clean memory, TableInv holds at every instant.
LEMMA TableInvCorrect == ASSUME Dirty = {} PROVE Spec => []TableInv
BY TableInit, TableStep, PTL DEF Spec

-----------------------------------------------------------------------------

\* What the entries of frames in use map is in use.
LEMMA EntriesInUse ==
  ASSUME TableInv, NEW S \in SUBSET bitmap
  PROVE  EntriesOf(S) \in SUBSET bitmap
<1>1. lost \cup Building \cup Owned(current_process) \subseteq bitmap
  BY DEF TableInv, ProcInv, Partition, IsPartition
<1>2. /\ run.frames \subseteq Building
      /\ current_process.frames \subseteq Owned(current_process)
  BY NoFrameIsNone
  DEF TableInv, ProcInv, ProcessTypeOK, Runs, Processes, Building, Owned
<1>3. S \subseteq Frames
  BY DEF TableInv, ProcInv, ProcessTypeOK, FrameTypeOK
<1>. QED
  BY <1>1, <1>2, <1>3 DEF TableInv, EntriesStayInShare, EntriesOf

\* What the entries of a process's frames map are its frames, not its P4.
LEMMA EntriesOwned ==
  ASSUME TableInv, NEW S \in SUBSET Owned(current_process)
  PROVE  /\ EntriesOf(S) \in SUBSET Owned(current_process)
         /\ EntriesOf(S) \subseteq current_process.frames
<1>1. /\ Owned(current_process) \cap lost = {}
      /\ Owned(current_process) \cap Building = {}
  BY DEF TableInv, ProcInv, Partition, IsPartition
<1>2. /\ current_process.frames \subseteq Owned(current_process)
      /\ Owned(current_process) \subseteq Frames
  BY NoFrameIsNone
  DEF TableInv, ProcInv, ProcessTypeOK, Processes, Owned, FrameOrNone
<1>. QED
  BY <1>1, <1>2 DEF TableInv, EntriesStayInShare, EntriesOf

\* All that the MMU can reach is in use.
LEMMA LiveTables == TableInv => LiveTablesAllocated
<1> SUFFICES ASSUME TableInv PROVE LiveTablesAllocated
  OBVIOUS
<1>1. {cr3} \in SUBSET bitmap
  BY DEF TableInv, RootsAndTables
<1>2. P3s(cr3) \in SUBSET bitmap
  BY <1>1, EntriesInUse DEF P3s
<1>3. P2s(cr3) \in SUBSET bitmap
  BY <1>2, EntriesInUse DEF P2s
<1>4. P1s(cr3) \in SUBSET bitmap
  BY <1>3, EntriesInUse DEF P1s
<1>5. EntriesOf(P1s(cr3)) \in SUBSET bitmap
  BY <1>4, EntriesInUse
<1>6. Reachable(cr3) \subseteq bitmap
  BY <1>1, <1>2, <1>3, <1>4, <1>5 DEF Reachable, Tables
<1>7. Ring0Stack \subseteq bitmap
  BY DEF TableInv, ProcInv, Partition, IsPartition
<1>8. pc \notin {"boot", "halted"} => Ring0Stack # {}
  BY DEF TableInv, ProcInv, Phases, Ring0Stack
<1>. QED
  BY <1>6, <1>7, <1>8 DEF LiveTablesAllocated

\* The P4 of a running process, and the levels below it, are its own.
LEMMA TablesOwned ==
  ASSUME TableInv, pc = "ring3"
  PROVE  LET p4 == current_process.p4_frame
             own == Owned(current_process)
         IN /\ p4 \in own /\ P3s(p4) \in SUBSET own /\ P2s(p4) \in SUBSET own
            /\ P1s(p4) \in SUBSET own /\ EntriesOf(P1s(p4)) \in SUBSET own
<1> DEFINE p4 == current_process.p4_frame
           own == Owned(current_process)
<1>1. cr3 = p4 /\ cr3 \in Frames
  BY DEF TableInv, ProcInv, Phases, ProcessTypeOK
<1>2. p4 \in own
  BY <1>1, NoFrameIsNone DEF Owned
<1>3. P3s(p4) \in SUBSET own
  BY <1>2, EntriesOwned DEF P3s
<1>4. P2s(p4) \in SUBSET own
  BY <1>3, EntriesOwned DEF P2s
<1>5. P1s(p4) \in SUBSET own
  BY <1>4, EntriesOwned DEF P1s
<1>6. EntriesOf(P1s(p4)) \in SUBSET own
  BY <1>5, EntriesOwned
<1>. QED
  BY <1>2, <1>3, <1>4, <1>5, <1>6

\* The page tables that CR3 points at are frames in use at every instant:
\* while a run maps pages, after a load that failed and left its P4 in CR3,
\* and after exit has freed the frames of a process; and so is the ring-0
\* stack.  For every geometry of the tables, if memory was clean at first.
THEOREM LiveTablesCorrect == ASSUME Dirty = {} PROVE Spec => []LiveTablesAllocated
BY LiveTables, TableInvCorrect, PTL

-----------------------------------------------------------------------------

(***************************************************************************)
(* The walk from a P4 down to a page, in any page tables T: where it is at *)
(* level k, 4 being the page.                                              *)
(***************************************************************************)
Down(T, f, v, k) == IF f = NoFrame THEN NoFrame ELSE T[f][Walk[v][k]]
At1(T, p4, v) == Down(T, p4, v, 0)
At2(T, p4, v) == Down(T, At1(T, p4, v), v, 1)
At3(T, p4, v) == Down(T, At2(T, p4, v), v, 2)
At4(T, p4, v) == Down(T, At3(T, p4, v), v, 3)
At(T, p4, v, k) ==
  CASE k = 0 -> p4 [] k = 1 -> At1(T, p4, v) [] k = 2 -> At2(T, p4, v)
    [] k = 3 -> At3(T, p4, v) [] k = 4 -> At4(T, p4, v)

IsTables(T) == T \in [Frames -> [Index -> FrameOrNone]]

\* T is a tree with root p4 as far as entries lead from p4.
IsTree(T, p4) ==
  /\ IsTables(T) /\ p4 \in Frames
  /\ \A f, g \in Frames, i, j \in Index :
       T[f][i] # NoFrame /\ T[f][i] = T[g][j] => f = g /\ i = j
  /\ \A f \in Frames, i \in Index : T[f][i] # p4

\* One level of a walk.
LEMMA WalkLevel ==
  ASSUME NEW T, IsTables(T), NEW p4 \in Frames, NEW v \in Pages, NEW k \in Levels
  PROVE  /\ At(T, p4, v, k) \in FrameOrNone
         /\ At(T, p4, v, k + 1) = Down(T, At(T, p4, v, k), v, k)
         /\ At(T, p4, v, k + 1) \in FrameOrNone
         /\ At(T, p4, v, k + 1) # NoFrame =>
              /\ At(T, p4, v, k) \in Frames
              /\ At(T, p4, v, k + 1) = T[At(T, p4, v, k)][Walk[v][k]]
<1>1. \A f \in FrameOrNone, l \in Levels :
        /\ Down(T, f, v, l) \in FrameOrNone
        /\ Down(T, f, v, l) # NoFrame =>
             f \in Frames /\ Down(T, f, v, l) = T[f][Walk[v][l]]
  BY PagesAssumption DEF Down, IsTables, FrameOrNone
<1>2. 0 \in Levels /\ 1 \in Levels /\ 2 \in Levels /\ 3 \in Levels
  BY DEF Levels
<1>3. p4 \in FrameOrNone
  BY DEF FrameOrNone
<1>4. At1(T, p4, v) \in FrameOrNone
  BY <1>1, <1>2, <1>3 DEF At1
<1>5. At2(T, p4, v) \in FrameOrNone
  BY <1>1, <1>2, <1>4 DEF At2
<1>6. At3(T, p4, v) \in FrameOrNone
  BY <1>1, <1>2, <1>5 DEF At3
<1>7. k = 0 \/ k = 1 \/ k = 2 \/ k = 3
  BY DEF Levels
<1>8. /\ At(T, p4, v, k) \in FrameOrNone
      /\ At(T, p4, v, k + 1) = Down(T, At(T, p4, v, k), v, k)
  BY <1>3, <1>4, <1>5, <1>6, <1>7 DEF At, At1, At2, At3, At4
<1>. QED
  BY <1>1, <1>8

\* Walks that meet have come the same way.
LEMMA WalksMeet ==
  ASSUME NEW T, NEW p4, IsTree(T, p4), NEW v \in Pages, NEW w \in Pages,
         NEW k \in Levels, NEW m \in Levels,
         At(T, p4, v, k + 1) # NoFrame, At(T, p4, v, k + 1) = At(T, p4, w, m + 1)
  PROVE  /\ At(T, p4, v, k) = At(T, p4, w, m) /\ At(T, p4, v, k) # NoFrame
         /\ Walk[v][k] = Walk[w][m]
         /\ At(T, p4, v, k + 1) # p4
<1>1. IsTables(T) /\ p4 \in Frames
  BY DEF IsTree
<1>2. /\ At(T, p4, v, k) \in Frames
      /\ At(T, p4, v, k + 1) = T[At(T, p4, v, k)][Walk[v][k]]
  BY <1>1, WalkLevel
<1>3. /\ At(T, p4, w, m) \in Frames
      /\ At(T, p4, w, m + 1) = T[At(T, p4, w, m)][Walk[w][m]]
  BY <1>1, WalkLevel
<1>4. Walk[v][k] \in Index /\ Walk[w][m] \in Index
  BY PagesAssumption
<1>. QED
  BY <1>2, <1>3, <1>4, NoFrameIsNone DEF IsTree

\* So they are at the same level, and agree on every index before.
LEMMA WalksAgree ==
  ASSUME NEW T, NEW p4, IsTree(T, p4), NEW v \in Pages, NEW w \in Pages,
         NEW k \in 0 .. 4, NEW m \in 0 .. 4,
         At(T, p4, v, k) # NoFrame, At(T, p4, v, k) = At(T, p4, w, m)
  PROVE  /\ k = m
         /\ \A l \in Levels : l < k => Walk[v][l] = Walk[w][l]
<1> DEFINE V(l) == At(T, p4, v, l)
           W(l) == At(T, p4, w, l)
<1>1. \A l, n \in Levels :
        V(l + 1) # NoFrame /\ V(l + 1) = W(n + 1) =>
          V(l) = W(n) /\ V(l) # NoFrame /\ Walk[v][l] = Walk[w][n] /\ V(l + 1) # p4
  BY WalksMeet
<1>2. \A n \in Levels :
        W(n + 1) # NoFrame => W(n + 1) # p4
  BY WalksMeet
<1>3. V(0) = p4 /\ W(0) = p4 /\ p4 # NoFrame
  BY NoFrameIsNone DEF At, IsTree
<1>4. Levels = {0, 1, 2, 3}
  BY DEF Levels
<1> HIDE DEF V, W
<1>5. V(k) # NoFrame /\ V(k) = W(m)
  BY DEF V, W
<1>6. \A n \in Levels : V(0) # W(n + 1)
  BY <1>2, <1>3
<1>7. \A l \in Levels : V(l + 1) # NoFrame => V(l + 1) # W(0)
  <2>1. \A l \in Levels : At(T, p4, v, l + 1) # NoFrame => At(T, p4, v, l + 1) # p4
    BY WalksMeet
  <2>. QED
    BY <2>1, <1>3 DEF V
<1>8. CASE k = 0
  BY <1>5, <1>6, <1>8, <1>4
<1>9. CASE k = 1
  <2>1. m # 0
    BY <1>5, <1>7, <1>9, <1>4
  <2>2. V(0) = W(m - 1) /\ Walk[v][0] = Walk[w][m - 1]
    BY <1>1, <1>5, <1>9, <2>1, <1>4
  <2>. QED
    BY <2>1, <2>2, <1>6, <1>9, <1>4
<1>10. CASE k = 2
  <2>1. m # 0
    BY <1>5, <1>7, <1>10, <1>4
  <2>2. V(1) = W(m - 1) /\ V(1) # NoFrame /\ Walk[v][1] = Walk[w][m - 1]
    BY <1>1, <1>5, <1>10, <2>1, <1>4
  <2>3. m # 1
    BY <1>7, <2>2, <1>4
  <2>4. V(0) = W(m - 2) /\ Walk[v][0] = Walk[w][m - 2]
    BY <1>1, <2>1, <2>2, <2>3, <1>4
  <2>. QED
    BY <2>1, <2>2, <2>3, <2>4, <1>6, <1>10, <1>4
<1>11. CASE k = 3
  <2>1. m # 0
    BY <1>5, <1>7, <1>11, <1>4
  <2>2. V(2) = W(m - 1) /\ V(2) # NoFrame /\ Walk[v][2] = Walk[w][m - 1]
    BY <1>1, <1>5, <1>11, <2>1, <1>4
  <2>3. m # 1
    BY <1>7, <2>2, <1>4
  <2>4. V(1) = W(m - 2) /\ V(1) # NoFrame /\ Walk[v][1] = Walk[w][m - 2]
    BY <1>1, <2>1, <2>2, <2>3, <1>4
  <2>5. m # 2
    BY <1>7, <2>4, <1>4
  <2>6. V(0) = W(m - 3) /\ Walk[v][0] = Walk[w][m - 3]
    BY <1>1, <2>1, <2>3, <2>4, <2>5, <1>4
  <2>. QED
    BY <2>1, <2>2, <2>3, <2>4, <2>5, <2>6, <1>6, <1>11, <1>4
<1>12. CASE k = 4
  <2>1. m # 0
    BY <1>5, <1>7, <1>12, <1>4
  <2>2. V(3) = W(m - 1) /\ V(3) # NoFrame /\ Walk[v][3] = Walk[w][m - 1]
    BY <1>1, <1>5, <1>12, <2>1, <1>4
  <2>3. m # 1
    BY <1>7, <2>2, <1>4
  <2>4. V(2) = W(m - 2) /\ V(2) # NoFrame /\ Walk[v][2] = Walk[w][m - 2]
    BY <1>1, <2>1, <2>2, <2>3, <1>4
  <2>5. m # 2
    BY <1>7, <2>4, <1>4
  <2>6. V(1) = W(m - 3) /\ V(1) # NoFrame /\ Walk[v][1] = Walk[w][m - 3]
    BY <1>1, <2>1, <2>3, <2>4, <2>5, <1>4
  <2>7. m # 3
    BY <1>7, <2>6, <1>4
  <2>8. V(0) = W(m - 4) /\ Walk[v][0] = Walk[w][m - 4]
    BY <1>1, <2>1, <2>3, <2>5, <2>6, <2>7, <1>4
  <2>. QED
    BY <2>1, <2>2, <2>3, <2>4, <2>5, <2>6, <2>7, <2>8, <1>4, <1>12
<1>. QED
  BY <1>8, <1>9, <1>10, <1>11, <1>12

\* Different pages are mapped to different frames.
LEMMA PagesDiffer ==
  ASSUME NEW T, NEW p4, IsTree(T, p4), NEW v \in Pages, NEW w \in Pages, v # w,
         At(T, p4, v, 4) # NoFrame
  PROVE  At(T, p4, v, 4) # At(T, p4, w, 4)
<1> SUFFICES ASSUME At(T, p4, v, 4) = At(T, p4, w, 4) PROVE FALSE
  OBVIOUS
<1>1. \A l \in Levels : Walk[v][l] = Walk[w][l]
  BY WalksAgree DEF Levels
<1>2. Walk[v] = Walk[w]
  BY <1>1, PagesAssumption
<1>. QED
  BY <1>2, PagesAssumption

\* Writing an entry that was absent leaves what the walks found.
LEMMA PathsKept ==
  ASSUME NEW T, NEW U, IsTables(T), IsTables(U), NEW p4 \in Frames, NEW v \in Pages,
         \A f \in Frames, i \in Index : T[f][i] # NoFrame => U[f][i] = T[f][i],
         NEW k \in 0 .. 4, At(T, p4, v, k) # NoFrame
  PROVE  At(U, p4, v, k) = At(T, p4, v, k)
<1>1. \A l \in Levels :
        At(T, p4, v, l + 1) # NoFrame =>
          /\ At(T, p4, v, l) # NoFrame
          /\ At(U, p4, v, l) = At(T, p4, v, l) =>
               At(U, p4, v, l + 1) = At(T, p4, v, l + 1)
  <2> SUFFICES ASSUME NEW l \in Levels, At(T, p4, v, l + 1) # NoFrame
               PROVE  /\ At(T, p4, v, l) # NoFrame
                      /\ At(U, p4, v, l) = At(T, p4, v, l) =>
                           At(U, p4, v, l + 1) = At(T, p4, v, l + 1)
    OBVIOUS
  <2>1. /\ At(T, p4, v, l) \in Frames
        /\ At(T, p4, v, l + 1) = T[At(T, p4, v, l)][Walk[v][l]]
    BY WalkLevel
  <2>2. At(U, p4, v, l + 1) = Down(U, At(U, p4, v, l), v, l)
    BY WalkLevel
  <2>3. Walk[v][l] \in Index
    BY PagesAssumption
  <2>. QED
    BY <2>1, <2>2, <2>3, NoFrameIsNone DEF Down
<1>2. At(U, p4, v, 0) = p4 /\ At(T, p4, v, 0) = p4
  BY DEF At
<1>3. Levels = {0, 1, 2, 3} /\ k \in {0, 1, 2, 3, 4}
  BY DEF Levels
<1> DEFINE X(l) == At(T, p4, v, l)
           Y(l) == At(U, p4, v, l)
<1> HIDE DEF X, Y
<1>4. \A l \in {0, 1, 2, 3} :
        X(l + 1) # NoFrame => X(l) # NoFrame /\ (Y(l) = X(l) => Y(l + 1) = X(l + 1))
  BY <1>1, <1>3 DEF X, Y
<1>5. X(1) # NoFrame => Y(1) = X(1)
  BY <1>2, <1>4 DEF X, Y
<1>6. X(2) # NoFrame => Y(2) = X(2)
  BY <1>4, <1>5
<1>7. X(3) # NoFrame => Y(3) = X(3)
  BY <1>4, <1>6
<1>8. X(4) # NoFrame => Y(4) = X(4)
  BY <1>4, <1>7
<1>. QED
  BY <1>2, <1>3, <1>5, <1>6, <1>7, <1>8 DEF X, Y

\* Mapping page u changes the walk to no other page, and u is mapped after it.
LEMMA LeafPaths ==
  ASSUME NEW T, NEW U, NEW p4, IsTree(T, p4), IsTables(U), NEW u \in Pages,
         NEW f \in Frames,
         At(T, p4, u, 3) # NoFrame,
         \A g \in Frames, i \in Index :
           U[g][i] = IF g = At(T, p4, u, 3) /\ i = Walk[u][3] THEN f ELSE T[g][i],
         NEW v \in Pages, v = u \/ At(T, p4, v, 4) # NoFrame
  PROVE  At(U, p4, v, 4) # NoFrame
<1>1. IsTables(T) /\ p4 \in Frames
  BY DEF IsTree
<1>2. At(T, p4, v, 3) # NoFrame
  <2>1. 3 \in Levels /\ 3 + 1 = 4
    BY DEF Levels
  <2>. QED
    BY <1>1, <2>1, WalkLevel, NoFrameIsNone
<1>3. ASSUME NEW k \in Levels, k < 3, At(T, p4, v, k + 1) # NoFrame,
             At(U, p4, v, k) = At(T, p4, v, k)
      PROVE  At(U, p4, v, k + 1) = At(T, p4, v, k + 1)
  <2>1. /\ At(T, p4, v, k) \in Frames
        /\ At(T, p4, v, k + 1) = T[At(T, p4, v, k)][Walk[v][k]]
    BY <1>1, <1>3, WalkLevel
  <2>2. At(U, p4, v, k + 1) = Down(U, At(U, p4, v, k), v, k)
    BY <1>1, WalkLevel
  <2>3. At(T, p4, v, k) # At(T, p4, u, 3)
    <3>1. k \in 0 .. 4 /\ 3 \in 0 .. 4 /\ k # 3
      BY <1>3 DEF Levels
    <3>. QED
      BY <2>1, <3>1, NoFrameIsNone, WalksAgree
  <2>4. Walk[v][k] \in Index
    BY PagesAssumption
  <2>. QED
    BY <1>3, <2>1, <2>2, <2>3, <2>4, NoFrameIsNone DEF Down
<1>4. At(U, p4, v, 3) = At(T, p4, v, 3)
  <2>1. 0 \in Levels /\ 1 \in Levels /\ 2 \in Levels /\ 0 + 1 = 1 /\ 1 + 1 = 2 /\ 2 + 1 = 3
    BY DEF Levels
  <2>2. At(T, p4, v, 2) # NoFrame
    BY <1>1, <1>2, <2>1, WalkLevel, NoFrameIsNone
  <2>3. At(T, p4, v, 1) # NoFrame
    BY <1>1, <2>1, <2>2, WalkLevel, NoFrameIsNone
  <2>4. At(U, p4, v, 0) = At(T, p4, v, 0)
    BY DEF At
  <2>5. At(U, p4, v, 1) = At(T, p4, v, 1)
    BY <1>3, <2>1, <2>3, <2>4
  <2>6. At(U, p4, v, 2) = At(T, p4, v, 2)
    BY <1>3, <2>1, <2>2, <2>5
  <2>. QED
    BY <1>2, <1>3, <2>1, <2>6
<1>5. At(T, p4, v, 3) \in Frames /\ Walk[v][3] \in Index
  <2>1. 3 \in Levels
    BY DEF Levels
  <2>. QED
    BY <1>1, <1>2, <2>1, WalkLevel, PagesAssumption DEF FrameOrNone
<1>6. At(U, p4, v, 4) = U[At(T, p4, v, 3)][Walk[v][3]]
  <2>1. 3 \in Levels /\ 3 + 1 = 4
    BY DEF Levels
  <2>. QED
    BY <1>1, <1>4, <1>5, <2>1, WalkLevel, NoFrameIsNone DEF Down
<1>7. CASE v = u
  BY <1>5, <1>6, <1>7, NoFrameIsNone
<1>8. CASE At(T, p4, v, 4) # NoFrame
  <2>1. At(T, p4, v, 4) = T[At(T, p4, v, 3)][Walk[v][3]]
    <3>1. 3 \in Levels /\ 3 + 1 = 4
      BY DEF Levels
    <3>. QED
      BY <1>1, <1>8, <3>1, WalkLevel
  <2>. QED
    BY <1>5, <1>6, <1>8, <2>1, NoFrameIsNone
<1>. QED
  BY <1>7, <1>8

-----------------------------------------------------------------------------

\* The walk is where its page's indices lead, and the pages of the stack that
\* were mapped before are mapped.
StackPaths ==
  /\ pc = "walk" => run.table = At(pt, cr3, run.vaddr, run.level)
  /\ pc = "stack" => \A i \in 1 .. run.mapped : At(pt, cr3, StackPages[i], 4) # NoFrame
  /\ pc = "walk" /\ run.then = "stack" =>
       /\ run.mapped \in 1 .. Len(StackPages)
       /\ run.vaddr = StackPages[run.mapped]
       /\ \A i \in 1 .. run.mapped - 1 : At(pt, cr3, StackPages[i], 4) # NoFrame
  /\ pc = "ring3" =>
       \A i \in 1 .. Len(StackPages) : At(pt, cr3, StackPages[i], 4) # NoFrame

\* In the page tables of a run or process no entry maps the P4.
LEMMA RunTree ==
  ASSUME TableInv, SettingUp \/ pc = "ring3"
  PROVE  IsTree(pt, cr3)
<1>1. IsTables(pt) /\ cr3 \in Frames
  BY DEF TableInv, ProcInv, ProcessTypeOK, IsTables
<1>2. ASSUME NEW f \in Frames, NEW i \in Index, pt[f][i] = cr3
      PROVE  FALSE
  <2>1. pt[f][i] # NoFrame
    BY <1>1, <1>2, NoFrameIsNone
  <2>2. /\ lost \cap Building = {} /\ lost \cap Owned(current_process) = {}
        /\ Building \cap Owned(current_process) = {}
    BY DEF TableInv, ProcInv, Partition, IsPartition
  <2>3. /\ run.frames \subseteq Building
        /\ current_process.frames \subseteq Owned(current_process)
    BY NoFrameIsNone
    DEF TableInv, ProcInv, ProcessTypeOK, Runs, Processes, Building, Owned
  <2>4. CASE SettingUp
    <3>1. cr3 = run.p4_idx /\ cr3 \in Building
      BY <1>1, <2>4, NoFrameIsNone DEF TableInv, ProcInv, Phases, Building
    <3>. QED
      BY <1>2, <2>1, <2>2, <2>3, <3>1 DEF TableInv, EntriesStayInShare, RootsAndTables
  <2>5. CASE pc = "ring3"
    <3>1. cr3 = current_process.p4_frame /\ cr3 \in Owned(current_process)
      BY <1>1, <2>5, NoFrameIsNone DEF TableInv, ProcInv, Phases, Owned
    <3>. QED
      BY <1>2, <2>1, <2>2, <2>3, <3>1 DEF TableInv, EntriesStayInShare, RootsAndTables
  <2>. QED
    BY <2>4, <2>5
<1>. QED
  BY <1>1, <1>2 DEF IsTree, TableInv, OneParent

\* The pages of the stack are pages.
LEMMA StackPagesTypes ==
  /\ Len(StackPages) \in Nat
  /\ \A i \in 1 .. Len(StackPages) : StackPages[i] \in Pages
BY PagesAssumption

\* A walk begins at its P4.
LEMMA StackMap ==
  TableInv /\ StackPaths /\ (MapImagePage \/ MapDemoPage \/ MapStackPage) => StackPaths'
<1> SUFFICES ASSUME TableInv, StackPaths, MapImagePage \/ MapDemoPage \/ MapStackPage
             PROVE  StackPaths'
  OBVIOUS
<1>1. run \in Runs /\ run.mapped \in Nat
  BY DEF TableInv, ProcInv, ProcessTypeOK, Runs
<1>2. PICK v, then : Map(v, then)
  BY DEF MapImagePage, MapDemoPage, MapStackPage
<1>3. run'.table = cr3 /\ run'.level = 0 /\ UNCHANGED <<pt, cr3>> /\ pc' = "walk"
  BY <1>1, <1>2 DEF Map, Runs, hwVars
<1>4. run'.table = At(pt', cr3', run'.vaddr, run'.level)
  BY <1>3 DEF At
<1>5. CASE MapStackPage
  <2>1. /\ run'.vaddr = StackPages[run.mapped + 1] /\ run'.mapped = run.mapped + 1
        /\ pc = "stack"
    BY <1>1, <1>5 DEF MapStackPage, Map, Runs
  <2>2. run.mapped + 1 \in 1 .. Len(StackPages)
    BY <1>1, <1>5, StackPagesTypes
    DEF MapStackPage, StackMapped, TableInv, ProcInv, Walking
  <2>3. \A i \in 1 .. run'.mapped - 1 : At(pt', cr3', StackPages[i], 4) # NoFrame
    BY <1>1, <1>3, <2>1 DEF StackPaths
  <2>. QED
    BY <1>3, <1>4, <2>1, <2>2, <2>3 DEF StackPaths
<1>6. CASE MapImagePage \/ MapDemoPage
  <2>1. run'.then = "load"
    BY <1>1, <1>6 DEF MapImagePage, MapDemoPage, Map, Runs
  <2>. QED
    BY <1>3, <1>4, <2>1 DEF StackPaths
<1>. QED
  BY <1>5, <1>6

\* What holds of a walk.
LEMMA WalkAt ==
  ASSUME TableInv, StackPaths, pc = "walk"
  PROVE  /\ run.level \in Levels /\ run.vaddr \in Pages /\ IsTree(pt, cr3)
         /\ run.table = At(pt, cr3, run.vaddr, run.level)
         /\ run.table \in Frames /\ Slot = Walk[run.vaddr][run.level]
         /\ run.mapped \in Nat /\ Slot \in Index /\ run.then # "ring3"
BY RunTree, WalkInRun
DEF TableInv, ProcInv, ProcessTypeOK, Runs, SettingUp, StackPaths, Slot

\* Going down one level, over an entry that is there or a new one.
LEMMA StackDescend ==
  ASSUME TableInv, StackPaths, pc = "walk", run.level < 3, NEW f \in Frames, NEW taken,
         Descend(f, taken), IsTables(pt'), pt'[run.table][Slot] = f,
         \A g \in Frames, i \in Index : pt[g][i] # NoFrame => pt'[g][i] = pt[g][i],
         UNCHANGED <<cr3, pc>>
  PROVE  StackPaths'
<1> USE WalkAt
<1>1. /\ run'.table = f /\ run'.level = run.level + 1 /\ run'.vaddr = run.vaddr
      /\ run'.mapped = run.mapped /\ run'.then = run.then
  BY DEF Descend, TableInv, ProcInv, ProcessTypeOK, Runs
<1>2. IsTables(pt) /\ cr3 \in Frames
  BY DEF IsTree
<1>3. run'.table = At(pt', cr3, run'.vaddr, run'.level)
  <2>1. At(pt', cr3, run.vaddr, run.level) = run.table
    <3>1. run.level \in 0 .. 4
      BY DEF Levels
    <3>. QED
      BY <1>2, <3>1, PathsKept, NoFrameIsNone
  <2>2. At(pt', cr3, run.vaddr, run.level + 1)
          = Down(pt', At(pt', cr3, run.vaddr, run.level), run.vaddr, run.level)
    BY <1>2, WalkLevel
  <2>. QED
    BY <1>1, <2>1, <2>2, NoFrameIsNone DEF Down
<1>4. ASSUME run.then = "stack", NEW i \in 1 .. run.mapped - 1
      PROVE  At(pt', cr3, StackPages[i], 4) # NoFrame
  <2>1. /\ run.mapped \in 1 .. Len(StackPages)
        /\ At(pt, cr3, StackPages[i], 4) # NoFrame
    BY <1>4 DEF StackPaths
  <2>2. i \in 1 .. Len(StackPages) /\ 4 \in 0 .. 4
    BY <2>1, StackPagesTypes
  <2>. QED
    BY <1>2, <2>1, <2>2, StackPagesTypes, PathsKept
<1>. QED
  BY <1>1, <1>3, <1>4 DEF StackPaths

\* Following an entry, and adding a table.
LEMMA StackWalk ==
  TableInv /\ StackPaths /\ (FollowEntry \/ AddTable) => StackPaths'
<1> SUFFICES ASSUME TableInv, StackPaths, FollowEntry \/ AddTable PROVE StackPaths'
  OBVIOUS
<1>0. pc = "walk" /\ run.level < 3 /\ UNCHANGED <<cr3, pc>>
  BY DEF FollowEntry, AddTable
<1>1. pt \in [Frames -> [Index -> FrameOrNone]]
  BY DEF TableInv, ProcInv, ProcessTypeOK
<1>2. CASE FollowEntry
  <2> DEFINE f == pt[run.table][Slot]
  <2>1. f # NoFrame /\ Descend(f, {}) /\ UNCHANGED pt
    BY <1>0, <1>2, WalkInRun DEF FollowEntry
  <2>2. f \in Frames
    BY <1>0, <1>1, <2>1, WalkInRun DEF FrameOrNone
  <2>. QED
    BY <1>0, <1>1, <2>1, <2>2, StackDescend DEF IsTables
<1>3. CASE AddTable
  <2>1. PICK f \in Frames : Allocate(f) /\ SetEntry(f) /\ Descend(f, {f})
    BY <1>3 DEF AddTable
  <2>2. IsTables(pt')
    BY <2>1, SetEntryType DEF TableInv, ProcInv, IsTables
  <2>3. pt'[run.table][Slot] = f
    BY <1>0, <1>1, <2>1, WalkInRun DEF SetEntry
  <2>4. \A g \in Frames, i \in Index : pt[g][i] # NoFrame => pt'[g][i] = pt[g][i]
    BY <1>1, <1>3, <2>1 DEF SetEntry, AddTable
  <2>. QED
    BY <1>0, <2>1, <2>2, <2>3, <2>4, StackDescend
<1>. QED
  BY <1>2, <1>3

\* Mapping a page of the stack adds it, and no page of the stack is lost to
\* a page mapped later.
LEMMA StackLeaf == TableInv /\ StackPaths /\ MapLeaf => StackPaths'
<1> SUFFICES ASSUME TableInv, StackPaths, MapLeaf PROVE StackPaths'
  OBVIOUS
<1>1. PICK f \in Frames :
        SetEntry(f) /\ run' = [run EXCEPT !.frames = @ \cup {f}]
  BY DEF MapLeaf
<1>2. pc = "walk" /\ run.level = 3 /\ UNCHANGED cr3 /\ pc' = run.then
  BY DEF MapLeaf
<1>3. run'.mapped = run.mapped
  BY <1>1 DEF TableInv, ProcInv, ProcessTypeOK, Runs
<1>4. IsTables(pt') /\ pt \in [Frames -> [Index -> FrameOrNone]]
  BY <1>1, SetEntryType DEF TableInv, ProcInv, ProcessTypeOK, IsTables
<1>5. pc' \in {"load", "stack"}
  BY <1>2 DEF TableInv, ProcInv, Walking
<1>6. ASSUME pc' = "stack", NEW i \in 1 .. run.mapped
      PROVE  At(pt', cr3, StackPages[i], 4) # NoFrame
  <2>1. /\ run.vaddr \in Pages /\ IsTree(pt, cr3)
        /\ run.table = At(pt, cr3, run.vaddr, 3) /\ run.table \in Frames
        /\ Slot = Walk[run.vaddr][3]
    BY <1>2, WalkAt
  <2>2. /\ run.mapped \in 1 .. Len(StackPages) /\ run.vaddr = StackPages[run.mapped]
        /\ \A j \in 1 .. run.mapped - 1 : At(pt, cr3, StackPages[j], 4) # NoFrame
    BY <1>2, <1>6 DEF StackPaths
  <2>3. StackPages[i] \in Pages
    BY <2>2, StackPagesTypes
  <2>4. StackPages[i] = run.vaddr \/ At(pt, cr3, StackPages[i], 4) # NoFrame
    BY <2>2
  <2>5. \A g \in Frames, j \in Index :
          pt'[g][j] = IF g = At(pt, cr3, run.vaddr, 3) /\ j = Walk[run.vaddr][3]
                      THEN f ELSE pt[g][j]
    BY <1>1, <1>4, <2>1 DEF SetEntry
  <2>. QED
    BY <1>4, <2>1, <2>3, <2>4, <2>5, LeafPaths, NoFrameIsNone
<1>. QED
  BY <1>2, <1>3, <1>5, <1>6 DEF StackPaths

\* The other steps map nothing.
LEMMA StackOthers ==
  ASSUME TableInv, StackPaths,
         \/ ProcessInit \/ StartRun("elf") \/ StartRun("demo") \/ RunWhileLocked
         \/ LoadFails \/ LoadSucceeds \/ EnterRing3 \/ ExitSyscall \/ Halt
         \/ UNCHANGED vars
  PROVE  StackPaths'
<1>1. CASE LoadSucceeds
  <2>1. run'.mapped = 0 /\ pc' = "stack"
    BY <1>1 DEF LoadSucceeds, TableInv, ProcInv, ProcessTypeOK, Runs
  <2>. QED
    BY <2>1 DEF StackPaths
<1>2. CASE EnterRing3
  BY <1>2 DEF EnterRing3, StackMapped, StackPaths, hwVars
<1>3. CASE UNCHANGED vars
  BY <1>3 DEF StackPaths, vars, hwVars
<1>4. CASE ~LoadSucceeds /\ ~EnterRing3 /\ ~UNCHANGED vars
  <2>1. pc' \in {"shell", "load", "spin", "halted"}
    BY <1>4 DEF ProcessInit, StartRun, RunWhileLocked, LoadFails, ExitSyscall, Halt
  <2>. QED
    BY <2>1 DEF StackPaths
<1>. QED
  BY <1>1, <1>2, <1>3, <1>4

\* StackPaths holds at every instant.
LEMMA StackPathsCorrect == ASSUME Dirty = {} PROVE Spec => [](TableInv /\ StackPaths)
<1>1. Init => StackPaths
  BY DEF Init, StackPaths
<1>2. TableInv /\ StackPaths /\ [Next]_vars => StackPaths'
  BY StackMap, StackWalk, StackLeaf, StackOthers DEF Next
<1>. QED
  BY <1>1, <1>2, TableInit, TableStep, PTL DEF Spec

\* Translate is the walk.
LEMMA TranslateIsWalk == \A p4, v : Translate(p4, v) = At(pt, p4, v, 4)
<1> SUFFICES ASSUME NEW p4, NEW v PROVE Translate(p4, v) = At(pt, p4, v, 4)
  OBVIOUS
<1>1. At(pt, p4, v, 4) = At4(pt, p4, v)
  BY DEF At
<1>2. Translate(p4, v) = At4(pt, p4, v)
  BY Zenon DEF Translate, At1, At2, At3, At4, Down
<1>. QED
  BY <1>1, <1>2

\* Where a walk ends is no table of its tree.
LEMMA LeafIsNoTable ==
  ASSUME TableInv, pc = "ring3", NEW v \in Pages, At(pt, cr3, v, 4) # NoFrame
  PROVE  At(pt, cr3, v, 4) \notin Tables(cr3)
<1> DEFINE A(k) == At(pt, cr3, v, k)
<1>1. IsTree(pt, cr3)
  BY RunTree
<1>2. \A S : \A x : x \in EntriesOf(S) <=>
        x # NoFrame /\ \E f \in S, i \in Index : pt[f][i] = x
  BY DEF EntriesOf
<1>3. cr3 \in Frames /\ P3s(cr3) \subseteq Frames /\ P2s(cr3) \subseteq Frames
  <2>1. /\ {cr3} \in SUBSET bitmap /\ bitmap \subseteq Frames
    BY DEF TableInv, RootsAndTables, ProcInv, ProcessTypeOK, FrameTypeOK
  <2>2. P3s(cr3) \in SUBSET bitmap
    BY <2>1, EntriesInUse DEF P3s
  <2>3. P2s(cr3) \in SUBSET bitmap
    BY <2>2, EntriesInUse DEF P2s
  <2>. QED
    BY <2>1, <2>2, <2>3
<1>4. ASSUME NEW k \in Levels, A(k + 1) # NoFrame
      PROVE  /\ A(k) \in Frames /\ A(k) # NoFrame /\ A(k + 1) # cr3
             /\ \A S \in SUBSET Frames : A(k + 1) \in EntriesOf(S) => A(k) \in S
  <2>1. IsTables(pt) /\ cr3 \in Frames
    BY <1>1 DEF IsTree
  <2>2. A(k) \in Frames /\ A(k + 1) = pt[A(k)][Walk[v][k]]
    BY <1>4, <2>1, WalkLevel
  <2>3. Walk[v][k] \in Index
    BY PagesAssumption
  <2>4. A(k + 1) # cr3
    BY <1>1, <1>4, WalksMeet
  <2>5. ASSUME NEW S \in SUBSET Frames, A(k + 1) \in EntriesOf(S)
        PROVE  A(k) \in S
    <3>1. PICK f \in S, i \in Index : pt[f][i] = A(k + 1)
      BY <1>2, <2>5
    <3>. QED
      BY <1>1, <1>4, <2>2, <2>3, <3>1 DEF IsTree
  <2>. QED
    BY <2>2, <2>4, <2>5, NoFrameIsNone
<1>5. /\ 0 \in Levels /\ 1 \in Levels /\ 2 \in Levels /\ 3 \in Levels
      /\ 0 + 1 = 1 /\ 1 + 1 = 2 /\ 2 + 1 = 3 /\ 3 + 1 = 4
  BY DEF Levels
<1>6. A(0) = cr3 /\ A(4) # NoFrame
  BY DEF At
<1> HIDE DEF A
<1>7. /\ A(3) # NoFrame /\ A(4) # cr3
      /\ \A S \in SUBSET Frames : A(4) \in EntriesOf(S) => A(3) \in S
  BY <1>4, <1>5, <1>6
<1>8. /\ A(2) # NoFrame /\ A(3) # cr3
      /\ \A S \in SUBSET Frames : A(3) \in EntriesOf(S) => A(2) \in S
  BY <1>4, <1>5, <1>7
<1>9. /\ A(1) # NoFrame /\ A(2) # cr3
      /\ \A S \in SUBSET Frames : A(2) \in EntriesOf(S) => A(1) \in S
  BY <1>4, <1>5, <1>8
<1>10. A(1) # cr3
  BY <1>4, <1>5, <1>9
<1>11. A(4) \notin P3s(cr3) /\ A(3) \notin P3s(cr3) /\ A(2) \notin P3s(cr3)
  BY <1>3, <1>7, <1>8, <1>9, <1>10 DEF P3s
<1>12. A(4) \notin P2s(cr3) /\ A(3) \notin P2s(cr3)
  BY <1>3, <1>7, <1>8, <1>11 DEF P2s
<1>13. A(4) \notin P1s(cr3)
  BY <1>3, <1>7, <1>12 DEF P1s
<1>14. A(4) \notin Tables(cr3)
  BY <1>7, <1>11, <1>12, <1>13 DEF Tables
<1>. QED
  BY <1>14 DEF A

\* A mapped page of a process is one of the frames it owns.
LEMMA LeafOwned ==
  ASSUME TableInv, pc = "ring3", NEW v \in Pages, At(pt, cr3, v, 4) # NoFrame
  PROVE  At(pt, cr3, v, 4) \in Owned(current_process)
<1> DEFINE own == Owned(current_process)
<1>1. IsTables(pt) /\ cr3 \in Frames /\ cr3 = current_process.p4_frame
  BY DEF TableInv, ProcInv, Phases, ProcessTypeOK, IsTables
<1>2. cr3 \in own
  BY <1>1, NoFrameIsNone DEF Owned
<1>3. ASSUME NEW k \in Levels, At(pt, cr3, v, k + 1) # NoFrame,
             At(pt, cr3, v, k) # NoFrame => At(pt, cr3, v, k) \in own
      PROVE  At(pt, cr3, v, k + 1) \in own
  <2>1. /\ At(pt, cr3, v, k) \in Frames
        /\ At(pt, cr3, v, k + 1) = pt[At(pt, cr3, v, k)][Walk[v][k]]
    BY <1>1, <1>3, WalkLevel
  <2>2. At(pt, cr3, v, k) \in own
    BY <1>3, <2>1, NoFrameIsNone
  <2>3. At(pt, cr3, v, k + 1) \in EntriesOf({At(pt, cr3, v, k)})
    BY <1>3, <2>1, PagesAssumption DEF EntriesOf
  <2>4. {At(pt, cr3, v, k)} \in SUBSET own
    BY <2>2
  <2>. QED
    BY <2>3, <2>4, EntriesOwned
<1>4. /\ 0 \in Levels /\ 1 \in Levels /\ 2 \in Levels /\ 3 \in Levels
      /\ 0 + 1 = 1 /\ 1 + 1 = 2 /\ 2 + 1 = 3 /\ 3 + 1 = 4
  BY DEF Levels
<1>5. At(pt, cr3, v, 0) \in own
  BY <1>2 DEF At
<1>6. At(pt, cr3, v, 1) # NoFrame => At(pt, cr3, v, 1) \in own
  BY <1>3, <1>4, <1>5
<1>7. At(pt, cr3, v, 2) # NoFrame => At(pt, cr3, v, 2) \in own
  BY <1>3, <1>4, <1>6
<1>8. At(pt, cr3, v, 3) # NoFrame => At(pt, cr3, v, 3) \in own
  BY <1>3, <1>4, <1>7
<1>. QED
  BY <1>3, <1>4, <1>8

\* The tables of a process are a tree, so its stack is usable.
LEMMA StackReady == TableInv /\ StackPaths => StackUsable
<1> SUFFICES ASSUME TableInv, StackPaths, pc = "ring3",
                    NEW i \in 1 .. Len(StackPages)
             PROVE  LET p4 == current_process.p4_frame
                        v == StackPages[i]
                    IN /\ Translate(p4, v) \in Owned(current_process) \ Tables(p4)
                       /\ \A w \in Pages \ {v} : Translate(p4, w) # Translate(p4, v)
  BY DEF StackUsable
<1> DEFINE v == StackPages[i]
<1>1. cr3 = current_process.p4_frame
  BY DEF TableInv, ProcInv, Phases
<1>2. v \in Pages /\ At(pt, cr3, v, 4) # NoFrame
  BY StackPagesTypes DEF StackPaths
<1>3. At(pt, cr3, v, 4) \in Owned(current_process) \ Tables(cr3)
  BY <1>2, LeafOwned, LeafIsNoTable
<1>4. \A w \in Pages \ {v} : At(pt, cr3, w, 4) # At(pt, cr3, v, 4)
  BY <1>2, RunTree, PagesDiffer
<1>. QED
  BY <1>1, <1>3, <1>4, TranslateIsWalk

\* A process that enters ring 3 has its whole stack, each page in a frame of
\* its own that is no page table, whatever the pages its image maps, in
\* whatever order and however often - also when they are those of the stack.
THEOREM StackUsableCorrect == ASSUME Dirty = {} PROVE Spec => []StackUsable
BY StackReady, StackPathsCorrect, PTL

=============================================================================
