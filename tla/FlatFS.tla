------------------------------- MODULE FlatFS -------------------------------
(***************************************************************************)
(* The flat file system of kernel/src/filesystem.rs, and what the boot     *)
(* sequence of main.rs does with it.  The disk is a superblock, directory  *)
(* entries, a block bitmap and data sectors; every ata::write_block() is a *)
(* step of its own, so that the power can fail between any two of them.    *)
(* The kernel has one thread and no handler touches the disk, so nothing   *)
(* else comes between the steps of an operation.                           *)
(*                                                                         *)
(* A name is compared over the length of the name looked for, so it also   *)
(* matches every stored name it is a prefix of, and a name longer than the *)
(* 56 bytes of an entry matches none: Matches and Stored say so.           *)
(***************************************************************************)
EXTENDS Integers, FiniteSets, FiniteSetsExt

CONSTANTS
  Names,      \* names the shell and the system calls are given
  Stored,     \* Stored[n]: n as a directory entry keeps it
  Matches,    \* <<n, s>>: looking for n stops at an entry that stores s
  Contents,   \* file contents
  Sectors,    \* Sectors[c]: the sectors that content c fills
  Profile,    \* the name system_profile, and what boot writes there
  ProfileContent,
  NBlocks,    \* data sectors of the disk
  NSlots,     \* directory entries
  BufSectors, \* the buffer of `storage read` and system call 4
  MaxOps,     \* bounds of the model: commands and system calls,
  MaxBoots,   \* times the machine is switched on,
  MaxFailures \* times the power fails in the middle of an operation, or the
              \* drive does not take a sector

Blocks == 0 .. NBlocks - 1
Slots == 1 .. NSlots
NoName == "" \* dir[off] == 0: the entry is free

ASSUME NamesAssumption ==
  /\ Profile \in Names /\ ProfileContent \in Contents
  /\ DOMAIN Stored = Names /\ Matches \subseteq Names \X {Stored[n] : n \in Names}
  /\ Sectors \in [Contents -> Nat]
  /\ {NBlocks, NSlots, BufSectors, MaxOps, MaxBoots, MaxFailures}
       \subseteq Nat
  /\ NBlocks # 0 \* the disk is longer than its metadata
  /\ {"none", "garbage", "unsure"} \cap Contents = {} \* words for other things

VARIABLES
  sb,     \* superblock: magic present, ephemeral flag (byte 32)
  dir,    \* dir[slot]
  bits,   \* the data sectors whose bit is set
  data,   \* data[b]: which sector of which content block b holds
  pc,
  op,     \* the locals of the operation under way
  bootstrap, \* whether the last boot sent KARNELOS_BOOTSTRAP
  mode,   \* history: what `bootmode` was last told
  expect, \* history: expect[s], the content last written to s, if any
  torn,   \* history: the files a failure hit, and those that lost sectors to
          \* a write or delete of such a file
  count   \* history: operations, boots and failures so far

disk == <<sb, dir, bits, data>>
history == <<mode, expect, torn, count>>
vars == <<disk, pc, op, bootstrap, history>>

NoEntry == [name |-> NoName, content |-> ProfileContent, start |-> 0]
NoOp == [kind |-> "none", name |-> Profile, content |-> ProfileContent,
         slot |-> 0, start |-> 0, next |-> 0, then |-> "idle", lost |-> FALSE]
WriteProfile == [NoOp EXCEPT !.kind = "boot"]

None == "none"
Nothing == [s \in {Stored[n] : n \in Names} |-> None]

-----------------------------------------------------------------------------

\* The first entry that the loops of write_file(), read_file() and
\* delete_file() stop at.
MatchAt(n) == {i \in Slots : <<n, dir[i].name>> \in Matches}
FreeSlots == {i \in Slots : dir[i].name = NoName}

Extent(e) == e.start .. e.start + Sectors[e.content] - 1

Files == {i \in Slots : dir[i].name # NoName}

\* ceil(data.len() / SECTOR_SIZE).max(1) sectors are allocated, but only
\* ceil(data.len() / SECTOR_SIZE) are written and freed.
Needed(c) == IF Sectors[c] = 0 THEN 1 ELSE Sectors[c]

\* Variants with a mistake: a run may start one sector too late; only the
\* first sector of a run has to be free.
RunsOf_OneTooFar(k) == {b \in 0 .. NBlocks : b + k <= NBlocks + 1 /\ (b .. b + k - 1) \cap bits = {}}
RunsOf_FirstOnly(k) == {b \in Blocks : b + k <= NBlocks /\ b \notin bits}

RunsOf(k) == {b \in Blocks : b + k <= NBlocks /\ (b .. b + k - 1) \cap bits = {}}

\* What read_file(n) finds: the sectors from the entry's start.
View(n) ==
  IF MatchAt(n) = {} THEN None
  ELSE LET e == dir[Min(MatchAt(n))] IN
       IF \A i \in 0 .. Sectors[e.content] - 1 :
             e.start + i \in Blocks /\ data[e.start + i] = <<e.content, i>>
       THEN e.content ELSE "garbage"

-----------------------------------------------------------------------------

\* The operation ends; at boot the bootstrap check of kernel_main() follows.
Done ==
  /\ pc' = "idle"
  /\ op' = NoOp
  /\ bootstrap' = IF op.kind = "boot" THEN \A i \in Slots : dir'[i].name = NoName
                                      ELSE bootstrap

Begin(operation, step) ==
  /\ pc = "idle" /\ count.ops < MaxOps
  /\ op' = operation
  /\ pc' = step
  /\ count' = [count EXCEPT !.ops = @ + 1]

\* storage write, app save, perf save, system call 5.
WriteFile(n, c) ==
  /\ Begin([NoOp EXCEPT !.kind = "write", !.name = n, !.content = c,
                        !.then = "lookup"],
           IF sb.formatted THEN "lookup" ELSE "format")
  /\ UNCHANGED <<disk, bootstrap, mode, expect, torn>>

\* System call 8.
DeleteFile(n) ==
  /\ sb.formatted /\ MatchAt(n) # {}
  /\ Begin([NoOp EXCEPT !.kind = "delete", !.name = n, !.slot = Min(MatchAt(n))],
           "clear")
  /\ UNCHANGED <<disk, bootstrap, mode, expect, torn>>

\* ReadFile with the comparison off by one.
ReadFile_FullBuffer(n) ==
  /\ pc = "idle" /\ sb.formatted /\ MatchAt(n) # {}
  /\ Sectors[dir[Min(MatchAt(n))].content] >= BufSectors
  /\ pc' = "panicked"
  /\ UNCHANGED <<disk, op, bootstrap, history>>

\* storage read, system call 4: nothing changes, but the copy indexes the
\* 4096-byte buffer by the size of the file.
ReadFile(n) ==
  /\ pc = "idle" /\ sb.formatted /\ MatchAt(n) # {}
  /\ Sectors[dir[Min(MatchAt(n))].content] > BufSectors
  /\ pc' = "panicked"
  /\ UNCHANGED <<disk, op, bootstrap, history>>

\* A loop that stops at the first entry that is free or matches: a new version
\* in front of the old one, which comes back when the new one is deleted.
Lookup_FreeFirst ==
  LET found == MatchAt(op.name) \cup FreeSlots IN
  /\ pc = "lookup"
  /\ IF found # {}
     THEN /\ op' = [op EXCEPT !.slot = Min(found), !.next = 0]
          /\ pc' = IF Min(found) \in FreeSlots THEN "alloc" ELSE "clear"
          /\ UNCHANGED bootstrap
     ELSE UNCHANGED dir /\ Done
  /\ UNCHANGED <<disk, history>>

\* write_file()'s loop over the directory: an entry that matches is reused
\* and its old data freed; otherwise the first free entry.
Lookup ==
  /\ pc = "lookup"
  /\ \/ /\ MatchAt(op.name) # {}
        /\ op' = [op EXCEPT !.slot = Min(MatchAt(op.name)), !.next = 0]
        /\ pc' = "clear"
        /\ UNCHANGED bootstrap
     \/ /\ MatchAt(op.name) = {} /\ FreeSlots # {}
        /\ op' = [op EXCEPT !.slot = Min(FreeSlots)]
        /\ pc' = "alloc"
        /\ UNCHANGED bootstrap
     \/ /\ MatchAt(op.name) = {} /\ FreeSlots = {}
        /\ UNCHANGED dir /\ Done
  /\ UNCHANGED <<disk, history>>

\* What a failure left of a file may point at sectors that are marked free and
\* were then given to other files: freeing them takes them from those.
Frees(b) ==
  /\ bits' = bits \ {b}
  /\ torn' = IF op.name \notin torn THEN torn
             ELSE torn \cup {n \in Names : \E i \in Files \ {op.slot} :
                               dir[i].name = Stored[n] /\ b \in Extent(dir[i])}

\* ClearBit with one sector too many and one too few.
ClearBit_OneMore ==
  LET old == dir[op.slot] IN
  /\ pc = "clear"
  /\ IF op.next <= Sectors[old.content]
     THEN /\ Frees(old.start + op.next)
          /\ op' = [op EXCEPT !.next = @ + 1]
          /\ UNCHANGED pc
     ELSE /\ op' = [op EXCEPT !.next = 0]
          /\ pc' = IF op.kind = "delete" THEN "entry" ELSE "alloc"
          /\ UNCHANGED <<bits, torn>>
  /\ UNCHANGED <<sb, dir, data, bootstrap, mode, expect, count>>

ClearBit_OneLess ==
  LET old == dir[op.slot] IN
  /\ pc = "clear"
  /\ IF op.next + 1 < Sectors[old.content]
     THEN /\ Frees(old.start + op.next)
          /\ op' = [op EXCEPT !.next = @ + 1]
          /\ UNCHANGED pc
     ELSE /\ op' = [op EXCEPT !.next = 0]
          /\ pc' = IF op.kind = "delete" THEN "entry" ELSE "alloc"
          /\ UNCHANGED <<bits, torn>>
  /\ UNCHANGED <<sb, dir, data, bootstrap, mode, expect, count>>

\* bitmap_clear() of each old sector, then on to the new ones.
ClearBit ==
  LET old == dir[op.slot] IN
  /\ pc = "clear"
  /\ IF op.next < Sectors[old.content]
     THEN /\ Frees(old.start + op.next)
          /\ op' = [op EXCEPT !.next = @ + 1]
          /\ UNCHANGED pc
     ELSE /\ op' = [op EXCEPT !.next = 0]
          /\ pc' = IF op.kind = "delete" THEN "entry" ELSE "alloc"
          /\ UNCHANGED <<bits, torn>>
  /\ UNCHANGED <<sb, dir, data, bootstrap, mode, expect, count>>

\* alloc_contiguous(): first fit.  Without a run the write just ends.
Alloc ==
  LET runs == RunsOf(Needed(op.content)) IN
  /\ pc = "alloc"
  /\ \/ /\ runs # {}
        /\ op' = [op EXCEPT !.start = Min(runs), !.next = 0]
        /\ pc' = "mark"
        /\ UNCHANGED <<torn, bootstrap>>
     \/ /\ runs = {}
        /\ torn' = IF op.lost THEN torn \cup {op.name} ELSE torn
        /\ UNCHANGED dir /\ Done
  /\ UNCHANGED <<disk, mode, expect, count>>

MarkBit ==
  /\ pc = "mark"
  /\ bits' = bits \cup {op.start + op.next}
  /\ IF op.next + 1 < Needed(op.content)
     THEN op' = [op EXCEPT !.next = @ + 1] /\ UNCHANGED pc
     ELSE op' = [op EXCEPT !.next = 0] /\ pc' = "data"
  /\ UNCHANGED <<sb, dir, data, bootstrap, history>>

WriteSector ==
  /\ pc = "data"
  /\ IF op.next < Sectors[op.content]
     THEN /\ data' = [data EXCEPT ![op.start + op.next] = <<op.content, op.next>>]
          /\ op' = [op EXCEPT !.next = @ + 1]
          /\ UNCHANGED pc
     ELSE pc' = "entry" /\ UNCHANGED <<data, op>>
  /\ UNCHANGED <<sb, dir, bits, bootstrap, history>>

\* write_dir(): all eight sectors are written, one of them differs.
WriteEntry ==
  /\ pc = "entry"
  /\ dir' = [dir EXCEPT ![op.slot] =
       IF op.kind = "delete" \/ Stored[op.name] = NoName THEN NoEntry
       ELSE [name |-> Stored[op.name], content |-> op.content, start |-> op.start]]
  /\ expect' = [expect EXCEPT ![Stored[op.name]] =
                  IF op.kind = "delete" THEN None ELSE op.content]
  /\ torn' = IF op.lost THEN torn \cup {op.name} ELSE torn \ {op.name}
  /\ Done
  /\ UNCHANGED <<sb, bits, data, mode, count>>

\* write_sector() gives up when the drive is busy for too long or reports an
\* error, and tells nobody: the operation goes on as if the sector had been
\* written.  (Only for the sectors of files; format() promises no file.)
WriteLost ==
  LET last == pc = "mark" /\ op.next + 1 = Needed(op.content) IN
  /\ count.failures < MaxFailures
  /\ count' = [count EXCEPT !.failures = @ + 1]
  /\ \/ /\ \/ pc = "clear" /\ op.next < Sectors[dir[op.slot].content]
           \/ pc = "mark"
           \/ pc = "data" /\ op.next < Sectors[op.content]
        /\ op' = [op EXCEPT !.next = IF last THEN 0 ELSE @ + 1, !.lost = TRUE]
        /\ pc' = IF last THEN "data" ELSE pc
        /\ UNCHANGED <<torn, dir, bootstrap>>
     \/ /\ pc = "entry"
        /\ torn' = torn \cup {op.name}
        /\ UNCHANGED dir /\ Done
  /\ UNCHANGED <<sb, bits, data, mode, expect>>

-----------------------------------------------------------------------------

\* storage format.
Format ==
  /\ Begin([NoOp EXCEPT !.kind = "format"], "format")
  /\ UNCHANGED <<disk, bootstrap, mode, expect, torn>>

\* format(): superblock, directory sectors (one entry each here), bitmap
\* (its files fit in one sector here); then back to who called it.  A user
\* who formats asks for a normal disk.
FormatSuperblock ==
  /\ pc = "format"
  /\ sb' = [formatted |-> TRUE, ephemeral |-> FALSE]
  /\ op' = [op EXCEPT !.next = 1]
  /\ pc' = "wipe"
  /\ mode' = IF op.kind = "format" THEN "normal" ELSE mode
  /\ UNCHANGED <<dir, bits, data, bootstrap, expect, torn, count>>

FormatDirectory ==
  /\ pc = "wipe" /\ op.next \in Slots
  /\ dir' = [dir EXCEPT ![op.next] = NoEntry]
  /\ LET gone == dir[op.next].name IN
     /\ expect' = [s \in DOMAIN expect |-> IF s = gone THEN None ELSE expect[s]]
     /\ torn' = {n \in torn : Stored[n] # gone}
  /\ op' = [op EXCEPT !.next = @ + 1]
  /\ UNCHANGED <<sb, bits, data, pc, bootstrap, mode, count>>

FormatBitmap ==
  /\ pc = "wipe" /\ op.next \notin Slots
  /\ bits' = {}
  /\ expect' = Nothing
  /\ torn' = {}
  /\ IF op.then = "idle" THEN UNCHANGED dir /\ Done
     ELSE pc' = op.then /\ op' = [op EXCEPT !.next = 0] /\ UNCHANGED <<dir, bootstrap>>
  /\ UNCHANGED <<sb, data, mode, count>>

\* bootmode ephemeral and bootmode normal: byte 32 of the superblock.
BootmodeEphemeral ==
  /\ Begin([NoOp EXCEPT !.kind = "bootmode", !.then = "setflag"],
           IF sb.formatted THEN "setflag" ELSE "format")
  /\ UNCHANGED <<disk, bootstrap, mode, expect, torn>>

SetFlag ==
  /\ pc = "setflag"
  /\ sb' = [sb EXCEPT !.ephemeral = TRUE]
  /\ mode' = "ephemeral"
  /\ UNCHANGED dir /\ Done
  /\ UNCHANGED <<bits, data, expect, torn, count>>

BootmodeNormal ==
  /\ Begin([NoOp EXCEPT !.kind = "bootmode"], "idle")
  /\ sb' = [sb EXCEPT !.ephemeral = FALSE]
  /\ mode' = "normal"
  /\ UNCHANGED <<dir, bits, data, bootstrap, expect, torn>>

-----------------------------------------------------------------------------

\* kernel_main(): an ephemeral disk is formatted and its flag cleared; then
\* the profile is written, and only then is the directory looked at.
Boot ==
  /\ pc = "off"
  /\ count.boots < MaxBoots
  /\ count' = [count EXCEPT !.boots = @ + 1]
  /\ IF sb.formatted /\ sb.ephemeral
     THEN pc' = "format" /\ op' = [NoOp EXCEPT !.kind = "boot", !.then = "unflag"]
     ELSE /\ pc' = IF sb.formatted THEN "lookup" ELSE "format"
          /\ op' = [WriteProfile EXCEPT !.then = "lookup"]
  /\ UNCHANGED <<disk, bootstrap, mode, expect, torn>>

ClearFlag ==
  /\ pc = "unflag"
  /\ sb' = [sb EXCEPT !.ephemeral = FALSE]
  /\ op' = [WriteProfile EXCEPT !.then = "lookup"]
  /\ pc' = "lookup"
  /\ UNCHANGED <<dir, bits, data, bootstrap, history>>

\* `reboot` or power off between two operations.
Reboot ==
  /\ pc = "idle"
  /\ pc' = "off"
  /\ UNCHANGED <<disk, op, bootstrap, history>>

\* The file that the operation under way is about to replace or delete.
Formatting == pc \in {"format", "wipe"}
Replacing == pc \in {"clear", "alloc", "mark", "data", "entry"}
InFlight ==
  IF Replacing /\ dir[op.slot].name # NoName THEN {op.name} ELSE {}

PowerFails ==
  /\ pc \notin {"off", "idle", "panicked"} /\ count.failures < MaxFailures
  /\ pc' = "off"
  /\ op' = NoOp
  /\ torn' = torn \cup InFlight
  /\ count' = [count EXCEPT !.failures = @ + 1]
  /\ UNCHANGED <<disk, bootstrap, mode, expect>>

-----------------------------------------------------------------------------

\* A new disk image: `dd if=/dev/zero`.
Init ==
  /\ sb = [formatted |-> FALSE, ephemeral |-> FALSE]
  /\ dir = [i \in Slots |-> NoEntry]
  /\ bits = {}
  /\ data = [b \in Blocks |-> <<None, 0>>]
  /\ pc = "off"
  /\ op = NoOp
  /\ bootstrap = FALSE
  /\ mode = "normal"
  /\ expect = Nothing
  /\ torn = {}
  /\ count = [ops |-> 0, boots |-> 0, failures |-> 0]

Next ==
  \/ \E n \in Names, c \in Contents : WriteFile(n, c)
  \/ \E n \in Names : DeleteFile(n)
  \/ \E n \in Names : ReadFile(n)
  \/ Lookup
  \/ ClearBit
  \/ Alloc
  \/ MarkBit
  \/ WriteSector
  \/ WriteEntry
  \/ WriteLost
  \/ Format
  \/ FormatSuperblock
  \/ FormatDirectory
  \/ FormatBitmap
  \/ BootmodeEphemeral
  \/ SetFlag
  \/ BootmodeNormal
  \/ Boot
  \/ ClearFlag
  \/ Reboot
  \/ PowerFails

Spec == Init /\ [][Next]_vars

-----------------------------------------------------------------------------

Entry == [name : {Stored[n] : n \in Names} \cup {NoName}, content : Contents,
          start : Blocks]

\* Type invariant of the disk and of the operation under way.
FSTypeOK ==
  /\ sb \in [formatted : BOOLEAN, ephemeral : BOOLEAN]
  /\ dir \in [Slots -> Entry]
  /\ bits \subseteq Blocks
  /\ data \in [Blocks -> (Contents \cup {None}) \X Nat]
  /\ pc \in {"off", "idle", "panicked", "lookup", "clear", "alloc", "mark", "data",
             "entry", "format", "wipe", "setflag", "unflag"}
  /\ op.slot \in Slots \cup {0} /\ op.start \in Blocks /\ op.next \in Nat
  /\ op.name \in Names /\ op.content \in Contents
  /\ bootstrap \in BOOLEAN

\* A name has one entry.  Between two operations the sectors of every file that
\* is not torn are marked, and no two such files share one - whatever failures
\* hit other files, and whatever was written or deleted since, as long as it was
\* not a torn file that held sectors of theirs (filesystem.rs:199).
FilesKeptApart ==
  /\ \A i, j \in Files : dir[i].name = dir[j].name => i = j
  /\ LET safe == {i \in Files : \A n \in torn : dir[i].name # Stored[n]} IN
     /\ pc \in {"idle", "off"} => \A i \in safe : Extent(dir[i]) \subseteq bits
     /\ \A i, j \in safe : i # j => Extent(dir[i]) \cap Extent(dir[j]) = {}

\* "storage write <name>", then "storage read <name>", also after a reboot
\* (README.md:67, roadmap/phases.md:123): at every instant, so also where the
\* power may fail, each file reads as it was last written, except the torn ones
\* and the one under way.  A file being created is absent until its entry is
\* written; a torn file is sound again once it is written or formatted away.
Durable ==
  \A n \in Names \ (torn \cup InFlight) : View(n) = expect[Stored[n]]

\* To those who name files the disk is a store of files: what they read, but
\* of torn files and of the one under way; and what the operation under way is
\* to do.  Boot, too, writes a file - when it has formatted an ephemeral disk.
Shown ==
  [n \in Names |-> IF n \in torn \cup InFlight THEN "unsure" ELSE View(n)]
Request ==
  IF op.kind = "delete" THEN <<op.name, None, op.name \in torn>>
  ELSE IF op.then = "lookup" THEN <<op.name, op.content, op.name \in torn>>
  ELSE IF Formatting THEN <<"format">>
  ELSE <<>>

Store == INSTANCE FileStore
           WITH Absent <- None, Unsure <- "unsure", files <- Shown, request <- Request

\* The disk implements that store: whatever sectors are written in between, and
\* wherever a failure comes, a write or delete changes the one file it names,
\* from what it was over "unsure" to what was asked for, and costs another file
\* only where a failure had left the one it names unsure; formatting takes the
\* files one by one.
StoreRefined == Store!Spec

\* "overwrite: free old data blocks first" (filesystem.rs:199): between two
\* operations the marked sectors are those of files, so overwriting and
\* deleting never lose space.
NoLeakedSectors ==
  pc = "idle" /\ count.failures = 0 =>
    bits \subseteq UNION {Extent(dir[i]) : i \in Files}

\* README.md:60, "A block device driver and flat filesystem provide persistence
\* across reboots": a write or delete costs no file but the one it names, and a
\* failure none but the one under way.  After a power failure a write may free
\* sectors that another file got since (filesystem.rs:199), and write over them.
OnlyFailuresTear ==
  [][count'.failures = count.failures => torn' \subseteq torn \cup {op.name}]_vars

\* system call 4, "storage_read(name_ptr, buf_ptr, len) -> bytes read"
\* (interrupts.rs:250), and `storage read`: reading a file never stops the
\* machine.
ReadReturns == pc # "panicked"

\* shell.rs:423, "Boot mode: EPHEMERAL (data reformatted every boot)": the
\* mode lasts until `bootmode normal`.
EphemeralEveryBoot ==
  pc = "idle" /\ mode = "ephemeral" => sb.ephemeral

\* main.rs:144, "if storage is formatted and empty, trigger daemon to
\* generate starter apps".
EmptyStorageBootstraps == pc = "idle" /\ count.ops = 0 => bootstrap

=============================================================================
