--------------------------- MODULE FlatFS_proofs ---------------------------
(***************************************************************************)
(* Proofs about the file system of kernel/src/filesystem.rs: types for any *)
(* way of comparing names; and, where names are compared exactly and every *)
(* overwrite finds room, that files which no failure hit keep apart and    *)
(* survive power failures and lost writes until a torn file is written     *)
(* over or deleted that held their sectors, that no sector leaks, and that *)
(* the disk implements the store of FileStore.                             *)
(***************************************************************************)
EXTENDS FlatFS, WellFoundedInduction, TLAPS

\* No name begins another, none is longer than the 56 bytes of an entry, and
\* none is empty: then looking for a name finds the entry it was stored under.
ExactNames ==
  /\ Matches = {<<n, Stored[n]>> : n \in Names}
  /\ \A n, m \in Names : Stored[n] = Stored[m] => n = m
  /\ \A n \in Names : Stored[n] # NoName

\* write_file() frees the old sectors of a file before it looks for new ones
\* (filesystem.rs:204, 227): it does find some.
RoomToReplace ==
  pc = "alloc" /\ dir[op.slot].name # NoName /\ ~ op.lost =>
    RunsOf(Needed(op.content)) # {}

-----------------------------------------------------------------------------

StoredNames == {Stored[n] : n \in Names}

Steps == {"off", "idle", "panicked", "lookup", "clear", "alloc", "mark", "data",
          "entry", "format", "wipe", "setflag", "unflag"}

Operation ==
  [kind : {"none", "boot", "write", "delete", "format", "bootmode"},
   name : Names, content : Contents, slot : Slots \cup {0}, start : Blocks,
   next : Nat, then : {"idle", "lookup", "setflag", "unflag"}, lost : BOOLEAN]

\* The sectors found for the file that is written.
HasRun == pc \in {"mark", "data"} \/ (pc = "entry" /\ op.kind # "delete")
Run == op.start .. op.start + Needed(op.content) - 1

\* The run stays on the disk, and so do the steps over it.
Fitting ==
  /\ HasRun =>
       op.start + Needed(op.content) <= NBlocks
  /\ pc = "mark" => op.next < Needed(op.content)
  /\ pc = "data" => op.next <= Sectors[op.content]
  /\ pc \in {"lookup", "alloc", "mark", "data", "format", "wipe"} => op.kind # "delete"

\* FSTypeOK, and what its proof needs: the histories have types too.
TypeInv ==
  /\ sb \in [formatted : BOOLEAN, ephemeral : BOOLEAN]
  /\ dir \in [Slots -> Entry]
  /\ bits \subseteq Blocks
  /\ data \in [Blocks -> (Contents \cup {None}) \X Nat]
  /\ pc \in Steps
  /\ op \in Operation
  /\ bootstrap \in BOOLEAN
  /\ expect \in [StoredNames -> Contents \cup {None}]
  /\ torn \subseteq Names
  /\ count \in [ops : Nat, boots : Nat, failures : Nat]
  /\ Fitting

-----------------------------------------------------------------------------

\* A file that is not torn, by its slot; the slot the operation works on.
Safe(i) == \E n \in Names \ torn : dir[i].name = Stored[n]
InHand(i) == Replacing /\ op.slot = i

\* A file's sectors are on the disk.
OnDisk == \A i \in Files : dir[i].start + Sectors[dir[i].content] <= NBlocks

\* A name has one entry at most.
UniqueNames == \A i, j \in Files : dir[i].name = dir[j].name => i = j

\* The operation works on the entry of its file, or on a free one when the
\* file has none.
Targets ==
  /\ Replacing =>
       /\ op.slot \in Slots
       /\ dir[op.slot].name \in {NoName, Stored[op.name]}
       /\ \A j \in Slots \ {op.slot} : dir[j].name # Stored[op.name]
  /\ pc = "clear" => dir[op.slot].name = Stored[op.name]
  /\ pc = "wipe" =>
       /\ op.next \in 1 .. NSlots + 1
       /\ \A i \in Slots : i < op.next => dir[i] = NoEntry

\* The sectors of a safe file are no other safe file's ...
Apart ==
  \A i, j \in Slots : Safe(i) /\ Safe(j) /\ i # j => Extent(dir[i]) \cap Extent(dir[j]) = {}

\* ... and marked, unless it is just being replaced.
Marked == \A i \in Slots : Safe(i) /\ ~ InHand(i) => Extent(dir[i]) \subseteq bits

\* The run found for a new version belongs to no other safe file, and is
\* marked and written as far as the operation has come.
NewRun ==
  /\ HasRun =>
       \A i \in Slots \ {op.slot} : Safe(i) => Extent(dir[i]) \cap Run = {}
  /\ pc = "mark" /\ ~ op.lost => op.start .. op.start + op.next - 1 \subseteq bits
  /\ pc = "data" /\ ~ op.lost =>
       /\ Run \subseteq bits
       /\ \A k \in 0 .. op.next - 1 : data[op.start + k] = <<op.content, k>>
  /\ pc = "entry" /\ op.kind # "delete" /\ ~ op.lost =>
       /\ Run \subseteq bits
       /\ \A k \in 0 .. Sectors[op.content] - 1 :
            data[op.start + k] = <<op.content, k>>

Holds(e) == \A k \in 0 .. Sectors[e.content] - 1 : data[e.start + k] = <<e.content, k>>

\* The entry of a safe file is the one last written, and so are its sectors
\* unless it is just being replaced; what has no entry is not there.
Kept ==
  \A n \in Names \ torn :
    /\ \A i \in Slots : dir[i].name = Stored[n] =>
         /\ expect[Stored[n]] = dir[i].content
         /\ ~ InHand(i) => Holds(dir[i])
    /\ (\A i \in Slots : dir[i].name # Stored[n]) => expect[Stored[n]] = None

FileInv ==
  /\ TypeInv
  /\ Targets /\ NewRun
  /\ OnDisk /\ UniqueNames /\ Apart /\ Marked /\ Kept

\* While nothing fails, a marked sector belongs to a file, or to the old
\* version not yet freed or the new version already marked of the file in hand.
Accounted ==
  /\ Replacing => op.slot \in Slots
  /\ count.failures = 0 /\ ~ Formatting =>
       \A b \in bits :
         \/ \E i \in Files : ~ InHand(i) /\ b \in Extent(dir[i])
         \/ /\ pc = "clear"
            /\ b \in Extent(dir[op.slot]) /\ b >= dir[op.slot].start + op.next
         \/ HasRun /\ b \in Run

\* The old version is free as far as the operation has come.
Freed ==
  ~ op.lost =>
    /\ pc = "clear" =>
         (dir[op.slot].start .. dir[op.slot].start + op.next - 1) \cap bits = {}
    /\ pc = "alloc" /\ dir[op.slot].name # NoName =>
         Extent(dir[op.slot]) \cap bits = {}

-----------------------------------------------------------------------------

LEMMA ConstantTypes ==
  /\ Profile \in Names /\ ProfileContent \in Contents
  /\ Sectors \in [Contents -> Nat]
  /\ NBlocks \in Nat /\ NBlocks >= 1 /\ NSlots \in Nat
  /\ MaxFailures \in Nat
BY NamesAssumption DEF NamesAssumption

USE ConstantTypes

\* The first of a set of slots or sectors.
Below == {ss \in Nat \X Nat : ss[1] < ss[2]}

LEMMA BelowWellFounded == IsWellFoundedOn(Below, Nat)
<1>1. Below = OpToRel(<, Nat)
  BY DEF Below, OpToRel
<1>. QED BY <1>1, NatLessThanWellFounded

LEMMA FirstOf ==
  ASSUME NEW T \in SUBSET Nat, T # {}
  PROVE  Min(T) \in T
<1>1. PICK m \in T : \A k \in T : ~ (<<k, m>> \in Below)
  BY BelowWellFounded, WFMin
<1>2. ASSUME NEW k \in T PROVE m <= k
  <2>1. <<k, m>> \in Nat \X Nat /\ m \in Nat /\ k \in Nat
    OBVIOUS
  <2>2. k < m => <<k, m>> \in Below
    BY <2>1 DEF Below
  <2>. QED BY <2>1, <2>2, <1>1
<1>. QED BY <1>2 DEF Min

\* Where the directory is searched, and where the bitmap is.
LEMMA FoundAt ==
  /\ \A n : MatchAt(n) # {} => Min(MatchAt(n)) \in MatchAt(n)
  /\ FreeSlots # {} => Min(FreeSlots) \in FreeSlots
  /\ \A k : RunsOf(k) # {} => Min(RunsOf(k)) \in RunsOf(k)
<1>1. \A n : MatchAt(n) \in SUBSET Nat
  BY DEF MatchAt, Slots
<1>2. FreeSlots \in SUBSET Nat
  BY DEF FreeSlots, Slots
<1>3. \A k : RunsOf(k) \in SUBSET Nat
  BY DEF RunsOf, Blocks
<1>. QED BY <1>1, <1>2, <1>3, FirstOf

LEMMA NeededSectors ==
  ASSUME NEW c \in Contents
  PROVE  Sectors[c] \in Nat /\ Needed(c) \in Nat /\ Needed(c) >= 1 /\ Sectors[c] <= Needed(c)
BY DEF Needed

LEMMA EntriesTyped == NoEntry \in Entry /\ \A e \in Entry : e.content \in Contents /\ e.start \in Blocks
BY DEF NoEntry, Entry, Blocks

LEMMA NoOpTyped == NoOp \in Operation /\ WriteProfile \in Operation
<1>1. 0 \in Blocks
  BY DEF Blocks
<1>2. NoOp \in Operation
  BY <1>1 DEF NoOp, Operation
<1>. QED BY <1>2 DEF WriteProfile, Operation

\* The operations begin with some locals of their own.
LEMMA OperationsTyped ==
  /\ \A n \in Names, c \in Contents :
       [NoOp EXCEPT !.kind = "write", !.name = n, !.content = c, !.then = "lookup"] \in Operation
  /\ \A n \in Names, i \in Slots :
       [NoOp EXCEPT !.kind = "delete", !.name = n, !.slot = i] \in Operation
  /\ [NoOp EXCEPT !.kind = "format"] \in Operation
  /\ [NoOp EXCEPT !.kind = "bootmode", !.then = "setflag"] \in Operation
  /\ [NoOp EXCEPT !.kind = "bootmode"] \in Operation
  /\ [NoOp EXCEPT !.kind = "boot", !.then = "unflag"] \in Operation
  /\ [WriteProfile EXCEPT !.then = "lookup"] \in Operation
BY NoOpTyped DEF Operation

LEMMA LocalsTypes ==
  ASSUME NEW o \in Operation
  PROVE  /\ o.name \in Names /\ o.content \in Contents /\ o.slot \in Slots \cup {0}
         /\ o.start \in Blocks /\ o.start \in Nat /\ o.next \in Nat
         /\ o.then \in {"idle", "lookup", "setflag", "unflag"} /\ o.lost \in BOOLEAN
BY DEF Operation, Blocks

-----------------------------------------------------------------------------

(***************************************************************************)
(* Types.                                                                  *)
(***************************************************************************)
LEMMA TypeInit == Init => TypeInv
<1>. SUFFICES ASSUME Init PROVE TypeInv
  OBVIOUS
<1>1. Nothing \in [StoredNames -> Contents \cup {None}]
  BY DEF Nothing, StoredNames
<1>2. Fitting
  BY DEF Init, Fitting, HasRun
<1>3. data \in [Blocks -> (Contents \cup {None}) \X Nat]
  BY DEF Init
<1>. QED BY <1>1, <1>2, <1>3, NoOpTyped, EntriesTyped DEF Init, TypeInv, Steps

\* The operations that begin: commands, system calls, boot.
LEMMA TypeBegins ==
  ASSUME TypeInv, NEW n \in Names, NEW c \in Contents,
         \/ WriteFile(n, c) \/ DeleteFile(n) \/ ReadFile(n) \/ Format
         \/ BootmodeEphemeral \/ BootmodeNormal \/ Boot \/ Reboot
  PROVE  TypeInv'
<1>. USE DEF TypeInv, Steps, Begin, disk, history
<1>1. CASE WriteFile(n, c)
  <2>1. op' \in Operation /\ op'.kind = "write"
    BY <1>1, OperationsTyped DEF WriteFile, NoOp
  <2>2. Fitting'
    BY <1>1, <2>1 DEF WriteFile, Fitting, HasRun
  <2>. QED BY <1>1, <2>1, <2>2 DEF WriteFile
<1>2. CASE DeleteFile(n)
  <2>1. Min(MatchAt(n)) \in Slots
    BY <1>2, FoundAt DEF DeleteFile, MatchAt
  <2>2. op' \in Operation
    BY <1>2, <2>1, OperationsTyped DEF DeleteFile
  <2>3. Fitting'
    BY <1>2, <2>2 DEF DeleteFile, Fitting, HasRun
  <2>. QED BY <1>2, <2>2, <2>3 DEF DeleteFile
<1>3. CASE ReadFile(n)
  BY <1>3 DEF ReadFile, Fitting, HasRun
<1>4. CASE Format
  <2>1. op' \in Operation /\ op'.kind = "format"
    BY <1>4, OperationsTyped DEF Format, NoOp
  <2>2. Fitting'
    BY <1>4, <2>1 DEF Format, Fitting, HasRun
  <2>. QED BY <1>4, <2>1, <2>2 DEF Format
<1>5. CASE BootmodeEphemeral
  <2>1. op' \in Operation /\ op'.kind = "bootmode"
    BY <1>5, OperationsTyped DEF BootmodeEphemeral, NoOp
  <2>2. Fitting'
    BY <1>5, <2>1 DEF BootmodeEphemeral, Fitting, HasRun
  <2>. QED BY <1>5, <2>1, <2>2 DEF BootmodeEphemeral
<1>6. CASE BootmodeNormal
  <2>1. op' \in Operation
    BY <1>6, OperationsTyped DEF BootmodeNormal
  <2>2. Fitting'
    BY <1>6 DEF BootmodeNormal, Fitting, HasRun
  <2>3. pc' \in Steps /\ sb' \in [formatted : BOOLEAN, ephemeral : BOOLEAN]
    BY <1>6 DEF BootmodeNormal
  <2>4. count' \in [ops : Nat, boots : Nat, failures : Nat]
    BY <1>6 DEF BootmodeNormal
  <2>. QED BY <1>6, <2>1, <2>2, <2>3, <2>4 DEF BootmodeNormal
<1>7. CASE Boot
  <2>1. op' \in Operation /\ op'.kind = "boot"
    BY <1>7, OperationsTyped DEF Boot, WriteProfile, NoOp
  <2>2. Fitting'
    BY <1>7, <2>1 DEF Boot, Fitting, HasRun
  <2>3. pc' \in Steps
    BY <1>7 DEF Boot
  <2>. QED BY <1>7, <2>1, <2>2, <2>3 DEF Boot
<1>8. CASE Reboot
  BY <1>8 DEF Reboot, Fitting, HasRun
<1>. QED BY <1>1, <1>2, <1>3, <1>4, <1>5, <1>6, <1>7, <1>8

\* The steps of a write or a deletion.
LEMMA TypeFileSteps ==
  ASSUME TypeInv,
         \/ Lookup \/ ClearBit \/ Alloc \/ MarkBit \/ WriteSector \/ WriteEntry
  PROVE  TypeInv'
<1>. USE DEF TypeInv, Steps, history
<1>1. CASE Lookup
  <2>1. /\ MatchAt(op.name) # {} => Min(MatchAt(op.name)) \in Slots
        /\ FreeSlots # {} => Min(FreeSlots) \in Slots
    BY FoundAt DEF MatchAt, FreeSlots
  <2>2. op' \in Operation
    <3>1. CASE MatchAt(op.name) # {}
      <4>1. op' = [op EXCEPT !.slot = Min(MatchAt(op.name)), !.next = 0]
        BY <1>1, <3>1 DEF Lookup
      <4>. QED BY <2>1, <3>1, <4>1 DEF Operation
    <3>2. CASE MatchAt(op.name) = {} /\ FreeSlots # {}
      <4>1. op' = [op EXCEPT !.slot = Min(FreeSlots)]
        BY <1>1, <3>2 DEF Lookup
      <4>. QED BY <2>1, <3>2, <4>1 DEF Operation
    <3>3. CASE MatchAt(op.name) = {} /\ FreeSlots = {}
      BY <1>1, <3>3, NoOpTyped DEF Lookup, Done
    <3>. QED BY <3>1, <3>2, <3>3
  <2>3. /\ pc' \in Steps /\ bootstrap' \in BOOLEAN /\ Fitting'
        /\ UNCHANGED <<sb, bits, data, expect, torn, count>> /\ dir' = dir
    BY <1>1 DEF Lookup, Done, Fitting, HasRun, disk, Operation
  <2>. QED BY <2>2, <2>3
<1>2. CASE ClearBit
  <2>1. op' \in Operation
    BY <1>2 DEF ClearBit, Operation
  <2>2. Fitting'
    BY <1>2 DEF ClearBit, Fitting, HasRun, Operation
  <2>3. bits' \subseteq Blocks /\ torn' \subseteq Names
    BY <1>2 DEF ClearBit, Frees
  <2>. QED BY <1>2, <2>1, <2>2, <2>3 DEF ClearBit
<1>3. CASE Alloc
  <2>. DEFINE runs == RunsOf(Needed(op.content))
  <2>1. runs # {} => Min(runs) \in Blocks /\ Min(runs) + Needed(op.content) <= NBlocks
    BY FoundAt DEF RunsOf
  <2>2. op.content \in Contents /\ op.name \in Names
    BY DEF Operation
  <2>. HIDE DEF runs
  <2>3. op' \in Operation
    <3>1. CASE runs # {}
      <4>1. op' = [op EXCEPT !.start = Min(runs), !.next = 0]
        BY <1>3, <3>1 DEF Alloc, runs
      <4>. QED BY <2>1, <3>1, <4>1 DEF Operation
    <3>2. CASE runs = {}
      BY <1>3, <3>2, NoOpTyped DEF Alloc, Done, runs
    <3>. QED BY <3>1, <3>2
  <2>4. Fitting'
    <3>1. CASE runs = {}
      BY <1>3, <3>1 DEF Alloc, Done, Fitting, HasRun, runs
    <3>2. CASE runs # {}
      <4>1. /\ pc' = "mark" /\ op'.kind = op.kind /\ op'.content = op.content
            /\ op'.start = Min(runs) /\ op'.next = 0
        BY <1>3, <3>2 DEF Alloc, Operation, runs
      <4>. QED BY <1>3, <2>1, <2>2, <3>2, <4>1, NeededSectors DEF Alloc, Fitting, HasRun
    <3>. QED BY <3>1, <3>2
  <2>5. /\ pc' \in Steps /\ bootstrap' \in BOOLEAN /\ torn' \subseteq Names
        /\ UNCHANGED <<sb, bits, data, expect, count>> /\ dir' = dir
    BY <1>3, <2>2 DEF Alloc, Done, disk
  <2>. QED BY <2>3, <2>4, <2>5
<1>4. CASE MarkBit
  <2>1. op' \in Operation
    BY <1>4 DEF MarkBit, Operation
  <2>2. op.content \in Contents /\ op.start \in Nat /\ op.next \in Nat
    BY LocalsTypes
  <2>3. Fitting'
    BY <1>4, <2>2, NeededSectors DEF MarkBit, Fitting, HasRun, Operation
  <2>4. op.start + op.next \in Blocks
    <3>1. /\ op.start + Needed(op.content) <= NBlocks /\ op.next < Needed(op.content)
          /\ Needed(op.content) \in Nat
      BY <1>4, <2>2, NeededSectors DEF MarkBit, Fitting, HasRun
    <3>2. op.start + op.next \in Int /\ op.start + op.next >= 0 /\ op.start + op.next <= NBlocks - 1
      BY <2>2, <3>1
    <3>. QED BY <3>2 DEF Blocks
  <2>. QED BY <1>4, <2>1, <2>3, <2>4 DEF MarkBit
<1>5. CASE WriteSector
  <2>1. op' \in Operation
    BY <1>5 DEF WriteSector, Operation
  <2>2. op.content \in Contents /\ op.start \in Nat /\ op.next \in Nat
    BY LocalsTypes
  <2>3. Fitting'
    BY <1>5, <2>2, NeededSectors DEF WriteSector, Fitting, HasRun, Operation
  <2>4. data' \in [Blocks -> (Contents \cup {None}) \X Nat]
    BY <1>5, <2>2 DEF WriteSector
  <2>. QED BY <1>5, <2>1, <2>3, <2>4 DEF WriteSector
<1>6. CASE WriteEntry
  <2>1. /\ op.content \in Contents /\ op.start \in Blocks /\ op.name \in Names
        /\ Stored[op.name] \in StoredNames
    BY DEF Operation, StoredNames
  <2>2. dir' \in [Slots -> Entry]
    <3>1. [name |-> Stored[op.name], content |-> op.content, start |-> op.start] \in Entry
      BY <2>1 DEF Entry, StoredNames
    <3>. QED BY <1>6, <3>1, EntriesTyped DEF WriteEntry
  <2>3. expect' \in [StoredNames -> Contents \cup {None}]
    BY <1>6, <2>1 DEF WriteEntry
  <2>4. Fitting'
    BY <1>6 DEF WriteEntry, Done, Fitting, HasRun
  <2>. QED BY <1>6, <2>1, <2>2, <2>3, <2>4, NoOpTyped DEF WriteEntry, Done
<1>. QED BY <1>1, <1>2, <1>3, <1>4, <1>5, <1>6

\* Formatting and the ephemeral flag; failures.
LEMMA TypeOtherSteps ==
  ASSUME TypeInv,
         \/ FormatSuperblock \/ FormatDirectory \/ FormatBitmap \/ SetFlag \/ ClearFlag
         \/ WriteLost \/ PowerFails
  PROVE  TypeInv'
<1>. USE DEF TypeInv, Steps, history
<1>1. CASE FormatSuperblock
  <2>1. op' \in Operation
    BY <1>1 DEF FormatSuperblock, Operation
  <2>2. Fitting'
    BY <1>1 DEF FormatSuperblock, Fitting, HasRun, Operation
  <2>. QED BY <1>1, <2>1, <2>2 DEF FormatSuperblock
<1>2. CASE FormatDirectory
  <2>1. op' \in Operation
    <3>1. op' = [op EXCEPT !.next = op.next + 1] /\ op \in Operation
      BY <1>2 DEF FormatDirectory
    <3>. QED BY ONLY <3>1 DEF Operation
  <2>2. Fitting'
    BY <1>2 DEF FormatDirectory, Fitting, HasRun, Operation
  <2>3. dir' \in [Slots -> Entry]
    BY <1>2, EntriesTyped DEF FormatDirectory
  <2>4. expect' \in [StoredNames -> Contents \cup {None}] /\ torn' \subseteq Names
    BY <1>2 DEF FormatDirectory
  <2>. QED BY <1>2, <2>1, <2>2, <2>3, <2>4 DEF FormatDirectory
<1>3. CASE FormatBitmap
  <2>1. Nothing \in [StoredNames -> Contents \cup {None}]
    BY DEF Nothing, StoredNames
  <2>2. op' \in Operation
    <3>1. op' = NoOp \/ op' = [op EXCEPT !.next = 0]
      BY <1>3 DEF FormatBitmap, Done
    <3>2. [op EXCEPT !.next = 0] \in Operation
      BY DEF Operation
    <3>. QED BY <3>1, <3>2, NoOpTyped
  <2>3. pc' \in Steps /\ bootstrap' \in BOOLEAN /\ dir' = dir
    BY <1>3 DEF FormatBitmap, Done, Operation
  <2>4. Fitting'
    BY <1>3 DEF FormatBitmap, Done, Fitting, HasRun, Operation
  <2>. QED BY <1>3, <2>1, <2>2, <2>3, <2>4 DEF FormatBitmap
<1>4. CASE SetFlag
  BY <1>4, NoOpTyped DEF SetFlag, Done, Fitting, HasRun
<1>5. CASE ClearFlag
  <2>1. op' \in Operation /\ op'.kind = "boot"
    BY <1>5, OperationsTyped DEF ClearFlag, WriteProfile, NoOp
  <2>2. Fitting'
    BY <1>5, <2>1 DEF ClearFlag, Fitting, HasRun
  <2>. QED BY <1>5, <2>1, <2>2 DEF ClearFlag
<1>6. CASE WriteLost
  <2>1. count' \in [ops : Nat, boots : Nat, failures : Nat]
    BY <1>6 DEF WriteLost
  <2>2. /\ op.content \in Contents /\ op.start \in Nat /\ op.next \in Nat /\ op.name \in Names
        /\ Sectors[op.content] \in Nat /\ Needed(op.content) \in Nat /\ Needed(op.content) >= 1
    BY LocalsTypes, NeededSectors
  <2>5. op' \in Operation
    <3>1. \/ op' = NoOp
          \/ op' = [op EXCEPT !.next = 0, !.lost = TRUE]
          \/ op' = [op EXCEPT !.next = op.next + 1, !.lost = TRUE]
      BY <1>6 DEF WriteLost, Done
    <3>2. ASSUME NEW k \in Nat PROVE [op EXCEPT !.next = k, !.lost = TRUE] \in Operation
      BY DEF Operation
    <3>3. 0 \in Nat /\ op.next + 1 \in Nat
      BY <2>2
    <3>4. /\ [op EXCEPT !.next = 0, !.lost = TRUE] \in Operation
          /\ [op EXCEPT !.next = op.next + 1, !.lost = TRUE] \in Operation
      BY ONLY <3>2, <3>3, Zenon
    <3>. QED BY <3>1, <3>4, NoOpTyped
  <2>3. Fitting'
    <3>1. CASE pc = "entry"
      BY <1>6, <3>1 DEF WriteLost, Done, Fitting, HasRun
    <3>2. CASE pc # "entry"
      <4>1. /\ op'.kind = op.kind /\ op'.content = op.content /\ op'.start = op.start
            /\ op'.next = IF pc = "mark" /\ op.next + 1 = Needed(op.content)
                          THEN 0 ELSE op.next + 1
            /\ pc' = IF pc = "mark" /\ op.next + 1 = Needed(op.content) THEN "data" ELSE pc
            /\ pc \in {"clear", "mark", "data"}
            /\ pc = "data" => op.next < Sectors[op.content]
        BY <1>6, <3>2 DEF WriteLost, Operation
      <4>2. CASE pc = "clear"
        BY <4>1, <4>2 DEF Fitting, HasRun
      <4>3. CASE pc = "mark"
        BY <4>1, <4>3, <2>2 DEF Fitting, HasRun
      <4>4. CASE pc = "data"
        BY <4>1, <4>4, <2>2 DEF Fitting, HasRun
      <4>. QED BY <4>1, <4>2, <4>3, <4>4
    <3>. QED BY <3>1, <3>2
  <2>4. pc' \in Steps /\ bootstrap' \in BOOLEAN /\ dir' = dir /\ torn' \subseteq Names
    BY <1>6, <2>2 DEF WriteLost, Done
  <2>. QED BY <1>6, <2>1, <2>3, <2>4, <2>5 DEF WriteLost
<1>7. CASE PowerFails
  <2>1. torn' \subseteq Names
    BY <1>7 DEF PowerFails, InFlight, Operation
  <2>2. Fitting'
    BY <1>7 DEF PowerFails, Fitting, HasRun
  <2>. QED BY <1>7, <2>1, <2>2, NoOpTyped DEF PowerFails, disk
<1>. QED BY <1>1, <1>2, <1>3, <1>4, <1>5, <1>6, <1>7

LEMMA TypeNext == TypeInv /\ [Next]_vars => TypeInv'
<1>. SUFFICES ASSUME TypeInv, [Next]_vars PROVE TypeInv'
  OBVIOUS
<1>1. CASE UNCHANGED vars
  BY <1>1 DEF TypeInv, Fitting, HasRun, vars, disk, history
<1>2. Profile \in Names /\ ProfileContent \in Contents
  OBVIOUS
<1>. QED BY <1>1, <1>2, TypeBegins, TypeFileSteps, TypeOtherSteps DEF Next

LEMMA TypeInvGivesTypes == TypeInv => FSTypeOK
BY DEF TypeInv, FSTypeOK, Steps, Operation

\* Every sector that the file system touches is on the disk, every entry it
\* writes is one, and the operation's locals stay within their bounds: for
\* every comparison of names, every disk, and with failures anywhere.
THEOREM FSTypeCorrect == Spec => []FSTypeOK
BY TypeInvGivesTypes, TypeInit, TypeNext, PTL DEF Spec

-----------------------------------------------------------------------------

(***************************************************************************)
(* Files, where names are compared exactly.                                *)
(***************************************************************************)
LEMMA MatchIsEqual == ExactNames => \A n \in Names : MatchAt(n) = {i \in Slots : dir[i].name = Stored[n]}
<1>. SUFFICES ASSUME ExactNames, NEW n \in Names, NEW i \in Slots
              PROVE  <<n, dir[i].name>> \in Matches <=> dir[i].name = Stored[n]
  BY DEF MatchAt
<1>. QED BY DEF ExactNames

LEMMA SafeIsFile == ExactNames => \A i \in Slots : Safe(i) => i \in Files
BY DEF ExactNames, Safe, Files

\* A file that is torn is not safe.
LEMMA TornIsNotSafe ==
  ASSUME ExactNames, torn \subseteq Names, NEW n \in torn, NEW i \in Slots, dir[i].name = Stored[n]
  PROVE  ~ Safe(i)
BY DEF ExactNames, Safe

LEMMA ExtentTyped ==
  ASSUME dir \in [Slots -> Entry], NEW i \in Slots
  PROVE  dir[i].start \in Nat /\ dir[i].content \in Contents /\ Sectors[dir[i].content] \in Nat
BY EntriesTyped DEF Blocks

LEMMA FilesInit == ExactNames /\ Init => FileInv
<1>. SUFFICES ASSUME ExactNames, Init PROVE FileInv
  OBVIOUS
<1>1. \A i \in Slots : dir[i].name = NoName /\ ~ Safe(i)
  BY DEF Init, NoEntry, Safe, ExactNames
<1>2. Targets /\ NewRun
  BY DEF Init, Targets, NewRun, HasRun, Replacing
<1>3. OnDisk /\ UniqueNames /\ Apart /\ Marked
  BY <1>1 DEF OnDisk, UniqueNames, Apart, Marked, Files
<1>4. Kept
  BY <1>1 DEF Init, Kept, ExactNames, Nothing
<1>. QED BY <1>2, <1>3, <1>4, TypeInit DEF FileInv

\* A step that writes no data, frees no sector and changes no entry keeps
\* every file that it leaves safe - if it does not abandon one being replaced.
QuietStep ==
  /\ dir' = dir /\ data' = data /\ expect' = expect
  /\ bits \subseteq bits' /\ torn \subseteq torn'
  /\ \A i \in Slots : InHand(i) /\ Safe(i)' => InHand(i)'

LEMMA QuietKeeps ==
  ASSUME ExactNames, FileInv, QuietStep
  PROVE  (OnDisk /\ UniqueNames /\ Apart /\ Marked /\ Kept)'
<1>1. \A i \in Slots : Safe(i)' => Safe(i)
  BY DEF QuietStep, Safe
<1>2. OnDisk' /\ UniqueNames'
  BY DEF FileInv, QuietStep, OnDisk, UniqueNames, Files
<1>3. Apart'
  BY <1>1 DEF FileInv, QuietStep, Apart, Files
<1>4. Marked'
  <2>. SUFFICES ASSUME NEW i \in Slots, Safe(i)', ~ InHand(i)' PROVE Extent(dir[i]) \subseteq bits'
    BY DEF QuietStep, Marked
  <2>. QED BY <1>1 DEF FileInv, QuietStep, Marked
<1>5. Kept'
  <2>. SUFFICES ASSUME NEW n \in Names \ torn'
                PROVE  /\ \A i \in Slots : dir[i].name = Stored[n] =>
                            /\ expect[Stored[n]] = dir[i].content
                            /\ ~ InHand(i)' => Holds(dir[i])
                       /\ (\A i \in Slots : dir[i].name # Stored[n]) => expect[Stored[n]] = None
    BY DEF QuietStep, Kept, Holds
  <2>1. n \in Names \ torn
    BY DEF QuietStep
  <2>2. ASSUME NEW i \in Slots, dir[i].name = Stored[n], ~ InHand(i)' PROVE ~ InHand(i)
    <3>1. Safe(i)'
      BY <2>2 DEF Safe, QuietStep
    <3>. QED BY <2>2, <3>1 DEF QuietStep
  <2>. QED BY <2>1, <2>2 DEF FileInv, Kept
<1>. QED BY <1>2, <1>3, <1>4, <1>5

\* Such steps outside of any operation on a file.
LEMMA IdleStepKeeps ==
  ASSUME ExactNames, FileInv, TypeInv', QuietStep, ~ Replacing', pc' # "wipe"
  PROVE  FileInv'
<1>1. Targets'
  BY DEF Targets, Replacing
<1>2. NewRun'
  BY DEF NewRun, HasRun, Replacing
<1>. QED BY <1>1, <1>2, QuietKeeps DEF FileInv

\* Where no file is in hand, QuietStep is about what it changes only.
LEMMA IdleIsQuiet ==
  ASSUME ~ Replacing, UNCHANGED disk, UNCHANGED expect, torn \subseteq torn'
  PROVE  QuietStep
BY DEF QuietStep, InHand, disk

LEMMA BeginsKeepFiles ==
  ASSUME ExactNames, FileInv, TypeInv', NEW n \in Names, NEW c \in Contents,
         \/ WriteFile(n, c) \/ ReadFile(n) \/ Format
         \/ BootmodeEphemeral \/ BootmodeNormal \/ Boot \/ Reboot
  PROVE  FileInv'
<1>. torn \subseteq Names
  BY DEF FileInv, TypeInv
<1>1. CASE WriteFile(n, c)
  <2>1. QuietStep
    BY <1>1, IdleIsQuiet DEF WriteFile, Begin, Replacing
  <2>. QED BY <1>1, <2>1, IdleStepKeeps DEF WriteFile, Begin, Replacing
<1>2. CASE ReadFile(n)
  <2>1. QuietStep
    BY <1>2, IdleIsQuiet DEF ReadFile, Replacing, history
  <2>. QED BY <1>2, <2>1, IdleStepKeeps DEF ReadFile, Replacing
<1>3. CASE Format
  <2>1. QuietStep
    BY <1>3, IdleIsQuiet DEF Format, Begin, Replacing
  <2>. QED BY <1>3, <2>1, IdleStepKeeps DEF Format, Begin, Replacing
<1>4. CASE BootmodeEphemeral
  <2>1. QuietStep
    BY <1>4, IdleIsQuiet DEF BootmodeEphemeral, Begin, Replacing
  <2>. QED BY <1>4, <2>1, IdleStepKeeps DEF BootmodeEphemeral, Begin, Replacing
<1>5. CASE BootmodeNormal
  <2>1. QuietStep
    BY <1>5 DEF BootmodeNormal, Begin, Replacing, QuietStep, InHand
  <2>. QED BY <1>5, <2>1, IdleStepKeeps DEF BootmodeNormal, Begin, Replacing
<1>6. CASE Boot
  <2>1. QuietStep
    BY <1>6, IdleIsQuiet DEF Boot, Replacing
  <2>. QED BY <1>6, <2>1, IdleStepKeeps DEF Boot, Replacing
<1>7. CASE Reboot
  <2>1. QuietStep
    BY <1>7, IdleIsQuiet DEF Reboot, Replacing, history
  <2>. QED BY <1>7, <2>1, IdleStepKeeps DEF Reboot, Replacing
<1>. QED BY <1>1, <1>2, <1>3, <1>4, <1>5, <1>6, <1>7

\* An entry with the name looked for is the only one.
LEMMA OnlyMatch ==
  ASSUME ExactNames, UniqueNames, NEW n \in Names, MatchAt(n) # {}
  PROVE  /\ Min(MatchAt(n)) \in Slots
         /\ dir[Min(MatchAt(n))].name = Stored[n]
         /\ \A j \in Slots \ {Min(MatchAt(n))} : dir[j].name # Stored[n]
<1>1. Min(MatchAt(n)) \in Slots /\ dir[Min(MatchAt(n))].name = Stored[n]
  BY FoundAt, MatchIsEqual
<1>2. Stored[n] # NoName
  BY DEF ExactNames
<1>. QED BY <1>1, <1>2 DEF UniqueNames, Files

LEMMA DeleteFileKeeps ==
  ASSUME ExactNames, FileInv, TypeInv', NEW n \in Names, DeleteFile(n)
  PROVE  FileInv'
<1>1. QuietStep
  BY IdleIsQuiet DEF DeleteFile, Begin, Replacing
<1>2. /\ pc' = "clear" /\ op'.kind = "delete" /\ op'.name = n /\ op'.slot = Min(MatchAt(n))
      /\ MatchAt(n) # {} /\ dir' = dir
  BY DEF DeleteFile, Begin, NoOp, disk
<1>3. Targets'
  BY <1>2, OnlyMatch DEF FileInv, Targets, Replacing
<1>4. NewRun'
  BY <1>2 DEF NewRun, HasRun
<1>. QED BY <1>1, <1>3, <1>4, QuietKeeps DEF FileInv

LEMMA LookupKeeps ==
  ASSUME ExactNames, FileInv, TypeInv', Lookup
  PROVE  FileInv'
<1>. torn' = torn /\ dir' = dir /\ op.name \in Names
  BY LocalsTypes DEF Lookup, history, disk, FileInv, TypeInv
<1>1. QuietStep
  BY IdleIsQuiet DEF Lookup, Replacing, history
<1>2. CASE MatchAt(op.name) # {}
  <2>1. /\ pc' = "clear" /\ op'.name = op.name /\ op'.slot = Min(MatchAt(op.name))
    BY <1>2 DEF Lookup, FileInv, TypeInv, Operation
  <2>2. Targets'
    BY <1>2, <2>1, OnlyMatch DEF FileInv, Targets, Replacing
  <2>3. NewRun'
    BY <2>1 DEF NewRun, HasRun
  <2>. QED BY <1>1, <2>2, <2>3, QuietKeeps DEF FileInv
<1>3. CASE MatchAt(op.name) = {} /\ FreeSlots # {}
  <2>1. /\ pc' = "alloc" /\ op'.name = op.name /\ op'.slot = Min(FreeSlots)
    BY <1>3 DEF Lookup, FileInv, TypeInv, Operation
  <2>2. Targets'
    <3>1. \A j \in Slots : dir[j].name # Stored[op.name]
      BY <1>3, MatchIsEqual
    <3>2. Min(FreeSlots) \in Slots /\ dir[Min(FreeSlots)].name = NoName
      BY <1>3, FoundAt DEF FreeSlots
    <3>. QED BY <2>1, <3>1, <3>2 DEF Targets, Replacing
  <2>3. NewRun'
    BY <2>1 DEF NewRun, HasRun
  <2>. QED BY <1>1, <2>2, <2>3, QuietKeeps DEF FileInv
<1>4. CASE MatchAt(op.name) = {} /\ FreeSlots = {}
  BY <1>1, <1>4, IdleStepKeeps DEF Lookup, Done, Replacing
<1>. QED BY <1>2, <1>3, <1>4

\* Freeing the old sectors takes nothing from a file that stays safe: no other
\* safe file has them if the one in hand is safe; if that one is torn, the files
\* that had them are torn, too, from now on.
LEMMA ClearBitKeeps ==
  ASSUME ExactNames, FileInv, TypeInv', ClearBit
  PROVE  FileInv'
<1>1. /\ dir' = dir /\ torn \subseteq torn' /\ data' = data /\ expect' = expect
      /\ op'.slot = op.slot /\ op'.name = op.name /\ op'.kind = op.kind
      /\ Replacing /\ Replacing' /\ pc = "clear" /\ pc' \in {"clear", "alloc", "entry"}
      /\ pc' = "entry" => op'.kind = "delete"
  BY DEF ClearBit, Frees, FileInv, TypeInv, Operation, Replacing
<1>2. Targets'
  BY <1>1 DEF Targets, FileInv, ClearBit
<1>3. NewRun'
  BY <1>1 DEF NewRun, HasRun
<1>4. CASE op.next < Sectors[dir[op.slot].content]
  <2>. DEFINE b == dir[op.slot].start + op.next
  <2>1. Frees(b) /\ op.slot \in Slots /\ op.name \in Names /\ dir[op.slot].name = Stored[op.name]
    BY <1>1, <1>4, LocalsTypes DEF ClearBit, FileInv, Targets, TypeInv
  <2>2. b \in Extent(dir[op.slot])
    <3>1. dir[op.slot].start \in Nat /\ Sectors[dir[op.slot].content] \in Nat /\ op.next \in Nat
      BY <2>1, ExtentTyped, LocalsTypes DEF FileInv, TypeInv
    <3>. QED BY <1>4, <3>1 DEF Extent
  <2>3. \A i \in Slots : Safe(i)' => Safe(i)
    BY <1>1 DEF Safe
  <2>. HIDE DEF b
  <2>4. ASSUME NEW i \in Slots \ {op.slot}, Safe(i)' PROVE b \notin Extent(dir[i])
    <3>1. CASE op.name \notin torn
      <4>1. Safe(op.slot)
        BY <2>1, <3>1 DEF Safe
      <4>. QED BY <2>1, <2>2, <2>3, <2>4, <4>1 DEF FileInv, Apart
    <3>2. CASE op.name \in torn
      <4>1. PICK n \in Names \ torn' : dir[i].name = Stored[n]
        BY <1>1, <2>4 DEF Safe
      <4>2. i \in Files \ {op.slot}
        BY <4>1 DEF Files, ExactNames
      <4>. QED BY <2>1, <3>2, <4>1, <4>2 DEF Frees
    <3>. QED BY <3>1, <3>2
  <2>5. Marked'
    BY <1>1, <2>1, <2>3, <2>4 DEF FileInv, Marked, InHand, Frees
  <2>6. (OnDisk /\ UniqueNames /\ Apart)'
    BY <1>1, <2>3 DEF FileInv, OnDisk, UniqueNames, Apart, Files
  <2>7. Kept'
    BY <1>1 DEF FileInv, Kept, InHand, Holds
  <2>. QED BY <1>2, <1>3, <2>5, <2>6, <2>7 DEF FileInv
<1>5. CASE ~ (op.next < Sectors[dir[op.slot].content])
  <2>1. QuietStep
    BY <1>1, <1>5 DEF ClearBit, QuietStep, InHand
  <2>. QED BY <1>2, <1>3, <2>1, QuietKeeps DEF FileInv
<1>. QED BY <1>4, <1>5

\* What NewRun and the file in hand need from a step over the run.
SameFile ==
  /\ dir' = dir /\ torn' = torn
  /\ op'.slot = op.slot /\ op'.name = op.name /\ op'.kind = op.kind
  /\ op'.content = op.content

LEMMA SameFileKeepsTargets ==
  ASSUME FileInv, SameFile, Replacing, pc' = pc \/ pc' \in {"alloc", "mark", "data", "entry"}
  PROVE  Targets'
BY DEF SameFile, FileInv, Targets, Replacing

\* The run found is free, so it touches no other safe file.
LEMMA AllocKeeps ==
  ASSUME ExactNames, FileInv, TypeInv', RoomToReplace, Alloc
  PROVE  FileInv'
<1>. DEFINE runs == RunsOf(Needed(op.content))
<1>1. CASE runs # {}
  <2>1. /\ SameFile /\ op'.start = Min(runs) /\ op'.next = 0
        /\ pc' = "mark" /\ bits' = bits /\ data' = data /\ expect' = expect
    BY <1>1 DEF Alloc, SameFile, disk, FileInv, TypeInv, Operation
  <2>2. pc = "alloc" /\ Replacing
    BY DEF Alloc, Replacing
  <2>3. Run' \cap bits = {}
    <3>1. Run' = Min(runs) .. Min(runs) + Needed(op.content) - 1
      BY <2>1 DEF Run, SameFile, Needed
    <3>. QED BY <1>1, <3>1, FoundAt DEF RunsOf
  <2>4. ASSUME NEW i \in Slots \ {op.slot}, Safe(i)' PROVE Extent(dir[i]) \cap Run' = {}
    <3>1. Extent(dir[i]) \subseteq bits
      BY <2>1, <2>4 DEF FileInv, Marked, InHand, Safe, SameFile
    <3>. QED BY <2>3, <3>1
  <2>5. NewRun'
    <3>1. op'.start \in Nat
      BY LocalsTypes DEF TypeInv
    <3>2. op'.start .. op'.start + op'.next - 1 = {}
      BY <2>1, <3>1
    <3>. QED BY <2>1, <2>4, <3>2 DEF NewRun, SameFile
  <2>6. QuietStep
    BY <2>1, <2>2 DEF QuietStep, InHand, SameFile, Replacing
  <2>. QED BY <2>1, <2>2, <2>5, <2>6, SameFileKeepsTargets, QuietKeeps DEF FileInv
<1>2. CASE runs = {}
  <2>1. /\ pc' = "idle" /\ UNCHANGED disk /\ expect' = expect
        /\ torn' = IF op.lost THEN torn \cup {op.name} ELSE torn
    BY <1>2 DEF Alloc, Done
  <2>2. pc = "alloc" /\ op.name \in Names /\ torn' \subseteq Names /\ dir' = dir
    BY <2>1, LocalsTypes DEF Alloc, FileInv, TypeInv, disk
  <2>3. ASSUME NEW i \in Slots, InHand(i) PROVE ~ Safe(i)'
    <3>1. i = op.slot /\ dir[i].name \in {NoName, Stored[op.name]}
      BY <2>2, <2>3 DEF InHand, FileInv, Targets
    <3>2. CASE dir[i].name = NoName
      BY <2>2, <3>2 DEF ExactNames, Safe
    <3>3. CASE dir[i].name # NoName
      <4>1. op.name \in torn' /\ dir'[i].name = Stored[op.name]
        BY <1>2, <2>1, <2>2, <3>1, <3>3 DEF RoomToReplace
      <4>. QED BY <2>2, <4>1 DEF ExactNames, Safe
    <3>. QED BY <3>2, <3>3
  <2>4. QuietStep
    BY <2>1, <2>2, <2>3 DEF QuietStep, disk
  <2>. QED BY <2>1, <2>4, IdleStepKeeps DEF Replacing
<1>. QED BY <1>1, <1>2

LEMMA MarkBitKeeps ==
  ASSUME ExactNames, FileInv, TypeInv', MarkBit
  PROVE  FileInv'
<1>1. /\ SameFile /\ op'.start = op.start /\ op'.lost = op.lost
      /\ pc = "mark" /\ Replacing /\ pc' \in {"mark", "data"}
      /\ bits' = bits \cup {op.start + op.next} /\ data' = data /\ expect' = expect
      /\ pc' = "mark" => op'.next = op.next + 1
      /\ pc' = "data" => op'.next = 0 /\ ~ (op.next + 1 < Needed(op.content))
  BY DEF MarkBit, SameFile, history, FileInv, TypeInv, Operation, Replacing
<1>2. /\ op.start \in Nat /\ op.next \in Nat /\ Needed(op.content) \in Nat
      /\ op.next < Needed(op.content)
  BY <1>1, LocalsTypes, NeededSectors DEF FileInv, TypeInv, Fitting
<1>3. Run' = Run
  BY <1>1 DEF Run, SameFile
<1>4. NewRun'
  <2>1. ~ op.lost => op.start .. op.start + op.next \subseteq bits'
    <3>1. op.start .. op.start + op.next = (op.start .. op.start + op.next - 1) \cup {op.start + op.next}
      BY <1>2
    <3>. QED BY <1>1, <3>1 DEF FileInv, NewRun
  <2>2. pc' = "mark" /\ ~ op'.lost => op'.start .. op'.start + op'.next - 1 \subseteq bits'
    <3>1. op.start + (op.next + 1) - 1 = op.start + op.next
      BY <1>2
    <3>. QED BY <1>1, <2>1, <3>1
  <2>3. pc' = "data" /\ ~ op'.lost => Run \subseteq bits'
    <3>1. pc' = "data" => Run = op.start .. op.start + op.next
      BY <1>1, <1>2 DEF Run
    <3>. QED BY <1>1, <2>1, <3>1
  <2>4. pc' = "data" => 0 .. op'.next - 1 = {}
    BY <1>1
  <2>5. \A i \in Slots \ {op.slot} : Safe(i)' => Extent(dir[i]) \cap Run = {}
    BY <1>1 DEF FileInv, NewRun, HasRun, Safe, SameFile
  <2>. QED BY <1>1, <1>3, <2>2, <2>3, <2>4, <2>5 DEF NewRun, SameFile
<1>5. QuietStep
  BY <1>1 DEF QuietStep, InHand, SameFile, Replacing
<1>. QED BY <1>1, <1>4, <1>5, SameFileKeepsTargets, QuietKeeps DEF FileInv

\* Data goes into the run only.
LEMMA WriteSectorKeeps ==
  ASSUME ExactNames, FileInv, TypeInv', WriteSector
  PROVE  FileInv'
<1>1. /\ SameFile /\ op'.start = op.start /\ op'.lost = op.lost
      /\ pc = "data" /\ Replacing /\ Replacing' /\ pc' \in {"data", "entry"}
      /\ bits' = bits /\ expect' = expect
  BY DEF WriteSector, SameFile, history, FileInv, TypeInv, Operation, Replacing
<1>2. /\ op.start \in Nat /\ op.next \in Nat /\ op.content \in Contents
      /\ Needed(op.content) \in Nat /\ Sectors[op.content] \in Nat
      /\ Sectors[op.content] <= Needed(op.content)
      /\ op.start + Needed(op.content) <= NBlocks /\ op.next <= Sectors[op.content]
  BY <1>1, LocalsTypes, NeededSectors DEF FileInv, TypeInv, Fitting, HasRun
<1>3. Run' = Run /\ \A i \in Slots \ {op.slot} : Safe(i)' => Extent(dir[i]) \cap Run = {}
  BY <1>1 DEF Run, SameFile, FileInv, NewRun, HasRun, Safe
<1>4. CASE op.next < Sectors[op.content]
  <2>1. /\ data' = [data EXCEPT ![op.start + op.next] = <<op.content, op.next>>]
        /\ op'.next = op.next + 1 /\ pc' = "data"
    BY <1>1, <1>4 DEF WriteSector, FileInv, TypeInv, Operation
  <2>2. op.start + op.next \in Run /\ op.start + op.next \in Blocks
    BY <1>2, <1>4 DEF Run, Blocks
  <2>3. ~ op.lost => \A k \in 0 .. op'.next - 1 : data'[op.start + k] = <<op.content, k>>
    <3>. op'.next - 1 = op.next
      BY <1>2, <2>1
    <3>. SUFFICES ASSUME ~ op.lost, NEW k \in 0 .. op.next PROVE data'[op.start + k] = <<op.content, k>>
      OBVIOUS
    <3>1. data'[op.start + op.next] = <<op.content, op.next>>
      BY <2>1, <2>2 DEF FileInv, TypeInv
    <3>2. k # op.next => k \in 0 .. op.next - 1
      BY <1>2
    <3>3. ASSUME k # op.next PROVE data'[op.start + k] = data[op.start + k]
      <4>1. op.start + k # op.start + op.next /\ op.start + k \in Blocks
        BY <1>2, <1>4, <3>3 DEF Blocks
      <4>. QED BY <2>1, <4>1 DEF FileInv, TypeInv
    <3>. QED BY <1>1, <3>1, <3>2, <3>3 DEF FileInv, NewRun
  <2>4. NewRun'
    BY <1>1, <1>3, <2>1, <2>3 DEF FileInv, NewRun, SameFile
  <2>5. ASSUME NEW i \in Slots \ {op.slot}, Safe(i)', Holds(dir[i]) PROVE Holds(dir[i])'
    <3>1. /\ dir[i].start \in Nat /\ Sectors[dir[i].content] \in Nat /\ i \in Files
      BY <1>1, <2>5, ExtentTyped, SafeIsFile DEF FileInv, TypeInv, Safe, SameFile
    <3>. SUFFICES ASSUME NEW k \in 0 .. Sectors[dir[i].content] - 1
                  PROVE  data'[dir[i].start + k] = data[dir[i].start + k]
      BY <1>1, <2>5 DEF Holds, SameFile
    <3>2. dir[i].start + k \in Extent(dir[i])
      BY <3>1 DEF Extent
    <3>3. dir[i].start + k # op.start + op.next
      BY <1>3, <2>2, <2>5, <3>2
    <3>4. dir[i].start + k \in Blocks
      BY <3>1 DEF FileInv, OnDisk, Blocks
    <3>. QED BY <2>1, <3>3, <3>4 DEF FileInv, TypeInv
  <2>6. Kept'
    <3>. SUFFICES ASSUME NEW n \in Names \ torn
                  PROVE  /\ \A i \in Slots : dir[i].name = Stored[n] =>
                              /\ expect[Stored[n]] = dir[i].content
                              /\ ~ InHand(i)' => Holds(dir[i])'
                         /\ (\A i \in Slots : dir[i].name # Stored[n]) => expect[Stored[n]] = None
      BY <1>1 DEF Kept, SameFile
    <3>1. ASSUME NEW i \in Slots, dir[i].name = Stored[n], ~ InHand(i)' PROVE Holds(dir[i])'
      <4>1. i # op.slot /\ ~ InHand(i) /\ Safe(i)'
        BY <1>1, <3>1 DEF InHand, SameFile, Safe
      <4>. QED BY <2>5, <3>1, <4>1 DEF FileInv, Kept
    <3>. QED BY <3>1 DEF FileInv, Kept
  <2>7. (OnDisk /\ UniqueNames /\ Apart /\ Marked)'
    BY <1>1 DEF FileInv, OnDisk, UniqueNames, Apart, Marked, Files, Safe, InHand, SameFile
  <2>. QED BY <1>1, <2>4, <2>6, <2>7, SameFileKeepsTargets DEF FileInv
<1>5. CASE ~ (op.next < Sectors[op.content])
  <2>1. data' = data /\ op' = op /\ pc' = "entry"
    BY <1>1, <1>5 DEF WriteSector
  <2>2. op.next = Sectors[op.content]
    BY <1>2, <1>5
  <2>3. NewRun'
    BY <1>1, <1>3, <2>1, <2>2 DEF FileInv, NewRun, SameFile
  <2>4. QuietStep
    BY <1>1, <2>1 DEF QuietStep, InHand, SameFile
  <2>. QED BY <1>1, <2>3, <2>4, SameFileKeepsTargets, QuietKeeps DEF FileInv
<1>. QED BY <1>4, <1>5

\* The entry makes the run the file's: if nothing was lost, the file is as it
\* was last written, and not torn any more if it was.
LEMMA WriteEntryKeeps ==
  ASSUME ExactNames, FileInv, TypeInv', WriteEntry
  PROVE  FileInv'
<1>. PICK slot \in Slots : slot = op.slot
  BY DEF FileInv, Targets, WriteEntry, Replacing
<1>. DEFINE n == op.name
            new == [name |-> Stored[n], content |-> op.content, start |-> op.start]
<1>1. /\ n \in Names /\ op.content \in Contents /\ op.start \in Nat /\ Stored[n] # NoName
      /\ Stored[n] \in StoredNames
      /\ dir[slot].name \in {NoName, Stored[n]}
      /\ \A j \in Slots \ {slot} : dir[j].name # Stored[n]
      /\ pc = "entry" /\ Replacing
  BY LocalsTypes
  DEF FileInv, TypeInv, Targets, WriteEntry, Replacing, ExactNames, StoredNames
<1>2. /\ dir' = [dir EXCEPT ![slot] = IF op.kind = "delete" THEN NoEntry ELSE new]
      /\ expect' = [expect EXCEPT ![Stored[n]] = IF op.kind = "delete" THEN None ELSE op.content]
      /\ torn' = IF op.lost THEN torn \cup {n} ELSE torn \ {n}
      /\ pc' = "idle" /\ bits' = bits /\ data' = data
  BY <1>1 DEF WriteEntry, Done
<1>. HIDE DEF new
<1>3. /\ dir'[slot] = IF op.kind = "delete" THEN NoEntry ELSE new
      /\ \A i \in Slots \ {slot} : dir'[i] = dir[i]
      /\ new.name = Stored[n] /\ new.content = op.content /\ new.start = op.start
      /\ NoEntry.name = NoName
  BY <1>1, <1>2 DEF FileInv, TypeInv, new, NoEntry
<1>5. ASSUME NEW m \in Names \ torn', m # n PROVE m \notin torn /\ Stored[m] # Stored[n]
  BY <1>1, <1>2, <1>5 DEF ExactNames
<1>6. ASSUME NEW i \in Slots \ {slot}, Safe(i)' PROVE Safe(i)
  <2>1. PICK m \in Names \ torn' : dir[i].name = Stored[m]
    BY <1>3, <1>6 DEF Safe
  <2>. QED BY <1>1, <1>5, <2>1 DEF Safe
<1>7. ASSUME Safe(slot)' PROVE op.kind # "delete" /\ ~ op.lost /\ HasRun
  <2>1. PICK m \in Names \ torn' : dir'[slot].name = Stored[m]
    BY <1>7 DEF Safe
  <2>2. m = n /\ op.kind # "delete"
    BY <1>1, <1>3, <2>1 DEF ExactNames
  <2>. QED BY <1>1, <1>2, <2>1, <2>2 DEF HasRun
<1>9. op.kind # "delete" =>
        /\ HasRun /\ Extent(new) \subseteq Run
        /\ new.start + Sectors[new.content] <= NBlocks
  <2>1. /\ Sectors[op.content] \in Nat /\ Needed(op.content) \in Nat
        /\ Sectors[op.content] <= Needed(op.content)
    BY <1>1, NeededSectors
  <2>2. Extent(new) \subseteq Run
    BY <1>1, <1>3, <2>1 DEF Extent, Run
  <2>. QED BY <1>1, <1>3, <2>1, <2>2 DEF FileInv, TypeInv, Fitting, HasRun
<1>10. Targets' /\ NewRun'
  BY <1>2 DEF Targets, NewRun, HasRun, Replacing
<1>11. OnDisk'
  BY <1>1, <1>3, <1>9 DEF FileInv, OnDisk, Files
<1>12. UniqueNames'
  BY <1>1, <1>3 DEF FileInv, UniqueNames, Files
<1>13. Apart'
  <2>1. ASSUME NEW i \in Slots \ {slot}, Safe(i)', Safe(slot)'
        PROVE  Extent(dir'[i]) \cap Extent(dir'[slot]) = {}
    <3>1. dir'[slot] = new /\ HasRun
      BY <1>3, <1>7, <2>1
    <3>2. Extent(dir[i]) \cap Run = {}
      BY <1>6, <2>1, <3>1 DEF FileInv, NewRun
    <3>. QED BY <1>3, <1>7, <1>9, <2>1, <3>1, <3>2
  <2>2. ASSUME NEW i \in Slots \ {slot}, NEW j \in Slots \ {slot}, Safe(i)', Safe(j)', i # j
        PROVE  Extent(dir'[i]) \cap Extent(dir'[j]) = {}
    BY <1>3, <1>6, <2>2 DEF FileInv, Apart
  <2>. QED BY <2>1, <2>2 DEF Apart
<1>14. Marked'
  <2>. SUFFICES ASSUME NEW i \in Slots, Safe(i)' PROVE Extent(dir'[i]) \subseteq bits
    BY <1>2 DEF Marked
  <2>1. CASE i = slot
    BY <1>1, <1>3, <1>7, <1>9, <2>1 DEF FileInv, NewRun
  <2>2. CASE i # slot
    BY <1>3, <1>6, <2>2 DEF FileInv, Marked, InHand
  <2>. QED BY <2>1, <2>2
<1>15. Kept'
  <2>. SUFFICES ASSUME NEW m \in Names \ torn'
                PROVE  /\ \A i \in Slots : dir'[i].name = Stored[m] =>
                            expect'[Stored[m]] = dir'[i].content /\ Holds(dir[i])'
                       /\ (\A i \in Slots : dir'[i].name # Stored[m]) => expect'[Stored[m]] = None
    BY DEF Kept
  <2>0. \A e : Holds(e) <=> \A k \in 0 .. Sectors[e.content] - 1 : data[e.start + k] = <<e.content, k>>
    BY DEF Holds
  <2>1. CASE m # n
    <3>1. m \notin torn /\ Stored[m] # Stored[n] /\ expect'[Stored[m]] = expect[Stored[m]]
      BY <1>1, <1>2, <1>5, <2>1 DEF FileInv, TypeInv, StoredNames
    <3>2. \A i \in Slots : dir'[i].name = Stored[m] => i # slot
      BY <1>3, <3>1 DEF ExactNames
    <3>3. ASSUME NEW i \in Slots, dir'[i].name = Stored[m]
          PROVE  expect'[Stored[m]] = dir'[i].content /\ Holds(dir[i])'
      <4>1. i # slot /\ dir'[i] = dir[i] /\ ~ InHand(i)
        BY <1>3, <3>2, <3>3 DEF InHand
      <4>2. expect[Stored[m]] = dir[i].content /\ Holds(dir[i])
        BY <1>1, <3>1, <3>3, <4>1 DEF FileInv, Kept
      <4>. QED BY <1>2, <3>1, <4>1, <4>2 DEF Holds
    <3>4. ASSUME \A i \in Slots : dir'[i].name # Stored[m] PROVE expect'[Stored[m]] = None
      <4>1. \A i \in Slots : dir[i].name # Stored[m]
        BY <1>1, <1>3, <3>1, <3>4 DEF ExactNames
      <4>. QED BY <1>1, <3>1, <4>1 DEF FileInv, Kept
    <3>. QED BY <3>3, <3>4
  <2>2. CASE m = n
    <3>1. expect'[Stored[m]] = IF op.kind = "delete" THEN None ELSE op.content
      BY <1>1, <1>2, <2>2 DEF FileInv, TypeInv
    <3>2. CASE op.kind = "delete"
      BY <1>1, <1>3, <2>2, <3>1, <3>2
    <3>3. CASE op.kind # "delete"
      <4>1. \A k \in 0 .. Sectors[op.content] - 1 : data[op.start + k] = <<op.content, k>>
        <5>1. ~ op.lost
          BY <1>2, <2>2
        <5>. QED BY <1>1, <3>3, <5>1 DEF FileInv, NewRun
      <4>2. Holds(dir[slot])'
        <5>1. dir'[slot].content = op.content /\ dir'[slot].start = op.start /\ data' = data
          BY <1>2, <1>3, <3>3
        <5>. QED BY <4>1, <5>1 DEF Holds
      <4>3. \A i \in Slots : dir'[i].name = Stored[m] => i = slot
        BY <1>1, <1>3, <2>2
      <4>. QED BY <1>1, <1>3, <2>2, <3>1, <3>3, <4>2, <4>3
    <3>. QED BY <3>2, <3>3
  <2>. QED BY <2>1, <2>2
<1>. QED BY <1>10, <1>11, <1>12, <1>13, <1>14, <1>15 DEF FileInv

-----------------------------------------------------------------------------

\* Failures: the file in hand becomes torn, at once or when its entry is written.
LEMMA InHandIsTorn ==
  ASSUME ExactNames, FileInv, dir' = dir, torn' \subseteq Names,
         NEW i \in Slots, InHand(i), dir[i].name # NoName => op.name \in torn'
  PROVE  ~ Safe(i)'
<1>1. dir[i].name \in {NoName, Stored[op.name]}
  BY DEF InHand, FileInv, Targets
<1>. QED BY <1>1 DEF ExactNames, Safe

LEMMA PowerFailsKeeps ==
  ASSUME ExactNames, FileInv, TypeInv', PowerFails
  PROVE  FileInv'
<1>1. /\ UNCHANGED disk /\ dir' = dir /\ expect' = expect
      /\ pc' = "off" /\ torn' = torn \cup InFlight /\ torn' \subseteq Names
  BY DEF PowerFails, disk, TypeInv
<1>2. ASSUME NEW i \in Slots, InHand(i), dir[i].name # NoName PROVE op.name \in torn'
  BY <1>1, <1>2 DEF InFlight, InHand
<1>3. QuietStep
  BY <1>1, <1>2, InHandIsTorn DEF QuietStep, disk
<1>. QED BY <1>1, <1>3, IdleStepKeeps DEF Replacing

LEMMA WriteLostKeeps ==
  ASSUME ExactNames, FileInv, TypeInv', WriteLost
  PROVE  FileInv'
<1>1. CASE pc = "entry"
  <2>1. /\ pc' = "idle" /\ torn' = torn \cup {op.name} /\ torn' \subseteq Names
        /\ dir' = dir /\ bits' = bits /\ data' = data /\ expect' = expect
    BY <1>1 DEF WriteLost, Done, TypeInv
  <2>2. QuietStep
    BY <1>1, <2>1, InHandIsTorn DEF QuietStep
  <2>. QED BY <2>1, <2>2, IdleStepKeeps DEF Replacing
<1>2. CASE pc # "entry"
  <2>1. /\ SameFile /\ op'.start = op.start /\ op'.lost = TRUE
        /\ Replacing /\ Replacing'
        /\ pc' = pc \/ (pc = "mark" /\ pc' = "data")
        /\ bits' = bits /\ data' = data /\ expect' = expect
    BY <1>2 DEF WriteLost, SameFile, FileInv, TypeInv, Operation, Replacing
  <2>2. NewRun'
    <3>1. Run' = Run
      BY <2>1 DEF Run, SameFile
    <3>2. HasRun' => HasRun
      BY <1>2, <2>1 DEF HasRun
    <3>3. \A i \in Slots : Safe(i)' => Safe(i)
      BY <2>1 DEF Safe, SameFile
    <3>. QED BY <2>1, <3>1, <3>2, <3>3 DEF FileInv, NewRun, SameFile
  <2>3. QuietStep
    BY <2>1 DEF QuietStep, InHand, SameFile
  <2>. QED BY <2>1, <2>2, <2>3, SameFileKeepsTargets, QuietKeeps DEF FileInv
<1>. QED BY <1>1, <1>2

-----------------------------------------------------------------------------

\* Formatting, and the ephemeral flag.
LEMMA FormattingKeeps ==
  ASSUME ExactNames, FileInv, TypeInv',
         \/ FormatSuperblock \/ FormatDirectory \/ FormatBitmap \/ SetFlag \/ ClearFlag
  PROVE  FileInv'
<1>1. CASE FormatSuperblock
  <2>1. /\ pc' = "wipe" /\ op'.next = 1 /\ dir' = dir
    BY <1>1 DEF FormatSuperblock, FileInv, TypeInv, Operation
  <2>2. QuietStep
    BY <1>1 DEF FormatSuperblock, QuietStep, InHand, Replacing
  <2>3. Targets' /\ NewRun'
    BY <2>1 DEF Targets, NewRun, HasRun, Replacing, Slots
  <2>. QED BY <2>2, <2>3, QuietKeeps DEF FileInv
<1>2. CASE FormatDirectory
  <2>. DEFINE gone == dir[op.next].name
  <2>1. /\ dir' = [dir EXCEPT ![op.next] = NoEntry] /\ op'.next = op.next + 1
        /\ op.next \in Slots /\ pc = "wipe" /\ pc' = "wipe" /\ op.next \in Nat
        /\ bits' = bits /\ data' = data /\ torn' = {n \in torn : Stored[n] # gone}
    BY <1>2, LocalsTypes DEF FormatDirectory, FileInv, TypeInv, Operation
  <2>2. /\ dir'[op.next] = NoEntry /\ \A i \in Slots \ {op.next} : dir'[i] = dir[i]
        /\ NoEntry.name = NoName
    BY <2>1 DEF FileInv, TypeInv, NoEntry
  <2>3. \A n \in Names : expect'[Stored[n]] = IF Stored[n] = gone THEN None ELSE expect[Stored[n]]
    BY <1>2 DEF FormatDirectory, FileInv, TypeInv, StoredNames
  <2>. HIDE DEF gone
  <2>4. Targets' /\ NewRun'
    <3>1. op'.next \in 1 .. NSlots + 1
      BY <2>1 DEF Slots
    <3>2. \A i \in Slots : i < op'.next => dir'[i] = NoEntry
      <4>1. \A i \in Slots : i < op.next + 1 => i < op.next \/ i = op.next
        BY <2>1 DEF Slots
      <4>. QED BY <2>1, <2>2, <4>1 DEF FileInv, Targets
    <3>. QED BY <2>1, <3>1, <3>2 DEF Targets, NewRun, HasRun, Replacing
  \* Its name is no other entry's.
  <2>5. \A i \in Slots, n \in Names : dir'[i].name = Stored[n] => i # op.next /\ Stored[n] # gone
    <3>. SUFFICES ASSUME NEW i \in Slots, NEW n \in Names, dir'[i].name = Stored[n]
                  PROVE  i # op.next /\ Stored[n] # gone
      OBVIOUS
    <3>1. i # op.next /\ dir[i].name = Stored[n] /\ Stored[n] # NoName
      BY <2>2 DEF ExactNames
    <3>. QED BY <2>1, <3>1 DEF FileInv, UniqueNames, Files, gone
  <2>6. \A i \in Slots : Safe(i)' => Safe(i) /\ i # op.next /\ ~ InHand(i)
    BY <2>1, <2>2, <2>5 DEF Safe, InHand, Replacing
  <2>7. Files' = Files \ {op.next}
    BY <2>1, <2>2 DEF Files
  <2>8. OnDisk' /\ UniqueNames'
    BY <2>2, <2>7 DEF FileInv, OnDisk, UniqueNames, Files
  <2>9. Apart' /\ Marked'
    BY <2>1, <2>2, <2>6, <2>7 DEF FileInv, Apart, Marked
  <2>10. Kept'
    <3>. SUFFICES ASSUME NEW n \in Names \ torn'
                  PROVE  /\ \A i \in Slots : dir'[i].name = Stored[n] =>
                              expect'[Stored[n]] = dir'[i].content /\ Holds(dir[i])'
                         /\ (\A i \in Slots : dir'[i].name # Stored[n]) => expect'[Stored[n]] = None
      BY DEF Kept
    <3>1. CASE Stored[n] = gone
      BY <2>3, <2>5, <3>1
    <3>2. CASE Stored[n] # gone
      <4>1. n \notin torn /\ expect'[Stored[n]] = expect[Stored[n]]
        BY <2>1, <2>3, <3>2
      <4>2. \A i \in Slots : dir[i].name = Stored[n] => i # op.next
        BY <3>2 DEF gone
      <4>3. ASSUME NEW i \in Slots, dir'[i].name = Stored[n]
            PROVE  expect'[Stored[n]] = dir'[i].content /\ Holds(dir[i])'
        <5>1. dir'[i] = dir[i] /\ ~ InHand(i)
          BY <2>1, <2>2, <2>5, <4>3 DEF InHand, Replacing
        <5>2. expect[Stored[n]] = dir[i].content /\ Holds(dir[i])
          BY <4>1, <4>3, <5>1 DEF FileInv, Kept
        <5>. QED BY <2>1, <4>1, <5>1, <5>2 DEF Holds
      <4>4. ASSUME \A i \in Slots : dir'[i].name # Stored[n] PROVE expect'[Stored[n]] = None
        <5>1. \A i \in Slots : dir[i].name # Stored[n]
          BY <2>2, <4>2, <4>4
        <5>. QED BY <4>1, <5>1 DEF FileInv, Kept
      <4>. QED BY <4>3, <4>4
    <3>. QED BY <3>1, <3>2
  <2>. QED BY <2>4, <2>8, <2>9, <2>10 DEF FileInv
<1>3. CASE FormatBitmap
  <2>1. /\ dir' = dir /\ torn' = {} /\ expect' = Nothing /\ pc' \in {"idle", "lookup", "setflag", "unflag"}
        /\ pc = "wipe" /\ op.next \notin Slots
    BY <1>3, LocalsTypes DEF FormatBitmap, Done, FileInv, TypeInv
  <2>2. \A i \in Slots : dir[i].name = NoName
    <3>1. op.next \in 1 .. NSlots + 1 /\ \A i \in Slots : i < op.next => dir[i] = NoEntry
      BY <2>1 DEF FileInv, Targets
    <3>2. \A i \in Slots : i < op.next
      BY <2>1, <3>1 DEF Slots
    <3>. QED BY <3>1, <3>2 DEF NoEntry
  <2>3. \A i \in Slots : ~ Safe(i)'
    BY <2>1, <2>2 DEF Safe, ExactNames
  <2>4. Targets' /\ NewRun'
    BY <2>1 DEF Targets, NewRun, HasRun, Replacing
  <2>5. OnDisk' /\ UniqueNames' /\ Apart' /\ Marked'
    BY <2>1, <2>2, <2>3 DEF OnDisk, UniqueNames, Apart, Marked, Files
  <2>6. Kept'
    BY <2>1, <2>2 DEF Kept, ExactNames, Nothing
  <2>. QED BY <2>4, <2>5, <2>6 DEF FileInv
<1>4. CASE SetFlag
  <2>1. QuietStep
    BY <1>4 DEF SetFlag, QuietStep, InHand, Replacing
  <2>. QED BY <1>4, <2>1, IdleStepKeeps DEF SetFlag, Done, Replacing
<1>5. CASE ClearFlag
  <2>1. QuietStep
    BY <1>5 DEF ClearFlag, QuietStep, InHand, Replacing, history
  <2>. QED BY <1>5, <2>1, IdleStepKeeps DEF ClearFlag, Replacing
<1>. QED BY <1>1, <1>2, <1>3, <1>4, <1>5

LEMMA FilesNext == ExactNames /\ FileInv /\ RoomToReplace /\ [Next]_vars => FileInv'
<1>. SUFFICES ASSUME ExactNames, FileInv, RoomToReplace, [Next]_vars PROVE FileInv'
  OBVIOUS
<1>1. TypeInv'
  BY TypeNext DEF FileInv
<1>2. CASE UNCHANGED vars
  <2>1. QuietStep /\ Run' = Run /\ HasRun' = HasRun
    BY <1>2 DEF vars, disk, history, QuietStep, InHand, Replacing, Run, HasRun
  <2>2. Targets'
    BY <1>2 DEF vars, disk, history, FileInv, Targets, Replacing
  <2>3. NewRun'
    BY <1>2, <2>1 DEF vars, disk, history, FileInv, NewRun, Safe
  <2>. QED BY <1>1, <2>1, <2>2, <2>3, QuietKeeps DEF FileInv
<1>3. Profile \in Names /\ ProfileContent \in Contents
  OBVIOUS
<1>. QED
  BY <1>1, <1>2, <1>3, BeginsKeepFiles, DeleteFileKeeps, LookupKeeps, ClearBitKeeps, AllocKeeps,
    MarkBitKeeps, WriteSectorKeeps, WriteEntryKeeps, WriteLostKeeps, PowerFailsKeeps, FormattingKeeps
  DEF Next

LEMMA FilesApart == FileInv => FilesKeptApart
<1>. SUFFICES ASSUME FileInv PROVE FilesKeptApart
  OBVIOUS
<1>. DEFINE safe == {i \in Files : \A n \in torn : dir[i].name # Stored[n]}
<1>1. ASSUME NEW i \in safe PROVE i \in Slots /\ Safe(i)
  <2>1. i \in Slots /\ dir[i].name # NoName /\ dir[i] \in Entry
    BY DEF Files, FileInv, TypeInv
  <2>2. PICK n \in Names : dir[i].name = Stored[n]
    BY <2>1 DEF Entry
  <2>. QED BY <2>1, <2>2 DEF Safe
<1>2. pc \in {"idle", "off"} => \A i : ~ InHand(i)
  BY DEF InHand, Replacing
<1>3. pc \in {"idle", "off"} => \A i \in safe : Extent(dir[i]) \subseteq bits
  BY <1>1, <1>2 DEF FileInv, Marked
<1>4. \A i, j \in safe : i # j => Extent(dir[i]) \cap Extent(dir[j]) = {}
  BY <1>1 DEF FileInv, Apart
<1>. QED BY <1>3, <1>4 DEF FilesKeptApart, FileInv, UniqueNames

LEMMA FilesDurable == ExactNames /\ FileInv => Durable
<1>. SUFFICES ASSUME ExactNames, FileInv, NEW n \in Names \ (torn \cup InFlight)
              PROVE  View(n) = expect[Stored[n]]
  BY DEF Durable
<1>1. MatchAt(n) = {i \in Slots : dir[i].name = Stored[n]}
  BY MatchIsEqual
<1>2. CASE MatchAt(n) = {}
  BY <1>1, <1>2 DEF View, FileInv, Kept
<1>3. CASE MatchAt(n) # {}
  <2>1. PICK i \in Slots : i = Min(MatchAt(n)) /\ dir[i].name = Stored[n]
    BY <1>1, <1>3, FoundAt
  <2>2. i \in Files
    BY <2>1 DEF ExactNames, Files
  <2>3. ~ InHand(i)
    <3>. SUFFICES ASSUME InHand(i) PROVE FALSE
      OBVIOUS
    <3>1. op.name \in Names /\ Stored[n] = Stored[op.name]
      BY <2>1, LocalsTypes DEF InHand, FileInv, TypeInv, Targets, ExactNames
    <3>2. InFlight = {op.name}
      BY <2>2 DEF InFlight, InHand, Files
    <3>. QED BY <3>1, <3>2 DEF ExactNames
  <2>4. expect[Stored[n]] = dir[i].content /\ Holds(dir[i])
    BY <1>1, <2>1, <2>3 DEF FileInv, Kept
  <2>5. \A k \in 0 .. Sectors[dir[i].content] - 1 : dir[i].start + k \in Blocks
    <3>1. /\ dir[i].start \in Nat /\ Sectors[dir[i].content] \in Nat
          /\ dir[i].start + Sectors[dir[i].content] <= NBlocks
      BY <2>2, ExtentTyped DEF FileInv, TypeInv, OnDisk
    <3>. QED BY <3>1 DEF Blocks
  <2>. QED BY <1>3, <2>1, <2>4, <2>5 DEF View, Holds
<1>. QED BY <1>2, <1>3

\* A name has one entry; of the files that are not torn no two share a sector,
\* and between operations their sectors are marked: for every disk, every set of
\* names and contents, and any number of failures - as long as each overwrite
\* finds room once it has freed the old version.  Torn are the files that a
\* failure hit, and those whose sectors a write or delete of a torn file frees.
THEOREM FilesKeptApartCorrect ==
  ASSUME ExactNames
  PROVE  Spec /\ []RoomToReplace => []FilesKeptApart
<1>1. Init => FileInv
  BY FilesInit
<1>2. FileInv /\ RoomToReplace /\ [Next]_vars => FileInv'
  BY FilesNext
<1>. QED BY <1>1, <1>2, FilesApart, PTL DEF Spec

\* At every instant each file reads as it was last written, except the torn ones
\* and the one just being replaced: a power failure between any two sector
\* writes, a lost write and a reboot cost no file but the one under way, and
\* later a file is lost only to a write or delete of a torn file that frees its
\* sectors (filesystem.rs:199).
THEOREM DurableCorrect ==
  ASSUME ExactNames
  PROVE  Spec /\ []RoomToReplace => []Durable
<1>1. Init => FileInv
  BY FilesInit
<1>2. FileInv /\ RoomToReplace /\ [Next]_vars => FileInv'
  BY FilesNext
<1>3. FileInv => Durable
  BY FilesDurable
<1>. QED BY <1>1, <1>2, <1>3, PTL DEF Spec

-----------------------------------------------------------------------------

(***************************************************************************)
(* An overwrite that needs no more sectors than the old version had finds  *)
(* room: the old version's, at least.                                      *)
(***************************************************************************)
SameSizes == \A c, d \in Contents : Sectors[c] = Sectors[d] /\ Sectors[c] >= 1

LEMMA FreedNext == FileInv /\ Freed /\ [Next]_vars => Freed'
<1>. SUFFICES ASSUME FileInv, Freed, [Next]_vars PROVE Freed'
  OBVIOUS
<1>1. CASE Lookup
  <2>1. dir' = dir /\ bits' = bits /\ op \in Operation /\ pc' \in {"clear", "alloc", "idle"}
    BY <1>1 DEF Lookup, Done, disk, FileInv, TypeInv
  <2>2. ASSUME pc' = "clear" PROVE op'.next = 0 /\ op'.slot \in Slots
    <3>1. MatchAt(op.name) # {} => Min(MatchAt(op.name)) \in Slots
      BY FoundAt DEF MatchAt
    <3>. QED BY <1>1, <2>1, <2>2, <3>1 DEF Lookup, Done, Operation
  <2>3. ASSUME pc' = "alloc" PROVE dir[op'.slot].name = NoName
    <3>1. FreeSlots # {} => dir[Min(FreeSlots)].name = NoName
      BY FoundAt DEF FreeSlots
    <3>. QED BY <1>1, <2>1, <2>3, <3>1 DEF Lookup, Done, Operation
  <2>4. ASSUME pc' = "clear" PROVE dir[op'.slot].start .. dir[op'.slot].start + op'.next - 1 = {}
    <3>1. dir[op'.slot].start \in Nat
      BY <2>2, <2>4, ExtentTyped DEF FileInv, TypeInv
    <3>. QED BY <2>2, <2>4, <3>1
  <2>. QED BY <2>1, <2>3, <2>4 DEF Freed
<1>2. CASE ClearBit
  <2>. PICK slot \in Slots : slot = op.slot
    BY <1>2 DEF FileInv, Targets, ClearBit, Replacing
  <2>. DEFINE first == dir[slot].start
              size == Sectors[dir[slot].content]
  <2>1. first \in Nat /\ size \in Nat /\ op.next \in Nat
    BY ExtentTyped, LocalsTypes DEF FileInv, TypeInv
  <2>2. dir' = dir /\ op'.slot = slot /\ op'.lost = op.lost
    BY <1>2 DEF ClearBit, FileInv, TypeInv, Operation
  <2>3. ~ op.lost => (first .. first + op.next - 1) \cap bits = {}
    BY <1>2 DEF ClearBit, Freed
  <2>4. CASE op.next < size
    <3>1. bits' = bits \ {first + op.next} /\ op'.next = op.next + 1 /\ pc' = "clear"
      BY <1>2, <2>4 DEF ClearBit, Frees, FileInv, TypeInv, Operation
    <3>2. first .. first + op'.next - 1 = (first .. first + op.next - 1) \cup {first + op.next}
      BY <2>1, <3>1
    <3>. HIDE DEF first
    <3>3. ~ op'.lost => (first .. first + op'.next - 1) \cap bits' = {}
      BY <2>2, <2>3, <3>1, <3>2
    <3>. QED BY <2>2, <3>1, <3>3 DEF Freed, first
  <2>5. CASE ~ (op.next < size)
    <3>1. bits' = bits /\ pc' \in {"alloc", "entry"}
      BY <1>2, <2>5 DEF ClearBit
    <3>2. Extent(dir[slot]) \subseteq first .. first + op.next - 1
      BY <2>1, <2>5 DEF Extent
    <3>. QED BY <2>2, <2>3, <3>1, <3>2 DEF Freed
  <2>. QED BY <2>4, <2>5
<1>3. CASE \E n \in Names : DeleteFile(n)
  <2>1. PICK n \in Names : DeleteFile(n)
    BY <1>3
  <2>2. Min(MatchAt(n)) \in Slots
    BY <2>1, FoundAt DEF DeleteFile, MatchAt
  <2>3. dir' = dir /\ pc' = "clear" /\ op'.next = 0 /\ op'.slot \in Slots
    BY <2>1, <2>2 DEF DeleteFile, Begin, disk, NoOp
  <2>4. dir[op'.slot].start \in Nat
    BY <2>3, ExtentTyped DEF FileInv, TypeInv
  <2>5. dir[op'.slot].start .. dir[op'.slot].start + op'.next - 1 = {}
    BY <2>3, <2>4
  <2>. QED BY <2>3, <2>5 DEF Freed
<1>4. CASE WriteLost
  <2>1. op'.lost = TRUE \/ pc' = "idle"
    BY <1>4 DEF WriteLost, Done, FileInv, TypeInv, Operation
  <2>. QED BY <2>1 DEF Freed
<1>5. CASE UNCHANGED vars
  BY <1>5 DEF Freed, vars, disk
<1>6. ASSUME pc' \notin {"clear", "alloc"} PROVE Freed'
  BY <1>6 DEF Freed
<1>7. CASE \/ \E n \in Names, c \in Contents : WriteFile(n, c)
           \/ \E n \in Names : ReadFile(n)
           \/ Alloc \/ MarkBit \/ WriteSector \/ WriteEntry \/ Format
  BY <1>6, <1>7 DEF WriteFile, ReadFile, Alloc, MarkBit, WriteSector, WriteEntry, Format, Begin, Done
<1>8. CASE \/ FormatSuperblock \/ FormatDirectory \/ FormatBitmap
           \/ BootmodeEphemeral \/ SetFlag \/ BootmodeNormal \/ Boot \/ ClearFlag \/ Reboot
           \/ PowerFails
  BY <1>6, <1>8, LocalsTypes
  DEF FormatSuperblock, FormatDirectory, FormatBitmap, BootmodeEphemeral, SetFlag, BootmodeNormal,
    Boot, ClearFlag, Reboot, PowerFails, Begin, Done, FileInv, TypeInv
<1>. QED BY <1>1, <1>2, <1>3, <1>4, <1>5, <1>7, <1>8 DEF Next

LEMMA SameSizesFit == SameSizes /\ FileInv /\ Freed => RoomToReplace
<1>. SUFFICES ASSUME SameSizes, FileInv, Freed, pc = "alloc", dir[op.slot].name # NoName, ~ op.lost
              PROVE  RunsOf(Needed(op.content)) # {}
  BY DEF RoomToReplace
<1>. PICK slot \in Slots : slot = op.slot
  BY DEF FileInv, Targets, Replacing
<1>1. /\ dir[slot].start \in Nat /\ dir[slot].start \in Blocks /\ dir[slot].content \in Contents
      /\ dir[slot].start + Sectors[dir[slot].content] <= NBlocks
  BY ExtentTyped, EntriesTyped DEF FileInv, TypeInv, OnDisk, Files
<1>2. Needed(op.content) = Sectors[dir[slot].content]
  BY <1>1, LocalsTypes DEF Needed, SameSizes, FileInv, TypeInv
<1>3. Extent(dir[slot]) \cap bits = {}
  BY DEF Freed
<1>4. dir[slot].start \in RunsOf(Needed(op.content))
  BY <1>1, <1>2, <1>3 DEF RunsOf, Extent
<1>. QED BY <1>4

\* With files of one size nothing has to be assumed of the disk's space: a full
\* disk or directory refuses new files and damages none that is not torn.
THEOREM SameSizesAreSafe ==
  ASSUME ExactNames, SameSizes
  PROVE  Spec => [](FilesKeptApart /\ Durable)
<1>1. Init => FileInv /\ Freed
  BY FilesInit DEF Init, Freed
<1>2. FileInv /\ Freed /\ [Next]_vars => (FileInv /\ Freed)'
  BY SameSizesFit, FilesNext, FreedNext
<1>3. FileInv => FilesKeptApart /\ Durable
  BY FilesApart, FilesDurable
<1>. QED BY <1>1, <1>2, <1>3, PTL DEF Spec

-----------------------------------------------------------------------------

(***************************************************************************)
(* No sector leaks, whatever the names and however full the disk.          *)
(***************************************************************************)
NoEmptyFiles == \A c \in Contents : Sectors[c] >= 1
NoEmptyNames == \A n \in Names : Stored[n] # NoName

\* Steps that move no sector: a marked one stays where it was accounted for.
SpaceKept ==
  /\ dir' = dir /\ bits' \subseteq bits
  /\ ~ Replacing' /\ (Formatting => Formatting' \/ count'.failures # 0)
  /\ count'.failures = 0 => count.failures = 0

LEMMA SpaceKeptAccounts ==
  ASSUME SpaceKept, Accounted, ~ Replacing
  PROVE  Accounted'
<1>. SUFFICES ASSUME count'.failures = 0, ~ Formatting', NEW b \in bits'
              PROVE  \E i \in Files : b \in Extent(dir[i])
  BY DEF SpaceKept, Accounted, Files, InHand
<1>1. count.failures = 0 /\ ~ Formatting /\ b \in bits
  BY DEF SpaceKept
<1>. QED BY <1>1 DEF Accounted, Replacing, HasRun

LEMMA AccountedBegins ==
  ASSUME TypeInv, Accounted, NEW n \in Names, NEW c \in Contents,
         \/ WriteFile(n, c) \/ ReadFile(n) \/ Format \/ BootmodeEphemeral
         \/ BootmodeNormal \/ Boot \/ Reboot \/ SetFlag \/ ClearFlag
  PROVE  Accounted'
<1>. SUFFICES SpaceKept /\ ~ Replacing
  BY SpaceKeptAccounts
<1>. USE DEF SpaceKept, Replacing, Formatting, TypeInv, disk, history
<1>1. CASE WriteFile(n, c)
  BY <1>1 DEF WriteFile, Begin
<1>2. CASE ReadFile(n)
  BY <1>2 DEF ReadFile
<1>3. CASE Format
  BY <1>3 DEF Format, Begin
<1>4. CASE BootmodeEphemeral
  BY <1>4 DEF BootmodeEphemeral, Begin
<1>5. CASE BootmodeNormal
  BY <1>5 DEF BootmodeNormal, Begin
<1>6. CASE Boot
  BY <1>6 DEF Boot
<1>7. CASE Reboot
  BY <1>7 DEF Reboot
<1>8. CASE SetFlag
  BY <1>8 DEF SetFlag, Done
<1>9. CASE ClearFlag
  BY <1>9 DEF ClearFlag
<1>. QED BY <1>1, <1>2, <1>3, <1>4, <1>5, <1>6, <1>7, <1>8, <1>9

\* The entry found is in hand from now on, its sectors are still to be freed.
LEMMA AccountedFound ==
  ASSUME TypeInv, Accounted, ~ Replacing, ~ Formatting,
         dir' = dir, bits' = bits, count'.failures = count.failures,
         pc' = "clear", op'.slot \in Slots, op'.next = 0
  PROVE  Accounted'
<1>. SUFFICES ASSUME count.failures = 0, NEW b \in bits
              PROVE  \/ \E i \in Files : i # op'.slot /\ b \in Extent(dir[i])
                     \/ b \in Extent(dir[op'.slot]) /\ b >= dir[op'.slot].start + op'.next
  BY DEF Accounted, Files, InHand, Replacing
<1>1. PICK i \in Files : b \in Extent(dir[i])
  BY DEF Accounted, Replacing, HasRun
<1>2. /\ i \in Slots /\ dir[i].start \in Nat /\ Sectors[dir[i].content] \in Nat
  BY ExtentTyped DEF Files, TypeInv
<1>3. b >= dir[i].start + 0
  BY <1>1, <1>2 DEF Extent
<1>. QED BY <1>1, <1>3

LEMMA AccountedLooksUp ==
  ASSUME TypeInv, Accounted, NEW n \in Names, Lookup \/ DeleteFile(n)
  PROVE  Accounted'
<1>1. CASE DeleteFile(n)
  <2>1. Min(MatchAt(n)) \in Slots
    BY <1>1, FoundAt DEF DeleteFile, MatchAt
  <2>2. /\ ~ Replacing /\ ~ Formatting /\ dir' = dir /\ bits' = bits
        /\ count'.failures = count.failures /\ pc' = "clear"
        /\ op'.slot \in Slots /\ op'.next = 0
    BY <1>1, <2>1 DEF DeleteFile, Begin, disk, Replacing, Formatting, NoOp, TypeInv
  <2>. QED BY <2>2, AccountedFound
<1>2. CASE Lookup
  <2>1. /\ ~ Replacing /\ ~ Formatting /\ dir' = dir /\ bits' = bits /\ count' = count
    BY <1>2 DEF Lookup, disk, history, Replacing, Formatting
  <2>2. CASE MatchAt(op.name) # {}
    <3>1. Min(MatchAt(op.name)) \in Slots
      BY <2>2, FoundAt DEF MatchAt
    <3>2. pc' = "clear" /\ op'.slot \in Slots /\ op'.next = 0
      BY <1>2, <2>2, <3>1 DEF Lookup, TypeInv, Operation
    <3>. QED BY <2>1, <3>2, AccountedFound
  <2>3. CASE MatchAt(op.name) = {} /\ FreeSlots # {}
    <3>1. Min(FreeSlots) \in Slots /\ dir[Min(FreeSlots)].name = NoName
      BY <2>3, FoundAt DEF FreeSlots
    <3>2. pc' = "alloc" /\ op'.slot = Min(FreeSlots)
      BY <1>2, <2>3 DEF Lookup, TypeInv, Operation
    <3>3. \A i \in Files : ~ InHand(i)'
      BY <2>1, <3>1, <3>2 DEF Files, InHand
    <3>. QED BY <2>1, <3>1, <3>2, <3>3 DEF Accounted, Files, Replacing, HasRun
  <2>4. CASE MatchAt(op.name) = {} /\ FreeSlots = {}
    <3>1. pc' = "idle"
      BY <1>2, <2>4 DEF Lookup, Done
    <3>. QED BY <2>1, <3>1, SpaceKeptAccounts DEF SpaceKept, Replacing
  <2>. QED BY <2>2, <2>3, <2>4
<1>. QED BY <1>1, <1>2

LEMMA AccountedFileSteps ==
  ASSUME NoEmptyFiles, NoEmptyNames, TypeInv, Accounted,
         ClearBit \/ Alloc \/ MarkBit \/ WriteSector \/ WriteEntry
  PROVE  Accounted'
<1>. PICK slot \in Slots : slot = op.slot
  BY DEF Accounted, Replacing, ClearBit, Alloc, MarkBit, WriteSector, WriteEntry
<1>. DEFINE Old(b) == \E i \in Files : i # slot /\ b \in Extent(dir[i])
<1>0. Replacing /\ ~ Formatting
  BY DEF Replacing, Formatting, ClearBit, Alloc, MarkBit, WriteSector, WriteEntry
<1>1. count.failures = 0 =>
        \A b \in bits : \/ Old(b)
                        \/ /\ pc = "clear"
                           /\ b \in Extent(dir[slot]) /\ b >= dir[slot].start + op.next
                        \/ HasRun /\ b \in Run
  BY <1>0 DEF Accounted, InHand
<1>2. /\ op.start \in Nat /\ op.next \in Nat /\ op.content \in Contents
      /\ dir[slot].start \in Nat /\ Sectors[dir[slot].content] \in Nat
  BY ExtentTyped, LocalsTypes DEF TypeInv
<1>3. CASE ClearBit
  <2>1. /\ dir' = dir /\ op'.slot = slot /\ pc = "clear" /\ ~ HasRun /\ count' = count
        /\ pc' \in {"clear", "alloc", "entry"}
    BY <1>3 DEF ClearBit, TypeInv, Operation, HasRun, history
  <2>2. Replacing' /\ \A i \in Files : i # slot => ~ InHand(i)'
    BY <2>1 DEF Replacing, InHand
  <2>3. CASE op.next < Sectors[dir[slot].content]
    <3>1. /\ bits' = bits \ {dir[slot].start + op.next} /\ op'.next = op.next + 1 /\ pc' = "clear"
      BY <1>3, <2>3 DEF ClearBit, Frees, TypeInv, Operation
    <3>2. ASSUME NEW b \in bits', b \in Extent(dir[slot]), b >= dir[slot].start + op.next
          PROVE  b >= dir[slot].start + op'.next
      <4>1. b \in Int /\ b # dir[slot].start + op.next
        BY <1>2, <3>1, <3>2 DEF Extent
      <4>. QED BY <1>2, <3>1, <3>2, <4>1
    <3>. QED BY <1>1, <2>1, <2>2, <3>1, <3>2 DEF Accounted, Files
  <2>4. CASE ~ (op.next < Sectors[dir[slot].content])
    <3>1. bits' = bits
      BY <1>3, <2>4 DEF ClearBit
    <3>2. ASSUME NEW b \in Extent(dir[slot]) PROVE ~ (b >= dir[slot].start + op.next)
      BY <1>2, <2>4 DEF Extent
    <3>. QED BY <1>1, <2>1, <2>2, <3>1, <3>2 DEF Accounted, Files
  <2>. QED BY <2>3, <2>4
<1>4. CASE Alloc
  <2>1. /\ dir' = dir /\ bits' = bits /\ count' = count /\ pc = "alloc" /\ ~ HasRun
        /\ pc' = "idle" \/ (pc' = "mark" /\ op'.slot = slot)
    BY <1>4 DEF Alloc, Done, disk, TypeInv, Operation, HasRun
  <2>2. \A i \in Files : i # slot => ~ InHand(i)'
    BY <2>1 DEF Replacing, InHand
  <2>3. Replacing' => op'.slot \in Slots
    BY <2>1 DEF Replacing
  <2>. QED BY <1>1, <2>1, <2>2, <2>3 DEF Accounted, Files
<1>5. CASE MarkBit \/ WriteSector
  <2>1. /\ dir' = dir /\ count' = count /\ op'.slot = slot /\ pc \in {"mark", "data"}
        /\ op'.start = op.start /\ op'.content = op.content /\ op'.kind = op.kind
        /\ pc' \in {"mark", "data", "entry"}
        /\ bits' = bits \/ (pc = "mark" /\ bits' = bits \cup {op.start + op.next})
    BY <1>5 DEF MarkBit, WriteSector, TypeInv, Operation, history
  <2>2. HasRun /\ HasRun' /\ Run' = Run /\ Replacing'
    BY <2>1 DEF HasRun, Run, Replacing, TypeInv, Fitting
  <2>3. pc = "mark" => op.start + op.next \in Run
    BY <1>2, NeededSectors DEF Run, TypeInv, Fitting
  <2>4. \A i \in Files : i # slot => ~ InHand(i)'
    BY <2>1 DEF InHand
  <2>. QED BY <1>1, <2>1, <2>2, <2>3, <2>4 DEF Accounted, Files
<1>6. CASE WriteEntry
  <2>. DEFINE new == [name |-> Stored[op.name], content |-> op.content, start |-> op.start]
  <2>1. /\ pc' = "idle" /\ bits' = bits /\ count' = count /\ pc = "entry"
        /\ dir' = [dir EXCEPT ![slot] = IF op.kind = "delete" THEN NoEntry ELSE new]
        /\ Stored[op.name] # NoName
    BY <1>6, LocalsTypes DEF WriteEntry, Done, NoEmptyNames, TypeInv
  <2>2. /\ dir'[slot] = IF op.kind = "delete" THEN NoEntry ELSE new
        /\ \A i \in Slots \ {slot} : dir'[i] = dir[i]
    BY <2>1 DEF TypeInv
  <2>3. \A i \in Files : i # slot => i \in Files' /\ dir'[i] = dir[i]
    BY <2>2 DEF Files
  <2>4. HasRun => slot \in Files' /\ Extent(dir'[slot]) = Run
    <3>1. HasRun => dir'[slot] = new
      BY <2>1, <2>2 DEF HasRun
    <3>2. Needed(op.content) = Sectors[op.content]
      BY <1>2 DEF NoEmptyFiles, Needed
    <3>. QED BY <2>1, <3>1, <3>2 DEF Files, Extent, Run
  <2>5. ~ Replacing' /\ \A i : ~ InHand(i)'
    BY <2>1 DEF Replacing, InHand
  <2>. HIDE DEF new
  <2>6. ASSUME count.failures = 0, NEW b \in bits
        PROVE  \E i \in Files' : b \in Extent(dir'[i])
    <3>1. Old(b) \/ (HasRun /\ b \in Run)
      BY <1>1, <2>1, <2>6
    <3>. QED BY <2>3, <2>4, <3>1
  <2>. QED BY <2>1, <2>5, <2>6 DEF Accounted
<1>. QED BY <1>3, <1>4, <1>5, <1>6

LEMMA AccountedOtherSteps ==
  ASSUME TypeInv, Accounted,
         FormatSuperblock \/ FormatDirectory \/ FormatBitmap \/ WriteLost \/ PowerFails
  PROVE  Accounted'
<1>1. CASE FormatSuperblock \/ FormatDirectory
  <2>1. pc' = "wipe"
    BY <1>1 DEF FormatSuperblock, FormatDirectory
  <2>. QED BY <2>1 DEF Accounted, Replacing, Formatting
<1>2. CASE FormatBitmap
  <2>1. bits' = {} /\ pc' \in {"idle", "lookup", "setflag", "unflag"}
    BY <1>2, LocalsTypes DEF FormatBitmap, Done, TypeInv
  <2>. QED BY <2>1 DEF Accounted, Replacing
<1>3. CASE WriteLost \/ PowerFails
  <2>1. count'.failures # 0
    BY <1>3 DEF WriteLost, PowerFails, TypeInv
  <2>2. Replacing' => Replacing /\ op'.slot = op.slot
    BY <1>3 DEF WriteLost, PowerFails, Done, Replacing, TypeInv, Operation
  <2>. QED BY <2>1, <2>2 DEF Accounted
<1>. QED BY <1>1, <1>2, <1>3

LEMMA AccountedNext ==
  NoEmptyFiles /\ NoEmptyNames /\ TypeInv /\ Accounted /\ [Next]_vars => Accounted'
<1>. SUFFICES ASSUME NoEmptyFiles, NoEmptyNames, TypeInv, Accounted, [Next]_vars PROVE Accounted'
  OBVIOUS
<1>1. CASE UNCHANGED vars
  BY <1>1 DEF Accounted, Replacing, Formatting, HasRun, Run, Files, InHand, vars, disk, history
<1>2. Profile \in Names /\ ProfileContent \in Contents
  OBVIOUS
<1>. QED
  BY <1>1, <1>2, AccountedBegins, AccountedLooksUp, AccountedFileSteps, AccountedOtherSteps DEF Next

\* Until something fails, a sector marked between two operations is one of a
\* file: overwriting, deleting, formatting and writes refused for want of room
\* lose none - for files and names that are not empty, however they compare.
THEOREM NoLeakedSectorsCorrect ==
  ASSUME NoEmptyFiles, NoEmptyNames
  PROVE  Spec => []NoLeakedSectors
<1>1. Init => TypeInv /\ Accounted
  BY TypeInit DEF Init, Accounted, Replacing
<1>2. TypeInv /\ Accounted /\ [Next]_vars => (TypeInv /\ Accounted)'
  BY TypeNext, AccountedNext
<1>3. Accounted => NoLeakedSectors
  BY DEF Accounted, NoLeakedSectors, Replacing, Formatting, HasRun
<1>. QED BY <1>1, <1>2, <1>3, PTL DEF Spec

-----------------------------------------------------------------------------

(***************************************************************************)
(* The store of files that the disk implements.                            *)
(***************************************************************************)

\* A disk that was never formatted has never been used.
Unused == expect = Nothing /\ torn = {} /\ \A i \in Slots : dir[i].name = NoName

\* Which operations read, write and delete a file, and where a disk is unused.
Orderly ==
  /\ pc \in {"off", "idle", "panicked", "setflag", "unflag"} =>
       op.kind # "delete" /\ op.then # "lookup"
  /\ pc \in {"lookup", "alloc", "mark", "data"} => op.then = "lookup"
  /\ pc \in {"clear", "entry"} => op.kind = "delete" \/ op.then = "lookup"
  /\ op.then = "lookup" => op.kind # "delete"
  /\ ~ sb.formatted =>
       pc \in {"off", "format"} /\ Unused
  /\ Formatting /\ op.then = "lookup" => Unused

\* A file that is not torn and not in flight is what was last written to it.
Promised ==
  [n \in Names |-> IF n \in torn \cup InFlight THEN "unsure" ELSE expect[Stored[n]]]

LEMMA OrderlyInit == Init => Orderly
BY DEF Init, Orderly, NoOp, Unused, NoEntry

\* A step that ends an operation, and one within it.
Ends == pc' \in {"idle", "off"} /\ op' = NoOp
GoesOn(steps) ==
  pc' \in steps /\ op'.kind = op.kind /\ op'.then = op.then

LEMMA OrderlyEnds ==
  ASSUME Orderly, Ends, sb' = sb, sb.formatted PROVE Orderly'
BY DEF Orderly, Ends, NoOp, Formatting

LEMMA OrderlyGoesOn ==
  ASSUME Orderly, sb' = sb, sb.formatted,
         \/ op.then = "lookup" /\ GoesOn({"lookup", "clear", "alloc", "mark", "data", "entry"})
         \/ op.kind = "delete" /\ GoesOn({"clear", "entry"})
  PROVE  Orderly'
BY DEF Orderly, GoesOn, Formatting

LEMMA OrderlyNext ==
  ASSUME TypeInv, Orderly, [Next]_vars
  PROVE  Orderly'
<1>. torn \subseteq Names /\ pc \in Steps /\ op \in Operation
  BY DEF TypeInv
<1>1. ASSUME NEW n \in Names, NEW c \in Contents, WriteFile(n, c) PROVE Orderly'
  BY <1>1 DEF WriteFile, Begin, Orderly, NoOp, disk, Formatting
<1>2. ASSUME NEW n \in Names, DeleteFile(n) PROVE Orderly'
  BY <1>2 DEF DeleteFile, Begin, Orderly, NoOp, disk, Formatting
<1>3. ASSUME NEW n \in Names, ReadFile(n) PROVE Orderly'
  BY <1>3 DEF ReadFile, Orderly, disk, history, Formatting, Unused
<1>4. CASE Lookup
  <2>1. sb' = sb /\ sb.formatted /\ op.then = "lookup"
    BY <1>4 DEF Lookup, Orderly, disk
  <2>2. Ends \/ GoesOn({"clear", "alloc"})
    BY <1>4 DEF Lookup, Done, Ends, GoesOn, Operation
  <2>. QED BY <2>1, <2>2, OrderlyEnds, OrderlyGoesOn DEF GoesOn
<1>5. CASE ClearBit
  <2>1. sb' = sb /\ sb.formatted
    BY <1>5 DEF ClearBit, Orderly
  <2>2. CASE op.kind = "delete"
    <3>1. GoesOn({"clear", "entry"})
      BY <1>5, <2>2 DEF ClearBit, GoesOn, Operation
    <3>. QED BY <2>1, <2>2, <3>1, OrderlyGoesOn
  <2>3. CASE op.kind # "delete"
    <3>1. op.then = "lookup" /\ GoesOn({"clear", "alloc"})
      BY <1>5, <2>3 DEF ClearBit, GoesOn, Operation, Orderly
    <3>. QED BY <2>1, <3>1, OrderlyGoesOn DEF GoesOn
  <2>. QED BY <2>2, <2>3
<1>6. CASE Alloc
  <2>1. sb' = sb /\ sb.formatted /\ op.then = "lookup"
    BY <1>6 DEF Alloc, Orderly, disk
  <2>2. Ends \/ GoesOn({"mark"})
    BY <1>6 DEF Alloc, Done, Ends, GoesOn, Operation
  <2>. QED BY <2>1, <2>2, OrderlyEnds, OrderlyGoesOn DEF GoesOn
<1>7. CASE MarkBit \/ WriteSector
  <2>1. sb' = sb /\ sb.formatted /\ op.then = "lookup" /\ GoesOn({"mark", "data", "entry"})
    BY <1>7 DEF MarkBit, WriteSector, Orderly, GoesOn, Operation
  <2>. QED BY <2>1, OrderlyGoesOn DEF GoesOn
<1>8. CASE WriteEntry
  BY <1>8, OrderlyEnds DEF WriteEntry, Done, Ends, Orderly
<1>9. CASE WriteLost
  <2>1. sb' = sb /\ sb.formatted
    BY <1>9 DEF WriteLost, Orderly
  <2>2. CASE pc = "entry"
    BY <1>9, <2>1, <2>2, OrderlyEnds DEF WriteLost, Done, Ends
  <2>3. CASE pc = "clear"
    <3>1. GoesOn({"clear"})
      BY <1>9, <2>3 DEF WriteLost, GoesOn, Operation
    <3>. QED BY <2>1, <2>3, <3>1, OrderlyGoesOn DEF Orderly, GoesOn
  <2>4. CASE pc \in {"mark", "data"}
    <3>1. GoesOn({"mark", "data"})
      BY <1>9, <2>4 DEF WriteLost, GoesOn, Operation
    <3>. QED BY <2>1, <2>4, <3>1, OrderlyGoesOn DEF Orderly, GoesOn
  <2>. QED BY <1>9, <2>2, <2>3, <2>4 DEF WriteLost
<1>10. CASE Format \/ BootmodeEphemeral \/ BootmodeNormal
  <2>1. sb'.formatted /\ pc' \in {"format", "setflag", "idle"}
    BY <1>10 DEF Format, BootmodeEphemeral, BootmodeNormal, Begin, Orderly, disk, TypeInv
  <2>2. op'.kind # "delete" /\ op'.then # "lookup"
    BY <1>10 DEF Format, BootmodeEphemeral, BootmodeNormal, Begin, NoOp
  <2>. QED BY <2>1, <2>2 DEF Orderly
<1>11. CASE FormatSuperblock \/ FormatDirectory
  <2>1. /\ sb'.formatted /\ pc' = "wipe" /\ Formatting
        /\ op'.kind = op.kind /\ op'.then = op.then /\ op.kind # "delete"
    BY <1>11
    DEF FormatSuperblock, FormatDirectory, Orderly, Operation, Formatting, TypeInv, Fitting
  <2>2. CASE op.then = "lookup"
    <3>1. Unused
      BY <2>1, <2>2 DEF Orderly
    <3>2. Unused'
      <4>1. CASE FormatSuperblock
        BY <3>1, <4>1 DEF FormatSuperblock, Unused
      <4>2. CASE FormatDirectory
        <5>1. torn' = {} /\ \A i \in Slots : dir'[i].name = NoName
          BY <3>1, <4>2 DEF FormatDirectory, Unused, NoEntry, TypeInv
        <5>2. \A x \in StoredNames : expect'[x] = None
          BY <3>1, <4>2 DEF FormatDirectory, Unused, Nothing, StoredNames
        <5>3. expect' = [x \in StoredNames |-> expect'[x]]
          BY <4>2 DEF FormatDirectory, TypeInv
        <5>4. expect' = Nothing
          BY <5>2, <5>3 DEF Nothing, StoredNames
        <5>. QED BY <5>1, <5>4 DEF Unused
      <4>. QED BY <1>11, <4>1, <4>2
    <3>. QED BY <2>1, <2>2, <3>2 DEF Orderly
  <2>. QED BY <2>1, <2>2 DEF Orderly
<1>12. CASE FormatBitmap
  <2>1. op.kind # "delete"
    BY <1>12 DEF FormatBitmap, TypeInv, Fitting
  <2>2. op.then \in {"idle", "lookup", "setflag", "unflag"}
    BY DEF Operation
  <2>3. sb' = sb /\ sb.formatted
    BY <1>12 DEF FormatBitmap, Orderly
  <2>4. CASE op.then = "idle"
    BY <1>12, <2>3, <2>4, OrderlyEnds DEF FormatBitmap, Done, Ends
  <2>5. CASE op.then # "idle"
    <3>1. pc' = op.then /\ op'.kind = op.kind /\ op'.then = op.then
      BY <1>12, <2>5 DEF FormatBitmap, Operation
    <3>. QED BY <2>1, <2>2, <2>3, <2>5, <3>1 DEF Orderly, Formatting
  <2>. QED BY <2>4, <2>5
<1>13. CASE SetFlag \/ ClearFlag
  <2>1. sb'.formatted
    BY <1>13 DEF SetFlag, ClearFlag, Orderly, TypeInv
  <2>2. CASE SetFlag
    BY <2>1, <2>2 DEF SetFlag, Done, NoOp, Orderly, Formatting
  <2>3. CASE ClearFlag
    BY <2>1, <2>3 DEF ClearFlag, NoOp, WriteProfile, Orderly, Formatting
  <2>. QED BY <1>13, <2>2, <2>3
<1>14. CASE Boot
  BY <1>14 DEF Boot, NoOp, WriteProfile, Orderly, disk, Formatting, Unused, TypeInv
<1>15. CASE Reboot
  BY <1>15 DEF Reboot, Orderly, disk, history, Formatting, Unused
<1>16. CASE PowerFails
  <2>1. Ends /\ pc' = "off" /\ sb' = sb /\ UNCHANGED disk /\ expect' = expect /\ torn' = torn \cup InFlight
    BY <1>16 DEF PowerFails, Ends, disk
  <2>2. ~ sb.formatted => InFlight = {}
    BY DEF Orderly, InFlight, Replacing
  <2>. QED BY <2>1, <2>2 DEF Ends, NoOp, Orderly, Formatting, Unused, PowerFails, disk
<1>17. CASE UNCHANGED vars
  BY <1>17 DEF vars, disk, history, Orderly, Formatting, Unused
<1>. QED
  BY <1>1, <1>2, <1>3, <1>4, <1>5, <1>6, <1>7, <1>8, <1>9, <1>10, <1>11, <1>12, <1>13, <1>14,
     <1>15, <1>16, <1>17 DEF Next

-----------------------------------------------------------------------------

LEMMA ShownIsPromised == Durable => Shown = Promised
BY DEF Durable, Shown, Promised

LEMMA ShownWillBePromised == Durable' => Shown' = Promised'
BY DEF Durable, Shown, Promised

\* A step that shows every file as before, and one that may change one file.
LEMMA SameShown ==
  ASSUME Durable, Durable',
         \A m \in Names :
           /\ m \in torn' \cup InFlight' <=> m \in torn \cup InFlight
           /\ m \notin torn \cup InFlight => expect'[Stored[m]] = expect[Stored[m]]
  PROVE  Shown' = Shown
BY ShownIsPromised, ShownWillBePromised DEF Promised

LEMMA OneShown ==
  ASSUME Durable, Durable', NEW n \in Names,
         \A m \in Names \ {n} :
           /\ m \in torn' \cup InFlight' <=> m \in torn \cup InFlight
           /\ m \notin torn \cup InFlight => expect'[Stored[m]] = expect[Stored[m]],
         NEW x, x = IF n \in torn' \cup InFlight' THEN "unsure" ELSE expect'[Stored[n]]
  PROVE  Shown' = [Shown EXCEPT ![n] = x]
<1>. DEFINE P == Promised
<1>1. Shown = P /\ Shown' = P' /\ P' = [P EXCEPT ![n] = x]
  BY ShownIsPromised, ShownWillBePromised DEF Promised
<1>. HIDE DEF P
<1>. QED BY <1>1

\* Where no file is torn or in flight.
LEMMA UnusedShown ==
  ASSUME Durable, expect = Nothing, torn = {}, InFlight = {}
  PROVE  Shown = [m \in Names |-> None]
<1>1. Shown = [m \in Names |-> expect[Stored[m]]]
  BY ShownIsPromised DEF Promised
<1>2. \A m \in Names : expect[Stored[m]] = None
  BY DEF Nothing
<1>. QED BY <1>1, <1>2

LEMMA EmptyShown ==
  ASSUME Durable', expect' = Nothing, torn' = {}, InFlight' = {}
  PROVE  Shown' = [m \in Names |-> None]
<1>1. Shown' = [m \in Names |-> expect'[Stored[m]]]
  BY ShownWillBePromised DEF Promised
<1>2. \A m \in Names : expect'[Stored[m]] = None
  BY DEF Nothing
<1>. QED BY <1>1, <1>2

\* A file is shown as unsure where it is torn, if none is in flight.
LEMMA TornShown ==
  ASSUME Durable, TypeInv, InFlight = {}, NEW m \in Names
  PROVE  Shown[m] = "unsure" <=> m \in torn
<1>1. Shown[m] = IF m \in torn THEN "unsure" ELSE expect[Stored[m]]
  BY ShownIsPromised DEF Promised
<1>2. expect[Stored[m]] \in Contents \cup {None}
  BY DEF TypeInv, StoredNames
<1>3. "unsure" \notin Contents \cup {None}
  BY NamesAssumption DEF NamesAssumption, None
<1>. QED BY <1>1, <1>2, <1>3

\* The three kinds of requests differ.
LEMMA RequestKinds ==
  ASSUME NEW n, NEW c, NEW d
  PROVE  <<n, c, d>> # <<>> /\ <<n, c, d>> # <<"format">>
OBVIOUS

\* The step ends the request and leaves a possible content behind.
LEMMA Settles ==
  ASSUME NEW n \in Names, NEW c, NEW d, Request = <<n, c, d>>, Request' = <<>>,
         NEW x \in {c, Shown[n], "unsure"}, Shown' = [Shown EXCEPT ![n] = x]
  PROVE  Store!Next
<1>1. Request \notin {<<>>, <<"format">>} /\ Request[1] = n /\ Request[2] = c
  BY RequestKinds
<1>2. Store!Settle
  <2>. HIDE DEF Request, Shown
  <2>. QED BY <1>1 DEF Store!Settle, Store!ForOneFile
<1>. QED BY <1>2 DEF Store!Next

LEMMA Asks ==
  ASSUME Durable, TypeInv, InFlight = {}, torn' = torn,
         NEW n \in Names, NEW c \in Contents \cup {None},
         Request = <<>>, Request' = <<n, c, n \in torn'>>,
         Shown' \in {Shown, [Shown EXCEPT ![n] = "unsure"]}
  PROVE  Store!Next
<1>1. (n \in torn') = (Shown[n] = "unsure")
  BY TornShown
<1>2. Request' = <<n, c, Shown[n] = "unsure">>
  BY <1>1
<1>3. Store!Ask(n, c)
  <2>. HIDE DEF Request, Shown
  <2>. QED BY <1>2 DEF Store!Ask
<1>. QED BY <1>3 DEF Store!Next

LEMMA AsksFormat ==
  ASSUME Request = <<>>, Request' = <<"format">>, Shown' = Shown
  PROVE  Store!Next
<1>. HIDE DEF Request, Shown
<1>. QED BY DEF Store!Next, Store!AskFormat

LEMMA NoRequestIdle ==
  ASSUME Orderly, pc \in {"off", "idle", "panicked", "setflag", "unflag"}
  PROVE  Request = <<>> /\ InFlight = {}
BY DEF Orderly, Request, InFlight, Formatting, Replacing

-----------------------------------------------------------------------------

Named == torn \subseteq Names /\ op.name \in Names /\ op.content \in Contents

LEMMA NamedByType == TypeInv => Named
BY DEF TypeInv, Operation, Named

LEMMA WriteFileRefines ==
  ASSUME Durable, Durable', Named, Orderly, TypeInv, NEW n \in Names, NEW c \in Contents, WriteFile(n, c)
  PROVE  Store!Next
<1>1. pc = "idle" /\ sb.formatted
  BY DEF WriteFile, Begin, Orderly
<1>2. Request = <<>> /\ InFlight = {}
  BY <1>1, NoRequestIdle
<1>3. /\ op' = [NoOp EXCEPT !.kind = "write", !.name = n, !.content = c, !.then = "lookup"]
      /\ pc' = "lookup" /\ torn' = torn /\ expect' = expect
  BY <1>1 DEF WriteFile, Begin
<1>4. op'.kind = "write" /\ op'.name = n /\ op'.content = c /\ op'.then = "lookup"
  BY <1>3 DEF NoOp
<1>5. Request' = <<n, c, n \in torn'>> /\ InFlight' = {}
  BY <1>3, <1>4 DEF Request, InFlight, Replacing
<1>6. Shown' = Shown
  BY <1>2, <1>3, <1>5, SameShown
<1>. QED BY <1>2, <1>3, <1>5, <1>6, Asks

LEMMA DeleteFileRefines ==
  ASSUME ExactNames, Durable, Durable', Named, Orderly, TypeInv, NEW n \in Names, DeleteFile(n)
  PROVE  Store!Next
<1>1. pc = "idle"
  BY DEF DeleteFile, Begin
<1>2. Request = <<>> /\ InFlight = {}
  BY <1>1, NoRequestIdle
<1>3. dir[Min(MatchAt(n))].name = Stored[n]
  BY FoundAt, MatchIsEqual DEF DeleteFile
<1>4. /\ op' = [NoOp EXCEPT !.kind = "delete", !.name = n, !.slot = Min(MatchAt(n))]
      /\ pc' = "clear" /\ torn' = torn /\ expect' = expect /\ dir' = dir
  BY <1>1 DEF DeleteFile, Begin, disk
<1>5. op'.kind = "delete" /\ op'.name = n /\ op'.slot = Min(MatchAt(n))
  BY <1>4 DEF NoOp
<1>6. Request' = <<n, None, n \in torn'>> /\ InFlight' = {n}
  BY <1>3, <1>4, <1>5 DEF Request, InFlight, Replacing, ExactNames
<1>7. Shown' = [Shown EXCEPT ![n] = "unsure"]
  BY <1>2, <1>4, <1>6, OneShown
<1>. QED BY <1>2, <1>4, <1>6, <1>7, Asks

LEMMA BootRefines ==
  ASSUME Durable, Durable', Named, Orderly, TypeInv, Boot
  PROVE  Store!Next
<1>1. pc = "off" /\ expect' = expect /\ torn' = torn
  BY DEF Boot
<1>2. Request = <<>> /\ InFlight = {}
  BY <1>1, NoRequestIdle
<1>3. InFlight' = {}
  BY DEF Boot, InFlight, Replacing
<1>4. Shown' = Shown
  BY <1>1, <1>2, <1>3, SameShown
<1>5. CASE sb.formatted /\ sb.ephemeral
  <2>1. op' = [NoOp EXCEPT !.kind = "boot", !.then = "unflag"] /\ pc' = "format"
    BY <1>5 DEF Boot
  <2>2. op'.kind = "boot" /\ op'.then = "unflag"
    BY <2>1 DEF NoOp
  <2>3. Request' = <<"format">>
    BY <2>1, <2>2 DEF Request, Formatting
  <2>. QED BY <1>2, <1>4, <2>3, AsksFormat
<1>6. CASE ~ (sb.formatted /\ sb.ephemeral)
  <2>1. op' = [WriteProfile EXCEPT !.then = "lookup"]
    BY <1>6 DEF Boot
  <2>2. /\ op'.kind = "boot" /\ op'.then = "lookup"
        /\ op'.name = Profile /\ op'.content = ProfileContent
    BY <2>1 DEF WriteProfile, NoOp
  <2>3. Request' = <<Profile, ProfileContent, Profile \in torn'>>
    BY <2>2 DEF Request
  <2>. QED BY <1>1, <1>2, <1>4, <2>3, Asks
<1>. QED BY <1>5, <1>6

\* The steps by which formatting begins, and those that take the files.
LEMMA FormatRefines ==
  ASSUME Durable, Durable', Named, Orderly, TypeInv, Format \/ BootmodeEphemeral
  PROVE  Store!Next \/ UNCHANGED <<Shown, Request>>
<1>1. pc = "idle" /\ expect' = expect /\ torn' = torn /\ sb.formatted
  BY DEF Format, BootmodeEphemeral, Begin, Orderly
<1>2. Request = <<>> /\ InFlight = {}
  BY <1>1, NoRequestIdle
<1>3. InFlight' = {}
  BY DEF Format, BootmodeEphemeral, Begin, InFlight, Replacing
<1>4. Shown' = Shown
  BY <1>1, <1>2, <1>3, SameShown
<1>5. CASE Format
  <2>1. Request' = <<"format">>
    BY <1>5 DEF Format, Begin, NoOp, Request, Formatting
  <2>. QED BY <1>2, <1>4, <2>1, AsksFormat
<1>6. CASE BootmodeEphemeral
  <2>1. Request' = <<>>
    BY <1>1, <1>6 DEF BootmodeEphemeral, Begin, NoOp, Request, Formatting
  <2>. QED BY <1>2, <1>4, <2>1
<1>. QED BY <1>5, <1>6

\* Formatting for a command or an ephemeral disk, and before the first write.
LEMMA FormatRequest ==
  ASSUME TypeInv, Formatting
  PROVE  IF op.then = "lookup" THEN Request = <<op.name, op.content, op.name \in torn>>
                               ELSE Request = <<"format">>
BY DEF Formatting, TypeInv, Fitting, Request

LEMMA FormatDirectoryRefines ==
  ASSUME ExactNames, Durable, Durable', Orderly, TypeInv, FormatDirectory
  PROVE  Store!Next \/ UNCHANGED <<Shown, Request>>
<1>. DEFINE gone == dir[op.next].name
<1>1. /\ op' = [op EXCEPT !.next = op.next + 1] /\ pc = "wipe" /\ pc' = "wipe" /\ op \in Operation
      /\ torn' = {n \in torn : Stored[n] # gone}
  BY DEF FormatDirectory, TypeInv
<1>2. \A n \in Names : expect'[Stored[n]] = IF Stored[n] = gone THEN None ELSE expect[Stored[n]]
  BY DEF FormatDirectory, TypeInv, StoredNames
<1>3. /\ op'.kind = op.kind /\ op'.then = op.then /\ op'.name = op.name /\ op'.content = op.content
      /\ Formatting /\ Formatting' /\ InFlight = {} /\ InFlight' = {}
  BY <1>1 DEF Operation, Formatting, InFlight, Replacing
<1>4. op.then = "lookup" => torn = {} /\ torn' = {} /\ gone = NoName
  BY <1>1, <1>3 DEF Orderly, Unused, FormatDirectory
<1>5. Request' = Request
  <2>1. op.then = "lookup" => (op'.name \in torn') = (op.name \in torn)
    BY <1>4
  <2>2. op.kind # "delete"
    BY <1>1 DEF TypeInv, Fitting
  <2>. QED BY <1>3, <2>1, <2>2 DEF Request
<1>. HIDE DEF gone
<1>6. CASE \A n \in Names : Stored[n] # gone
  <2>1. torn' = torn
    BY <1>1, <1>6 DEF TypeInv
  <2>2. Shown' = Shown
    BY <1>2, <1>3, <1>6, <2>1, SameShown
  <2>. QED BY <1>5, <2>2
<1>7. CASE \E n \in Names : Stored[n] = gone
  <2>1. PICK n \in Names : Stored[n] = gone
    BY <1>7
  <2>2. \A m \in Names \ {n} : Stored[m] # gone
    BY <2>1 DEF ExactNames
  <2>3. Shown' = [Shown EXCEPT ![n] = None]
    <3>1. n \notin torn' \cup InFlight' /\ None = expect'[Stored[n]]
      BY <1>1, <1>2, <1>3, <2>1
    <3>2. \A m \in Names \ {n} : /\ m \in torn' \cup InFlight' <=> m \in torn \cup InFlight
                                 /\ expect'[Stored[m]] = expect[Stored[m]]
      BY <1>1, <1>2, <1>3, <2>2
    <3>. QED BY <3>1, <3>2, OneShown
  <2>4. Request = <<"format">>
    BY <1>3, <1>4, <2>1, FormatRequest DEF ExactNames
  <2>5. Store!Vanish(n)
    <3>. HIDE DEF Request, Shown
    <3>. QED BY <1>5, <2>3, <2>4 DEF Store!Vanish
  <2>. QED BY <2>5 DEF Store!Next
<1>. QED BY <1>6, <1>7

LEMMA FormatBitmapRefines ==
  ASSUME Durable, Durable', Orderly, TypeInv, FormatBitmap
  PROVE  Store!Next \/ UNCHANGED <<Shown, Request>>
<1>1. pc = "wipe" /\ expect' = Nothing /\ torn' = {}
  BY DEF FormatBitmap
<1>2. op.kind # "delete" /\ op \in Operation /\ op.then \in {"idle", "lookup", "setflag", "unflag"}
  BY <1>1 DEF TypeInv, Fitting, Operation
<1>3. pc' \in {"idle", "lookup", "setflag", "unflag"} /\ Formatting /\ ~ Formatting'
  BY <1>1, <1>2 DEF FormatBitmap, Done, Formatting
<1>4. InFlight' = {} /\ InFlight = {}
  BY <1>1, <1>3 DEF InFlight, Replacing
<1>5. Shown' = [m \in Names |-> None]
  BY <1>1, <1>4, EmptyShown
<1>6. CASE op.then = "lookup"
  <2>1. op' = [op EXCEPT !.next = 0] /\ torn = {} /\ expect = Nothing
    BY <1>1, <1>3, <1>6 DEF FormatBitmap, Orderly, Unused
  <2>2. Shown' = Shown
    BY <1>4, <1>5, <2>1, UnusedShown
  <2>3. op'.kind = op.kind /\ op'.then = op.then /\ op'.name = op.name /\ op'.content = op.content
    BY <1>2, <2>1 DEF Operation
  <2>4. Request' = Request
    BY <1>1, <1>2, <1>6, <2>1, <2>3 DEF Request
  <2>. QED BY <2>2, <2>4
<1>7. CASE op.then # "lookup"
  <2>1. Request = <<"format">>
    BY <1>3, <1>7, FormatRequest
  <2>2. Request' = <<>>
    <3>1. CASE op.then = "idle"
      BY <1>3, <3>1 DEF FormatBitmap, Done, NoOp, Request
    <3>2. CASE op.then # "idle"
      <4>1. op' = [op EXCEPT !.next = 0]
        BY <3>2 DEF FormatBitmap
      <4>2. op'.kind = op.kind /\ op'.then = op.then
        BY <1>2, <4>1 DEF Operation
      <4>. QED BY <1>2, <1>3, <1>7, <4>2 DEF Request
    <3>. QED BY <3>1, <3>2
  <2>3. Store!Formatted
    <3>. HIDE DEF Request, Shown
    <3>. QED BY <1>5, <2>1, <2>2 DEF Store!Formatted
  <2>. QED BY <2>3 DEF Store!Next
<1>. QED BY <1>6, <1>7

-----------------------------------------------------------------------------

\* Within an operation: the request stays, and what is in flight.
LEMMA RequestStays ==
  ASSUME op'.kind = op.kind, op'.then = op.then, op'.name = op.name, op'.content = op.content,
         op.name \in torn' <=> op.name \in torn, ~ Formatting, ~ Formatting'
  PROVE  Request' = Request
<1>1. (op'.name \in torn') = (op.name \in torn)
  OBVIOUS
<1>. QED BY <1>1 DEF Request

\* What an operation on a file is to do.
LEMMA RequestInHand ==
  ASSUME Orderly, Named, pc = "lookup" \/ Replacing
  PROVE  \E c : /\ Request = <<op.name, c, op.name \in torn>>
                /\ pc = "entry" => c = IF op.kind = "delete" THEN None ELSE op.content
BY DEF Orderly, Replacing, Request

LEMMA NothingRequested == ASSUME op' = NoOp, ~ Formatting' PROVE Request' = <<>>
BY DEF Request, NoOp

\* The operation ends with the file as it was, or unsure of it.
LEMMA EndRefines ==
  ASSUME ExactNames, Durable, Durable', Named, Orderly, pc = "lookup" \/ Replacing, Ends, expect' = expect,
         \/ torn' = torn /\ op.name \notin InFlight
         \/ torn' = torn \cup {op.name}
  PROVE  Store!Next
<1>1. PICK c : Request = <<op.name, c, op.name \in torn>>
  BY RequestInHand
<1>2. Request' = <<>> /\ InFlight' = {} /\ op.name \in Names /\ InFlight \subseteq {op.name}
  BY NothingRequested DEF Ends, InFlight, Formatting, Replacing, Named
<1>3. CASE torn' = torn /\ op.name \notin InFlight
  <2>1. Shown' = Shown /\ Shown' = [Shown EXCEPT ![op.name] = Shown[op.name]]
    <3>1. Shown' = Shown
      BY <1>2, <1>3, SameShown
    <3>2. Shown = [m \in Names |-> Shown[m]]
      BY DEF Shown
    <3>. HIDE DEF Shown
    <3>. QED BY <1>2, <3>1, <3>2
  <2>. QED BY <1>1, <1>2, <2>1, Settles
<1>4. CASE torn' = torn \cup {op.name}
  <2>1. Shown' = [Shown EXCEPT ![op.name] = "unsure"]
    BY <1>2, <1>4, OneShown
  <2>. QED BY <1>1, <1>2, <2>1, Settles
<1>. QED BY <1>3, <1>4

LEMMA LookupRefines ==
  ASSUME ExactNames, Durable, Durable', Named, Orderly, TypeInv, Lookup
  PROVE  Store!Next \/ UNCHANGED <<Shown, Request>>
<1>1. pc = "lookup" /\ InFlight = {} /\ torn' = torn /\ expect' = expect /\ dir' = dir
  BY DEF Lookup, InFlight, Formatting, Replacing, disk, history
<1>2. op \in Operation
  BY DEF TypeInv
<1>3. CASE MatchAt(op.name) # {}
  <2>1. op' = [op EXCEPT !.slot = Min(MatchAt(op.name)), !.next = 0] /\ pc' = "clear"
    BY <1>3 DEF Lookup
  <2>2. op'.kind = op.kind /\ op'.then = op.then /\ op'.name = op.name /\ op'.content = op.content
        /\ op'.slot = Min(MatchAt(op.name))
    BY <1>2, <2>1 DEF Operation
  <2>3. Request' = Request
    BY <1>1, <2>1, <2>2, RequestStays DEF Formatting
  <2>4. dir[Min(MatchAt(op.name))].name = Stored[op.name]
    BY <1>3, FoundAt, MatchIsEqual DEF Named
  <2>5. InFlight' = {op.name}
    BY <1>1, <2>1, <2>2, <2>4 DEF InFlight, Formatting, Replacing, ExactNames, Named
  <2>6. Shown' = [Shown EXCEPT ![op.name] = "unsure"]
    BY <1>1, <2>5, OneShown DEF Named
  <2>7. PICK c : Request = <<op.name, c, op.name \in torn>>
    BY <1>1, RequestInHand
  <2>8. Request \notin {<<>>, <<"format">>} /\ Request[1] = op.name
    BY <2>7, RequestKinds
  <2>. HIDE DEF Shown, Request
  <2>. QED BY <2>3, <2>6, <2>8 DEF Store!Next, Store!Unsettle, Store!ForOneFile
<1>4. CASE MatchAt(op.name) = {} /\ FreeSlots # {}
  <2>1. op' = [op EXCEPT !.slot = Min(FreeSlots)] /\ pc' = "alloc"
    BY <1>4 DEF Lookup
  <2>2. op'.kind = op.kind /\ op'.then = op.then /\ op'.name = op.name /\ op'.content = op.content
        /\ op'.slot = Min(FreeSlots)
    BY <1>2, <2>1 DEF Operation
  <2>3. dir[Min(FreeSlots)].name = NoName
    BY <1>4, FoundAt DEF FreeSlots
  <2>4. InFlight' = {}
    BY <1>1, <2>1, <2>2, <2>3 DEF InFlight, Formatting, Replacing
  <2>. QED BY <1>1, <2>1, <2>2, <2>4, RequestStays, SameShown DEF Formatting
<1>5. CASE MatchAt(op.name) = {} /\ FreeSlots = {}
  <2>1. Ends
    BY <1>5 DEF Lookup, Done, Ends
  <2>. QED BY <1>1, <2>1, EndRefines
<1>. QED BY <1>3, <1>4, <1>5

\* Steps within the replacement of a file that shows none of it.
LEMMA WorkRefines ==
  ASSUME Durable, Durable', Named, Replacing, Replacing', expect' = expect, torn' = torn, dir' = dir,
         op'.kind = op.kind, op'.then = op.then, op'.name = op.name, op'.content = op.content,
         op'.slot = op.slot
  PROVE  UNCHANGED <<Shown, Request>>
<1>1. InFlight' = InFlight
  BY DEF InFlight
<1>. QED BY <1>1, SameShown, RequestStays DEF Replacing, Formatting

LEMMA SectorStepsRefine ==
  ASSUME Durable, Durable', Named, TypeInv, MarkBit \/ WriteSector
  PROVE  UNCHANGED <<Shown, Request>>
<1>1. op \in Operation /\ Replacing /\ Replacing' /\ expect' = expect /\ torn' = torn /\ dir' = dir
  BY DEF TypeInv, MarkBit, WriteSector, Replacing, history
<1>2. \E k : op' = [op EXCEPT !.next = k]
  <2>1. op = [op EXCEPT !.next = op.next]
    BY <1>1 DEF Operation
  <2>. QED BY <2>1 DEF MarkBit, WriteSector
<1>3. /\ op'.kind = op.kind /\ op'.then = op.then /\ op'.name = op.name
      /\ op'.content = op.content /\ op'.slot = op.slot
  BY <1>1, <1>2 DEF Operation
<1>. QED BY <1>1, <1>3, WorkRefines

\* A sector freed is one of the file in hand; if that is torn, the sector may
\* be other files', which are lost.
LEMMA ClearBitRefines ==
  ASSUME ExactNames, Durable, Durable', Named, Orderly, TypeInv, Targets, ClearBit
  PROVE  Store!Next \/ UNCHANGED <<Shown, Request>>
<1>1. /\ op \in Operation /\ Replacing /\ Replacing' /\ expect' = expect /\ dir' = dir
      /\ torn' \subseteq Names /\ torn \subseteq torn'
  BY DEF TypeInv, ClearBit, Replacing, Frees
<1>2. \E k : op' = [op EXCEPT !.next = k]
  <2>1. op = [op EXCEPT !.next = op.next]
    BY <1>1 DEF Operation
  <2>. QED BY <2>1 DEF ClearBit
<1>3. /\ op'.kind = op.kind /\ op'.then = op.then /\ op'.name = op.name
      /\ op'.content = op.content /\ op'.slot = op.slot
  BY <1>1, <1>2 DEF Operation
<1>4. CASE torn' = torn
  BY <1>1, <1>3, <1>4, WorkRefines
<1>5. CASE torn' # torn
  <2>1. op.name \in torn
    BY <1>5 DEF ClearBit, Frees
  <2>. DEFINE robbed == torn' \ torn
  <2>2. InFlight = {op.name} /\ InFlight' = {op.name}
    BY <1>1, <1>3 DEF InFlight, Targets, ClearBit, ExactNames, Named
  <2>3. robbed \in SUBSET (Names \ {op.name})
    BY <1>1, <2>1
  <2>4. \A m \in Names : Shown'[m] = IF m \in robbed THEN "unsure" ELSE Shown[m]
    BY <1>1, <2>1, <2>2, ShownIsPromised, ShownWillBePromised DEF Promised
  <2>5. Shown' = [m \in Names |-> IF m \in robbed THEN "unsure" ELSE Shown[m]]
    <3>1. Shown' = [m \in Names |-> Shown'[m]]
      BY DEF Shown
    <3>. HIDE DEF Shown
    <3>. QED BY <2>4, <3>1
  <2>6. Request' = Request
    BY <1>1, <1>3, <2>1, RequestStays DEF Formatting, Replacing
  <2>7. PICK c : Request = <<op.name, c, op.name \in torn>>
    BY <1>1, RequestInHand
  <2>8. Request \notin {<<>>, <<"format">>} /\ Request[1] = op.name /\ Request[3]
    BY <2>1, <2>7, RequestKinds
  <2>9. Store!Spread
    <3>. HIDE DEF Request, Shown, robbed
    <3>. QED BY <2>3, <2>5, <2>6, <2>8 DEF Store!Spread, Store!ForOneFile
  <2>. QED BY <2>9 DEF Store!Next
<1>. QED BY <1>4, <1>5

\* The write ends where there is no run: a new file stays absent, and an old
\* one is lost only where a lost write has left its sectors marked.
LEMMA AllocRefines ==
  ASSUME ExactNames, Durable, Durable', Named, Orderly, TypeInv, RoomToReplace, Alloc
  PROVE  Store!Next \/ UNCHANGED <<Shown, Request>>
<1>1. pc = "alloc" /\ Replacing /\ op \in Operation /\ dir' = dir /\ expect' = expect
  BY DEF Alloc, Replacing, disk, TypeInv
<1>2. CASE RunsOf(Needed(op.content)) # {}
  <2>1. op' = [op EXCEPT !.start = Min(RunsOf(Needed(op.content))), !.next = 0]
        /\ pc' = "mark" /\ torn' = torn
    BY <1>2 DEF Alloc
  <2>2. /\ op'.kind = op.kind /\ op'.then = op.then /\ op'.name = op.name
        /\ op'.content = op.content /\ op'.slot = op.slot
    BY <1>1, <2>1 DEF Operation
  <2>. QED BY <1>1, <2>1, <2>2, WorkRefines DEF Replacing
<1>3. CASE RunsOf(Needed(op.content)) = {}
  <2>1. Ends /\ torn' = IF op.lost THEN torn \cup {op.name} ELSE torn
    BY <1>3 DEF Alloc, Done, Ends
  <2>2. ~ op.lost => op.name \notin InFlight
    BY <1>1, <1>3 DEF RoomToReplace, InFlight, Formatting, Replacing
  <2>. QED BY <1>1, <2>1, <2>2, EndRefines
<1>. QED BY <1>2, <1>3

LEMMA WriteEntryRefines ==
  ASSUME ExactNames, Durable, Durable', Named, Orderly, TypeInv, WriteEntry
  PROVE  Store!Next
<1>1. pc = "entry" /\ Replacing
  BY DEF WriteEntry, Replacing
<1>2. PICK c : Request = <<op.name, c, op.name \in torn>> /\ c = IF op.kind = "delete" THEN None ELSE op.content
  BY <1>1, RequestInHand
<1>3. Request' = <<>> /\ InFlight' = {} /\ op.name \in Names /\ InFlight \subseteq {op.name}
  BY <1>1, NothingRequested DEF WriteEntry, Done, InFlight, Formatting, Replacing, Named
<1>4. \A m \in Names \ {op.name} :
        /\ m \in torn' <=> m \in torn
        /\ expect'[Stored[m]] = expect[Stored[m]]
  <2>1. \A m \in Names \ {op.name} : m \in torn' <=> m \in torn
    BY DEF WriteEntry
  <2>2. \A m \in Names \ {op.name} : Stored[m] # Stored[op.name] /\ Stored[m] \in StoredNames
    BY <1>3 DEF ExactNames, StoredNames
  <2>3. \A m \in Names \ {op.name} : expect'[Stored[m]] = expect[Stored[m]]
    BY <2>2 DEF WriteEntry, TypeInv
  <2>. QED BY <2>1, <2>3
<1>5. expect'[Stored[op.name]] = c
  BY <1>2, <1>3 DEF WriteEntry, TypeInv, StoredNames
<1>6. PICK x \in {c, "unsure"} : Shown' = [Shown EXCEPT ![op.name] = x]
  <2>1. CASE op.name \in torn'
    <3>1. Shown' = [Shown EXCEPT ![op.name] = "unsure"]
      BY <1>3, <1>4, <2>1, OneShown
    <3>. QED BY <3>1
  <2>2. CASE op.name \notin torn'
    <3>1. Shown' = [Shown EXCEPT ![op.name] = c]
      BY <1>3, <1>4, <1>5, <2>2, OneShown
    <3>. QED BY <3>1
  <2>. QED BY <2>1, <2>2
<1>. QED BY <1>2, <1>3, <1>6, Settles

LEMMA WriteLostRefines ==
  ASSUME ExactNames, Durable, Durable', Named, Orderly, TypeInv, WriteLost
  PROVE  Store!Next \/ UNCHANGED <<Shown, Request>>
<1>1. op \in Operation /\ expect' = expect
  BY DEF TypeInv, WriteLost
<1>2. CASE pc = "entry"
  <2>1. Ends /\ torn' = torn \cup {op.name} /\ Replacing
    BY <1>2 DEF WriteLost, Done, Ends, Replacing
  <2>. QED BY <1>1, <2>1, EndRefines
<1>3. CASE pc # "entry"
  <2>1. Replacing /\ Replacing' /\ torn' = torn /\ dir' = dir
    BY <1>3 DEF WriteLost, Replacing
  <2>2. \E k : op' = [op EXCEPT !.next = k, !.lost = TRUE]
    <3>. DEFINE last == pc = "mark" /\ op.next + 1 = Needed(op.content)
    <3>1. op' = [op EXCEPT !.next = IF last THEN 0 ELSE @ + 1, !.lost = TRUE]
      BY <1>3 DEF WriteLost
    <3>. QED BY <3>1
  <2>3. /\ op'.kind = op.kind /\ op'.then = op.then /\ op'.name = op.name
        /\ op'.content = op.content /\ op'.slot = op.slot
    BY <1>1, <2>2 DEF Operation
  <2>. QED BY <1>1, <2>1, <2>3, WorkRefines
<1>. QED BY <1>2, <1>3

LEMMA PowerFailsRefines ==
  ASSUME ExactNames, Durable, Durable', Named, Orderly, TypeInv, PowerFails
  PROVE  Store!Next \/ UNCHANGED <<Shown, Request>>
<1>1. pc' = "off" /\ op' = NoOp /\ torn' = torn \cup InFlight /\ expect' = expect
  BY DEF PowerFails
<1>2. InFlight' = {} /\ Request' = <<>>
  BY <1>1, NothingRequested DEF InFlight, Formatting, Replacing
<1>3. Shown' = Shown
  BY <1>1, <1>2, SameShown
<1>4. CASE Request = <<>>
  BY <1>2, <1>3, <1>4
<1>5. CASE Request = <<"format">>
  <2>. HIDE DEF Request, Shown
  <2>. QED BY <1>2, <1>3, <1>5 DEF Store!Next, Store!Formatted
<1>6. CASE Request \notin {<<>>, <<"format">>}
  <2>1. PICK c, d : Request = <<op.name, c, d>>
    BY <1>6 DEF Request
  <2>2. op.name \in Names /\ Shown' = [Shown EXCEPT ![op.name] = Shown[op.name]]
    <3>1. Shown = [m \in Names |-> Shown[m]]
      BY DEF Shown
    <3>. HIDE DEF Shown
    <3>. QED BY <1>3, <3>1 DEF Named
  <2>. QED BY <1>2, <2>1, <2>2, Settles
<1>. QED BY <1>4, <1>5, <1>6

\* Steps outside of any operation on a file.
LEMMA OtherStepsRefine ==
  ASSUME Durable, Durable', Named, Orderly, TypeInv,
         \/ \E n \in Names : ReadFile(n)
         \/ FormatSuperblock \/ SetFlag \/ BootmodeNormal \/ Reboot
         \/ UNCHANGED vars
  PROVE  UNCHANGED <<Shown, Request>>
<1>1. expect' = expect /\ torn' = torn
  BY DEF ReadFile, FormatSuperblock, SetFlag, BootmodeNormal, Begin, Reboot, vars, history
<1>2. CASE (\E n \in Names : ReadFile(n)) \/ Reboot
  <2>1. pc \in {"idle"} /\ pc' \in {"panicked", "off"} /\ op' = op
    BY <1>2 DEF ReadFile, Reboot
  <2>2. Request' = Request /\ InFlight = {} /\ InFlight' = {}
    BY <1>1, <2>1 DEF InFlight, Formatting, Replacing, Request
  <2>. QED BY <1>1, <2>2, SameShown
<1>3. CASE FormatSuperblock
  <2>1. Formatting /\ Formatting' /\ InFlight = {} /\ InFlight' = {}
    BY <1>3 DEF FormatSuperblock, Formatting, InFlight, Replacing
  <2>2. op' = [op EXCEPT !.next = 1]
    BY <1>3 DEF FormatSuperblock
  <2>3. /\ op'.kind = op.kind /\ op'.then = op.then /\ op'.name = op.name
        /\ op'.content = op.content
    BY <2>2 DEF TypeInv, Operation
  <2>4. Request' = Request
    BY <1>1, <2>1, <2>3 DEF Request
  <2>. QED BY <1>1, <2>1, <2>4, SameShown
<1>4. CASE SetFlag
  <2>1. Request = <<>> /\ InFlight = {}
    BY <1>4, NoRequestIdle DEF SetFlag
  <2>2. pc' = "idle" /\ op' = NoOp
    BY <1>4 DEF SetFlag, Done
  <2>3. InFlight' = {} /\ Request' = <<>>
    BY <2>2, NothingRequested DEF InFlight, Formatting, Replacing
  <2>. QED BY <1>1, <2>1, <2>3, SameShown
<1>5. CASE BootmodeNormal
  <2>1. Request = <<>> /\ InFlight = {}
    BY <1>5, NoRequestIdle DEF BootmodeNormal, Begin
  <2>2. pc' = "idle" /\ op' = [NoOp EXCEPT !.kind = "bootmode"]
    BY <1>5 DEF BootmodeNormal, Begin
  <2>3. InFlight' = {} /\ Request' = <<>>
    BY <2>2 DEF InFlight, Formatting, Replacing, Request, NoOp
  <2>. QED BY <1>1, <2>1, <2>3, SameShown
<1>6. CASE UNCHANGED vars
  <2>1. InFlight' = InFlight /\ Request' = Request
    BY <1>1, <1>6 DEF vars, disk, InFlight, Formatting, Replacing, Request
  <2>. QED BY <1>1, <2>1, SameShown
<1>. QED BY <1>2, <1>3, <1>4, <1>5, <1>6

LEMMA ClearFlagRefines ==
  ASSUME Durable, Durable', Named, Orderly, TypeInv, ClearFlag
  PROVE  Store!Next
<1>1. pc = "unflag" /\ pc' = "lookup" /\ expect' = expect /\ torn' = torn
  BY DEF ClearFlag, history
<1>2. Request = <<>> /\ InFlight = {}
  BY <1>1, NoRequestIdle
<1>3. InFlight' = {} /\ Request' = <<Profile, ProfileContent, Profile \in torn'>>
  BY <1>1 DEF ClearFlag, InFlight, Formatting, Replacing, Request, WriteProfile, NoOp
<1>4. Shown' = Shown
  BY <1>1, <1>2, <1>3, SameShown
<1>. QED BY <1>1, <1>2, <1>3, <1>4, Asks

LEMMA StoreStep ==
  ASSUME ExactNames, Durable, Durable', Orderly, TypeInv, Targets, RoomToReplace, [Next]_vars
  PROVE  [Store!Next]_<<Shown, Request>>
<1>. Named
  BY NamedByType
<1>. QED
  BY WriteFileRefines, DeleteFileRefines, BootRefines, FormatRefines, FormatDirectoryRefines,
     FormatBitmapRefines, LookupRefines, ClearBitRefines, SectorStepsRefine, AllocRefines, WriteEntryRefines, WriteLostRefines,
     PowerFailsRefines, OtherStepsRefine, ClearFlagRefines DEF Next

LEMMA StoreInit == Init /\ Orderly /\ Durable => Store!Init
<1>. SUFFICES ASSUME Init, Orderly, Durable PROVE Store!Init
  OBVIOUS
<1>1. Request = <<>> /\ InFlight = {} /\ expect = Nothing /\ torn = {}
  BY NoRequestIdle DEF Init
<1>2. Shown = [m \in Names |-> None]
  BY <1>1, UnusedShown
<1>. QED BY <1>1, <1>2 DEF Store!Init

\* The disk, with its sector-by-sector operations, failures and reboots,
\* implements the store of files, for every disk, set of names and contents:
\* between what a file was and what it was asked to be nobody can read anything
\* else, and no operation or failure changes a file it was not about, but for a
\* write or delete of a torn file, which may cost others - as long as each
\* overwrite finds room once it has freed the old version.
THEOREM StoreImplemented ==
  ASSUME ExactNames
  PROVE  Spec /\ []RoomToReplace => StoreRefined
<1>. DEFINE Inv == FileInv /\ TypeInv /\ Orderly /\ Durable
<1>1. Init => Inv /\ Store!Init
  BY FilesInit, FilesDurable, OrderlyInit, StoreInit DEF FileInv
<1>2. Inv /\ RoomToReplace /\ [Next]_vars => (FileInv /\ TypeInv /\ Orderly)'
  BY FilesNext, OrderlyNext DEF FileInv
<1>3. FileInv => Durable
  BY FilesDurable
<1>4. Inv /\ Durable' /\ RoomToReplace /\ [Next]_vars => [Store!Next]_<<Shown, Request>>
  BY StoreStep DEF FileInv
<1>. QED BY <1>1, <1>2, <1>3, <1>4, PTL DEF Spec, StoreRefined, Store!Spec

\* Where all files take the same number of sectors, without that condition.
COROLLARY SameSizesImplement ==
  ASSUME ExactNames, SameSizes
  PROVE  Spec => StoreRefined
<1>1. Init => FileInv /\ Freed
  BY FilesInit DEF Init, Freed
<1>2. FileInv /\ Freed /\ [Next]_vars => (FileInv /\ Freed)'
  BY SameSizesFit, FilesNext, FreedNext
<1>3. FileInv /\ Freed => RoomToReplace
  BY SameSizesFit
<1>. QED BY <1>1, <1>2, <1>3, StoreImplemented, PTL DEF Spec
=============================================================================
