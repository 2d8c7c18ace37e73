------------------------------ MODULE Session ------------------------------
(***************************************************************************)
(* A user at the console: the line editor and the commands of              *)
(* kernel/src/shell.rs, what they print, the applications they start and   *)
(* the system calls these make, and the counters of kernel/src/metrics.rs. *)
(*                                                                         *)
(* Words are one or two letters here, and a message is one character.      *)
(* What the commands do to the disk, to frames and to COM2 is in FlatFS,   *)
(* Process and ElfStream; here the line, the screen, the registers of the  *)
(* application and the counters are followed.                              *)
(***************************************************************************)
EXTENDS Console, ShellLine, SyscallStub

CONSTANTS
  MaxLine,   \* MAX_LINE
  Command,   \* Command[word]: the command that execute() matches it with
  Keys,      \* bursts of characters that one wake of the shell reads
  Letters,   \* the characters in them
  OldFiles,  \* files of earlier sessions
  MaxKeys,   \* bound of the model on the bursts
  Calls,     \* numbers of the system calls that an application makes
  MaxCalls,  \* bound of the model on them
  Lengths    \* what r11 may happen to hold at `int 0x80`

\* Letters are printable; a burst is typed text, an Enter or a backspace; and of
\* the system calls, ExitCall is number 0, and 2, 7 and 9 are not modelled here.
ASSUME SessionAssumption ==
  /\ MaxLine \in Nat /\ MaxKeys \in Nat /\ MaxCalls \in Nat
  /\ Letters \cap {" ", "CR", "LF", "BS"} = {}
  /\ \A burst \in Keys : burst \in {<<"CR">>, <<"BS">>} \cup Seq(Letters \cup {" "})
  /\ \A word \in DOMAIN Command :
       Command[word] \in {"echo", "clear", "perf", "gen", "run", "app", "storage", "user"}
  /\ \A name \in DOMAIN OldFiles : name # <<>> /\ OldFiles[name] \in {"elf", "text"}
  /\ Calls \subseteq Int \ {0, 2, 7, 9} /\ Lengths \subseteq Int

VARIABLES
  screen,    \* FRAMEBUFFER: the cursor and what is drawn
  line,      \* Shell.line, up to len
  last_elf,  \* last_elf_len # 0
  awaiting,  \* awaiting_response()
  files,     \* files[name]: the kind of a file in storage
  metrics,   \* METRICS
  regs,      \* the registers of ring 3
  call,      \* the system call made last: registers before it and its result
  pc,        \* "shell", "ring3", or for good "spin", "fault", "panic"
  locked,    \* GDT_SEL is locked: an application was started
  lines,     \* history: the text written to the console, as lines
  mixed,     \* history: the cursor's row does not show the line any more
  keys       \* history: how many bursts were read

shellVars == <<line, last_elf, awaiting, files>>
appVars == <<regs, call, locked>>
vars == <<screen, shellVars, metrics, appVars, pc, lines, mixed, keys>>

Prompt == <<">">>
CRLF == <<"CR", "LF">>
Message(c) == <<c>> \o CRLF

Write(text) ==
  LET all == FoldLeft(TypeOn, lines, text) IN
  /\ screen' = ConsoleWrite(screen, text)
  /\ lines' = SubSeq(all, Max({1, Len(all) - Rows + 1}), Len(all))

\* The record_*() functions.
Count(fields) ==
  metrics' = [f \in DOMAIN metrics |-> IF f \in fields THEN metrics[f] + 1 ELSE metrics[f]]
\* format_metrics(clear)
Clear == metrics' = [metrics EXCEPT !["boot_time_ns"] = 0]

-----------------------------------------------------------------------------

\* The characters that the line has a place for, and one more.
Fit_OneMore(burst) == SubSeq(burst, 1, Min({Len(burst), MaxLine + 1 - Len(line)}))
Fit(burst) == SubSeq(burst, 1, Min({Len(burst), MaxLine - Len(line)}))

\* handle_char() for printable characters: what does not fit is ignored.
Printable(burst) ==
  LET fit == Fit(burst) IN
  /\ burst \notin {<<"CR">>, <<"BS">>}
  /\ line' = line \o fit
  /\ Write(fit)
  /\ mixed' = (mixed \/ Len(Prompt \o line') >= Cols)
  /\ UNCHANGED <<last_elf, awaiting, files, metrics, appVars, pc>>

\* handle_char() for backspace and delete, and the same without the echo.
Backspace_NotEchoed(burst) ==
  /\ burst = <<"BS">>
  /\ line' = SubSeq(line, 1, Len(line) - 1)
  /\ UNCHANGED <<screen, lines, last_elf, awaiting, files, metrics, appVars, pc, mixed>>

Backspace(burst) ==
  /\ burst = <<"BS">>
  /\ line' = SubSeq(line, 1, Len(line) - 1)
  /\ Write(IF line = <<>> THEN <<>> ELSE <<"BS", " ", "BS">>)
  /\ UNCHANGED <<last_elf, awaiting, files, metrics, appVars, pc, mixed>>

\* execute() returned: the line is dropped and the prompt printed.
Returns(out) ==
  /\ Write(CRLF \o out \o Prompt)
  /\ line' = <<>>
  /\ mixed' = FALSE
  /\ UNCHANGED <<pc, appVars>>

Prints(out) == Returns(out) /\ UNCHANGED <<last_elf, awaiting, files, metrics>>

\* run_elf() or run_user_demo() as far as enter_ring3(), which never returns:
\* the line stays as it is.
EntersRing3(counted, out) ==
  /\ ~locked /\ locked' = TRUE
  /\ pc' = "ring3"
  /\ Write(CRLF \o out \o Message("J"))
  /\ Count(counted \cup {"ring3_transitions"})
  /\ mixed' = TRUE
  /\ UNCHANGED <<line, regs, call>>

\* The same when an earlier application still has the lock.
Spins(counted, out) ==
  /\ locked
  /\ pc' = "spin"
  /\ Write(CRLF \o out)
  /\ Count(counted)
  /\ mixed' = TRUE
  /\ UNCHANGED <<line, appVars>>

\* No frame is left for the P4 - before it is counted - or for a page, or the
\* image makes load_elf() panic: the machine stops.
Panics(counted, out) ==
  /\ ~locked
  /\ pc' = "panic"
  /\ Write(CRLF \o out)
  /\ Count(counted)
  /\ mixed' = TRUE
  /\ UNCHANGED <<line, appVars>>

\* run_elf() returned an error; and the same with the P4 counted only when
\* the image loads.
LoadFails_P4NotCounted == ~locked /\ Count({"elfs_loaded"})
LoadFails == ~locked /\ Count({"elfs_loaded", "p4_clones"})

\* run_elf() called by a command.
RunElf(kind, out) ==
  /\ \/ kind = "elf" /\ EntersRing3({"elfs_loaded", "p4_clones"}, out)
     \/ LoadFails /\ Returns(out \o Message("E"))
     \/ Spins({"elfs_loaded"}, out)
     \/ Panics({"elfs_loaded"}, out)
     \/ Panics({"elfs_loaded", "p4_clones"}, out)
  /\ UNCHANGED <<last_elf, awaiting, files>>

-----------------------------------------------------------------------------

Usage == Message("U")
PerfLog == <<"perf_log">>

Store(name, kind) ==
  /\ files' = [n \in DOMAIN files \cup {name} |-> IF n = name THEN kind ELSE files[n]]
  /\ Returns(Message("S"))
  /\ UNCHANGED <<last_elf, awaiting, metrics>>

CmdGen(args) ==
  IF args = <<>> THEN Prints(Usage)
  ELSE awaiting' = TRUE /\ Returns(Message("D")) /\ UNCHANGED <<last_elf, files, metrics>>

CmdRun ==
  IF last_elf THEN RunElf("elf", Message("R")) ELSE Prints(Message("N"))

\* cmd_app(): `save` wants a blank behind the name.
CmdApp(args) ==
  LET sub == SplitN(args).head
      rest == SplitN(args).rest
  IN CASE sub = <<"s">> /\ ~HasBlank(rest) -> Prints(Usage)
       [] sub = <<"s">> /\ HasBlank(rest) /\ ~last_elf -> Prints(Message("N"))
       [] sub = <<"s">> /\ HasBlank(rest) /\ last_elf ->
            Store(NameAndText(rest).name, "elf")
       [] sub = <<"r">> /\ rest = <<>> -> Prints(Usage)
       [] sub = <<"r">> /\ rest \in DOMAIN files -> RunElf(files[rest], Message("R"))
       [] sub = <<"r">> /\ rest \notin DOMAIN files \cup {<<>>} -> Prints(Message("N"))
       [] OTHER -> Prints(Usage)

CmdStorage(args) ==
  LET sub == SplitN(args).head
      rest == SplitN(args).rest
  IN CASE sub = <<"s">> /\ HasBlank(rest) -> Store(NameAndText(rest).name, "text")
       [] sub = <<"r">> /\ rest \in DOMAIN files -> Prints(CRLF \o Message(files[rest]))
       [] OTHER -> Prints(Usage)

CmdPerf(args) ==
  CASE args = <<"c">> ->
         Clear /\ Returns(Message("C")) /\ UNCHANGED <<last_elf, awaiting, files>>
    [] args = <<"s">> -> Store(PerfLog, "text")
    [] IsPrefix(<<"s", " ">>, args) -> Store(TrimAscii(SubSeq(args, 3, Len(args))), "text")
    [] OTHER -> Prints(Message("M"))

\* cmd_clear()
ClearedScreen(s) == ConsoleWrite([VgaClear(s) EXCEPT !.row = ClearRow], Prompt)
ClearedLines == [i \in 1 .. ClearRow + 1 |-> IF i = ClearRow + 1 THEN Prompt ELSE <<>>]

CmdClear ==
  /\ screen' = ClearedScreen(screen)
  /\ lines' = ClearedLines
  /\ line' = <<>>
  /\ mixed' = FALSE
  /\ UNCHANGED <<last_elf, awaiting, files, metrics, pc, appVars>>

CmdUser ==
  /\ EntersRing3({}, <<>>) \/ Spins({}, <<>>) \/ Panics({}, <<>>)
  /\ UNCHANGED <<last_elf, awaiting, files>>

\* handle_char() for Enter, with execute().
Enter(burst) ==
  LET cmd == Split(line).head
      args == Split(line).rest
      is == IF cmd \in DOMAIN Command THEN Command[cmd] ELSE "unknown"
  IN
  /\ burst = <<"CR">>
  /\ CASE cmd = <<>>       -> Prints(<<>>)
       [] is = "echo"      -> Prints(args \o CRLF)
       [] is = "clear"     -> CmdClear
       [] is = "perf"      -> CmdPerf(args)
       [] is = "gen"       -> CmdGen(args)
       [] is = "run"       -> CmdRun
       [] is = "app"       -> CmdApp(args)
       [] is = "storage"   -> CmdStorage(args)
       [] is = "user"      -> CmdUser
       [] cmd # <<>> /\ is = "unknown" -> Prints(cmd \o CRLF)

Key ==
  /\ pc = "shell" /\ keys < MaxKeys
  /\ keys' = keys + 1
  /\ \E burst \in Keys : Printable(burst) \/ Backspace(burst) \/ Enter(burst)

\* The end of handle_daemon_byte(): no size, or a whole binary.  The line
\* being typed stays, and a prompt is printed below it.
DaemonAnswers ==
  /\ pc = "shell" /\ awaiting
  /\ awaiting' = FALSE
  /\ \/ /\ Write(CRLF \o Message("I") \o Prompt)
        /\ mixed' = (line # <<>>)
        /\ UNCHANGED <<line, last_elf, metrics, pc, appVars>>
     \/ /\ last_elf' = TRUE
        /\ \/ EntersRing3({"com2_bytes_sent", "elfs_loaded", "p4_clones"}, Message("L"))
           \/ Spins({"com2_bytes_sent", "elfs_loaded"}, Message("L"))
           \/ Panics({"com2_bytes_sent", "elfs_loaded"}, Message("L"))
           \/ Panics({"com2_bytes_sent", "elfs_loaded", "p4_clones"}, Message("L"))
           \/ /\ ~locked /\ Count({"com2_bytes_sent", "elfs_loaded", "p4_clones"})
              /\ Write(CRLF \o Message("L") \o Message("E") \o Prompt)
              /\ mixed' = (line # <<>>)
              /\ UNCHANGED <<line, pc, appVars>>
  /\ UNCHANGED <<files, keys>>

-----------------------------------------------------------------------------

\* System calls.  What the handler takes for a pointer is what HandlerArguments
\* finds; page 0 is not mapped, so using it stops the machine in ring 0.
Buffer == 500  \* an address in the application
TheKey == 65   \* what getchar() finds in the keyboard's buffer

Faults ==
  /\ pc' = "fault"
  /\ UNCHANGED <<screen, lines, metrics, regs>>

ReturnsFrom(before, out, result) ==
  /\ regs' = Return(before, result).regs
  /\ Write(out)
  /\ Count({"syscall_count"})
  /\ UNCHANGED pc

Handler(before, num, a, b) ==
  \/ num = 1 /\ b \in 1 .. 8192 /\ a = 0 /\ Faults
  \/ num = 1 /\ b \notin 1 .. 8192 /\ ReturnsFrom(before, <<>>, 0)
  \/ num \in {4, 5, 8} /\ a = 0 /\ Faults
  \/ num = 6 /\ ReturnsFrom(before, <<>>, TheKey)
  \/ num = 42 /\ ReturnsFrom(before, Message("H"), 0)
  \/ num \notin {1, 4, 5, 6, 8, 42} /\ ReturnsFrom(before, Message("?"), 0)

SystemCall ==
  \E num \in Calls, length \in Lengths :
    LET before == [SyscallRaw(regs, num, Buffer, 1, 1) EXCEPT !["r11"] = length]
        h == HandlerArguments(before) IN
    /\ pc = "ring3" /\ metrics["syscall_count"] < MaxCalls
    /\ call' = [before |-> before, handler |-> h,
                result |-> IF num = 6 THEN TheKey ELSE 0]
    /\ Handler(before, h.num, h.a, h.b)
    /\ UNCHANGED <<shellVars, locked, mixed, keys>>

\* System call 0: shell_main_loop() starts afresh and prints the prompt.
ExitCall ==
  /\ pc = "ring3"
  /\ pc' = "shell"
  /\ Write(Prompt)
  /\ UNCHANGED <<shellVars, metrics, appVars, mixed, keys>>

-----------------------------------------------------------------------------

Counters == {"syscall_count", "ring3_transitions", "com2_bytes_sent", "elfs_loaded",
             "p4_clones", "boot_time_ns"}
NoCall == [before |-> <<>>, handler |-> <<>>, result |-> 0]

\* The first prompt after boot; or a prompt behind `clear`, with files of
\* earlier sessions in storage and after a `gen` whose binary did not load.
FirstPrompt ==
  /\ screen = ConsoleWrite(BootScreen, Prompt)
  /\ lines = <<Prompt>>
  /\ last_elf = FALSE
  /\ files = <<>>
  /\ metrics = [f \in Counters |-> IF f = "boot_time_ns" THEN 1 ELSE 0]

LaterPrompt ==
  /\ screen = ClearedScreen(BootScreen)
  /\ lines = ClearedLines
  /\ last_elf = TRUE
  /\ files = OldFiles
  /\ metrics = [f \in Counters |->
       IF f \in {"syscall_count", "ring3_transitions"} THEN 0 ELSE 1]

Init ==
  /\ FirstPrompt \/ LaterPrompt
  /\ line = <<>>
  /\ awaiting = FALSE
  /\ regs = [r \in Regs |-> 100 + SelectInSeq(Pushes, LAMBDA p : p = r)]
  /\ call = NoCall
  /\ pc = "shell"
  /\ locked = FALSE
  /\ mixed = FALSE
  /\ keys = 0

Next == Key \/ DaemonAnswers \/ SystemCall \/ ExitCall

Spec == Init /\ [][Next]_vars

-----------------------------------------------------------------------------

\* Type invariant of a session.
SessionTypeOK ==
  /\ screen.row \in 0 .. Rows - 1 /\ screen.col \in 0 .. Cols - 1
  /\ line \in Seq(Letters \cup {" "}) /\ Len(line) <= MaxLine
  /\ last_elf \in BOOLEAN /\ awaiting \in BOOLEAN
  /\ \A name \in DOMAIN files : name # <<>> /\ files[name] \in {"elf", "text"}
  /\ metrics \in [Counters -> Nat]
  /\ regs \in [Regs -> Int]
  /\ pc \in {"shell", "ring3", "spin", "fault", "panic"}
  /\ locked \in BOOLEAN /\ mixed \in BOOLEAN /\ keys \in 0 .. MaxKeys

\* The console shows what was written: the rows up to the cursor are the last
\* lines of all output since the screen was cleared, wrapped at Cols, through
\* scrolling, backspaces and clears.
ConsoleShowsOutput == Shows(screen, lines)

\* What Enter will execute is what the user sees: as long as the line fits
\* into the row and nothing else was printed while it was typed, the row of
\* the cursor is the prompt and the line, and the cursor stands behind it.
LineIsShown ==
  pc = "shell" /\ ~mixed =>
    /\ screen.col = Len(Prompt \o line)
    /\ \A i \in 1 .. screen.col : screen.cells[screen.row][i - 1] = (Prompt \o line)[i]

\* However a line is spaced, the command, the sub-command, the name and the
\* text that the nested splitting and trimming finds are its words.
ParsedAsWords ==
  LET s == Split(line)
      n == SplitN(s.rest)
      t == NameAndText(n.rest)
  IN /\ s.head = Word(line, 1) /\ s.rest = FromWord(line, 2)
     /\ n.head = Word(line, 2) /\ n.rest = FromWord(line, 3)
     /\ t.name = Word(line, 3) /\ t.text = FromWord(line, 4)

\* An application gets back every register as it left it but the two that
\* carry the number and the result.
RegistersKept ==
  pc = "ring3" /\ call # NoCall =>
    \A r \in Regs \ {"rax", "r15"} : regs[r] = call.before[r]

\* The counters agree with each other and with the process manager: an ELF
\* counted as loaded got a P4 unless the shell spins or the kernel panicked, and
\* an entry into ring 3 was counted exactly if the lock it never releases is
\* held.
LoadsCounted ==
  /\ pc \notin {"spin", "panic"} => metrics["elfs_loaded"] = metrics["p4_clones"]
  /\ metrics["ring3_transitions"] = IF locked THEN 1 ELSE 0

-----------------------------------------------------------------------------

\* interrupts.rs:135 - "rdi, rsi, rdx, r10, r8, r9 = up to 6 arguments, return
\* value in rax".  The stub reads the arguments from the slots of r10, r11 and
\* r12 and stores the result over r15.
SyscallAbi ==
  pc = "ring3" /\ call # NoCall =>
    call.handler = AbiArguments(call.before) /\ regs["rax"] = call.result

\* Whenever the prompt is printed the line is empty.  Not after an application
\* that a command started: handle_char() did not get to `self.len = 0`.
PromptMeansEmptyLine ==
  [][pc = "ring3" /\ pc' = "shell" => line' = <<>>]_vars

\* shell.rs:306 - "app save <name> - Save last app to persistent storage".
\* A name without a text behind it gets the usage message.
SaveTakesAName ==
  [][last_elf /\ Split(line).head = <<"a">> /\ Word(line, 2) = <<"s">> /\ Words(line) = 3
       /\ line' = <<>> => Word(line, 3) \in DOMAIN files']_vars

\* shell.rs:298 - "perf clear - Reset metrics".  Only the boot time is reset.
ClearResetsMetrics ==
  [][metrics'["boot_time_ns"] < metrics["boot_time_ns"]
       => \A f \in Counters : metrics'[f] = 0]_vars
=============================================================================
