------------------------------ MODULE Keyboard ------------------------------
(***************************************************************************)
(* The keyboard path: IRQ 1 and its handler (kernel/src/interrupts.rs),    *)
(* the scan code decoder and the ring buffer (kernel/src/keyboard.rs), and *)
(* the readers: shell_main_loop() (main.rs), which sleeps in hlt, and the  *)
(* system calls 2 and 6 of a ring-3 application.                           *)
(*                                                                         *)
(* There is one CPU.  A handler runs with interrupts off, so it is only    *)
(* stopped by a spin lock that the code it interrupted holds - for ever.   *)
(***************************************************************************)
EXTENDS Integers, Sequences

CONSTANTS
  BufSize,  \* BUF_SIZE
  MaxKeys,  \* bound of the model: scan codes sent
  MaxApps,  \* bound of the model: applications started
  MaxRead   \* the largest len system call 2 is given

ASSUME KeyboardAssumption ==
  /\ BufSize \in Nat \ {0, 1}
  /\ MaxKeys \in Nat /\ MaxApps \in Nat /\ MaxRead \in Nat

VARIABLES
  wire,        \* scan codes in the controller; IRQ 1 is raised while any is
  sent,        \* history: how many were sent
  int_flag,    \* the CPU's interrupt flag (TRUE: enabled)
  in_service,  \* interrupts the PIC waits to see ended
  isr,         \* the handler that runs, and the step it is at
  isr_char,    \* c in handle_scancode()
  modifiers, extended,   \* STATE
  buf, head, tail,       \* KEY_BUFFER
  key_lock,    \* whether the reader holds KEY_BUFFER
  ctx,         \* who the CPU runs when no handler does
  pc,
  saved,       \* the flag without_interrupts() restores
  got,         \* what read_char() returned
  n,           \* characters system call 2 has stored
  apps

isrVars == <<in_service, isr, isr_char, modifiers, extended>>
threadVars == <<ctx, pc, saved, got, n, apps>>
bufVars == <<buf, head, tail>>
vars == <<wire, sent, int_flag, isrVars, bufVars, key_lock, threadVars>>

NoChar == "none"
Chars == {"a", "A", "\n"}
\* Enough scan codes to meet every branch of handle_scancode().
Codes == {"letter", "enter", "release", "shift", "unshift", "caps", "e0"}

\* The characters between tail and head.
Queue == [i \in 1 .. (head - tail + BufSize) % BufSize |->
            buf[(tail + i - 1) % BufSize]]

-----------------------------------------------------------------------------

\* The user presses or releases a key.
KeyEvent ==
  /\ sent < MaxKeys
  /\ \E code \in Codes : wire' = Append(wire, code)
  /\ sent' = sent + 1
  /\ UNCHANGED <<int_flag, isrVars, bufVars, key_lock, threadVars>>

\* The CPU takes an interrupt: a keyboard request waits for the timer's EOI,
\* and either for its own.
TakeInterrupt(step) ==
  /\ int_flag /\ isr = "none"
  /\ isr' = step
  /\ int_flag' = FALSE

TimerInterrupt ==
  /\ "timer" \notin in_service
  /\ TakeInterrupt("timer")
  /\ in_service' = in_service \cup {"timer"}
  /\ UNCHANGED <<wire, sent, isr_char, modifiers, extended, bufVars, key_lock,
                 threadVars>>

\* keyboard_handler(): read port 0x60, then handle_scancode().
KeyInterrupt ==
  /\ wire # <<>> /\ in_service = {}
  /\ TakeInterrupt("decode")
  /\ in_service' = {"key"}
  /\ UNCHANGED <<wire, sent, isr_char, modifiers, extended, bufVars, key_lock,
                 threadVars>>

\* The branches of handle_scancode().  A letter's case is Shift xor Caps
\* (NORMAL, SHIFTED and the Caps rule); 0 stands for no character.
Letter == IF ("shift" \in modifiers) # ("caps" \in modifiers) THEN "A" ELSE "a"

Character(code) ==
  CASE extended -> NoChar
    [] code = "letter" /\ ~extended -> Letter
    [] code = "enter" /\ ~extended -> "\n"
    [] OTHER -> NoChar

Modify(code) ==
  CASE extended -> modifiers
    [] code = "shift" /\ ~extended -> modifiers \cup {"shift"}
    [] code = "unshift" /\ ~extended -> modifiers \ {"shift"}
    [] code = "caps" /\ ~extended ->
         IF "caps" \in modifiers THEN modifiers \ {"caps"} ELSE modifiers \cup {"caps"}
    [] OTHER -> modifiers

Decode ==
  LET code == Head(wire) IN
  /\ isr = "decode"
  /\ wire' = Tail(wire)
  /\ extended' = (~extended /\ code = "e0")
  /\ modifiers' = Modify(code)
  /\ isr_char' = Character(code)
  /\ isr' = IF Character(code) = NoChar THEN "eoi" ELSE "push"
  /\ UNCHANGED <<sent, int_flag, in_service, bufVars, key_lock, threadVars>>

\* Push that does not wrap head, and Push that does not test for a full buffer.
Push_NoWrap ==
  LET next == head + 1 IN
  /\ isr = "push" /\ ~key_lock
  /\ isr' = "eoi"
  /\ IF next # tail
     THEN buf' = [buf EXCEPT ![head] = isr_char] /\ head' = next
     ELSE UNCHANGED <<buf, head>>
  /\ UNCHANGED <<wire, sent, int_flag, in_service, isr_char, modifiers, extended,
                 tail, key_lock, threadVars>>

Push_NoFullTest ==
  /\ isr = "push" /\ ~key_lock
  /\ isr' = "eoi"
  /\ buf' = [buf EXCEPT ![head] = isr_char] /\ head' = (head + 1) % BufSize
  /\ UNCHANGED <<wire, sent, int_flag, in_service, isr_char, modifiers, extended,
                 tail, key_lock, threadVars>>

\* KeyBuffer::push() under KEY_BUFFER.lock(): a full buffer drops c.
Push ==
  LET next == (head + 1) % BufSize IN
  /\ isr = "push" /\ ~key_lock
  /\ isr' = "eoi"
  /\ IF next # tail
     THEN buf' = [buf EXCEPT ![head] = isr_char] /\ head' = next
     ELSE UNCHANGED <<buf, head>>
  /\ UNCHANGED <<wire, sent, int_flag, in_service, isr_char, modifiers, extended, tail,
                 key_lock, threadVars>>

\* EndOfInterrupt where the keyboard handler forgets the EOI.
EndOfInterrupt_NoKeyEoi ==
  /\ isr \in {"timer", "eoi"}
  /\ in_service' = in_service \ {"timer"}
  /\ isr' = "none"
  /\ isr_char' = NoChar
  /\ int_flag' = TRUE
  /\ pc' = IF pc = "hlt" THEN "read" ELSE pc
  /\ UNCHANGED <<wire, sent, modifiers, extended, bufVars, key_lock, ctx, saved,
                 got, n, apps>>

\* notify_end_of_interrupt(), then iretq: interrupts were on before, and a
\* CPU that was halted goes on behind the hlt.
EndOfInterrupt ==
  /\ isr \in {"timer", "eoi"}
  /\ in_service' = in_service \ {IF isr = "timer" THEN "timer" ELSE "key"}
  /\ isr' = "none"
  /\ isr_char' = NoChar
  /\ int_flag' = TRUE
  /\ pc' = IF pc = "hlt" THEN "read" ELSE pc
  /\ UNCHANGED <<wire, sent, modifiers, extended, bufVars, key_lock, ctx, saved,
                 got, n, apps>>

-----------------------------------------------------------------------------

Thread(from, to) == isr = "none" /\ pc = from /\ pc' = to

\* read_char() without without_interrupts(), and one that always enables.
DisableInterrupts_Not ==
  /\ Thread("read", "lock")
  /\ saved' = int_flag
  /\ UNCHANGED <<wire, sent, int_flag, isrVars, bufVars, key_lock, ctx, got, n, apps>>

RestoreInterrupts_Always ==
  /\ Thread("restore", "return")
  /\ int_flag' = TRUE
  /\ UNCHANGED <<wire, sent, isrVars, bufVars, key_lock, ctx, saved, got, n, apps>>

\* read_char(): without_interrupts(|| KEY_BUFFER.lock().pop()).
DisableInterrupts ==
  /\ Thread("read", "lock")
  /\ saved' = int_flag
  /\ int_flag' = FALSE
  /\ UNCHANGED <<wire, sent, isrVars, bufVars, key_lock, ctx, got, n, apps>>

\* Pop that leaves the character in the buffer.
Pop_Peeks ==
  /\ Thread("pop", "unlock")
  /\ got' = IF tail = head THEN NoChar ELSE buf[tail]
  /\ UNCHANGED <<wire, sent, int_flag, isrVars, bufVars, key_lock, ctx, saved, n, apps>>

LockBuffer ==
  /\ Thread("lock", "pop")
  /\ key_lock' = TRUE
  /\ UNCHANGED <<wire, sent, int_flag, isrVars, bufVars, ctx, saved, got, n, apps>>

Pop ==
  /\ Thread("pop", "unlock")
  /\ IF tail = head
     THEN got' = NoChar /\ UNCHANGED tail
     ELSE got' = buf[tail] /\ tail' = (tail + 1) % BufSize
  /\ UNCHANGED <<wire, sent, int_flag, isrVars, buf, head, key_lock, ctx, saved, n, apps>>

UnlockBuffer ==
  /\ Thread("unlock", "restore")
  /\ key_lock' = FALSE
  /\ UNCHANGED <<wire, sent, int_flag, isrVars, bufVars, ctx, saved, got, n, apps>>

RestoreInterrupts ==
  /\ Thread("restore", "return")
  /\ int_flag' = (int_flag \/ saved)
  /\ UNCHANGED <<wire, sent, isrVars, bufVars, key_lock, ctx, saved, got, n, apps>>

-----------------------------------------------------------------------------

\* shell_main_loop(): read until the buffer is empty, then enable_and_hlt(),
\* whose sti takes effect with the hlt.  Enter may run an application.
ShellReturn ==
  /\ ctx = "shell" /\ isr = "none" /\ pc = "return"
  /\ pc' = IF got = NoChar THEN "sleep" ELSE "read"
  /\ UNCHANGED <<wire, sent, int_flag, isrVars, bufVars, key_lock, ctx, saved, got, n, apps>>

Sleep ==
  /\ Thread("sleep", "hlt")
  /\ int_flag' = TRUE
  /\ UNCHANGED <<wire, sent, isrVars, bufVars, key_lock, ctx, saved, got, n, apps>>

RunApp ==
  /\ ctx = "shell" /\ got = "\n" /\ apps < MaxApps
  /\ Thread("return", "user")
  /\ ctx' = "app"
  /\ apps' = apps + 1
  /\ int_flag' = TRUE
  /\ UNCHANGED <<wire, sent, isrVars, bufVars, key_lock, saved, got, n>>

\* int 0x80 goes through an interrupt gate: the call runs with interrupts off.
\* Call 6 reads one character; call 2 up to len, and stops behind Enter.
SystemCall ==
  /\ ctx = "app"
  /\ \/ Thread("user", "read") /\ ctx' = "getchar"
     \/ Thread("user", "more") /\ ctx' = "read"
  /\ int_flag' = FALSE
  /\ n' = 0
  /\ UNCHANGED <<wire, sent, isrVars, bufVars, key_lock, saved, got, apps>>

ReadMore ==
  /\ ctx = "read" /\ n < MaxRead
  /\ Thread("more", "read")
  /\ UNCHANGED <<wire, sent, int_flag, isrVars, bufVars, key_lock, ctx, saved, got, n, apps>>

StoreChar ==
  /\ ctx = "read" /\ got # NoChar
  /\ Thread("return", IF got = "\n" THEN "iret" ELSE "more")
  /\ n' = n + 1
  /\ UNCHANGED <<wire, sent, int_flag, isrVars, bufVars, key_lock, ctx, saved, got, apps>>

\* The call is over.  Call 2 may be given any len up to MaxRead.
SystemReturn ==
  /\ \/ ctx = "getchar" /\ Thread("return", "user")
     \/ ctx = "read" /\ got = NoChar /\ Thread("return", "user")
     \/ ctx = "read" /\ Thread("more", "user")
     \/ ctx = "read" /\ Thread("iret", "user")
  /\ ctx' = "app"
  /\ int_flag' = TRUE
  /\ UNCHANGED <<wire, sent, isrVars, bufVars, key_lock, saved, got, n, apps>>

\* System call 0 jumps to shell_main_loop() with interrupts still off.
ExitApp ==
  /\ ctx = "app" /\ Thread("user", "sleep")
  /\ ctx' = "shell"
  /\ int_flag' = FALSE
  /\ UNCHANGED <<wire, sent, isrVars, bufVars, key_lock, saved, got, n, apps>>

-----------------------------------------------------------------------------

Init ==
  /\ wire = <<>> /\ sent = 0
  /\ int_flag = TRUE
  /\ in_service = {} /\ isr = "none" /\ isr_char = NoChar
  /\ modifiers = {} /\ extended = FALSE
  /\ buf = [i \in 0 .. BufSize - 1 |-> NoChar] /\ head = 0 /\ tail = 0
  /\ key_lock = FALSE
  /\ ctx = "shell" /\ pc = "sleep"
  /\ saved = FALSE /\ got = NoChar /\ n = 0 /\ apps = 0

Handler == Decode \/ Push \/ EndOfInterrupt

Kernel ==
  \/ DisableInterrupts \/ LockBuffer \/ Pop \/ UnlockBuffer \/ RestoreInterrupts
  \/ ShellReturn \/ Sleep \/ ReadMore \/ StoreChar \/ SystemReturn

Next ==
  \/ KeyEvent \/ TimerInterrupt \/ KeyInterrupt
  \/ Handler \/ Kernel
  \/ RunApp \/ SystemCall \/ ExitApp

Spec == Init /\ [][Next]_vars

\* The CPU executes the code it is in: a handler is far shorter than the
\* timer's period, so interrupts do not keep the kernel from its next step.
\* The timer (PIT) never stops.  IRQ 1 is up while a scan code waits and the
\* PIC keeps the request, so it is served when that is possible again.
FairSpec ==
  /\ Spec
  /\ WF_vars(Handler) /\ SF_vars(Kernel)
  /\ WF_vars(TimerInterrupt) /\ SF_vars(KeyInterrupt)

-----------------------------------------------------------------------------

\* Type invariant.
KeyboardTypeOK ==
  /\ wire \in Seq(Codes) /\ sent \in 0 .. MaxKeys
  /\ int_flag \in BOOLEAN
  /\ in_service \subseteq {"timer", "key"}
  /\ isr \in {"none", "timer", "decode", "push", "eoi"}
  /\ isr_char \in Chars \cup {NoChar}
  /\ modifiers \subseteq {"shift", "caps"} /\ extended \in BOOLEAN
  /\ buf \in [0 .. BufSize - 1 -> Chars \cup {NoChar}]
  /\ head \in 0 .. BufSize - 1 /\ tail \in 0 .. BufSize - 1
  /\ key_lock \in BOOLEAN
  /\ ctx \in {"shell", "app", "getchar", "read"}
  /\ pc \in {"sleep", "hlt", "read", "lock", "pop", "unlock", "restore", "return",
            "user", "more", "iret"}
  /\ saved \in BOOLEAN /\ got \in Chars \cup {NoChar}
  /\ n \in Nat /\ apps \in 0 .. MaxApps

\* The driver is a FIFO queue of BUF_SIZE - 1 characters that drops new ones
\* when full: no character is lost, duplicated or reordered between a push in
\* the handler and a pop in a reader, wherever the handler comes in.
KQ == INSTANCE KeyQueue WITH Capacity <- BufSize - 1, queue <- Queue, got <- got

QueueRefined == KQ!Spec

\* A handler never meets a lock its own CPU holds: keyboard_handler() takes
\* KEY_BUFFER, and with no other CPU nobody would release it.
NoSelfDeadlock == isr # "none" => ~key_lock

\* without_interrupts() leaves the flag as it found it: a system call runs
\* with interrupts off to its end, the shell and ring 3 with interrupts on
\* (but where the shell comes back from exit, or reads), and whoever halts
\* can be woken.
FlagRestored ==
  isr = "none" =>
    /\ ctx \in {"getchar", "read"} => ~int_flag
    /\ ctx = "shell" /\ pc \in {"read", "return", "hlt"} => int_flag
    /\ ctx = "app" => int_flag

\* Every interrupt that was taken is ended: the PIC waits for none when no
\* handler runs, so neither source is masked for good.
EveryInterruptEnded == isr = "none" => in_service = {}

\* shell_main_loop() reads until None, then halts: a character pushed between
\* the None and the hlt waits for the next timer tick, but every key pressed
\* is taken in the end, unless an application, which need not read, starts.
KeysDelivered ==
  wire # <<>> \/ Queue # <<>> ~>
    (wire = <<>> /\ Queue = <<>>) \/ ctx # "shell"

=============================================================================
