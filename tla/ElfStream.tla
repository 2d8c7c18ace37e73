----------------------------- MODULE ElfStream -----------------------------
(***************************************************************************)
(* `gen`: the shell (kernel/src/shell.rs) asks the daemon                  *)
(* (daemon/src/main.rs) for an application over COM2 and receives it as    *)
(* "<size>\n<binary>", acknowledging the size, every Chunk bytes and the   *)
(* end.  One TCP stream and one UART carry both directions, nothing is     *)
(* framed, and each side only looks at the stream when it expects          *)
(* something, so a byte may be read as what it was not written as.         *)
(*                                                                         *)
(* Bytes are digits, "nl", "x" (any other), "ack", and "g" and "p", which  *)
(* stand for KARNELOS_GEN: with the prompt, and KARNELOS_PROFILE: with it. *)
(***************************************************************************)
EXTENDS Integers, Sequences, SequencesExt

CONSTANTS
  Chunk,      \* ELF_ACK_CHUNK, and CHUNK of the daemon
  MaxElf,     \* MAX_ELF_SIZE
  MaxDigits,  \* what size_buf takes
  Decimal,    \* Decimal[n]: the digits format!("{}", n) writes
  Fifo,       \* bytes the UART holds
  Elves,      \* the binaries a build may produce, as sequences of bytes
  ErrorLines, \* the texts generate_and_build() may return instead
  Troubles,   \* what else may happen: the choices for `trouble`
  MaxGens     \* bound of the model on `gen` commands

Digit(n) == ToString(n)  \* the byte of a digit
Digits == {Digit(n) : n \in 0 .. 9}
Value(b) == CHOOSE n \in 0 .. 9 : b = Digit(n)
Byte == Digits \cup {"nl", "x", "ack", "g", "p"}

\* The number that digits stand for, as parse() of size_buf finds it.
TakeDigit(n, b) == 10 * n + Value(b)
Number(digits) == FoldLeft(TakeDigit, 0, digits)

\* The bytes are different ones.
ASSUME DigitAssumption ==
  /\ \A m, n \in 0 .. 9 : Digit(m) = Digit(n) => m = n
  /\ {"nl", "x", "ack", "g", "p"} \cap Digits = {}

ASSUME StreamAssumption ==
  /\ Chunk \in Nat \ {0} /\ MaxElf \in Nat \ {0} /\ Fifo \in Nat \ {0}
  /\ MaxDigits \in Nat \ {0} /\ MaxGens \in Nat
  /\ Elves \subseteq Seq(Byte) /\ ErrorLines \subseteq Seq(Byte)
  /\ \A binary \in Elves : Len(binary) \in 1 .. MaxElf
  /\ Troubles \subseteq SUBSET
       {"profile",   \* the daemon has the boot profile to answer, with "OK\n"
        "errors",    \* the LLM or the build may fail
        "impatient", \* the user may type `gen` again while one is under way
        "silence",   \* nothing may come from the kernel for 30 seconds
        "overrun"}   \* a byte that finds the FIFO full is dropped

\* A size is written so that it fits size_buf and is read as what it was.
ASSUME DecimalAssumption ==
  \A n \in 1 .. MaxElf :
    /\ Decimal[n] \in Seq(Digits) /\ Len(Decimal[n]) <= MaxDigits
    /\ Number(Decimal[n]) = n

VARIABLES
  trouble, \* what may go wrong in this behaviour
  elf_state, remaining, elf_buf, size, size_len, ack_counter, \* the shell
  last_elf,
  fifo,    \* the UART's receive FIFO
  k2d,     \* bytes on their way to the daemon
  d2k,     \* bytes on their way to the UART
  rbuf,    \* bytes that the daemon's BufReader holds, out of reach of ACK reads
  daemon,  \* where handle_connection() is
  elf,     \* the part of the result it has not sent yet
  gens,    \* history: `gen` commands so far
  built,   \* history: the binary the last build produced
  rejected,\* history: "Invalid ELF size" was printed
  lost,    \* history: a byte was dropped
  closed_at \* history: what the daemon waited for when it gave up

shellVars == <<elf_state, remaining, elf_buf, size, size_len, ack_counter, last_elf>>
daemonVars == <<daemon, rbuf, elf, built, closed_at>>
vars == <<trouble, shellVars, fifo, k2d, d2k, daemonVars, gens, rejected, lost>>

-----------------------------------------------------------------------------

\* cmd_gen(): write the request, await the size.
Gen ==
  /\ gens < MaxGens
  /\ elf_state = "Idle" \/ "impatient" \in trouble
  /\ gens' = gens + 1
  /\ k2d' = IF daemon = "closed" THEN k2d ELSE k2d \o <<"g", "nl">>
  /\ elf_state' = "AwaitingSize"
  /\ elf_buf' = <<>>
  /\ size' = 0 /\ size_len' = 0
  /\ remaining' = 0
  /\ UNCHANGED <<ack_counter, last_elf, fifo, d2k, daemonVars,
                 rejected, lost>>

\* shell_main_loop() takes one byte from COM2, and only while one is awaited.
Receive(state) ==
  /\ elf_state = state
  /\ fifo # <<>>
  /\ fifo' = Tail(fifo)

Ack == k2d' = IF daemon = "closed" THEN k2d ELSE Append(k2d, "ack")

\* A byte of the size: digits count, up to MaxDigits of them.
SizeByte ==
  LET b == Head(fifo) IN
  /\ Receive("AwaitingSize") /\ b # "nl"
  /\ IF b \in Digits /\ size_len < MaxDigits
     THEN size' = TakeDigit(size, b) /\ size_len' = size_len + 1
     ELSE UNCHANGED <<size, size_len>>
  /\ UNCHANGED <<elf_state, remaining, elf_buf, ack_counter, last_elf, k2d, d2k,
                 daemonVars, gens, rejected, lost>>

\* The end of the size line: a size that is 0, missing or too large is
\* acknowledged too, and ends the wait.  The variant accepts any length.
ValidSize_NoUpperBound(s) == s > 0
ValidSize(s) == s \in 1 .. MaxElf

SizeEnd ==
  /\ Receive("AwaitingSize") /\ Head(fifo) = "nl"
  /\ Ack
  /\ IF ValidSize(size)
     THEN elf_state' = "AwaitingData" /\ remaining' = size /\ UNCHANGED rejected
     ELSE elf_state' = "Idle" /\ remaining' = 0 /\ rejected' = TRUE
  /\ elf_buf' = <<>>
  /\ size' = 0 /\ size_len' = 0
  /\ ack_counter' = 0
  /\ UNCHANGED <<last_elf, d2k, daemonVars, gens, lost>>

\* A byte of the binary.  The variants: a chunk that is acknowledged one byte
\* late, and a receiver that does not stop at the last byte.
ChunkComplete_OneLate == ack_counter >= Chunk
ChunkComplete == ack_counter + 1 >= Chunk

DataByte_NoEndTest ==
  /\ Receive("AwaitingData")
  /\ elf_buf' = IF Len(elf_buf) < MaxElf THEN Append(elf_buf, Head(fifo)) ELSE elf_buf
  /\ remaining' = remaining - 1
  /\ IF ChunkComplete
     THEN Ack /\ ack_counter' = 0
     ELSE UNCHANGED k2d /\ ack_counter' = ack_counter + 1
  /\ UNCHANGED <<elf_state, size, size_len, last_elf, d2k, daemonVars, gens,
                 rejected, lost>>

DataByte ==
  /\ Receive("AwaitingData") /\ remaining > 1
  /\ elf_buf' = IF Len(elf_buf) < MaxElf THEN Append(elf_buf, Head(fifo)) ELSE elf_buf
  /\ remaining' = remaining - 1
  /\ IF ChunkComplete
     THEN Ack /\ ack_counter' = 0
     ELSE UNCHANGED k2d /\ ack_counter' = ack_counter + 1
  /\ UNCHANGED <<elf_state, size, size_len, last_elf, d2k, daemonVars, gens,
                 rejected, lost>>

\* LastByte that copies elf_buf before the byte is in it, and LastByte that
\* acknowledges a full chunk before the end.
LastByte_CopiedEarly ==
  /\ Receive("AwaitingData") /\ remaining = 1
  /\ last_elf' = elf_buf
  /\ elf_state' = "Idle"
  /\ remaining' = 0
  /\ elf_buf' = <<>>
  /\ size' = 0 /\ size_len' = 0
  /\ ack_counter' = 0
  /\ Ack
  /\ UNCHANGED <<d2k, daemonVars, gens, rejected, lost>>

LastByte_ChunkAckToo ==
  /\ Receive("AwaitingData") /\ remaining = 1
  /\ last_elf' = IF Len(elf_buf) < MaxElf THEN Append(elf_buf, Head(fifo)) ELSE elf_buf
  /\ elf_state' = "Idle"
  /\ remaining' = 0
  /\ elf_buf' = <<>>
  /\ size' = 0 /\ size_len' = 0
  /\ ack_counter' = 0
  /\ IF ChunkComplete THEN k2d' = k2d \o <<"ack", "ack">> ELSE Ack
  /\ UNCHANGED <<d2k, daemonVars, gens, rejected, lost>>

\* The last byte: keep the binary, acknowledge and run it (module Process).
LastByte ==
  /\ Receive("AwaitingData") /\ remaining = 1
  /\ last_elf' = IF Len(elf_buf) < MaxElf THEN Append(elf_buf, Head(fifo)) ELSE elf_buf
  /\ elf_state' = "Idle"
  /\ remaining' = 0
  /\ elf_buf' = <<>>
  /\ size' = 0 /\ size_len' = 0
  /\ ack_counter' = 0
  /\ Ack
  /\ UNCHANGED <<d2k, daemonVars, gens, rejected, lost>>

-----------------------------------------------------------------------------

\* The host side of the UART.  QEMU offers a byte when the FIFO has room; a
\* wire does not wait.
Deliver ==
  /\ d2k # <<>> /\ Len(fifo) < Fifo
  /\ fifo' = Append(fifo, Head(d2k))
  /\ d2k' = Tail(d2k)
  /\ UNCHANGED <<shellVars, k2d, daemonVars, gens, rejected, lost>>

Overrun ==
  /\ "overrun" \in trouble
  /\ d2k # <<>> /\ Len(fifo) = Fifo
  /\ d2k' = Tail(d2k)
  /\ lost' = TRUE
  /\ UNCHANGED <<shellVars, fifo, k2d, daemonVars, gens, rejected>>

-----------------------------------------------------------------------------

\* reader.read_line(): what BufReader holds, then whatever part of the stream
\* has arrived; bytes behind the newline stay in BufReader.  Only a line that
\* begins with KARNELOS_GEN: is a request; a profile is stored and answered.
HasLine(s) == \E i \in DOMAIN s : s[i] = "nl"
LineEnds(s, i) == s[i] = "nl" /\ \A j \in 1 .. i - 1 : s[j] # "nl"

\* A daemon that keeps the line it has read: one request is served again and
\* again.
ReadLine_Kept ==
  LET all == rbuf \o k2d IN
  /\ daemon = "line" /\ HasLine(all)
  /\ rbuf' = all /\ k2d' = <<>>
  /\ daemon' = IF all[1] = "g" THEN "generate" ELSE "line"
  /\ d2k' = IF all[1] = "p" THEN d2k \o <<"x", "x", "nl">> ELSE d2k
  /\ UNCHANGED <<shellVars, fifo, elf, built, closed_at, gens, rejected, lost>>

ReadLine ==
  LET all == rbuf \o k2d IN
  /\ daemon = "line"
  /\ \E i \in DOMAIN all : \E end \in i .. Len(all) :
       /\ LineEnds(all, i)
       /\ end >= Len(rbuf)
       /\ HasLine(rbuf) => end = Len(rbuf)
       /\ rbuf' = SubSeq(all, i + 1, end)
       /\ k2d' = SubSeq(all, end + 1, Len(all))
  /\ daemon' = IF all[1] = "g" THEN "generate" ELSE "line"
  /\ d2k' = IF all[1] = "p" THEN d2k \o <<"x", "x", "nl">> ELSE d2k
  /\ UNCHANGED <<shellVars, fifo, elf, built, closed_at, gens, rejected, lost>>

\* generate_and_build() returns; the size line, or the error text up to its
\* newline, is sent at once.
Generate ==
  /\ daemon = "generate"
  /\ \/ \E binary \in Elves :
          /\ d2k' = Append(d2k \o Decimal[Len(binary)], "nl")
          /\ elf' = binary /\ built' = binary
     \/ /\ "errors" \in trouble
        /\ \E text \in ErrorLines : d2k' = Append(d2k \o text, "nl")
        /\ elf' = <<>> /\ UNCHANGED built
  /\ daemon' = "size ack"
  /\ UNCHANGED <<shellVars, fifo, k2d, rbuf, closed_at, gens, rejected, lost>>

\* generate_and_build()? fails: the connection is dropped.
GenerateFails ==
  /\ daemon = "generate" /\ "errors" \in trouble
  /\ daemon' = "closed" /\ closed_at' = "generate"
  /\ k2d' = <<>> /\ rbuf' = <<>>
  /\ UNCHANGED <<shellVars, fifo, d2k, elf, built, gens, rejected, lost>>

\* read_exact() of one byte: any byte is an ACK.
AwaitsAck == daemon \in {"size ack", "chunk ack", "final ack"}

ReadAck ==
  /\ AwaitsAck /\ k2d # <<>>
  /\ k2d' = Tail(k2d)
  /\ daemon' = CASE daemon = "final ack" -> "line"
                 [] daemon # "final ack" /\ elf = <<>> -> "final ack"
                 [] OTHER -> "send"
  /\ UNCHANGED <<shellVars, fifo, d2k, rbuf, elf, built, closed_at, gens,
                 rejected, lost>>

NextChunk == IF Len(elf) < Chunk THEN Len(elf) ELSE Chunk

\* SendChunk that does not wait for the ACK of a chunk.
SendChunk_NoWait ==
  /\ daemon = "send"
  /\ d2k' = d2k \o SubSeq(elf, 1, NextChunk)
  /\ elf' = SubSeq(elf, NextChunk + 1, Len(elf))
  /\ daemon' = IF NextChunk < Len(elf) THEN "send" ELSE "final ack"
  /\ UNCHANGED <<shellVars, fifo, k2d, rbuf, built, closed_at, gens, rejected, lost>>

\* The next CHUNK bytes of the binary.
SendChunk ==
  /\ daemon = "send"
  /\ d2k' = d2k \o SubSeq(elf, 1, NextChunk)
  /\ elf' = SubSeq(elf, NextChunk + 1, Len(elf))
  /\ daemon' = IF NextChunk < Len(elf) THEN "chunk ack" ELSE "final ack"
  /\ UNCHANGED <<shellVars, fifo, k2d, rbuf, built, closed_at, gens, rejected, lost>>

\* set_read_timeout(30 s): any read that waits longer drops the connection,
\* and QEMU's `-serial tcp:` does not open another.
ReadTimeout ==
  /\ "silence" \in trouble
  /\ \/ AwaitsAck /\ k2d = <<>>
     \/ daemon = "line" /\ ~HasLine(rbuf \o k2d)
  /\ daemon' = "closed" /\ closed_at' = daemon
  /\ k2d' = <<>> /\ rbuf' = <<>>
  /\ UNCHANGED <<shellVars, fifo, d2k, elf, built, gens, rejected, lost>>

-----------------------------------------------------------------------------

\* kernel_main() has sent its profile; or a byte of the profile's prefix was
\* dropped by serial_putc_port(), which stops trying after 10000 polls, and
\* the line was ignored.
Init ==
  /\ trouble \in Troubles
  /\ elf_state = "Idle" /\ remaining = 0 /\ elf_buf = <<>>
  /\ size = 0 /\ size_len = 0 /\ ack_counter = 0 /\ last_elf = <<>>
  /\ fifo = <<>> /\ d2k = <<>>
  /\ k2d = IF "profile" \in trouble THEN <<"p", "nl">> ELSE <<>>
  /\ rbuf = <<>> /\ daemon = "line" /\ elf = <<>>
  /\ gens = 0 /\ built = <<>> /\ rejected = FALSE /\ lost = FALSE
  /\ closed_at = "open"

Shell == SizeByte \/ SizeEnd \/ DataByte \/ LastByte
Daemon == ReadLine \/ Generate \/ ReadAck \/ SendChunk

Next ==
  /\ UNCHANGED trouble
  /\ \/ Gen
     \/ Shell
     \/ Deliver
     \/ Overrun
     \/ Daemon
     \/ GenerateFails
     \/ ReadTimeout

Spec == Init /\ [][Next]_vars

\* The timer wakes the shell's loop, which polls COM2 while it awaits a byte;
\* QEMU passes bytes on; the daemon's thread runs, and the LLM and the build
\* it calls come back.  Nothing makes the user type or a timeout strike.
FairSpec ==
  /\ Spec
  /\ WF_vars(UNCHANGED trouble /\ Shell)
  /\ WF_vars(UNCHANGED trouble /\ Deliver)
  /\ WF_vars(UNCHANGED trouble /\ Daemon)

-----------------------------------------------------------------------------

\* Type invariant.
StreamTypeOK ==
  /\ elf_state \in {"Idle", "AwaitingSize", "AwaitingData"}
  /\ remaining \in Nat /\ size \in Nat /\ size_len \in Nat /\ ack_counter \in Nat
  /\ {elf_buf, last_elf, fifo, k2d, d2k, rbuf, elf, built} \subseteq Seq(Byte)
  /\ daemon \in {"line", "generate", "size ack", "send", "chunk ack", "final ack",
                "closed"}
  /\ gens \in 0 .. MaxGens /\ rejected \in BOOLEAN /\ lost \in BOOLEAN
  /\ closed_at \in {"open", "line", "generate", "size ack", "chunk ack", "final ack"}

\* Whatever comes over COM2 - stale replies, error texts, the rest of an
\* earlier binary - the receiver stays inside its buffers: size_buf and
\* elf_buf have room for all that is still awaited, `remaining - 1` does not
\* underflow, and an ACK is due within Chunk bytes.
ReceiverInBounds ==
  /\ size_len <= MaxDigits
  /\ elf_state = "AwaitingData" =>
       /\ remaining >= 1
       /\ Len(elf_buf) + remaining <= MaxElf
       /\ ack_counter < Chunk
       /\ (Len(elf_buf) - ack_counter) % Chunk = 0
  /\ Len(last_elf) <= MaxElf

\* README.md:33-36: what `gen` ends with is the binary that the daemon built
\* for it, whole and in order.  (With the profile to answer it does not.)
GenDelivers ==
  trouble \subseteq {"profile"} /\ elf_state = "Idle" /\ gens > 0 =>
    built # <<>> /\ last_elf = built

\* phases.md:208: "the daemon waits for the ACK before sending the next
\* chunk": no more than one chunk, or the size line, is on its way.
AckPacing ==
  trouble = {} => Len(fifo) + Len(d2k) <=
    IF daemon = "size ack" /\ elf_state = "AwaitingSize"
    THEN Len(Decimal[Len(built)]) + 1 ELSE Chunk

\* shell.rs:102, the final ACK "keeps the daemon's COM2/TCP stream clean for
\* the next `gen`": when both sides are done nothing is left on the way.
StreamClean ==
  trouble = {} /\ elf_state = "Idle" /\ daemon = "line" =>
    fifo = <<>> /\ d2k = <<>> /\ k2d = <<>> /\ rbuf = <<>> /\ elf = <<>>

\* Where the user's request is: the binary is built once its size is on the way.
GenState ==
  IF elf_state = "Idle" THEN "idle"
  ELSE IF elf_state = "AwaitingSize" /\ daemon # "size ack" THEN "asked"
  ELSE "built"

Service == INSTANCE GenService WITH state <- GenState, kept <- last_elf

\* When nothing goes wrong, shell and daemon implement that service: one build
\* and one binary for each `gen`, though the next `gen` may be typed before the
\* daemon has read the last ACK of this one.
GenRefined ==
  Service!Init /\ [][trouble = {} => Service!Next]_<<GenState, built, last_elf>>

\* A `gen` comes to an end, unless the daemon has given up the connection:
\* the two sides never both wait for the other.
GenAnswered ==
  trouble = {} /\ elf_state # "Idle" ~> elf_state = "Idle" \/ daemon = "closed"

\* shell.rs:63, after an invalid size: "ACK anyway so the daemon unblocks and
\* stops streaming".
DaemonUnblocks == AwaitsAck ~> ~AwaitsAck

\* shell.rs:8-11: the ACKs keep the host from sending "faster than the UART's
\* 16-byte FIFO can be drained".
NoByteLost == ~lost

\* daemon/src/main.rs:207, "Bound the ACK reads so a misbehaving kernel can't
\* hang the daemon": it is ACK reads that are bounded.
OnlyAckReadsTimeOut == closed_at # "line"

=============================================================================
