-------------------------- MODULE Keyboard_proofs --------------------------
(***************************************************************************)
(* Proofs about the keyboard path, for every size of the buffer and any    *)
(* number of keys, applications and characters that system call 2 reads.   *)
(***************************************************************************)
EXTENDS Keyboard, SequenceTheorems, TLAPS

\* What a reader does with interrupts off, and what without_interrupts()
\* encloses.
InCriticalSection == pc \in {"lock", "pop", "unlock", "restore"}
Reading == InCriticalSection \/ pc \in {"read", "return"}

\* Which code runs in which context.
Contexts ==
  /\ ctx = "shell" => Reading \/ pc \in {"sleep", "hlt"}
  /\ ctx = "app" => pc = "user"
  /\ ctx = "getchar" => Reading
  /\ ctx = "read" => Reading \/ pc \in {"more", "iret"}

\* The lock is held in the critical section only, and this runs with interrupts
\* off; `saved` is the flag of the context around it.
Locking ==
  /\ key_lock <=> pc \in {"pop", "unlock"}
  /\ InCriticalSection => ~int_flag /\ (saved <=> ctx = "shell")

\* A handler runs with interrupts off, in a place where they were on, and has
\* not ended its interrupt; when no handler runs, FlagRestored says where
\* interrupts are on.
Interrupting ==
  /\ isr = "none" => in_service = {}
  /\ isr = "timer" => in_service = {"timer"}
  /\ isr \in {"decode", "push", "eoi"} => in_service = {"key"}
  /\ isr # "none" => ~int_flag /\ ~InCriticalSection /\ ctx \in {"shell", "app"}
  /\ isr = "decode" => wire # <<>>
  /\ isr = "push" => isr_char \in Chars

\* The inductive invariant.
KeyInv == KeyboardTypeOK /\ Contexts /\ Locking /\ Interrupting /\ FlagRestored

LEMMA Init_KeyInv == ASSUME Init PROVE KeyInv
BY KeyboardAssumption DEF Init, KeyInv, KeyboardTypeOK, Contexts, Locking,
   Interrupting, FlagRestored, Reading, InCriticalSection, Chars, NoChar

\* The user and the interrupts.
LEMMA KeyEvent_KeyInv == ASSUME KeyInv, KeyEvent PROVE KeyInv'
BY KeyboardAssumption DEF KeyEvent, KeyInv, KeyboardTypeOK, Contexts, Locking, Interrupting,
   FlagRestored, Reading, InCriticalSection, isrVars, bufVars, threadVars

LEMMA TimerInterrupt_KeyInv == ASSUME KeyInv, TimerInterrupt PROVE KeyInv'
BY DEF TimerInterrupt, TakeInterrupt, KeyInv, KeyboardTypeOK, Contexts, Locking,
   Interrupting, FlagRestored, Reading, InCriticalSection, bufVars, threadVars

LEMMA KeyInterrupt_KeyInv == ASSUME KeyInv, KeyInterrupt PROVE KeyInv'
BY DEF KeyInterrupt, TakeInterrupt, KeyInv, KeyboardTypeOK, Contexts, Locking,
   Interrupting, FlagRestored, Reading, InCriticalSection, bufVars, threadVars

-----------------------------------------------------------------------------

\* The handler.
LEMMA Decode_KeyInv == ASSUME KeyInv, Decode PROVE KeyInv'
<1>1. wire \in Seq(Codes) /\ wire # <<>> /\ isr = "decode"
  BY DEF Decode, KeyInv, KeyboardTypeOK, Interrupting
<1>2. Head(wire) \in Codes /\ Tail(wire) \in Seq(Codes)
  BY <1>1
<1>3. ASSUME NEW code
      PROVE  /\ Character(code) \in Chars \cup {NoChar}
             /\ modifiers \subseteq {"shift", "caps"} => Modify(code) \subseteq {"shift", "caps"}
  BY DEF Character, Letter, Chars, Modify
<1>4. KeyboardTypeOK'
  BY <1>1, <1>2, <1>3 DEF Decode, KeyInv, KeyboardTypeOK, bufVars, threadVars
<1>5. (Contexts /\ Locking /\ Interrupting /\ FlagRestored)'
  BY <1>1, <1>3 DEF Decode, KeyInv, Contexts, Locking, Interrupting, FlagRestored,
     Reading, InCriticalSection, Chars, NoChar, bufVars, threadVars
<1> QED BY <1>4, <1>5 DEF KeyInv

\* The next place in the ring.
Next1(i) == (i + 1) % BufSize

LEMMA Next1InRing ==
  ASSUME NEW i \in 0 .. BufSize - 1
  PROVE  /\ Next1(i) \in 0 .. BufSize - 1
         /\ Next1(i) = IF i = BufSize - 1 THEN 0 ELSE i + 1
<1>1. BufSize \in Nat /\ BufSize > 1
  BY KeyboardAssumption
<1>2. CASE i = BufSize - 1
  <2>1. i + 1 = BufSize /\ BufSize % BufSize = 0
    BY <1>1, <1>2
  <2> QED BY <1>1, <1>2, <2>1 DEF Next1
<1>3. CASE i # BufSize - 1
  BY <1>1, <1>3 DEF Next1
<1> QED BY <1>2, <1>3

LEMMA Push_KeyInv == ASSUME KeyInv, Push PROVE KeyInv'
<1>1. Next1(head) \in 0 .. BufSize - 1
  BY Next1InRing DEF KeyInv, KeyboardTypeOK
<1>2. isr_char \in Chars /\ isr = "push"
  BY DEF Push, KeyInv, Interrupting
<1>3. KeyboardTypeOK'
  BY <1>1, <1>2 DEF Push, Next1, KeyInv, KeyboardTypeOK, threadVars
<1>4. (Contexts /\ Locking /\ Interrupting /\ FlagRestored)'
  BY <1>2 DEF Push, KeyInv, Contexts, Locking, Interrupting, FlagRestored, Reading,
     InCriticalSection, threadVars
<1> QED BY <1>3, <1>4 DEF KeyInv

LEMMA EndOfInterrupt_KeyInv == ASSUME KeyInv, EndOfInterrupt PROVE KeyInv'
BY DEF EndOfInterrupt, KeyInv, KeyboardTypeOK, Contexts, Locking, Interrupting,
   FlagRestored, Reading, InCriticalSection, bufVars

-----------------------------------------------------------------------------

\* The reader.
LEMMA ReadChar_KeyInv ==
  ASSUME KeyInv, DisableInterrupts \/ LockBuffer \/ UnlockBuffer \/ RestoreInterrupts
  PROVE  KeyInv'
<1> USE DEF Thread, KeyInv, KeyboardTypeOK, Contexts, Locking, Interrupting, FlagRestored,
            Reading, InCriticalSection, isrVars, bufVars
<1>1. CASE DisableInterrupts BY <1>1 DEF DisableInterrupts
<1>2. CASE LockBuffer BY <1>2 DEF LockBuffer
<1>3. CASE UnlockBuffer BY <1>3 DEF UnlockBuffer
<1>4. CASE RestoreInterrupts BY <1>4 DEF RestoreInterrupts
<1> QED BY <1>1, <1>2, <1>3, <1>4

LEMMA Pop_KeyInv == ASSUME KeyInv, Pop PROVE KeyInv'
<1>1. Next1(tail) \in 0 .. BufSize - 1
  BY Next1InRing DEF KeyInv, KeyboardTypeOK
<1>2. KeyboardTypeOK'
  BY <1>1 DEF Pop, Thread, Next1, KeyInv, KeyboardTypeOK, isrVars
<1>3. (Contexts /\ Locking /\ Interrupting /\ FlagRestored)'
  BY DEF Pop, Thread, KeyInv, Contexts, Locking, Interrupting, FlagRestored, Reading,
     InCriticalSection, isrVars
<1> QED BY <1>2, <1>3 DEF KeyInv

\* The shell and the applications.
LEMMA Shell_KeyInv ==
  ASSUME KeyInv, ShellReturn \/ Sleep \/ RunApp \/ ExitApp
  PROVE  KeyInv'
<1> USE DEF Thread, KeyInv, KeyboardTypeOK, Contexts, Locking, Interrupting, FlagRestored,
            Reading, InCriticalSection, isrVars, bufVars
<1>1. CASE ShellReturn BY <1>1 DEF ShellReturn
<1>2. CASE Sleep BY <1>2 DEF Sleep
<1>3. CASE RunApp BY <1>3, KeyboardAssumption DEF RunApp
<1>4. CASE ExitApp BY <1>4 DEF ExitApp
<1> QED BY <1>1, <1>2, <1>3, <1>4

LEMMA Calls_KeyInv ==
  ASSUME KeyInv, SystemCall \/ ReadMore \/ StoreChar \/ SystemReturn
  PROVE  KeyInv'
<1> USE DEF Thread, KeyInv, KeyboardTypeOK, Contexts, Locking, Interrupting, FlagRestored,
            Reading, InCriticalSection, isrVars, bufVars
<1>1. CASE SystemCall BY <1>1 DEF SystemCall
<1>2. CASE ReadMore BY <1>2 DEF ReadMore
<1>3. CASE StoreChar BY <1>3 DEF StoreChar
<1>4. CASE SystemReturn BY <1>4 DEF SystemReturn
<1> QED BY <1>1, <1>2, <1>3, <1>4

LEMMA Next_KeyInv == ASSUME KeyInv, [Next]_vars PROVE KeyInv'
<1>1. CASE UNCHANGED vars
  BY <1>1 DEF vars, isrVars, bufVars, threadVars, KeyInv, KeyboardTypeOK, Contexts,
     Locking, Interrupting, FlagRestored, Reading, InCriticalSection
<1> QED
  BY <1>1, KeyEvent_KeyInv, TimerInterrupt_KeyInv, KeyInterrupt_KeyInv, Decode_KeyInv,
     Push_KeyInv, EndOfInterrupt_KeyInv, ReadChar_KeyInv, Pop_KeyInv, Shell_KeyInv,
     Calls_KeyInv DEF Next, Handler, Kernel

LEMMA KeyInvariant == Spec => []KeyInv
BY Init_KeyInv, Next_KeyInv, PTL DEF Spec

-----------------------------------------------------------------------------

(***************************************************************************)
(* head, tail and every place of the buffer stay what they are declared as.*)
(***************************************************************************)
THEOREM KeyboardTypeCorrect == Spec => []KeyboardTypeOK
<1>1. KeyInv => KeyboardTypeOK
  BY DEF KeyInv
<1> QED BY <1>1, KeyInvariant, PTL

(***************************************************************************)
(* keyboard_handler() never spins on a KEY_BUFFER that the code it         *)
(* interrupted has locked.                                                 *)
(***************************************************************************)
THEOREM NoSelfDeadlockCorrect == Spec => []NoSelfDeadlock
<1>1. KeyInv => NoSelfDeadlock
  BY DEF KeyInv, Locking, Interrupting, InCriticalSection, NoSelfDeadlock
<1> QED BY <1>1, KeyInvariant, PTL

(***************************************************************************)
(* The interrupt flag is as the context wants it, through the interrupt    *)
(* gate, without_interrupts() and the jump back to the shell.              *)
(***************************************************************************)
THEOREM FlagRestoredCorrect == Spec => []FlagRestored
<1>1. KeyInv => FlagRestored
  BY DEF KeyInv
<1> QED BY <1>1, KeyInvariant, PTL

(***************************************************************************)
(* The PIC waits for no end of an interrupt when no handler runs.          *)
(***************************************************************************)
THEOREM EveryInterruptEndedCorrect == Spec => []EveryInterruptEnded
<1>1. KeyInv => EveryInterruptEnded
  BY DEF KeyInv, Interrupting, EveryInterruptEnded
<1> QED BY <1>1, KeyInvariant, PTL

-----------------------------------------------------------------------------

(***************************************************************************)
(* The refinement.  A ring of BufSize places from t to h is a sequence.    *)
(***************************************************************************)
Ring == 0 .. BufSize - 1
Queued(h, t) == IF t <= h THEN h - t ELSE h - t + BufSize
Place(t, i) == IF t + i - 1 < BufSize THEN t + i - 1 ELSE t + i - 1 - BufSize
QueueOf(b, h, t) == [i \in 1 .. Queued(h, t) |-> b[Place(t, i)]]
Contents == [Ring -> Chars \cup {NoChar}]

LEMMA ModuloRing ==
  ASSUME NEW a \in 0 .. 2 * BufSize - 1
  PROVE  a % BufSize = IF a < BufSize THEN a ELSE a - BufSize
<1>1. BufSize \in Nat /\ BufSize > 1
  BY KeyboardAssumption
<1>2. CASE a < BufSize
  BY <1>1, <1>2
<1>3. CASE a >= BufSize
  <2>1. a - BufSize \in 0 .. BufSize - 1 /\ a = 1 * BufSize + (a - BufSize)
    BY <1>1, <1>3
  <2> QED BY <1>1, <1>3, <2>1
<1> QED BY <1>1, <1>2, <1>3

LEMMA QueueIsRing ==
  ASSUME head \in Ring, tail \in Ring
  PROVE  Queue = QueueOf(buf, head, tail)
<1>1. BufSize \in Nat /\ BufSize > 1
  BY KeyboardAssumption
<1>2. (head - tail + BufSize) % BufSize = Queued(head, tail)
  <2>1. head - tail + BufSize \in 0 .. 2 * BufSize - 1
    BY <1>1 DEF Ring
  <2> QED BY <1>1, <2>1, ModuloRing DEF Queued, Ring
<1>3. Queued(head, tail) \in Ring
  BY <1>1 DEF Queued, Ring
<1>4. ASSUME NEW i \in 1 .. Queued(head, tail)
      PROVE  (tail + i - 1) % BufSize = Place(tail, i)
  <2> DEFINE a == tail + i - 1
  <2>1. a \in 0 .. 2 * BufSize - 1
    BY <1>1, <1>3 DEF Ring
  <2>2. Place(tail, i) = IF a < BufSize THEN a ELSE a - BufSize
    BY <1>1, <1>3 DEF Place, Ring
  <2> HIDE DEF a
  <2>3. a % BufSize = Place(tail, i)
    BY <2>1, <2>2, ModuloRing
  <2> QED BY <2>3 DEF a
<1> QED BY <1>2, <1>4 DEF Queue, QueueOf

LEMMA QueueOfIsSeq ==
  ASSUME NEW b \in Contents, NEW h \in Ring, NEW t \in Ring
  PROVE  /\ Queued(h, t) \in Ring
         /\ QueueOf(b, h, t) \in Seq(Chars \cup {NoChar})
         /\ Len(QueueOf(b, h, t)) = Queued(h, t)
         /\ \A i \in 1 .. Queued(h, t) : /\ Place(t, i) \in Ring
                                         /\ QueueOf(b, h, t)[i] = b[Place(t, i)]
<1>1. BufSize \in Nat /\ BufSize > 1
  BY KeyboardAssumption
<1>2. Queued(h, t) \in Ring
  BY <1>1 DEF Queued, Ring
<1>3. \A i \in 1 .. Queued(h, t) : Place(t, i) \in Ring
  BY <1>1, <1>2 DEF Place, Ring
<1>4. \A i \in 1 .. Queued(h, t) : b[Place(t, i)] \in Chars \cup {NoChar}
  BY <1>3 DEF Contents
<1> QED BY <1>1, <1>2, <1>3, <1>4 DEF QueueOf, Ring

\* push(): the new character comes last; the buffer is full exactly if all
\* places but one are taken.
LEMMA PushAppends ==
  ASSUME NEW b \in Contents, NEW h \in Ring, NEW t \in Ring, NEW c \in Chars
  PROVE  /\ Next1(h) # t =>
              /\ Queued(h, t) < BufSize - 1
              /\ QueueOf([b EXCEPT ![h] = c], Next1(h), t) = Append(QueueOf(b, h, t), c)
         /\ Next1(h) = t => Queued(h, t) = BufSize - 1
<1> DEFINE count == Queued(h, t)
           b2 == [b EXCEPT ![h] = c]
           q == QueueOf(b, h, t)
           q2 == QueueOf(b2, Next1(h), t)
<1>1. BufSize \in Nat /\ BufSize > 1 /\ Next1(h) \in Ring
  BY KeyboardAssumption, Next1InRing DEF Ring
<1>2. Next1(h) = IF h = BufSize - 1 THEN 0 ELSE h + 1
  BY Next1InRing DEF Ring
<1>3. Next1(h) = t => count = BufSize - 1
  BY <1>1, <1>2 DEF Queued, Ring
<1>4. ASSUME Next1(h) # t
      PROVE  count < BufSize - 1 /\ Queued(Next1(h), t) = count + 1
  BY <1>1, <1>2, <1>4 DEF Queued, Ring
<1>5. count \in Nat /\ Place(t, count + 1) = h /\ \A i \in 1 .. count : Place(t, i) # h
  BY <1>1 DEF Place, Queued, Ring
<1>6. b2 \in Contents
  BY DEF Contents
<1>7. ASSUME Next1(h) # t PROVE q2 = Append(q, c)
  <2>1. q \in Seq(Chars \cup {NoChar}) /\ Len(q) = count /\ \A i \in 1 .. count : q[i] = b[Place(t, i)]
    BY QueueOfIsSeq
  <2>2. /\ q2 \in Seq(Chars \cup {NoChar}) /\ Len(q2) = count + 1
        /\ \A i \in 1 .. count + 1 : Place(t, i) \in Ring /\ q2[i] = b2[Place(t, i)]
    <3> HIDE DEF b2
    <3> QED BY <1>1, <1>4, <1>6, <1>7, QueueOfIsSeq
  <2>3. \A i \in 1 .. count + 1 : q2[i] = IF i = count + 1 THEN c ELSE q[i]
    <3> HIDE DEF q, q2, count
    <3>1. \A i \in 1 .. count : q2[i] = b[Place(t, i)]
      BY <1>5, <2>2 DEF Contents
    <3>2. q2[count + 1] = c
      BY <1>5, <2>2 DEF Contents
    <3> QED BY <1>5, <2>1, <3>1, <3>2
  <2> HIDE DEF q, q2, count
  <2>4. /\ Append(q, c) \in Seq(Chars \cup {NoChar}) /\ Len(Append(q, c)) = count + 1
        /\ \A i \in 1 .. count + 1 : Append(q, c)[i] = IF i = count + 1 THEN c ELSE q[i]
    BY <1>5, <2>1
  <2> QED BY <2>2, <2>3, <2>4, SeqEqual
<1> QED BY <1>3, <1>4, <1>7

\* pop(): the first character goes.
LEMMA PopTakes ==
  ASSUME NEW b \in Contents, NEW h \in Ring, NEW t \in Ring
  PROVE  /\ h = t <=> QueueOf(b, h, t) = <<>>
         /\ h # t => /\ b[t] = Head(QueueOf(b, h, t))
                     /\ QueueOf(b, h, Next1(t)) = Tail(QueueOf(b, h, t))
<1> DEFINE count == Queued(h, t)
           q == QueueOf(b, h, t)
           q2 == QueueOf(b, h, Next1(t))
<1>1. BufSize \in Nat /\ BufSize > 1 /\ Next1(t) \in Ring
  BY KeyboardAssumption, Next1InRing DEF Ring
<1>2. Next1(t) = IF t = BufSize - 1 THEN 0 ELSE t + 1
  BY Next1InRing DEF Ring
<1>3. count \in Nat /\ (h = t <=> count = 0)
  BY <1>1 DEF Queued, Ring
<1>4. q \in Seq(Chars \cup {NoChar}) /\ Len(q) = count /\ \A i \in 1 .. count : q[i] = b[Place(t, i)]
  BY QueueOfIsSeq
<1>5. h = t <=> q = <<>>
  <2> HIDE DEF count, q
  <2> QED BY <1>3, <1>4
<1>6. ASSUME h # t PROVE b[t] = Head(q) /\ q2 = Tail(q)
  <2>1. Queued(h, Next1(t)) = count - 1 /\ Place(t, 1) = t
    BY <1>1, <1>2, <1>6 DEF Queued, Place, Ring
  <2>2. \A i \in 1 .. count - 1 : Place(Next1(t), i) = Place(t, i + 1)
    BY <1>1, <1>2 DEF Queued, Place, Ring
  <2>3. q2 \in Seq(Chars \cup {NoChar}) /\ Len(q2) = count - 1 /\ \A i \in 1 .. count - 1 : q2[i] = b[Place(t, i + 1)]
    BY <1>1, <2>1, <2>2, QueueOfIsSeq
  <2> HIDE DEF count, q, q2
  <2>4. /\ Tail(q) \in Seq(Chars \cup {NoChar}) /\ Len(Tail(q)) = count - 1
        /\ \A i \in 1 .. count - 1 : Tail(q)[i] = q[i + 1]
        /\ Head(q) = q[1]
    BY <1>3, <1>4, <1>5, <1>6
  <2>5. \A i \in 1 .. count - 1 : q2[i] = Tail(q)[i]
    <3> TAKE i \in 1 .. count - 1
    <3>1. i + 1 \in 1 .. count
      BY <1>3
    <3> QED BY <1>4, <2>3, <2>4, <3>1
  <2>6. b[t] = Head(q)
    BY <1>3, <1>4, <1>6, <2>1, <2>4
  <2> QED BY <1>3, <2>3, <2>4, <2>5, <2>6, SeqEqual
<1> QED BY <1>5, <1>6

LEMMA StepRefines == ASSUME KeyInv, KeyInv', [Next]_vars PROVE [KQ!Next]_<<Queue, got>>
<1>1. /\ buf \in Contents /\ head \in Ring /\ tail \in Ring
      /\ Queue = QueueOf(buf, head, tail)
  BY QueueIsRing DEF KeyInv, KeyboardTypeOK, Contents, Ring
<1>2. Queue' = QueueOf(buf', head', tail')
  <2>1. (head \in Ring /\ tail \in Ring => Queue = QueueOf(buf, head, tail))'
    BY QueueIsRing, PTL
  <2> QED BY <2>1 DEF KeyInv, KeyboardTypeOK, Ring
<1>3. CASE Push
  <2>1. isr_char \in Chars /\ isr = "push" /\ tail' = tail /\ got' = got
    BY <1>3 DEF Push, KeyInv, Interrupting, threadVars
  <2>2. Len(Queue) = Queued(head, tail) /\ BufSize \in Nat
    BY <1>1, QueueOfIsSeq, KeyboardAssumption
  <2>3. CASE Next1(head) # tail
    <3>1. buf' = [buf EXCEPT ![head] = isr_char] /\ head' = Next1(head)
      BY <1>3, <2>3 DEF Push, Next1
    <3>2. Queued(head, tail) < BufSize - 1 /\ Queue' = Append(Queue, isr_char)
      BY <1>1, <1>2, <2>1, <2>3, <3>1, PushAppends
    <3>3. KQ!Type(isr_char)
      BY <2>1, <2>2, <3>2 DEF KQ!Type
    <3> QED BY <2>1, <3>3 DEF KQ!Next
  <2>4. CASE Next1(head) = tail
    <3>1. UNCHANGED <<buf, head>>
      BY <1>3, <2>4 DEF Push, Next1
    <3> QED BY <1>1, <1>2, <2>1, <3>1
  <2> QED BY <2>3, <2>4
<1>4. CASE Pop
  <2>1. buf' = buf /\ head' = head
    BY <1>4 DEF Pop
  <2>2. CASE tail = head
    <3>1. got' = NoChar /\ tail' = tail
      BY <1>4, <2>2 DEF Pop
    <3>2. Queue = <<>> /\ Queue' = Queue
      BY <1>1, <1>2, <2>1, <2>2, <3>1, PopTakes
    <3>3. KQ!Take
      BY <3>1, <3>2 DEF KQ!Take
    <3> QED BY <3>3 DEF KQ!Next
  <2>3. CASE tail # head
    <3>1. got' = buf[tail] /\ tail' = Next1(tail)
      BY <1>4, <2>3 DEF Pop, Next1
    <3>2. Queue # <<>> /\ got' = Head(Queue) /\ Queue' = Tail(Queue)
      BY <1>1, <1>2, <2>1, <2>3, <3>1, PopTakes
    <3>3. KQ!Take
      BY <3>2 DEF KQ!Take
    <3> QED BY <3>3 DEF KQ!Next
  <2> QED BY <2>2, <2>3
<1>5. CASE ~Push /\ ~Pop
  <2>1. UNCHANGED <<buf, head, tail, got>>
    <3>1. CASE KeyEvent BY <3>1 DEF KeyEvent, bufVars, threadVars
    <3>2. CASE TimerInterrupt BY <3>2 DEF TimerInterrupt, bufVars, threadVars
    <3>3. CASE KeyInterrupt BY <3>3 DEF KeyInterrupt, bufVars, threadVars
    <3>4. CASE Decode BY <3>4 DEF Decode, bufVars, threadVars
    <3>5. CASE EndOfInterrupt BY <3>5 DEF EndOfInterrupt, bufVars
    <3>6. CASE DisableInterrupts BY <3>6 DEF DisableInterrupts, bufVars
    <3>7. CASE LockBuffer BY <3>7 DEF LockBuffer, bufVars
    <3>8. CASE UnlockBuffer BY <3>8 DEF UnlockBuffer, bufVars
    <3>9. CASE RestoreInterrupts BY <3>9 DEF RestoreInterrupts, bufVars
    <3>10. CASE ShellReturn BY <3>10 DEF ShellReturn, bufVars
    <3>11. CASE Sleep BY <3>11 DEF Sleep, bufVars
    <3>12. CASE RunApp BY <3>12 DEF RunApp, bufVars
    <3>13. CASE SystemCall BY <3>13 DEF SystemCall, bufVars
    <3>14. CASE ReadMore BY <3>14 DEF ReadMore, bufVars
    <3>15. CASE StoreChar BY <3>15 DEF StoreChar, bufVars
    <3>16. CASE SystemReturn BY <3>16 DEF SystemReturn, bufVars
    <3>17. CASE ExitApp BY <3>17 DEF ExitApp, bufVars
    <3>18. CASE UNCHANGED vars BY <3>18 DEF vars, bufVars, threadVars
    <3> QED
      BY <1>5, <3>1, <3>2, <3>3, <3>4, <3>5, <3>6, <3>7, <3>8, <3>9, <3>10, <3>11,
         <3>12, <3>13, <3>14, <3>15, <3>16, <3>17, <3>18 DEF Next, Handler, Kernel
  <2> QED BY <1>1, <1>2, <2>1
<1> QED BY <1>3, <1>4, <1>5

(***************************************************************************)
(* The driver implements the queue: push() in the handler and pop() in a   *)
(* reader, wherever the one comes in while the other runs.                 *)
(***************************************************************************)
THEOREM QueueImplemented == Spec => QueueRefined
<1>1. Init => KQ!Init
  <2> SUFFICES ASSUME Init PROVE KQ!Init
    OBVIOUS
  <2>1. KeyInv /\ head = tail /\ got = NoChar
    BY Init_KeyInv DEF Init
  <2>2. Queue = <<>>
    BY <2>1, QueueIsRing, PopTakes DEF KeyInv, KeyboardTypeOK, Contents, Ring
  <2> QED BY <2>1, <2>2 DEF KQ!Init
<1>2. KeyInv /\ KeyInv' /\ [Next]_vars => [KQ!Next]_<<Queue, got>>
  BY StepRefines
<1> QED BY <1>1, <1>2, KeyInvariant, PTL DEF Spec, QueueRefined, KQ!Spec
=============================================================================
