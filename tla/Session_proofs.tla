--------------------------- MODULE Session_proofs ---------------------------
(***************************************************************************)
(* Proofs about a session, for every size of the screen, of the line and   *)
(* of the command table, and all that a user may type.                     *)
(***************************************************************************)
EXTENDS Session, SequenceTheorems, FiniteSetTheorems, WellFoundedInduction, TLAPS

Pushing == INSTANCE FoldFacts WITH Op <- Push
Popping == INSTANCE FoldFacts WITH Op <- Pop

-----------------------------------------------------------------------------

(***************************************************************************)
(* int_80_stub.                                                            *)
(***************************************************************************)

\* t is the stack s with x on top of it.
OnTop(t, E, x, s) ==
  /\ t \in Seq(E) /\ Len(t) = Len(s) + 1
  /\ t[1] = x
  /\ \A j \in 1 .. Len(s) : t[j + 1] = s[j]

LEMMA ConsTyped ==
  ASSUME NEW E, NEW x \in E, NEW s \in Seq(E)
  PROVE  OnTop(Cons(x, s), E, x, s)
BY DEF Cons, OnTop

LEMMA TailTyped ==
  ASSUME NEW E, NEW s \in Seq(E), NEW n \in Nat, Len(s) = n + 1
  PROVE  /\ Tail(s) \in Seq(E) /\ Len(Tail(s)) = n
         /\ \A j \in 1 .. n : Tail(s)[j] = s[j + 1]
OBVIOUS

\* A set W of all that a word of the stack may be.
Frame == <<"rip", "cs", "rflags", "rsp", "ss">>
Words64(W) == Frame \in Seq(W) /\ Clobbered \in W

\* The stack after k pushes, the newest first.
Pushed(m, W, R, k) ==
  /\ m.regs = R
  /\ m.stack \in Seq(W) /\ Len(m.stack) = 5 + k
  /\ \A j \in 1 .. k : m.stack[j] = R[Pushes[k + 1 - j]]

LEMMA PushesRegs == DOMAIN Pushes = 1 .. 15 /\ \A i \in 1 .. 15 : Pushes[i] \in Regs
BY DEF Pushes, Regs

LEMMA PushStep ==
  ASSUME NEW W, NEW R \in [Regs -> W], NEW k \in 0 .. 14, NEW m, Pushed(m, W, R, k)
  PROVE  Pushed(Push(m, Pushes[k + 1]), W, R, k + 1)
<1>. DEFINE s == m.stack
            r == Pushes[k + 1]
            stack == Cons(R[r], s)
<1>1. r \in Regs
  <2>1. k + 1 \in 1 .. 15
    OBVIOUS
  <2>. QED BY <2>1, PushesRegs
<1>2. s \in Seq(W) /\ Len(s) = 5 + k
  BY DEF Pushed
<1>3. /\ stack \in Seq(W) /\ Len(stack) = 5 + k + 1
      /\ stack[1] = R[r]
      /\ \A j \in 1 .. 5 + k : stack[j + 1] = s[j]
  <2>1. R[r] \in W
    BY <1>1
  <2>2. OnTop(stack, W, R[r], s)
    BY <1>2, <2>1, ConsTyped
  <2>. HIDE DEF stack, s, r
  <2>. QED BY <1>2, <2>2 DEF OnTop
<1>4. Push(m, r).regs = R /\ Push(m, r).stack = stack
  BY DEF Push, Pushed
<1>. HIDE DEF stack, s
<1>5. ASSUME NEW j \in 1 .. k + 1 PROVE stack[j] = R[Pushes[(k + 1) + 1 - j]]
  <2>1. CASE j = 1
    BY <1>3, <2>1
  <2>2. CASE j # 1
    <3>1. /\ j - 1 \in 1 .. k /\ j - 1 \in 1 .. 5 + k /\ (j - 1) + 1 = j
          /\ k + 1 - (j - 1) = (k + 1) + 1 - j
      BY <2>2
    <3>2. s[j - 1] = R[Pushes[k + 1 - (j - 1)]]
      BY <3>1 DEF Pushed, s
    <3>3. stack[j] = s[j - 1]
      BY <1>3, <3>1
    <3>. QED BY <3>1, <3>2, <3>3
  <2>. QED BY <2>1, <2>2
<1>. QED BY <1>3, <1>4, <1>5 DEF Pushed

\* What the stub leaves on the stack: all registers, r15 on top.
LEMMA EntryPushesAll ==
  ASSUME NEW W, Words64(W), NEW R \in [Regs -> W]
  PROVE  Pushed(Entry(R), W, R, 15)
<1>. DEFINE base == [regs |-> R, stack |-> Frame]
<1>1. Entry(R) = Pushing!Folded(base, Pushes)
  BY DEF Entry, Frame, Pushing!Folded, Pushing!FoldLeft, Pushing!MapThenFoldSet, Pushing!Max,
         FoldLeft, MapThenFoldSet, Max
<1>2. base.regs = R /\ base.stack = Frame
  OBVIOUS
<1>. HIDE DEF base
<1>3. PICK g : Pushing!Folding(g, base, Pushes, 15)
  BY PushesRegs, Pushing!Folds, Zenon
<1>. DEFINE S == {k \in 0 .. 15 : Pushed(g[k], W, R, k)}
<1>4. 0 \in S
  <2>1. g[0] = base
    BY <1>3 DEF Pushing!Folding
  <2>2. Frame \in Seq(W) /\ Len(Frame) = 5
    BY DEF Words64, Frame
  <2>. QED BY <1>2, <2>1, <2>2 DEF Pushed
<1>5. ASSUME NEW k \in 0 .. 15 - 1, k \in S PROVE k + 1 \in S
  <2>1. g[k + 1] = Push(g[k], Pushes[k + 1])
    BY <1>3 DEF Pushing!Folding
  <2>. QED BY <1>5, <2>1, PushStep
<1>. HIDE DEF S
<1>6. \A k \in 0 .. 15 : k \in S
  BY <1>4, <1>5, Pushing!UpTo
<1>. QED BY <1>1, <1>3, <1>6 DEF Pushing!Folding, S

\* The registers and the stack after k pops of the stack st.
Popped(m, W, st, k) ==
  /\ m.regs \in [Regs -> W]
  /\ m.stack \in Seq(W) /\ Len(m.stack) = 20 - k
  /\ \A j \in 1 .. 20 - k : m.stack[j] = st[j + k]
  /\ \A i \in 1 .. k : m.regs[Pops[i]] = st[i]

LEMMA PopsRegs ==
  /\ DOMAIN Pops = 1 .. 15
  /\ \A i \in 1 .. 15 : Pops[i] \in Regs
  /\ \A i, j \in 1 .. 15 : Pops[i] = Pops[j] => i = j
  /\ \A i \in 1 .. 15 : Pops[i] = Pushes[16 - i]
  /\ \A r \in Regs : \E i \in 1 .. 15 : Pops[i] = r
BY DEF Pops, Pushes, Regs

LEMMA PopStep ==
  ASSUME NEW W, NEW st, NEW k \in 0 .. 14, NEW m, Popped(m, W, st, k)
  PROVE  Popped(Pop(m, Pops[k + 1]), W, st, k + 1)
<1>. DEFINE s == m.stack
            R == m.regs
            r == Pops[k + 1]
            newR == [R EXCEPT ![r] = s[1]]
            rest == Tail(s)
<1>1. k + 1 \in 1 .. 15 /\ 1 \in 1 .. 20 - k /\ 1 + k = k + 1
  OBVIOUS
<1>2. r \in Regs
  BY <1>1, PopsRegs
<1>3. /\ R \in [Regs -> W] /\ s \in Seq(W) /\ Len(s) = 20 - k
      /\ \A j \in 1 .. 20 - k : s[j] = st[j + k]
      /\ \A i \in 1 .. k : R[Pops[i]] = st[i]
  BY DEF Popped
<1>4. /\ Pop(m, r).stack = rest
      /\ Pop(m, r).regs = newR
  <2>1. Head(s) = s[1]
    BY <1>3
  <2>. QED BY <2>1 DEF Pop
<1>. HIDE DEF s, R
<1>5. s[1] \in W /\ s[1] = st[k + 1]
  BY <1>1, <1>3
<1>6. /\ rest \in Seq(W) /\ Len(rest) = 20 - (k + 1)
      /\ \A j \in 1 .. 20 - (k + 1) : rest[j] = s[j + 1]
  BY <1>1, <1>3
<1>7. newR \in [Regs -> W] /\ newR[r] = s[1]
  BY <1>2, <1>3, <1>5
<1>8. ASSUME NEW i \in 1 .. k PROVE newR[Pops[i]] = st[i]
  <2>1. i \in 1 .. 15 /\ i # k + 1
    BY <1>1
  <2>2. Pops[i] \in Regs /\ Pops[i] # r
    BY <1>1, <2>1, PopsRegs
  <2>. QED BY <1>2, <1>3, <2>2
<1>9. \A i \in 1 .. k + 1 : newR[Pops[i]] = st[i]
  <2>. TAKE i \in 1 .. k + 1
  <2>1. i \in 1 .. k \/ i = k + 1
    OBVIOUS
  <2>. QED BY <1>5, <1>7, <1>8, <2>1
<1>10. \A j \in 1 .. 20 - (k + 1) : rest[j] = st[j + (k + 1)]
  <2>. TAKE j \in 1 .. 20 - (k + 1)
  <2>1. j + 1 \in 1 .. 20 - k /\ (j + 1) + k = j + (k + 1)
    OBVIOUS
  <2>. QED BY <1>3, <1>6, <2>1
<1>. HIDE DEF newR, rest
<1>. QED BY <1>4, <1>6, <1>7, <1>9, <1>10 DEF Popped

\* The result is stored over the newest word.
LEMMA HeadReplaced ==
  ASSUME NEW W, NEW s \in Seq(W), Len(s) = 20, NEW w \in W
  PROVE  /\ OnTop(Cons(w, Tail(s)), W, w, Tail(s)) /\ Len(Tail(s)) = 19
         /\ \A j \in 1 .. 19 : Tail(s)[j] = s[j + 1]
<1>1. 19 \in Nat /\ Len(s) = 19 + 1
  OBVIOUS
<1>. DEFINE t == Tail(s)
<1>2. t \in Seq(W) /\ Len(t) = 19 /\ \A j \in 1 .. 19 : t[j] = s[j + 1]
  BY <1>1, TailTyped
<1>. HIDE DEF t
<1>3. OnTop(Cons(w, t), W, w, t)
  BY <1>2, ConsTyped
<1>. QED BY <1>2, <1>3 DEF t

\* System calls find 0 in r10, which the handler takes for its first argument.
LEMMA HandlerSees ==
  ASSUME NEW W, Words64(W), NEW R \in [Regs -> W]
  PROVE  HandlerArguments(R).num = R["rax"] /\ HandlerArguments(R).a = R["r10"]
<1>1. Pushed(Entry(R), W, R, 15)
  BY EntryPushesAll
<1>2. Entry(R).regs = R /\ Entry(R).stack[6] = R[Pushes[10]]
  BY <1>1 DEF Pushed
<1>3. Pushes[10] = "r10"
  BY DEF Pushes
<1>. QED BY <1>2, <1>3 DEF HandlerArguments, Slot

\* What `iretq` leaves is what ring 3 had, but for r15, where the result is.
LEMMA ReturnKeeps ==
  ASSUME NEW W, Words64(W), NEW R \in [Regs -> W], NEW result \in W
  PROVE  /\ Return(R, result).regs \in [Regs -> W]
         /\ \A r \in Regs \ {"r15"} : Return(R, result).regs[r] = R[r]
         /\ Return(R, result).regs["r15"] = result
<1>. DEFINE s == Entry(R).stack
            first == [r \in Regs |-> IF r \in CallerSaved THEN Clobbered ELSE R[r]]
            st == Cons(result, Tail(s))
            base == [regs |-> first, stack |-> st]
<1>1. /\ Entry(R).regs = R
      /\ s \in Seq(W) /\ Len(s) = 20 /\ \A j \in 1 .. 15 : s[j] = R[Pushes[16 - j]]
  <2>1. Pushed(Entry(R), W, R, 15)
    BY EntryPushesAll
  <2>. QED BY <2>1 DEF Pushed
<1>2. Return(R, result) = Popping!Folded(base, Pops)
  <2>1. Return(R, result) = FoldLeft(Pop, base, Pops)
    BY <1>1 DEF Return
  <2>. QED
    BY <2>1 DEF Popping!Folded, Popping!FoldLeft, Popping!MapThenFoldSet, Popping!Max,
                FoldLeft, MapThenFoldSet, Max
<1>3. base.regs = first /\ base.stack = st
  OBVIOUS
<1>4. first \in [Regs -> W]
  BY DEF Words64
<1>. HIDE DEF s, first, base
<1>5. /\ st \in Seq(W) /\ Len(st) = 20
      /\ st[1] = result
      /\ \A j \in 1 .. 19 : st[j + 1] = s[j + 1]
  <2>. DEFINE t == Tail(s)
  <2>1. OnTop(st, W, result, t) /\ Len(t) = 19 /\ \A j \in 1 .. 19 : t[j] = s[j + 1]
    BY <1>1, HeadReplaced
  <2>. HIDE DEF t, st
  <2>. QED BY <2>1 DEF OnTop
<1>. HIDE DEF st
<1>6. PICK g : Popping!Folding(g, base, Pops, 15)
  BY PopsRegs, Popping!Folds, Zenon
<1>. DEFINE S == {k \in 0 .. 15 : Popped(g[k], W, st, k)}
<1>7. 0 \in S
  <2>1. g[0] = base
    BY <1>6 DEF Popping!Folding
  <2>2. g[0].regs = first /\ g[0].stack = st
    BY <1>3, <2>1
  <2>3. Len(st) = 20 - 0 /\ \A j \in 1 .. 20 - 0 : st[j] = st[j + 0]
    BY <1>5
  <2>4. Popped(g[0], W, st, 0)
    BY <1>4, <1>5, <2>2, <2>3 DEF Popped
  <2>. QED BY <2>4
<1>8. ASSUME NEW k \in 0 .. 15 - 1, k \in S PROVE k + 1 \in S
  <2>1. g[k + 1] = Pop(g[k], Pops[k + 1])
    BY <1>6 DEF Popping!Folding
  <2>. QED BY <1>8, <2>1, PopStep
<1>. HIDE DEF S
<1>. DEFINE Q == Return(R, result).regs
<1>9. Q \in [Regs -> W] /\ \A i \in 1 .. 15 : Q[Pops[i]] = st[i]
  <2>1. \A k \in 0 .. 15 : k \in S
    BY <1>7, <1>8, Popping!UpTo
  <2>2. Popped(Return(R, result), W, st, 15)
    BY <1>2, <1>6, <2>1 DEF Popping!Folding, S
  <2>. QED BY <2>2 DEF Popped
<1>. HIDE DEF Q
<1>10. ASSUME NEW i \in 2 .. 15 PROVE Q[Pops[i]] = R[Pops[i]]
  <2>1. i - 1 \in 1 .. 19 /\ (i - 1) + 1 = i /\ i \in 1 .. 15
    OBVIOUS
  <2>. QED BY <1>1, <1>5, <1>9, <2>1, PopsRegs
<1>11. Pops[1] = "r15"
  BY DEF Pops
<1>12. ASSUME NEW r \in Regs \ {"r15"} PROVE Q[r] = R[r]
  <2>1. PICK i \in 1 .. 15 : Pops[i] = r
    BY PopsRegs
  <2>2. i \in 2 .. 15
    BY <1>11, <2>1
  <2>. QED BY <1>10, <2>1, <2>2
<1>13. Q["r15"] = result
  BY <1>5, <1>9, <1>11
<1>. QED BY <1>9, <1>12, <1>13 DEF Q

-----------------------------------------------------------------------------

(***************************************************************************)
(* How a line is taken apart.                                              *)
(***************************************************************************)

LEMMA LeastOf ==
  ASSUME NEW n \in Nat, NEW S \in SUBSET (1 .. n), S # {}
  PROVE  Min(S) \in S /\ \A y \in S : Min(S) <= y
<1>1. S \subseteq Nat
  OBVIOUS
<1>2. PICK x \in S : \A y \in S : <<y, x>> \notin OpToRel(<, Nat)
  BY <1>1, NatLessThanWellFounded, WFMin
<1>3. ASSUME NEW y \in S PROVE x <= y
  <2>1. x \in Nat /\ y \in Nat
    BY <1>1
  <2>2. <<y, x>> \notin OpToRel(<, Nat)
    BY <1>2
  <2>. QED BY <2>1, <2>2 DEF OpToRel
<1>. QED BY <1>3 DEF Min

LEMMA GreatestOf ==
  ASSUME NEW n \in Nat, NEW S \in SUBSET (1 .. n), S # {}
  PROVE  Max(S) \in S /\ \A y \in S : Max(S) >= y
<1>. DEFINE T == {n - x : x \in S}
<1>1. T \subseteq Nat
  OBVIOUS
<1>2. PICK z \in S : TRUE
  OBVIOUS
<1>3. n - z \in T
  OBVIOUS
<1>4. T # {}
  BY <1>3
<1>5. PICK t \in T : \A u \in T : <<u, t>> \notin OpToRel(<, Nat)
  BY <1>1, <1>4, NatLessThanWellFounded, WFMin
<1>6. PICK x \in S : t = n - x
  BY <1>5
<1>7. ASSUME NEW y \in S PROVE x >= y
  <2>1. x \in Nat /\ y \in Nat /\ n - y \in Nat /\ n - x \in Nat
    OBVIOUS
  <2>2. <<n - y, n - x>> \notin OpToRel(<, Nat)
    BY <1>5, <1>6
  <2>3. ~(n - y < n - x)
    BY <2>1, <2>2 DEF OpToRel
  <2>. QED BY <2>1, <2>3
<1>. QED BY <1>7 DEF Max

\* A part of a line, trimmed at both ends.
Trimmed(t, E) ==
  /\ t \in Seq(E)
  /\ t # <<>> => ~Blank(t[1]) /\ ~Blank(t[Len(t)])

LEMMA CutTyped ==
  ASSUME NEW E, NEW s \in Seq(E), NEW m \in Nat \ {0}, NEW n \in Int, n <= Len(s)
  PROVE  SubSeq(s, m, n) \in Seq(E)
BY SubSeqProperties

LEMMA TrimTyped ==
  ASSUME NEW E, NEW s \in Seq(E)
  PROVE  /\ Trimmed(TrimAscii(s), E)
         /\ (\E i \in 1 .. Len(s) : ~Blank(s[i])) => TrimAscii(s) # <<>>
<1>. DEFINE F == Filled(s)
            a == Min(F)
            b == Max(F)
<1>1. CASE F = {}
  <2>1. TrimAscii(s) = <<>>
    BY <1>1 DEF TrimAscii
  <2>2. \A i \in 1 .. Len(s) : Blank(s[i])
    BY <1>1 DEF Filled
  <2>. QED BY <2>1, <2>2 DEF Trimmed
<1>2. CASE F # {}
  <2>1. F \subseteq 1 .. Len(s) /\ Len(s) \in Nat
    BY DEF Filled
  <2>2. a \in F /\ b \in F /\ a <= b
    BY <1>2, <2>1, LeastOf, GreatestOf
  <2>3. ~Blank(s[a]) /\ ~Blank(s[b])
    BY <2>2 DEF Filled
  <2>4. TrimAscii(s) = SubSeq(s, a, b)
    BY <1>2 DEF TrimAscii
  <2>. HIDE DEF a, b, F
  <2>5. /\ SubSeq(s, a, b) \in Seq(E)
        /\ Len(SubSeq(s, a, b)) = b - a + 1
        /\ \A i \in 1 .. b - a + 1 : SubSeq(s, a, b)[i] = s[a + i - 1]
    <3>1. \A i \in a .. b : s[i] \in E
      BY <2>1, <2>2
    <3>. QED BY <2>1, <2>2, <3>1, SubSeqProperties
  <2>6. SubSeq(s, a, b)[1] = s[a] /\ SubSeq(s, a, b)[b - a + 1] = s[b]
    BY <2>1, <2>2, <2>5
  <2>7. SubSeq(s, a, b) # <<>>
    BY <2>1, <2>2, <2>5
  <2>. QED BY <2>3, <2>4, <2>5, <2>6, <2>7 DEF Trimmed
<1>. QED BY <1>1, <1>2

LEMMA FirstBlankIs ==
  ASSUME NEW E, NEW s \in Seq(E)
  PROVE  /\ FirstBlank(s) \in 1 .. Len(s) + 1
         /\ \A i \in 1 .. FirstBlank(s) - 1 : ~Blank(s[i])
<1>. DEFINE S == {i \in DOMAIN s : Blank(s[i])} \cup {Len(s) + 1}
<1>1. S \in SUBSET (1 .. Len(s) + 1) /\ S # {} /\ Len(s) + 1 \in Nat
  OBVIOUS
<1>2. Min(S) \in S /\ \A y \in S : Min(S) <= y
  BY <1>1, LeastOf
<1>3. FirstBlank(s) = Min(S)
  BY DEF FirstBlank
<1>. DEFINE f == Min(S)
<1>4. f \in 1 .. Len(s) + 1
  BY <1>1, <1>2
<1>5. ASSUME NEW i \in 1 .. f - 1 PROVE ~Blank(s[i])
  <2>1. i \in DOMAIN s /\ ~(f <= i)
    BY <1>4
  <2>. QED BY <1>2, <2>1
<1>. QED BY <1>3, <1>4, <1>5

LEMMA SplitTyped ==
  ASSUME NEW E, NEW s \in Seq(E)
  PROVE  Trimmed(Split(s).head, E) /\ Trimmed(Split(s).rest, E)
<1>. DEFINE t == TrimAscii(s)
<1>1. t \in Seq(E)
  BY TrimTyped DEF Trimmed
<1>. HIDE DEF t
<1>2. FirstBlank(t) \in 1 .. Len(t) + 1 /\ Len(t) \in Nat
  BY <1>1, FirstBlankIs
<1>3. /\ SubSeq(t, 1, FirstBlank(t) - 1) \in Seq(E)
      /\ SubSeq(t, FirstBlank(t), Len(t)) \in Seq(E)
  BY <1>1, <1>2, CutTyped
<1>. QED BY <1>3, TrimTyped DEF Split, t

LEMMA SplitNTyped ==
  ASSUME NEW E, NEW s \in Seq(E)
  PROVE  Trimmed(SplitN(s).head, E) /\ Trimmed(SplitN(s).rest, E)
<1>1. FirstBlank(s) \in 1 .. Len(s) + 1 /\ Len(s) \in Nat
  BY FirstBlankIs
<1>2. /\ SubSeq(s, 1, FirstBlank(s) - 1) \in Seq(E)
      /\ SubSeq(s, FirstBlank(s) + 1, Len(s)) \in Seq(E)
  BY <1>1, CutTyped
<1>. QED BY <1>2, TrimTyped DEF SplitN

\* `app save` and `storage write` never give a file the empty name.
LEMMA NamesAFile ==
  ASSUME NEW E, NEW rest, Trimmed(rest, E), HasBlank(rest)
  PROVE  NameAndText(rest).name # <<>>
<1>. DEFINE f == FirstBlank(rest)
            head == SubSeq(rest, 1, f - 1)
<1>1. rest \in Seq(E) /\ rest # <<>> /\ Len(rest) \in Nat \ {0} /\ ~Blank(rest[1])
  BY DEF Trimmed, HasBlank
<1>2. f \in 1 .. Len(rest) + 1 /\ f # 1
  <2>1. f \in 1 .. Len(rest) + 1
    BY <1>1, FirstBlankIs
  <2>2. f # 1
    <3>. DEFINE S == {i \in DOMAIN rest : Blank(rest[i])} \cup {Len(rest) + 1}
    <3>1. S \in SUBSET (1 .. Len(rest) + 1) /\ S # {} /\ Len(rest) + 1 \in Nat
      BY <1>1
    <3>2. Min(S) \in S
      BY <3>1, LeastOf
    <3>3. 1 \notin S
      BY <1>1
    <3>. QED BY <3>2, <3>3 DEF FirstBlank
  <2>. QED BY <2>1, <2>2
<1>. HIDE DEF f
<1>3. \A i \in 1 .. f - 1 : rest[i] \in E
  BY <1>1, <1>2
<1>4. head \in Seq(E) /\ Len(head) = f - 1 /\ head[1] = rest[1]
  BY <1>1, <1>2, <1>3, SubSeqProperties
<1>5. \E i \in 1 .. Len(head) : ~Blank(head[i])
  BY <1>1, <1>2, <1>4
<1>. QED BY <1>4, <1>5, TrimTyped DEF NameAndText, f

\* Nor does `perf save`.
LEMMA PerfNamesAFile ==
  ASSUME NEW E, NEW args \in Seq(E), Trimmed(args, E), 2 <= Len(args), Blank(args[2])
  PROVE  TrimAscii(SubSeq(args, 3, Len(args))) # <<>>
<1>1. Len(args) \in Nat /\ args # <<>>
  OBVIOUS
<1>2. PICK n \in Nat : n = Len(args)
  BY <1>1
<1>. DEFINE name == SubSeq(args, 3, n)
<1>3. \A i \in 1 .. n : args[i] \in E
  BY <1>1, <1>2
<1>4. ~Blank(args[n])
  BY <1>1, <1>2 DEF Trimmed
<1>5. 3 <= n
  BY <1>1, <1>2, <1>4
<1>6. /\ name \in Seq(E) /\ Len(name) = n - 3 + 1
      /\ \A i \in 1 .. n - 3 + 1 : name[i] = args[3 + i - 1]
  <2>1. \A i \in 3 .. n : args[i] \in E
    BY <1>3
  <2>. QED BY <1>5, <2>1, SubSeqProperties
<1>7. n - 2 \in 1 .. Len(name) /\ name[n - 2] = args[n]
  BY <1>5, <1>6
<1>. QED BY <1>2, <1>4, <1>6, <1>7, TrimTyped

LEMMA BlankBehindIt ==
  ASSUME NEW E, NEW args \in Seq(E)
  PROVE  IsPrefix(<<"s", " ">>, args) => 2 <= Len(args) /\ Blank(args[2])
<1>1. Len(<<"s", " ">>) = 2 /\ Len(args) \in Nat
  OBVIOUS
<1>2. IsPrefix(<<"s", " ">>, args)
        <=> 2 <= Len(args) /\ SubSeq(<<"s", " ">>, 1, 2) = SubSeq(args, 1, 2)
  BY <1>1 DEF IsPrefix
<1>3. SubSeq(<<"s", " ">>, 1, 2)[2] = " "
  OBVIOUS
<1>4. 2 <= Len(args) => SubSeq(args, 1, 2)[2] = args[2]
  OBVIOUS
<1>. QED BY <1>2, <1>3, <1>4 DEF Blank

-----------------------------------------------------------------------------

(***************************************************************************)
(* What Enter comes to.                                                    *)
(***************************************************************************)

Typed == Letters \cup {" "}
Char == Typed \cup {"CR", "LF", "BS", ">", "C", "D", "E", "H", "I", "J", "L", "M", "N",
                    "R", "S", "U", "?", "elf", "text"}

\* A carriage return comes with a line feed behind it.
Paced(text) ==
  \A i \in 1 .. Len(text) : text[i] = "CR" => i < Len(text) /\ text[i + 1] = "LF"

\* What a command prints: nothing or whole lines.
Output(out) ==
  /\ out \in Seq(Char)
  /\ Paced(out)
  /\ out # <<>> => out[Len(out)] = "LF"

\* c is a and b in a row.
Joined(c, a, b, E) ==
  /\ c \in Seq(E) /\ Len(c) = Len(a) + Len(b)
  /\ \A i \in 1 .. Len(a) : c[i] = a[i]
  /\ \A i \in 1 .. Len(b) : c[Len(a) + i] = b[i]

LEMMA Joins ==
  ASSUME NEW E, NEW a \in Seq(E), NEW b \in Seq(E) PROVE Joined(a \o b, a, b, E)
BY DEF Joined

LEMMA CRLFIs == CRLF \in Seq(Char) /\ Len(CRLF) = 2 /\ CRLF[1] = "CR" /\ CRLF[2] = "LF"
BY DEF CRLF, Char

LEMMA LettersPrint == Typed \cap {"CR", "LF", "BS"} = {}
BY SessionAssumption DEF SessionAssumption, Typed

LEMMA OutputLine == ASSUME NEW text \in Seq(Typed) PROVE Output(text \o CRLF)
<1>. DEFINE n == Len(text)
            out == text \o CRLF
<1>1. /\ n \in Nat /\ out \in Seq(Char) /\ Len(out) = n + 2
      /\ \A i \in 1 .. n : out[i] = text[i] /\ text[i] \in Typed
      /\ out[n + 1] = "CR" /\ out[n + 2] = "LF"
  <2>1. text \in Seq(Char)
    BY DEF Char
  <2>2. Joined(out, text, CRLF, Char)
    BY <2>1, CRLFIs, Joins
  <2>3. \A i \in 1 .. Len(text) : text[i] \in Typed
    OBVIOUS
  <2>. HIDE DEF out
  <2>4. out[Len(text) + 1] = CRLF[1] /\ out[Len(text) + 2] = CRLF[2]
    BY <2>2, CRLFIs DEF Joined
  <2>. QED BY <2>2, <2>3, <2>4, CRLFIs DEF Joined
<1>. HIDE DEF n, out
<1>2. ASSUME NEW i \in 1 .. n + 2, out[i] = "CR" PROVE i = n + 1
  <2>1. CASE i \in 1 .. n
    BY <1>1, <1>2, <2>1, LettersPrint
  <2>2. CASE i = n + 2
    BY <1>1, <1>2, <2>2
  <2>. QED BY <1>1, <2>1, <2>2
<1>3. Paced(out)
  BY <1>1, <1>2 DEF Paced
<1>. QED BY <1>1, <1>3 DEF Output, out

LEMMA OutputMessage == ASSUME NEW c \in Char \ {"CR"} PROVE Output(Message(c))
<1>. DEFINE m == Message(c)
<1>1. /\ m \in Seq(Char) /\ Len(m) = 3
      /\ m[1] = c /\ m[2] = "CR" /\ m[3] = "LF"
  <2>. DEFINE s == <<c>>
  <2>1. s \in Seq(Char) /\ Len(s) = 1 /\ s[1] = c
    OBVIOUS
  <2>2. m = s \o CRLF
    BY DEF Message
  <2>. HIDE DEF m, s
  <2>4. Joined(m, s, CRLF, Char)
    BY <2>1, <2>2, CRLFIs, Joins
  <2>3. m[1] = s[1] /\ m[1 + 1] = CRLF[1] /\ m[1 + 2] = CRLF[2]
    BY <2>1, <2>4, CRLFIs DEF Joined
  <2>. QED BY <2>1, <2>3, <2>4, CRLFIs DEF Joined
<1>. HIDE DEF m
<1>2. Paced(m)
  BY <1>1 DEF Paced
<1>3. m # <<>>
  BY <1>1
<1>. QED BY <1>1, <1>2, <1>3 DEF Output, m

LEMMA OutputCRLF == Output(CRLF) /\ Output(<<>>)
<1>1. CRLF \in Seq(Char) /\ Paced(CRLF) /\ CRLF[Len(CRLF)] = "LF"
  BY CRLFIs DEF Paced
<1>2. <<>> \in Seq(Char) /\ Paced(<<>>)
  BY DEF Paced
<1>. QED BY <1>1, <1>2 DEF Output

LEMMA OutputConcat ==
  ASSUME NEW a, NEW b, Output(a), Output(b)
  PROVE  Output(a \o b)
<1>. DEFINE m == Len(a)
            n == Len(b)
            c == a \o b
<1>1. /\ a \in Seq(Char) /\ b \in Seq(Char)
      /\ Paced(a) /\ Paced(b)
      /\ a # <<>> => a[Len(a)] = "LF"
      /\ b # <<>> => b[Len(b)] = "LF"
  BY DEF Output
<1>2. /\ m \in Nat /\ n \in Nat
      /\ c \in Seq(Char) /\ Len(c) = m + n
      /\ \A i \in 1 .. m : c[i] = a[i]
      /\ \A i \in 1 .. n : c[m + i] = b[i]
  BY <1>1
<1>3. /\ \A i \in 1 .. m : a[i] = "CR" => i < m /\ a[i + 1] = "LF"
      /\ \A i \in 1 .. n : b[i] = "CR" => i < n /\ b[i + 1] = "LF"
      /\ m # 0 => a[m] = "LF"
      /\ n # 0 => b[n] = "LF"
  BY <1>1 DEF Paced
<1>. HIDE DEF m, n, c
<1>4. ASSUME NEW i \in 1 .. m + n, c[i] = "CR" PROVE i < m + n /\ c[i + 1] = "LF"
  <2>1. CASE i \in 1 .. m
    <3>1. i < m /\ a[i + 1] = "LF" /\ i + 1 \in 1 .. m
      BY <1>2, <1>3, <1>4, <2>1
    <3>. QED BY <1>2, <3>1
  <2>2. CASE i \notin 1 .. m
    <3>1. PICK j \in 1 .. n : i = m + j
      BY <1>2, <2>2
    <3>0. b[j] = "CR"
      BY <1>2, <1>4, <3>1
    <3>2. j < n /\ b[j + 1] = "LF" /\ j + 1 \in 1 .. n
      BY <1>2, <1>3, <3>0
    <3>3. c[m + (j + 1)] = "LF" /\ m + (j + 1) = i + 1
      BY <1>2, <3>1, <3>2
    <3>. QED BY <1>2, <3>1, <3>2, <3>3
  <2>. QED BY <2>1, <2>2
<1>5. Paced(c)
  BY <1>2, <1>4 DEF Paced
<1>6. c # <<>> => c[Len(c)] = "LF"
  <2>1. CASE n = 0
    BY <1>2, <1>3, <2>1
  <2>2. CASE n # 0
    <3>1. c[m + n] = b[n]
      BY <1>2, <2>2
    <3>. QED BY <1>2, <1>3, <2>2, <3>1
  <2>. QED BY <2>1, <2>2
<1>. QED BY <1>2, <1>5, <1>6 DEF Output, c

FilesTyped(f) == \A name \in DOMAIN f : name # <<>> /\ f[name] \in {"elf", "text"}

\* What a command does to the machine.
Outcome(out) ==
  \/ Returns(out) /\ (metrics' = metrics \/ Clear \/ LoadFails)
  \/ \E counted \in {{"elfs_loaded", "p4_clones"}, {}} : EntersRing3(counted, out)
  \/ \E counted \in {{"elfs_loaded"}, {}} : Spins(counted, out)
  \/ \E counted \in {{"elfs_loaded"}, {"elfs_loaded", "p4_clones"}, {}} : Panics(counted, out)

ShellTyped == FilesTyped(files) /\ last_elf \in BOOLEAN /\ awaiting \in BOOLEAN

Executed ==
  /\ \/ CmdClear
     \/ \E out : Output(out) /\ Outcome(out)
  /\ ShellTyped'

LEMMA PrintsDone ==
  ASSUME NEW out, Output(out), ShellTyped, Prints(out)
  PROVE  Executed
<1>1. Outcome(out)
  BY DEF Prints, Outcome
<1>2. ShellTyped'
  BY DEF Prints, ShellTyped, FilesTyped
<1>. QED BY <1>1, <1>2 DEF Executed

LEMMA StoreDone ==
  ASSUME NEW name, NEW kind \in {"elf", "text"}, name # <<>>, ShellTyped, Store(name, kind)
  PROVE  Executed
<1>1. "S" \in Char \ {"CR"}
  BY DEF Char
<1>2. Output(Message("S"))
  BY <1>1, OutputMessage
<1>3. Outcome(Message("S"))
  BY DEF Store, Outcome
<1>4. FilesTyped(files')
  BY DEF Store, ShellTyped, FilesTyped
<1>5. ShellTyped'
  BY <1>4 DEF Store, ShellTyped, FilesTyped
<1>. QED BY <1>2, <1>3, <1>5 DEF Executed

LEMMA RunElfDone ==
  ASSUME NEW kind, NEW out, Output(out), ShellTyped, RunElf(kind, out)
  PROVE  Executed
<1>1. ShellTyped'
  BY DEF RunElf, ShellTyped, FilesTyped
<1>2. "E" \in Char \ {"CR"}
  BY DEF Char
<1>3. Output(out \o Message("E"))
  BY <1>2, OutputMessage, OutputConcat
<1>4. Outcome(out) \/ Outcome(out \o Message("E"))
  BY DEF RunElf, Outcome
<1>. QED BY <1>1, <1>3, <1>4 DEF Executed

LEMMA Messages ==
  /\ Output(Usage)
  /\ \A c \in {"C", "D", "M", "N", "R", "elf", "text"} : Output(Message(c))
<1>1. "U" \in Char \ {"CR"} /\ {"C", "D", "M", "N", "R", "elf", "text"} \subseteq Char \ {"CR"}
  BY DEF Char
<1>. QED BY <1>1, OutputMessage DEF Usage

LEMMA CmdGenDone == ASSUME NEW args, ShellTyped, CmdGen(args) PROVE Executed
<1>1. CASE args = <<>>
  BY <1>1, Messages, PrintsDone DEF CmdGen
<1>2. CASE args # <<>>
  <2>1. Outcome(Message("D"))
    BY <1>2 DEF CmdGen, Outcome
  <2>2. ShellTyped'
    BY <1>2 DEF CmdGen, ShellTyped, FilesTyped
  <2>. QED BY <2>1, <2>2, Messages DEF Executed
<1>. QED BY <1>1, <1>2

LEMMA CmdRunDone == ASSUME ShellTyped, CmdRun PROVE Executed
BY Messages, PrintsDone, RunElfDone DEF CmdRun

LEMMA CmdUserDone == ASSUME ShellTyped, CmdUser PROVE Executed
<1>1. Outcome(<<>>)
  BY DEF CmdUser, Outcome
<1>2. ShellTyped'
  BY DEF CmdUser, ShellTyped, FilesTyped
<1>. QED BY <1>1, <1>2, OutputCRLF DEF Executed

LEMMA CmdAppDone == ASSUME NEW args \in Seq(Typed), ShellTyped, CmdApp(args) PROVE Executed
<1>. DEFINE sub == SplitN(args).head
            rest == SplitN(args).rest
<1>1. Trimmed(rest, Typed)
  BY SplitNTyped
<1>2. HasBlank(rest) => NameAndText(rest).name # <<>>
  BY <1>1, NamesAFile
<1>3. \/ Prints(Usage) \/ Prints(Message("N"))
      \/ HasBlank(rest) /\ Store(NameAndText(rest).name, "elf")
      \/ RunElf(files[rest], Message("R"))
  <2>. HIDE DEF sub, rest
  <2>. QED BY DEF CmdApp, sub, rest
<1>. QED BY <1>2, <1>3, Messages, PrintsDone, StoreDone, RunElfDone

LEMMA CmdStorageDone ==
  ASSUME NEW args \in Seq(Typed), ShellTyped, CmdStorage(args) PROVE Executed
<1>. DEFINE rest == SplitN(args).rest
<1>1. Trimmed(rest, Typed)
  BY SplitNTyped
<1>2. HasBlank(rest) => NameAndText(rest).name # <<>>
  BY <1>1, NamesAFile
<1>3. \/ Prints(Usage)
      \/ HasBlank(rest) /\ Store(NameAndText(rest).name, "text")
      \/ rest \in DOMAIN files /\ Prints(CRLF \o Message(files[rest]))
  BY DEF CmdStorage
<1>4. ASSUME rest \in DOMAIN files PROVE Output(CRLF \o Message(files[rest]))
  <2>1. files[rest] \in {"elf", "text"}
    BY <1>4 DEF ShellTyped, FilesTyped
  <2>. QED BY <2>1, Messages, OutputCRLF, OutputConcat
<1>. QED BY <1>2, <1>3, <1>4, Messages, PrintsDone, StoreDone

LEMMA CmdPerfDone ==
  ASSUME NEW args \in Seq(Typed), Trimmed(args, Typed), ShellTyped, CmdPerf(args)
  PROVE  Executed
<1>. DEFINE name == TrimAscii(SubSeq(args, 3, Len(args)))
<1>1. \/ Clear /\ Returns(Message("C")) /\ UNCHANGED <<last_elf, awaiting, files>>
      \/ Store(PerfLog, "text")
      \/ IsPrefix(<<"s", " ">>, args) /\ Store(name, "text")
      \/ Prints(Message("M"))
  BY DEF CmdPerf
<1>2. CASE Clear /\ Returns(Message("C")) /\ UNCHANGED <<last_elf, awaiting, files>>
  <2>1. Outcome(Message("C")) /\ ShellTyped'
    BY <1>2 DEF Outcome, ShellTyped, FilesTyped
  <2>. QED BY <2>1, Messages DEF Executed
<1>3. CASE Store(PerfLog, "text")
  BY <1>3, StoreDone DEF PerfLog
<1>4. CASE IsPrefix(<<"s", " ">>, args) /\ Store(name, "text")
  <2>1. name # <<>>
    BY <1>4, BlankBehindIt, PerfNamesAFile
  <2>. QED BY <1>4, <2>1, StoreDone
<1>5. CASE Prints(Message("M"))
  BY <1>5, Messages, PrintsDone
<1>. QED BY <1>1, <1>2, <1>3, <1>4, <1>5

LEMMA EnterExecutes ==
  ASSUME NEW burst, line \in Seq(Typed), ShellTyped, Enter(burst) PROVE Executed
<1>. DEFINE cmd == Split(line).head
            args == Split(line).rest
            is == IF cmd \in DOMAIN Command THEN Command[cmd] ELSE "unknown"
<1>1. cmd \in Seq(Typed) /\ args \in Seq(Typed) /\ Trimmed(args, Typed)
  BY SplitTyped DEF Trimmed
<1>2. Output(<<>>) /\ Output(args \o CRLF) /\ Output(cmd \o CRLF)
  BY <1>1, OutputLine, OutputCRLF
<1>3. \/ Prints(<<>>) \/ Prints(args \o CRLF) \/ Prints(cmd \o CRLF)
      \/ CmdClear /\ ShellTyped'
      \/ CmdPerf(args) \/ CmdGen(args) \/ CmdRun \/ CmdApp(args) \/ CmdStorage(args)
      \/ CmdUser
  <2>1. is \in {"echo", "clear", "perf", "gen", "run", "app", "storage", "user", "unknown"}
    BY SessionAssumption DEF SessionAssumption
  <2>2. CmdClear => ShellTyped'
    BY DEF CmdClear, ShellTyped, FilesTyped
  <2>3. (CASE cmd = <<>>       -> Prints(<<>>)
          [] is = "echo"      -> Prints(args \o CRLF)
          [] is = "clear"     -> CmdClear
          [] is = "perf"      -> CmdPerf(args)
          [] is = "gen"       -> CmdGen(args)
          [] is = "run"       -> CmdRun
          [] is = "app"       -> CmdApp(args)
          [] is = "storage"   -> CmdStorage(args)
          [] is = "user"      -> CmdUser
          [] cmd # <<>> /\ is = "unknown" -> Prints(cmd \o CRLF))
    BY Zenon DEF Enter
  <2>. HIDE DEF cmd, args, is
  <2>. QED BY <2>1, <2>2, <2>3
<1>. QED
  BY <1>1, <1>2, <1>3, PrintsDone, CmdPerfDone, CmdGenDone, CmdRunDone, CmdAppDone,
     CmdStorageDone, CmdUserDone DEF Executed

-----------------------------------------------------------------------------

(***************************************************************************)
(* The counters and the registers.                                         *)
(***************************************************************************)

LineTyped == line \in Seq(Typed) /\ Len(line) <= MaxLine

CountersTyped == metrics \in [Counters -> Nat] /\ locked \in BOOLEAN

Pcs == {"shell", "ring3", "spin", "fault", "panic"}

LEMMA CountAdds ==
  ASSUME NEW fields, metrics \in [Counters -> Nat], Count(fields)
  PROVE  /\ metrics' \in [Counters -> Nat]
         /\ \A f \in Counters : metrics'[f] = IF f \in fields THEN metrics[f] + 1 ELSE metrics[f]
BY DEF Count

LEMMA ClearKeepsCounts ==
  ASSUME metrics \in [Counters -> Nat], Clear
  PROVE  /\ metrics' \in [Counters -> Nat]
         /\ \A f \in Counters \ {"boot_time_ns"} : metrics'[f] = metrics[f]
BY DEF Clear

CountInv == CountersTyped /\ LoadsCounted

LEMMA Counts ==
  /\ "elfs_loaded" \in Counters \ {"boot_time_ns"}
  /\ "p4_clones" \in Counters \ {"boot_time_ns"}
  /\ "ring3_transitions" \in Counters \ {"boot_time_ns"}
BY DEF Counters

\* The counts that LoadsCounted compares, when `fields` are counted.
LEMMA CountsOf ==
  ASSUME NEW fields, metrics \in [Counters -> Nat], Count(fields)
  PROVE  /\ metrics' \in [Counters -> Nat]
         /\ metrics'["elfs_loaded"]
              = metrics["elfs_loaded"] + IF "elfs_loaded" \in fields THEN 1 ELSE 0
         /\ metrics'["p4_clones"]
              = metrics["p4_clones"] + IF "p4_clones" \in fields THEN 1 ELSE 0
         /\ metrics'["ring3_transitions"]
              = metrics["ring3_transitions"] + IF "ring3_transitions" \in fields THEN 1 ELSE 0
<1>1. /\ metrics' \in [Counters -> Nat]
      /\ \A f \in Counters : metrics'[f] = IF f \in fields THEN metrics[f] + 1 ELSE metrics[f]
  BY CountAdds
<1>2. \A f \in Counters : metrics[f] \in Nat
  OBVIOUS
<1>. QED BY <1>1, <1>2, Counts

LEMMA EntersCounts ==
  ASSUME NEW counted \in {{"elfs_loaded", "p4_clones"}, {},
                          {"com2_bytes_sent", "elfs_loaded", "p4_clones"}},
         NEW out, CountInv, pc = "shell", EntersRing3(counted, out)
  PROVE  CountInv' /\ pc' \in Pcs
<1>. DEFINE fields == counted \cup {"ring3_transitions"}
<1>1. /\ ~locked /\ locked' = TRUE /\ pc' = "ring3" /\ Count(fields)
  BY DEF EntersRing3
<1>2. /\ "ring3_transitions" \in fields
      /\ "elfs_loaded" \in fields <=> "p4_clones" \in fields
  OBVIOUS
<1>. HIDE DEF fields
<1>3. metrics \in [Counters -> Nat] /\ metrics["ring3_transitions"] = 0
      /\ metrics["elfs_loaded"] = metrics["p4_clones"]
  BY <1>1 DEF CountInv, CountersTyped, LoadsCounted
<1>. QED BY <1>1, <1>2, <1>3, CountsOf DEF CountInv, CountersTyped, LoadsCounted, Pcs

LEMMA SpinsCounts ==
  ASSUME NEW counted \in {{"elfs_loaded"}, {}, {"com2_bytes_sent", "elfs_loaded"}},
         NEW out, CountInv, pc = "shell", Spins(counted, out)
  PROVE  CountInv' /\ pc' \in Pcs
<1>1. locked /\ locked' = locked /\ pc' = "spin" /\ Count(counted)
  BY DEF Spins, appVars
<1>2. "ring3_transitions" \notin counted
  OBVIOUS
<1>3. metrics \in [Counters -> Nat] /\ metrics["ring3_transitions"] = 1 /\ locked \in BOOLEAN
  BY <1>1 DEF CountInv, CountersTyped, LoadsCounted
<1>. QED BY <1>1, <1>2, <1>3, CountsOf DEF CountInv, CountersTyped, LoadsCounted, Pcs

LEMMA PanicsCounts ==
  ASSUME NEW counted, "ring3_transitions" \notin counted,
         NEW out, CountInv, pc = "shell", Panics(counted, out)
  PROVE  CountInv' /\ pc' \in Pcs
<1>1. ~locked /\ locked' = locked /\ pc' = "panic" /\ Count(counted)
  BY DEF Panics, appVars
<1>2. metrics \in [Counters -> Nat] /\ metrics["ring3_transitions"] = 0 /\ locked \in BOOLEAN
  BY <1>1 DEF CountInv, CountersTyped, LoadsCounted
<1>. QED BY <1>1, <1>2, CountsOf DEF CountInv, CountersTyped, LoadsCounted, Pcs

LEMMA BothCounted ==
  ASSUME NEW fields, "elfs_loaded" \in fields <=> "p4_clones" \in fields,
         "ring3_transitions" \notin fields,
         CountInv, pc = "shell", Count(fields), pc' = pc, locked' = locked
  PROVE  CountInv' /\ pc' \in Pcs
<1>1. /\ metrics \in [Counters -> Nat] /\ locked \in BOOLEAN
      /\ metrics["elfs_loaded"] = metrics["p4_clones"]
      /\ metrics["ring3_transitions"] = IF locked THEN 1 ELSE 0
      /\ metrics["elfs_loaded"] \in Nat /\ metrics["ring3_transitions"] \in Nat
  BY Counts DEF CountInv, CountersTyped, LoadsCounted
<1>. QED BY <1>1, CountsOf DEF CountInv, CountersTyped, LoadsCounted, Pcs

LEMMA OutcomeCounts ==
  ASSUME NEW out, CountInv, pc = "shell", Outcome(out)
  PROVE  CountInv' /\ pc' \in Pcs
<1>1. CASE Returns(out)
  <2>1. pc' = pc /\ locked' = locked
    BY <1>1 DEF Returns, appVars
  <2>2. metrics' = metrics \/ Clear \/ LoadFails
    BY <2>1 DEF Outcome, EntersRing3, Spins, Panics
  <2>3. CASE metrics' = metrics
    BY <2>1, <2>3 DEF CountInv, CountersTyped, LoadsCounted, Pcs
  <2>4. CASE Clear
    <3>1. metrics \in [Counters -> Nat]
      BY DEF CountInv, CountersTyped
    <3>. QED
      BY <2>1, <2>4, <3>1, ClearKeepsCounts, Counts DEF CountInv, CountersTyped, LoadsCounted, Pcs
  <2>5. CASE LoadFails
    <3>. DEFINE fields == {"elfs_loaded", "p4_clones"}
    <3>1. Count(fields) /\ "ring3_transitions" \notin fields
          /\ ("elfs_loaded" \in fields <=> "p4_clones" \in fields)
      BY <2>5 DEF LoadFails
    <3>. QED BY <2>1, <3>1, BothCounted
  <2>. QED BY <2>2, <2>3, <2>4, <2>5
<1>2. CASE ~Returns(out)
  <2>1. CASE \E counted \in {{"elfs_loaded"}, {"elfs_loaded", "p4_clones"}, {}} :
               Panics(counted, out)
    <3>1. PICK counted \in {{"elfs_loaded"}, {"elfs_loaded", "p4_clones"}, {}} :
            Panics(counted, out)
      BY <2>1
    <3>2. "ring3_transitions" \notin counted
      OBVIOUS
    <3>. QED BY <3>1, <3>2, PanicsCounts
  <2>. QED BY <1>2, <2>1, EntersCounts, SpinsCounts DEF Outcome
<1>. QED BY <1>1, <1>2

LEMMA Bounds == MaxLine \in Nat /\ MaxKeys \in Nat
BY SessionAssumption DEF SessionAssumption

LEMMA EmptyLine == \A S : <<>> \in Seq(S) /\ Len(<<>>) = 0
OBVIOUS

LEMMA MinTwo ==
  ASSUME NEW m \in Int, NEW n \in Int
  PROVE  Min({m, n}) = IF m <= n THEN m ELSE n
<1>. DEFINE k == IF m <= n THEN m ELSE n
<1>1. k \in {m, n} /\ \A y \in {m, n} : k <= y
  OBVIOUS
<1>2. \A x \in {m, n} : (\A y \in {m, n} : x <= y) => x = k
  OBVIOUS
<1>. QED BY <1>1, <1>2 DEF Min

\* What a burst adds to the line.
LEMMA FitTyped ==
  ASSUME NEW burst \in Seq(Typed), LineTyped
  PROVE  /\ Fit(burst) \in Seq(Typed)
         /\ Len(line \o Fit(burst)) = Len(line) + Len(Fit(burst))
         /\ Len(line) + Len(Fit(burst)) <= MaxLine
<1>1. /\ line \in Seq(Typed) /\ Len(line) \in Nat /\ Len(burst) \in Nat
      /\ Len(line) <= MaxLine /\ MaxLine \in Nat
  BY Bounds DEF LineTyped
<1>2. PICK n \in Int : /\ n = Min({Len(burst), MaxLine - Len(line)})
                       /\ n <= Len(burst) /\ n <= MaxLine - Len(line)
  BY <1>1, MinTwo
<1>3. 0 <= n
  BY <1>1, <1>2, MinTwo
<1>4. \A i \in 1 .. n : burst[i] \in Typed
  BY <1>1, <1>2
<1>5. SubSeq(burst, 1, n) \in Seq(Typed) /\ Len(SubSeq(burst, 1, n)) = n
  <2>1. Len(SubSeq(burst, 1, n)) = IF 1 <= n THEN n - 1 + 1 ELSE 0
    BY <1>4, SubSeqProperties
  <2>. QED BY <1>3, <1>4, <2>1, SubSeqProperties
<1>6. Fit(burst) = SubSeq(burst, 1, n)
  BY <1>2 DEF Fit
<1>7. Len(line \o SubSeq(burst, 1, n)) = Len(line) + n
  BY <1>1, <1>5, ConcatProperties
<1>8. Len(line) + n <= MaxLine
  BY <1>1, <1>2
<1>. QED BY <1>5, <1>6, <1>7, <1>8, Zenon

LEMMA BurstTyped ==
  ASSUME NEW burst \in Keys, Printable(burst) PROVE burst \in Seq(Typed)
BY SessionAssumption DEF SessionAssumption, Printable, Typed

LEMMA ShorterLine ==
  ASSUME LineTyped
  PROVE  SubSeq(line, 1, Len(line) - 1) \in Seq(Typed)
           /\ Len(SubSeq(line, 1, Len(line) - 1)) <= MaxLine
<1>1. line \in Seq(Typed) /\ Len(line) \in Nat /\ Len(line) <= MaxLine /\ MaxLine \in Nat
  BY Bounds DEF LineTyped
<1>2. Len(SubSeq(line, 1, Len(line) - 1))
        = IF 1 <= Len(line) - 1 THEN (Len(line) - 1) - 1 + 1 ELSE 0
  BY <1>1
<1>. QED BY <1>1, <1>2, CutTyped

CoreInv ==
  /\ LineTyped /\ ShellTyped /\ CountInv
  /\ pc \in Pcs /\ mixed \in BOOLEAN /\ keys \in 0 .. MaxKeys

LEMMA CoreInit == Init => CoreInv
<1>. SUFFICES ASSUME Init PROVE CoreInv
  OBVIOUS
<1>1. /\ line = <<>> /\ pc = "shell" /\ mixed = FALSE /\ keys = 0 /\ locked = FALSE
      /\ awaiting = FALSE
      /\ FirstPrompt \/ LaterPrompt
  BY Zenon DEF Init
<1>2. LineTyped /\ pc \in Pcs /\ mixed \in BOOLEAN /\ keys \in 0 .. MaxKeys
  <2>1. Len(<<>>) <= MaxLine
    BY Bounds, EmptyLine
  <2>2. LineTyped
    BY <1>1, <2>1, EmptyLine, Zenon DEF LineTyped
  <2>3. "shell" \in Pcs /\ FALSE \in BOOLEAN /\ 0 \in 0 .. MaxKeys
    BY Bounds DEF Pcs
  <2>. QED BY <1>1, <2>2, <2>3, Zenon
<1>3. ShellTyped
  <2>1. FilesTyped(<<>>)
    BY DEF FilesTyped
  <2>2. FilesTyped(OldFiles)
    BY SessionAssumption DEF FilesTyped, SessionAssumption
  <2>. QED BY <1>1, <2>1, <2>2 DEF FirstPrompt, LaterPrompt, ShellTyped
<1>4. CountInv
  <2>1. /\ metrics \in [Counters -> Nat]
        /\ metrics["elfs_loaded"] = metrics["p4_clones"]
        /\ metrics["ring3_transitions"] = 0
    BY <1>1, Counts DEF FirstPrompt, LaterPrompt
  <2>. QED BY <1>1, <2>1 DEF CountInv, CountersTyped, LoadsCounted
<1>. QED BY <1>1, <1>2, <1>3, <1>4 DEF CoreInv

LEMMA OutcomeKeeps ==
  ASSUME NEW out, CoreInv, Outcome(out)
  PROVE  LineTyped' /\ mixed' \in BOOLEAN
<1>1. (line' = <<>> \/ line' = line) /\ mixed' \in BOOLEAN
  BY DEF Outcome, Returns, EntersRing3, Spins, Panics
<1>2. <<>> \in Seq(Typed) /\ Len(<<>>) <= MaxLine
  BY Bounds, EmptyLine
<1>. QED BY <1>1, <1>2 DEF CoreInv, LineTyped

LEMMA ClearKeeps ==
  ASSUME CoreInv, pc = "shell", CmdClear
  PROVE  LineTyped' /\ mixed' \in BOOLEAN /\ CountInv' /\ pc' \in Pcs
<1>1. line' = <<>> /\ mixed' = FALSE /\ metrics' = metrics /\ pc' = pc /\ locked' = locked
  BY DEF CmdClear, appVars
<1>2. <<>> \in Seq(Typed) /\ Len(<<>>) <= MaxLine
  BY Bounds, EmptyLine
<1>. QED BY <1>1, <1>2 DEF CoreInv, LineTyped, CountInv, CountersTyped, LoadsCounted

LEMMA KeyKeeps == ASSUME CoreInv, Key PROVE CoreInv'
<1>1. pc = "shell" /\ keys' \in 0 .. MaxKeys
  <2>1. pc = "shell" /\ keys < MaxKeys /\ keys' = keys + 1 /\ keys \in 0 .. MaxKeys
    BY DEF Key, CoreInv
  <2>. QED BY <2>1, Bounds
<1>2. PICK burst \in Keys : Printable(burst) \/ Backspace(burst) \/ Enter(burst)
  BY DEF Key
<1>3. CASE Printable(burst)
  <2>1. LineTyped'
    BY <1>3, BurstTyped, FitTyped DEF CoreInv, Printable, LineTyped
  <2>2. mixed' \in BOOLEAN
    BY <1>3 DEF Printable, CoreInv
  <2>3. ShellTyped' /\ CountInv' /\ pc' \in Pcs
    BY <1>3 DEF Printable, CoreInv, ShellTyped, FilesTyped, CountInv, CountersTyped, LoadsCounted,
                appVars
  <2>. QED BY <1>1, <2>1, <2>2, <2>3 DEF CoreInv
<1>4. CASE Backspace(burst)
  <2>1. LineTyped'
    BY <1>4, ShorterLine DEF CoreInv, Backspace, LineTyped
  <2>2. ShellTyped' /\ CountInv' /\ pc' \in Pcs /\ mixed' \in BOOLEAN
    BY <1>4 DEF Backspace, CoreInv, ShellTyped, FilesTyped, CountInv, CountersTyped, LoadsCounted,
                appVars
  <2>. QED BY <1>1, <2>1, <2>2 DEF CoreInv
<1>5. CASE Enter(burst)
  <2>1. Executed
    BY <1>5, EnterExecutes DEF CoreInv, LineTyped
  <2>2. CASE CmdClear
    BY <1>1, <2>1, <2>2, ClearKeeps DEF CoreInv, Executed
  <2>3. CASE ~CmdClear
    <3>1. PICK out : Outcome(out)
      BY <2>1, <2>3 DEF Executed
    <3>. QED BY <1>1, <2>1, <3>1, OutcomeKeeps, OutcomeCounts DEF CoreInv, Executed
  <2>. QED BY <2>2, <2>3
<1>. QED BY <1>2, <1>3, <1>4, <1>5

LEMMA DaemonKeeps == ASSUME CoreInv, DaemonAnswers PROVE CoreInv'
<1>1. pc = "shell" /\ awaiting' = FALSE /\ files' = files /\ keys' = keys
  BY DEF DaemonAnswers
<1>2. CASE UNCHANGED <<line, last_elf, metrics, pc, appVars>> /\ mixed' = (line # <<>>)
  BY <1>1, <1>2 DEF CoreInv, LineTyped, ShellTyped, FilesTyped, CountInv, CountersTyped,
                    LoadsCounted, appVars
<1>3. CASE last_elf' = TRUE
  <2>1. ShellTyped'
    BY <1>1, <1>3 DEF CoreInv, ShellTyped, FilesTyped
  <2>2. CASE EntersRing3({"com2_bytes_sent", "elfs_loaded", "p4_clones"}, Message("L"))
    <3>1. line' = line /\ mixed' = TRUE
      BY <2>2 DEF EntersRing3
    <3>2. CountInv' /\ pc' \in Pcs
      BY <1>1, <2>2, EntersCounts DEF CoreInv
    <3>. QED BY <1>1, <2>1, <3>1, <3>2 DEF CoreInv, LineTyped
  <2>3. CASE Spins({"com2_bytes_sent", "elfs_loaded"}, Message("L"))
    <3>1. line' = line /\ mixed' = TRUE
      BY <2>3 DEF Spins
    <3>2. CountInv' /\ pc' \in Pcs
      BY <1>1, <2>3, SpinsCounts DEF CoreInv
    <3>. QED BY <1>1, <2>1, <3>1, <3>2 DEF CoreInv, LineTyped
  <2>4. CASE /\ ~locked /\ Count({"com2_bytes_sent", "elfs_loaded", "p4_clones"})
             /\ mixed' = (line # <<>>)
             /\ UNCHANGED <<line, pc, appVars>>
    <3>. DEFINE fields == {"com2_bytes_sent", "elfs_loaded", "p4_clones"}
    <3>1. "elfs_loaded" \in fields <=> "p4_clones" \in fields
      OBVIOUS
    <3>2. "ring3_transitions" \notin fields
      OBVIOUS
    <3>3. CountInv' /\ pc' \in Pcs
      BY <1>1, <2>4, <3>1, <3>2, BothCounted DEF CoreInv, appVars
    <3>. QED BY <1>1, <2>1, <2>4, <3>3 DEF CoreInv, LineTyped
  <2>5. ASSUME NEW counted, "ring3_transitions" \notin counted, Panics(counted, Message("L"))
        PROVE  CoreInv'
    <3>1. line' = line /\ mixed' = TRUE
      BY <2>5 DEF Panics
    <3>2. CountInv' /\ pc' \in Pcs
      BY <1>1, <2>5, PanicsCounts DEF CoreInv
    <3>. QED BY <1>1, <2>1, <3>1, <3>2 DEF CoreInv, LineTyped
  <2>6. CASE \/ Panics({"com2_bytes_sent", "elfs_loaded"}, Message("L"))
             \/ Panics({"com2_bytes_sent", "elfs_loaded", "p4_clones"}, Message("L"))
    <3>1. /\ "ring3_transitions" \notin {"com2_bytes_sent", "elfs_loaded"}
          /\ "ring3_transitions" \notin {"com2_bytes_sent", "elfs_loaded", "p4_clones"}
      OBVIOUS
    <3>. QED BY <2>5, <2>6, <3>1
  <2>. QED BY <1>2, <1>3, <2>2, <2>3, <2>4, <2>6 DEF DaemonAnswers
<1>. QED BY <1>2, <1>3 DEF DaemonAnswers

\* A set of all that a word of the ring-0 stack may be.
StackWords == Int \cup {"rip", "cs", "rflags", "rsp", "ss"}

LEMMA WordsFit == Words64(StackWords) /\ Int \subseteq StackWords
<1>1. "rip" \in StackWords /\ "cs" \in StackWords /\ "rflags" \in StackWords /\ "rsp" \in StackWords /\ "ss" \in StackWords
  BY DEF StackWords
<1>2. Frame \in Seq(StackWords)
  BY <1>1 DEF Frame
<1>3. Clobbered \in StackWords /\ Int \subseteq StackWords
  BY DEF Clobbered, StackWords
<1>. QED BY <1>2, <1>3 DEF Words64

LEMMA RegNames == {"rax", "rdi", "rsi", "rdx", "r10", "r8", "r9", "r11", "r15"} \subseteq Regs
BY DEF Regs

\* The handler runs for a call made with the registers R.
Handled(R) == LET h == HandlerArguments(R) IN Handler(R, h.num, h.a, h.b)

LEMMA HandlerCases ==
  ASSUME NEW R, NEW num, NEW a, NEW b, Handler(R, num, a, b)
  PROVE  \/ Faults \/ ReturnsFrom(R, <<>>, 0) \/ ReturnsFrom(R, <<>>, TheKey)
         \/ ReturnsFrom(R, Message("H"), 0) \/ ReturnsFrom(R, Message("?"), 0)
BY DEF Handler

\* A system call returns with the registers kept, or stops the machine.
LEMMA HandlerReturns ==
  ASSUME NEW R \in [Regs -> Int], Handled(R)
  PROVE  \/ Faults
         \/ \E out \in Seq(Char), result \in {0, TheKey} :
              Output(out) /\ ReturnsFrom(R, out, result)
<1>1. \/ Faults \/ ReturnsFrom(R, <<>>, 0) \/ ReturnsFrom(R, <<>>, TheKey)
      \/ ReturnsFrom(R, Message("H"), 0) \/ ReturnsFrom(R, Message("?"), 0)
  BY HandlerCases DEF Handled
<1>2. Output(<<>>) /\ Output(Message("H")) /\ Output(Message("?"))
  <2>1. "H" \in Char \ {"CR"} /\ "?" \in Char \ {"CR"}
    BY DEF Char
  <2>. QED BY <2>1, OutputCRLF, OutputMessage
<1>. QED BY <1>1, <1>2 DEF Output

\* A call is made by the one application that was started, and its registers
\* are kept ever since.
RegsInv ==
  /\ regs \in [Regs -> Int]
  /\ locked \in BOOLEAN
  /\ pc = "ring3" => locked
  /\ call # NoCall => locked
  /\ pc # "fault" /\ call # NoCall =>
       \A r \in Regs \ {"rax", "r15"} : regs[r] = call.before[r]

LEMMA RegsInit == Init => RegsInv
<1>. SUFFICES ASSUME Init PROVE RegsInv
  OBVIOUS
<1>. DEFINE Place(r) == SelectInSeq(Pushes, LAMBDA p : p = r)
<1>1. /\ regs = [r \in Regs |-> 100 + Place(r)]
      /\ call = NoCall /\ pc = "shell" /\ locked = FALSE
  BY Zenon DEF Init
<1>2. ASSUME NEW r \in Regs PROVE Place(r) \in Int
  <2>. DEFINE I == {i \in 1 .. Len(Pushes) : Pushes[i] = r}
  <2>1. Len(Pushes) = 15 /\ I \subseteq 1 .. 15
    BY DEF Pushes
  <2>2. I # {} => Min(I) \in I
    BY <2>1, LeastOf
  <2>3. Place(r) = IF I = {} THEN 0 ELSE Min(I)
    BY DEF SelectInSeq
  <2>. QED BY <2>1, <2>2, <2>3
<1>. HIDE DEF Place
<1>3. regs \in [Regs -> Int]
  BY <1>1, <1>2
<1>. QED BY <1>1, <1>3 DEF RegsInv

\* While the shell runs nothing touches the application's registers.
AppKept ==
  /\ regs' = regs /\ call' = call
  /\ locked' \in BOOLEAN /\ (locked => locked')
  /\ pc' = "ring3" => locked'

LEMMA AppKeptRegs == ASSUME RegsInv, pc = "shell", AppKept PROVE RegsInv'
BY DEF RegsInv, AppKept

LEMMA ShellKeepsApp ==
  ASSUME CoreInv, RegsInv, Key \/ DaemonAnswers
  PROVE  RegsInv'
<1>1. pc = "shell" /\ locked \in BOOLEAN
  BY DEF Key, DaemonAnswers, RegsInv
<1>2. ASSUME UNCHANGED <<pc, appVars>> PROVE AppKept
  BY <1>1, <1>2 DEF AppKept, appVars
<1>3. ASSUME NEW counted, NEW out,
             EntersRing3(counted, out) \/ Spins(counted, out) \/ Panics(counted, out)
      PROVE  AppKept
  BY <1>1, <1>3 DEF AppKept, appVars, EntersRing3, Spins, Panics
<1>4. CASE Key
  <2>1. PICK burst \in Keys : Printable(burst) \/ Backspace(burst) \/ Enter(burst)
    BY <1>4 DEF Key
  <2>2. CASE Printable(burst) \/ Backspace(burst)
    <3>1. UNCHANGED <<pc, appVars>>
      BY <2>2 DEF Printable, Backspace
    <3>. QED BY <1>1, <1>2, <3>1, AppKeptRegs
  <2>3. CASE Enter(burst)
    <3>1. Executed
      BY <2>3, EnterExecutes DEF CoreInv, LineTyped
    <3>2. \/ UNCHANGED <<pc, appVars>>
          \/ \E counted, out :
               EntersRing3(counted, out) \/ Spins(counted, out) \/ Panics(counted, out)
      BY <3>1 DEF Executed, Outcome, CmdClear, Returns
    <3>. QED BY <1>1, <1>2, <1>3, <3>2, AppKeptRegs
  <2>. QED BY <2>1, <2>2, <2>3
<1>5. CASE DaemonAnswers
  <2>1. \/ UNCHANGED <<pc, appVars>>
        \/ \E counted, out :
             EntersRing3(counted, out) \/ Spins(counted, out) \/ Panics(counted, out)
    BY <1>5 DEF DaemonAnswers
  <2>. QED BY <1>1, <1>2, <1>3, <2>1, AppKeptRegs
<1>. QED BY <1>4, <1>5

\* What the application has put into its registers for a call.
Called(num, length) == [SyscallRaw(regs, num, Buffer, 1, 1) EXCEPT !["r11"] = length]

LEMMA CalledTyped ==
  ASSUME NEW num \in Int, NEW length \in Int, regs \in [Regs -> Int]
  PROVE  /\ Called(num, length) \in [Regs -> Int]
         /\ Called(num, length)["r10"] = 0 /\ Called(num, length)["rax"] = num
<1>1. SyscallRaw(regs, num, Buffer, 1, 1) \in [Regs -> Int]
  BY RegNames DEF SyscallRaw, Buffer
<1>2. /\ SyscallRaw(regs, num, Buffer, 1, 1)["r10"] = 0
      /\ SyscallRaw(regs, num, Buffer, 1, 1)["rax"] = num
  BY RegNames DEF SyscallRaw
<1>. QED BY <1>1, <1>2, RegNames DEF Called

LEMMA CallKeepsRegs == ASSUME RegsInv, SystemCall PROVE RegsInv'
<1>1. PICK num \in Calls, length \in Lengths :
        /\ pc = "ring3" /\ locked' = locked
        /\ call'.before = Called(num, length)
        /\ Handled(Called(num, length))
  BY DEF SystemCall, Called, Handled
<1>2. num \in Int /\ length \in Int
  BY SessionAssumption DEF SessionAssumption
<1>3. PICK R \in [Regs -> Int] : R = Called(num, length) /\ R["r10"] = 0 /\ R["rax"] = num
  BY <1>2, CalledTyped DEF RegsInv
<1>4. locked
  BY <1>1 DEF RegsInv
<1>5. CASE Faults
  BY <1>1, <1>4, <1>5 DEF Faults, RegsInv
<1>6. CASE \E out \in Seq(Char), result \in {0, TheKey} :
             Output(out) /\ ReturnsFrom(R, out, result)
  <2>1. PICK out \in Seq(Char), result \in {0, TheKey} : ReturnsFrom(R, out, result)
    BY <1>6
  <2>2. regs' = Return(R, result).regs /\ pc' = pc /\ result \in Int
    BY <2>1 DEF ReturnsFrom, TheKey
  <2>3. R \in [Regs -> StackWords] /\ result \in StackWords
    BY <2>2, WordsFit
  <2>4. /\ regs' \in [Regs -> StackWords]
        /\ \A r \in Regs \ {"r15"} : regs'[r] = R[r]
        /\ regs'["r15"] = result
    BY <2>2, <2>3, WordsFit, ReturnKeeps
  <2>5. regs' \in [Regs -> Int]
    BY <2>2, <2>4
  <2>. QED BY <1>1, <1>3, <1>4, <2>2, <2>4, <2>5 DEF RegsInv
<1>. QED BY <1>1, <1>3, <1>5, <1>6, HandlerReturns

LEMMA ExitKeepsRegs == ASSUME RegsInv, ExitCall PROVE RegsInv'
BY DEF RegsInv, ExitCall, appVars

LEMMA SystemCallKeeps == ASSUME CoreInv, RegsInv, SystemCall PROVE CoreInv'
<1>1. PICK num \in Calls, length \in Lengths :
        /\ pc = "ring3" /\ UNCHANGED <<shellVars, locked, mixed, keys>>
        /\ Handled(Called(num, length))
  BY DEF SystemCall, Called, Handled
<1>2. num \in Int /\ length \in Int
  BY SessionAssumption DEF SessionAssumption
<1>3. PICK R \in [Regs -> Int] : R = Called(num, length) /\ R["r10"] = 0 /\ R["rax"] = num
  BY <1>2, CalledTyped DEF RegsInv
<1>4. LineTyped' /\ ShellTyped' /\ mixed' \in BOOLEAN /\ keys' \in 0 .. MaxKeys
  BY <1>1 DEF CoreInv, LineTyped, ShellTyped, FilesTyped, shellVars
<1>5. CASE Faults
  BY <1>1, <1>4, <1>5
     DEF Faults, CoreInv, CountInv, CountersTyped, LoadsCounted, Pcs
<1>6. CASE \E out \in Seq(Char), result \in {0, TheKey} :
             Output(out) /\ ReturnsFrom(R, out, result)
  <2>. DEFINE fields == {"syscall_count"}
  <2>1. Count(fields) /\ pc' = pc /\ locked' = locked
    BY <1>1, <1>6 DEF ReturnsFrom
  <2>2. /\ metrics \in [Counters -> Nat]
        /\ metrics["elfs_loaded"] = metrics["p4_clones"]
        /\ metrics["ring3_transitions"] = IF locked THEN 1 ELSE 0
        /\ locked \in BOOLEAN
    BY <1>1 DEF CoreInv, CountInv, CountersTyped, LoadsCounted
  <2>3. /\ "elfs_loaded" \notin fields /\ "p4_clones" \notin fields
        /\ "ring3_transitions" \notin fields
    OBVIOUS
  <2>. HIDE DEF fields
  <2>4. /\ metrics' \in [Counters -> Nat]
        /\ metrics'["elfs_loaded"] = metrics'["p4_clones"]
        /\ metrics'["ring3_transitions"] = IF locked THEN 1 ELSE 0
    BY <2>1, <2>2, <2>3, CountAdds, Counts
  <2>5. CountInv' /\ pc' \in Pcs
    BY <1>1, <2>1, <2>2, <2>4 DEF CountInv, CountersTyped, LoadsCounted, Pcs
  <2>. QED BY <1>4, <2>5 DEF CoreInv
<1>. QED BY <1>1, <1>3, <1>5, <1>6, HandlerReturns

LEMMA ExitKeeps == ASSUME CoreInv, ExitCall PROVE CoreInv'
BY DEF CoreInv, ExitCall, LineTyped, ShellTyped, FilesTyped, CountInv, CountersTyped,
       LoadsCounted, Pcs, shellVars, appVars

LEMMA StutterKeeps ==
  ASSUME CoreInv, RegsInv, UNCHANGED vars PROVE CoreInv' /\ RegsInv'
BY DEF CoreInv, RegsInv, LineTyped, ShellTyped, FilesTyped, CountInv, CountersTyped,
       LoadsCounted, vars, shellVars, appVars

\* What every session keeps to, apart from the console: the types, the counters
\* against the lock, and the application's registers.
THEOREM CoreInductive == Spec => [](CoreInv /\ RegsInv)
<1>1. Init => CoreInv /\ RegsInv
  BY CoreInit, RegsInit
<1>2. CoreInv /\ RegsInv /\ [Next]_vars => (CoreInv /\ RegsInv)'
  <2>. SUFFICES ASSUME CoreInv, RegsInv, [Next]_vars PROVE CoreInv' /\ RegsInv'
    OBVIOUS
  <2>1. CASE Key
    BY <2>1, KeyKeeps, ShellKeepsApp
  <2>2. CASE DaemonAnswers
    BY <2>2, DaemonKeeps, ShellKeepsApp
  <2>3. CASE SystemCall
    BY <2>3, SystemCallKeeps, CallKeepsRegs
  <2>4. CASE ExitCall
    BY <2>4, ExitKeeps, ExitKeepsRegs
  <2>5. CASE UNCHANGED vars
    BY <2>5, StutterKeeps
  <2>. QED BY <2>1, <2>2, <2>3, <2>4, <2>5 DEF Next
<1>. QED BY <1>1, <1>2, PTL DEF Spec

\* The counters agree with each other and with the lock that no application
\* ever gives back, whatever is typed, loaded, answered and called.
THEOREM LoadsCountedCorrect == Spec => []LoadsCounted
<1>1. CoreInv => LoadsCounted
  BY DEF CoreInv, CountInv
<1>. QED BY <1>1, CoreInductive, PTL

\* int_80_stub gives an application its registers back, but for the result.
THEOREM RegistersKeptCorrect == Spec => []RegistersKept
<1>1. RegsInv => RegistersKept
  BY DEF RegsInv, RegistersKept
<1>. QED BY <1>1, CoreInductive, PTL

-----------------------------------------------------------------------------

(***************************************************************************)
(* The console: one character at a time.                                   *)
(***************************************************************************)

Ink == Char \cup {"#"}
Blanks == {" ", "#"}
Bandwidth == 0 .. Cols - 1
Screens == [row : 0 .. Rows - 1, col : Bandwidth, cells : [0 .. Bands - 1 -> [Bandwidth -> Ink]]]

LEMMA Sizes ==
  /\ Cols \in Nat /\ Rows \in Nat /\ Bands \in Nat
  /\ 2 <= Cols /\ 1 <= Rows /\ Rows <= Bands
  /\ ClearRow \in 0 .. Rows - 1
<1>1. /\ Cols \in Nat \ {0, 1} /\ Rows \in Nat \ {0} /\ Bands \in Nat /\ Bands >= Rows
      /\ ClearRow \in 0 .. Rows - 1
  BY ScreenAssumption, Zenon DEF ScreenAssumption
<1>. QED BY <1>1

LEMMA BlanksAreInk == Blanks \subseteq Ink /\ " " \in Char
BY DEF Blanks, Ink, Char, Typed

\* The line of L that row r shows, when the cursor is in `row`.
LineAt(L, row, r) == L[Len(L) - row + r]

\* Row r of the picture shows `text` in front of nothing.
RowShows(cells, r, text) ==
  \A c \in Bandwidth :
    IF c < Len(text) THEN cells[r][c] = text[c + 1] ELSE cells[r][c] \in Blanks

RowEmpty(cells, r) == \A c \in Bandwidth : cells[r][c] \in Blanks

\* Shows without the column, and for the bands below the text rows too, which
\* scrolling brings up.
Pictured(s, L) ==
  /\ s \in Screens
  /\ L \in Seq(Seq(Char))
  /\ s.row < Len(L)
  /\ \A r \in 0 .. s.row : RowShows(s.cells, r, LineAt(L, s.row, r))
  /\ \A r \in s.row + 1 .. Bands - 1 : RowEmpty(s.cells, r)

Showing(s, L) == Pictured(s, L) /\ s.col = Len(L[Len(L)])

LEMMA ShowingShows == ASSUME NEW s, NEW L, Showing(s, L) PROVE Shows(s, L)
<1>1. /\ s.row \in 0 .. Rows - 1 /\ s.row < Len(L)
      /\ s.col = Len(L[Len(L)]) /\ Len(L) \in Nat
      /\ \A r \in 0 .. s.row : RowShows(s.cells, r, LineAt(L, s.row, r))
      /\ \A r \in s.row + 1 .. Bands - 1 : RowEmpty(s.cells, r)
  BY DEF Showing, Pictured, Screens
<1>2. ASSUME NEW r \in 0 .. Rows - 1, NEW c \in 0 .. Cols - 1
      PROVE  IF r <= s.row /\ c < Len(LineAt(L, s.row, r))
             THEN s.cells[r][c] = LineAt(L, s.row, r)[c + 1]
             ELSE s.cells[r][c] \in {" ", "#"}
  <2>1. CASE r <= s.row
    <3>1. RowShows(s.cells, r, LineAt(L, s.row, r))
      BY <1>1, <2>1
    <3>. QED BY <2>1, <3>1 DEF RowShows, Bandwidth, Blanks
  <2>2. CASE ~(r <= s.row)
    <3>1. r \in s.row + 1 .. Bands - 1
      BY <1>1, <2>2, Sizes
    <3>. QED BY <1>1, <2>2, <3>1 DEF RowEmpty, Bandwidth, Blanks
  <2>. QED BY <2>1, <2>2
<1>3. s.row < Rows /\ s.col = Len(L[Len(L) - s.row + s.row])
  <2>1. Len(L) - s.row + s.row = Len(L)
    BY <1>1
  <2>. QED BY <1>1, <2>1, Sizes
<1>. QED BY <1>1, <1>2, <1>3 DEF Shows, LineAt

\* s with the cursor in another column.
AtColumn(t, s, col) == t \in Screens /\ t.row = s.row /\ t.cells = s.cells /\ t.col = col

LEMMA MovesTo ==
  ASSUME NEW s \in Screens, NEW col \in Bandwidth
  PROVE  AtColumn([s EXCEPT !.col = col], s, col)
BY DEF Screens, AtColumn

LEMMA ColumnIsApart ==
  ASSUME NEW s, NEW t, NEW L, NEW col, Pictured(s, L), AtColumn(t, s, col)
  PROVE  Pictured(t, L)
BY DEF Pictured, AtColumn

\* s with c drawn behind or over the last line.
Drawn(t, s, c, col) ==
  /\ t \in Screens /\ t.row = s.row /\ t.col = s.col
  /\ \A r \in 0 .. Bands - 1, k \in Bandwidth :
       t.cells[r][k] = IF r = s.row /\ k = col THEN c ELSE s.cells[r][k]

LEMMA Draws ==
  ASSUME NEW s \in Screens, NEW c \in Ink, NEW col \in Bandwidth
  PROVE  Drawn(Draw(s, c, col), s, c, col)
<1>1. s.row \in 0 .. Bands - 1
  BY Sizes DEF Screens
<1>. QED BY <1>1 DEF Screens, Draw, Drawn

\* What scroll() moves, with the cursor back in column 0.
Scrolled(t, s) ==
  /\ t \in Screens /\ t.row = s.row /\ t.col = 0
  /\ \A r \in 0 .. Bands - 2, k \in Bandwidth : t.cells[r][k] = s.cells[r + 1][k]
  /\ RowEmpty(t.cells, Bands - 1)

LEMMA Scrolls ==
  ASSUME NEW s \in Screens
  PROVE  Scrolled(Scroll([s EXCEPT !.col = 0]), s)
<1>. DEFINE m == [s EXCEPT !.col = 0]
            cells == [b \in 0 .. Bands - 1 |-> IF b < Bands - 1 THEN m.cells[b + 1] ELSE BlankBand]
<1>1. 0 \in Bandwidth /\ Bands \in Nat /\ 1 <= Bands
  BY Sizes DEF Bandwidth
<1>2. AtColumn(m, s, 0)
  BY <1>1, MovesTo
<1>3. Scroll(m) = [m EXCEPT !.cells = cells]
  BY DEF Scroll
<1>. HIDE DEF m
<1>4. m \in Screens /\ m.row = s.row /\ m.cells = s.cells /\ m.col = 0
  BY <1>2 DEF AtColumn
<1>5. BlankBand \in [Bandwidth -> Ink] /\ \A k \in Bandwidth : BlankBand[k] \in Blanks
  BY BlanksAreInk DEF BlankBand, Bandwidth, Ink, Blanks
<1>. HIDE DEF BlankBand
<1>6. cells \in [0 .. Bands - 1 -> [Bandwidth -> Ink]]
  <2>1. ASSUME NEW b \in 0 .. Bands - 1, b < Bands - 1 PROVE m.cells[b + 1] \in [Bandwidth -> Ink]
    <3>1. b + 1 \in 0 .. Bands - 1
      BY <1>1, <2>1
    <3>. QED BY <1>4, <3>1 DEF Screens
  <2>. QED BY <1>5, <2>1
<1>7. /\ \A r \in 0 .. Bands - 2 : cells[r] = s.cells[r + 1]
      /\ cells[Bands - 1] = BlankBand
  BY <1>1, <1>4
<1>. HIDE DEF cells
<1>8. Scroll(m) \in Screens /\ Scroll(m).row = s.row /\ Scroll(m).col = 0 /\ Scroll(m).cells = cells
  BY <1>3, <1>4, <1>6 DEF Screens
<1>. QED BY <1>5, <1>7, <1>8 DEF Scrolled, RowEmpty, m

LEMMA Appends ==
  ASSUME NEW E, NEW L \in Seq(E), NEW x \in E
  PROVE  /\ Append(L, x) \in Seq(E) /\ Len(Append(L, x)) = Len(L) + 1
         /\ \A i \in 1 .. Len(L) : Append(L, x)[i] = L[i]
         /\ Append(L, x)[Len(L) + 1] = x
BY AppendProperties

LEMMA Shifted ==
  ASSUME NEW n \in Int, NEW k \in Int, NEW r \in Int, NEW m \in Int, NEW j \in Int, m = n + 1
  PROVE  /\ j = k + 1 => m - j + r = n - k + r
         /\ j = k => m - j + r = n - k + (r + 1)
OBVIOUS

\* A line feed begins an empty line below.
LEMMA FeedsLine ==
  ASSUME NEW s, NEW L, Pictured(s, L)
  PROVE  Pictured(DownOneRow(s), Append(L, <<>>)) /\ DownOneRow(s).col = 0
<1>. DEFINE t == DownOneRow(s)
            M == Append(L, <<>>)
            n == Len(L)
<1>1. /\ s \in Screens /\ L \in Seq(Seq(Char)) /\ s.row < n /\ n \in Nat
      /\ \A r \in 0 .. s.row : RowShows(s.cells, r, LineAt(L, s.row, r))
      /\ \A r \in s.row + 1 .. Bands - 1 : RowEmpty(s.cells, r)
  BY DEF Pictured
<1>2. s.row \in 0 .. Rows - 1
  BY <1>1 DEF Screens
<1>3. /\ M \in Seq(Seq(Char)) /\ Len(M) = n + 1 /\ M[n + 1] = <<>>
      /\ \A i \in 1 .. n : M[i] = L[i]
  <2>1. <<>> \in Seq(Char)
    BY EmptyLine
  <2>. QED BY <1>1, <2>1, Appends
<1>. HIDE DEF M
<1>4. ASSUME NEW cells, NEW r, RowEmpty(cells, r) PROVE RowShows(cells, r, <<>>)
  BY <1>4, EmptyLine DEF RowEmpty, RowShows, Bandwidth
<1>5. CASE s.row < Rows - 1
  <2>1. t = [s EXCEPT !.row = s.row + 1, !.col = 0]
    BY <1>5 DEF DownOneRow
  <2>2. t \in Screens /\ t.row = s.row + 1 /\ t.col = 0 /\ t.cells = s.cells
    <3>1. s.row + 1 \in 0 .. Rows - 1 /\ 0 \in Bandwidth
      BY <1>2, <1>5, Sizes DEF Bandwidth
    <3>. QED BY <1>1, <2>1, <3>1 DEF Screens
  <2>. HIDE DEF t
  <2>3. ASSUME NEW r \in 0 .. s.row PROVE RowShows(t.cells, r, LineAt(M, t.row, r))
    <3>1. RowShows(s.cells, r, LineAt(L, s.row, r))
      BY <1>1
    <3>2. Len(M) - t.row + r = n - s.row + r
      <4>1. n \in Int /\ s.row \in Int /\ r \in Int
        BY <1>1, <1>2
      <4>2. Len(M) = n + 1 /\ t.row = s.row + 1
        BY <1>3, <2>2
      <4>3. Len(M) \in Int /\ t.row \in Int
        BY <1>3, <2>2, <4>1
      <4>. QED BY <4>1, <4>2, <4>3, Shifted
    <3>4. n - s.row + r \in 1 .. n
      BY <1>1, <1>2
    <3>3. LineAt(M, t.row, r) = LineAt(L, s.row, r)
      BY <1>3, <3>2, <3>4 DEF LineAt
    <3>. QED BY <2>2, <3>1, <3>3
  <2>4. RowShows(t.cells, t.row, LineAt(M, t.row, t.row))
    <3>1. s.row + 1 \in s.row + 1 .. Bands - 1
      BY <1>2, <1>5, Sizes
    <3>2. RowShows(s.cells, s.row + 1, <<>>)
      BY <1>1, <1>4, <3>1
    <3>3. Len(M) - t.row + t.row = n + 1
      BY <1>1, <1>2, <1>3, <2>2
    <3>4. LineAt(M, t.row, t.row) = <<>>
      BY <1>3, <3>3 DEF LineAt
    <3>. QED BY <2>2, <3>2, <3>4
  <2>5. \A r \in 0 .. t.row : RowShows(t.cells, r, LineAt(M, t.row, r))
    <3>1. \A r \in 0 .. s.row + 1 : r \in 0 .. s.row \/ r = s.row + 1
      BY <1>2
    <3>. QED BY <2>2, <2>3, <2>4, <3>1
  <2>6. \A r \in t.row + 1 .. Bands - 1 : RowEmpty(t.cells, r)
    <3>1. \A r \in s.row + 1 + 1 .. Bands - 1 : r \in s.row + 1 .. Bands - 1
      BY <1>2, Sizes
    <3>. QED BY <1>1, <2>2, <3>1
  <2>7. t.row < Len(M)
    BY <1>1, <1>2, <1>3, <2>2
  <2>. QED BY <1>3, <2>2, <2>5, <2>6, <2>7 DEF Pictured, t, M
<1>6. CASE ~(s.row < Rows - 1)
  <2>1. s.row = Rows - 1
    BY <1>2, <1>6, Sizes
  <2>2. t = Scroll([s EXCEPT !.col = 0])
    BY <1>6 DEF DownOneRow
  <2>. HIDE DEF t
  <2>3. Scrolled(t, s)
    BY <1>1, <2>2, Scrolls
  <2>4. /\ t \in Screens /\ t.row = s.row /\ t.col = 0
        /\ \A r \in 0 .. Bands - 2, k \in Bandwidth : t.cells[r][k] = s.cells[r + 1][k]
        /\ RowEmpty(t.cells, Bands - 1)
    BY <2>3 DEF Scrolled
  <2>5. ASSUME NEW r \in 0 .. Bands - 2, NEW text, RowShows(s.cells, r + 1, text)
        PROVE  RowShows(t.cells, r, text)
    BY <2>4, <2>5 DEF RowShows
  <2>6. ASSUME NEW r \in 0 .. Bands - 2, RowEmpty(s.cells, r + 1) PROVE RowEmpty(t.cells, r)
    BY <2>4, <2>6 DEF RowEmpty
  <2>7. ASSUME NEW r \in s.row .. Bands - 1 PROVE RowEmpty(t.cells, r)
    <3>1. CASE r = Bands - 1
      BY <2>4, <3>1
    <3>2. CASE r # Bands - 1
      <4>1. r \in 0 .. Bands - 2 /\ r + 1 \in s.row + 1 .. Bands - 1
        BY <1>2, <3>2, Sizes
      <4>. QED BY <1>1, <2>6, <4>1
    <3>. QED BY <3>1, <3>2
  <2>8. ASSUME NEW r \in 0 .. s.row PROVE RowShows(t.cells, r, LineAt(M, t.row, r))
    <3>1. CASE r = s.row
      <4>1. Len(M) - t.row + r = n + 1
        BY <1>1, <1>2, <1>3, <2>4, <3>1
      <4>2. LineAt(M, t.row, r) = <<>>
        BY <1>3, <4>1 DEF LineAt
      <4>3. RowEmpty(t.cells, r)
        BY <1>2, <2>1, <2>7, <3>1, Sizes
      <4>. QED BY <1>4, <4>2, <4>3
    <3>2. CASE r # s.row
      <4>1. r + 1 \in 0 .. s.row /\ r \in 0 .. Bands - 2
        BY <1>2, <3>2, Sizes
      <4>2. RowShows(s.cells, r + 1, LineAt(L, s.row, r + 1))
        BY <1>1, <4>1
      <4>3. Len(M) - t.row + r = n - s.row + (r + 1)
        <5>1. n \in Int /\ s.row \in Int /\ r \in Int
          BY <1>1, <1>2
        <5>2. Len(M) = n + 1 /\ t.row = s.row
          BY <1>3, <2>4
        <5>3. Len(M) \in Int /\ t.row \in Int
          BY <1>3, <2>4, <5>1
        <5>. QED BY <5>1, <5>2, <5>3, Shifted
      <4>5. n - s.row + (r + 1) \in 1 .. n
        BY <1>1, <1>2, <4>1
      <4>4. LineAt(M, t.row, r) = LineAt(L, s.row, r + 1)
        BY <1>3, <4>3, <4>5 DEF LineAt
      <4>. QED BY <2>5, <4>1, <4>2, <4>4
    <3>. QED BY <3>1, <3>2
  <2>9. t.row < Len(M)
    BY <1>1, <1>2, <1>3, <2>4
  <2>10. \A r \in t.row + 1 .. Bands - 1 : RowEmpty(t.cells, r)
    <3>1. \A r \in s.row + 1 .. Bands - 1 : r \in s.row .. Bands - 1
      BY <1>2, Sizes
    <3>. QED BY <2>4, <2>7, <3>1
  <2>11. \A r \in 0 .. t.row : RowShows(t.cells, r, LineAt(M, t.row, r))
    BY <2>4, <2>8
  <2>. QED BY <1>3, <2>4, <2>9, <2>10, <2>11 DEF Pictured, t, M
<1>. QED BY <1>5, <1>6

\* M is L with another last line.
LastIs(M, L, x) ==
  /\ M \in Seq(Seq(Char)) /\ Len(M) = Len(L)
  /\ \A i \in 1 .. Len(L) - 1 : M[i] = L[i]
  /\ M[Len(L)] = x

LEMMA LastReplaced ==
  ASSUME NEW L \in Seq(Seq(Char)), 0 < Len(L), NEW x \in Seq(Char)
  PROVE  LastIs(Append(Front(L), x), L, x)
<1>1. PICK n \in Nat : n = Len(L) /\ 1 <= n
  OBVIOUS
<1>2. PICK F : F = Front(L)
  OBVIOUS
<1>3. F = SubSeq(L, 1, n - 1)
  BY <1>1, <1>2 DEF Front
<1>4. \A i \in 1 .. n - 1 : L[i] \in Seq(Char)
  BY <1>1
<1>5. /\ F \in Seq(Seq(Char)) /\ Len(F) = n - 1
      /\ \A i \in 1 .. n - 1 : F[i] = L[i]
  <2>1. /\ F \in Seq(Seq(Char))
        /\ Len(F) = IF 1 <= n - 1 THEN (n - 1) - 1 + 1 ELSE 0
        /\ \A i \in 1 .. (n - 1) - 1 + 1 : F[i] = L[1 + i - 1]
    <3>1. n - 1 \in Int
      BY <1>1
    <3>. QED BY <1>3, <1>4, <3>1, SubSeqProperties
  <2>. QED BY <1>1, <2>1
<1>6. /\ Append(F, x) \in Seq(Seq(Char)) /\ Len(Append(F, x)) = Len(F) + 1
      /\ \A i \in 1 .. Len(F) : Append(F, x)[i] = F[i]
      /\ Append(F, x)[Len(F) + 1] = x
  BY <1>5, Appends
<1>. QED BY <1>1, <1>2, <1>5, <1>6 DEF LastIs

LEMMA LastLine ==
  ASSUME NEW s, NEW L, Pictured(s, L)
  PROVE  /\ L \in Seq(Seq(Char)) /\ Len(L) \in Nat /\ s.row \in Nat /\ s.row < Len(L)
         /\ L[Len(L)] \in Seq(Char) /\ Len(L[Len(L)]) \in Nat
         /\ LineAt(L, s.row, s.row) = L[Len(L)]
<1>1. L \in Seq(Seq(Char)) /\ s.row \in 0 .. Rows - 1 /\ s.row < Len(L) /\ Len(L) \in Nat
  BY DEF Pictured, Screens
<1>2. Len(L) - s.row + s.row = Len(L) /\ Len(L) \in 1 .. Len(L)
  BY <1>1
<1>3. L[Len(L)] \in Seq(Char)
  BY <1>1, <1>2
<1>. QED BY <1>1, <1>2, <1>3 DEF LineAt

LEMMA Above ==
  ASSUME NEW n \in Int, NEW k \in Int, NEW r \in Int, 0 <= r, r < k, k < n
  PROVE  n - k + r \in 1 .. n - 1
OBVIOUS

\* Drawing in the cursor's row changes the last line and no other.
LEMMA DrawsLast ==
  ASSUME NEW s, NEW L, NEW t, NEW c, NEW col, NEW M, NEW x,
         Pictured(s, L), Drawn(t, s, c, col), LastIs(M, L, x), RowShows(t.cells, s.row, x)
  PROVE  Pictured(t, M)
<1>1. /\ s \in Screens /\ L \in Seq(Seq(Char)) /\ s.row < Len(L) /\ Len(L) \in Nat
      /\ \A r \in 0 .. s.row : RowShows(s.cells, r, LineAt(L, s.row, r))
      /\ \A r \in s.row + 1 .. Bands - 1 : RowEmpty(s.cells, r)
  BY DEF Pictured
<1>2. s.row \in 0 .. Rows - 1 /\ s.row \in 0 .. Bands - 1
  BY <1>1, Sizes DEF Screens
<1>3. /\ t \in Screens /\ t.row = s.row
      /\ \A r \in 0 .. Bands - 1, k \in Bandwidth :
           t.cells[r][k] = IF r = s.row /\ k = col THEN c ELSE s.cells[r][k]
  BY DEF Drawn
<1>4. /\ M \in Seq(Seq(Char)) /\ Len(M) = Len(L)
      /\ \A i \in 1 .. Len(L) - 1 : M[i] = L[i]
      /\ M[Len(L)] = x
  BY DEF LastIs
<1>5. ASSUME NEW r \in 0 .. s.row PROVE RowShows(t.cells, r, LineAt(M, t.row, r))
  <2>1. CASE r = s.row
    <3>1. Len(L) - s.row + s.row = Len(L)
      BY <1>1, <1>2
    <3>2. LineAt(M, t.row, r) = x
      BY <1>3, <1>4, <2>1, <3>1 DEF LineAt
    <3>. QED BY <2>1, <3>2
  <2>2. CASE r # s.row
    <3>0. /\ Len(L) \in Int /\ s.row \in Int /\ r \in Int /\ 0 <= r /\ r < s.row /\ s.row < Len(L)
          /\ r \in 0 .. Bands - 1
      <4>1. Len(L) \in Int /\ s.row < Len(L) /\ s.row \in 0 .. Bands - 1
        BY <1>1, <1>2
      <4>2. r \in Int /\ 0 <= r /\ r <= s.row
        BY <4>1
      <4>. QED BY <4>1, <4>2, <2>2, Sizes
    <3>1. Len(L) - s.row + r \in 1 .. Len(L) - 1 /\ r \in 0 .. Bands - 1
      BY <3>0, Above
    <3>4. Len(M) - t.row + r = Len(L) - s.row + r
      BY <1>3, <1>4
    <3>2. LineAt(M, t.row, r) = LineAt(L, s.row, r)
      BY <1>4, <3>1, <3>4 DEF LineAt
    <3>3. RowShows(s.cells, r, LineAt(L, s.row, r))
      BY <1>1
    <3>. QED BY <1>3, <2>2, <3>1, <3>2, <3>3 DEF RowShows
  <2>. QED BY <2>1, <2>2
<1>6. ASSUME NEW r \in s.row + 1 .. Bands - 1 PROVE RowEmpty(t.cells, r)
  <2>1. r \in 0 .. Bands - 1 /\ r # s.row
    BY <1>2
  <2>2. RowEmpty(s.cells, r)
    BY <1>1
  <2>. QED BY <1>3, <2>1, <2>2 DEF RowEmpty
<1>. QED BY <1>1, <1>3, <1>4, <1>5, <1>6 DEF Pictured

\* A printable character goes behind the last line.
LEMMA DrawsBehind ==
  ASSUME NEW s, NEW L, Showing(s, L), NEW c \in Char
  PROVE  /\ Pictured(Draw(s, c, s.col), Append(Front(L), Append(L[Len(L)], c)))
         /\ Draw(s, c, s.col).col = s.col
         /\ LastIs(Append(Front(L), Append(L[Len(L)], c)), L, Append(L[Len(L)], c))
<1>. DEFINE last == L[Len(L)]
            x == Append(last, c)
            M == Append(Front(L), x)
            t == Draw(s, c, s.col)
<1>1. /\ Pictured(s, L) /\ s \in Screens /\ s.col = Len(last)
      /\ RowShows(s.cells, s.row, LineAt(L, s.row, s.row))
      /\ s.row \in 0 .. Bands - 1
  <2>1. Pictured(s, L) /\ s \in Screens /\ s.col = Len(last)
    BY DEF Showing, Pictured
  <2>2. s.row \in 0 .. s.row /\ s.row \in 0 .. Bands - 1
    BY <2>1, Sizes DEF Screens
  <2>. QED BY <2>1, <2>2 DEF Pictured
<1>2. /\ last \in Seq(Char) /\ L \in Seq(Seq(Char)) /\ 0 < Len(L)
      /\ LineAt(L, s.row, s.row) = last
  BY <1>1, LastLine
<1>3. s.col \in Bandwidth /\ c \in Ink
  BY <1>1 DEF Screens, Ink
<1>4. Drawn(t, s, c, s.col)
  BY <1>1, <1>3, Draws
<1>. HIDE DEF last, t
<1>5. /\ x \in Seq(Char) /\ Len(x) = Len(last) + 1
      /\ \A i \in 1 .. Len(last) : x[i] = last[i]
      /\ x[Len(last) + 1] = c
  BY <1>2, Appends
<1>6. LastIs(M, L, x)
  BY <1>2, <1>5, LastReplaced
<1>. HIDE DEF x
<1>7. RowShows(t.cells, s.row, x)
  <2>1. /\ RowShows(s.cells, s.row, last)
        /\ \A k \in Bandwidth :
             t.cells[s.row][k] = IF k = s.col THEN c ELSE s.cells[s.row][k]
    BY <1>1, <1>2, <1>4 DEF Drawn
  <2>2. ASSUME NEW k \in Bandwidth
        PROVE IF k < Len(x) THEN t.cells[s.row][k] = x[k + 1] ELSE t.cells[s.row][k] \in Blanks
    <3>1. k \in Nat /\ Len(last) \in Nat /\ s.col \in Nat
      BY <1>2, <1>1, <1>3, Sizes DEF Bandwidth
    <3>2. CASE k = s.col
      BY <1>1, <1>5, <2>1, <3>1, <3>2
    <3>3. CASE k # s.col /\ k < Len(last)
      BY <1>1, <1>5, <2>1, <3>1, <3>3 DEF RowShows
    <3>4. CASE k # s.col /\ ~(k < Len(last))
      BY <1>1, <1>5, <2>1, <3>1, <3>4 DEF RowShows
    <3>. QED BY <3>2, <3>3, <3>4
  <2>. QED BY <2>2 DEF RowShows
<1>8. Pictured(t, M) /\ t.col = s.col
  <2>. HIDE DEF M
  <2>1. t.col = s.col
    BY <1>4 DEF Drawn
  <2>2. Pictured(t, M)
    BY <1>1, <1>4, <1>6, <1>7, DrawsLast
  <2>. QED BY <2>1, <2>2
<1>. QED BY <1>6, <1>8 DEF t, x, last

LEMMA FrontOf ==
  ASSUME NEW E, NEW s \in Seq(E), s # <<>>
  PROVE  /\ Front(s) \in Seq(E) /\ Len(Front(s)) = Len(s) - 1
         /\ \A i \in 1 .. Len(s) - 1 : Front(s)[i] = s[i]
<1>1. PICK n \in Nat : n = Len(s) /\ 1 <= n
  OBVIOUS
<1>2. \A i \in 1 .. n - 1 : s[i] \in E
  BY <1>1
<1>3. /\ SubSeq(s, 1, n - 1) \in Seq(E)
      /\ Len(SubSeq(s, 1, n - 1)) = IF 1 <= n - 1 THEN (n - 1) - 1 + 1 ELSE 0
      /\ \A i \in 1 .. (n - 1) - 1 + 1 : SubSeq(s, 1, n - 1)[i] = s[1 + i - 1]
  <2>1. n - 1 \in Int
    BY <1>1
  <2>. QED BY <1>2, <2>1, SubSeqProperties
<1>4. /\ SubSeq(s, 1, n - 1) \in Seq(E) /\ Len(SubSeq(s, 1, n - 1)) = n - 1
      /\ \A i \in 1 .. n - 1 : SubSeq(s, 1, n - 1)[i] = s[i]
  BY <1>1, <1>3
<1>. QED BY <1>1, <1>4 DEF Front

LEMMA NothingIn == ASSUME NEW E, NEW s \in Seq(E), Len(s) = 0 PROVE s = <<>>
OBVIOUS

LEMMA TwoAppended ==
  ASSUME NEW E, NEW s \in Seq(E), NEW a \in E, NEW b \in E
  PROVE  s \o <<a, b>> = Append(Append(s, a), b)
OBVIOUS

LEMMA WrapsInto ==
  ASSUME NEW s \in Seq(Seq(Char)), NEW a \in Seq(Char)
  PROVE  s \o <<a, <<>> >> = Append(Append(s, a), <<>>)
<1>1. PICK z \in Seq(Char) : z = <<>>
  BY EmptyLine
<1>2. s \o <<a, z>> = Append(Append(s, a), z)
  BY TwoAppended
<1>. QED BY <1>1, <1>2, Zenon

\* A backspace takes the last character of the last line away.
LEMMA ErasesLast ==
  ASSUME NEW s, NEW L, Showing(s, L), s.col # 0
  PROVE  /\ Showing(VgaPutc(s, "BS"), Append(Front(L), Front(L[Len(L)])))
         /\ LastIs(Append(Front(L), Front(L[Len(L)])), L, Front(L[Len(L)]))
<1>. DEFINE last == L[Len(L)]
            x == Front(last)
            M == Append(Front(L), x)
            d == Draw(s, " ", s.col - 1)
            t == [d EXCEPT !.col = d.col - 1]
<1>1. /\ Pictured(s, L) /\ s \in Screens /\ s.col = Len(last)
      /\ RowShows(s.cells, s.row, LineAt(L, s.row, s.row))
      /\ s.row \in 0 .. Bands - 1
  <2>1. Pictured(s, L) /\ s \in Screens /\ s.col = Len(last)
    BY DEF Showing, Pictured
  <2>2. s.row \in 0 .. s.row /\ s.row \in 0 .. Bands - 1
    BY <2>1, Sizes DEF Screens
  <2>. QED BY <2>1, <2>2 DEF Pictured
<1>2. /\ last \in Seq(Char) /\ L \in Seq(Seq(Char)) /\ 0 < Len(L)
      /\ LineAt(L, s.row, s.row) = last
  BY <1>1, LastLine
<1>3. s.col \in Bandwidth /\ s.col - 1 \in Bandwidth /\ " " \in Ink /\ last # <<>>
  <2>1. s.col \in Bandwidth
    BY <1>1 DEF Screens
  <2>2. s.col - 1 \in Bandwidth
    BY <2>1, Sizes DEF Bandwidth
  <2>3. last # <<>>
    BY <1>1, <1>2
  <2>. QED BY <2>1, <2>2, <2>3, BlanksAreInk DEF Ink
<1>4. Drawn(d, s, " ", s.col - 1)
  BY <1>1, <1>3, Draws
<1>5. VgaPutc(s, "BS") = t
  BY DEF VgaPutc
<1>. HIDE DEF last, d
<1>6. /\ x \in Seq(Char) /\ Len(x) = Len(last) - 1
      /\ \A i \in 1 .. Len(last) - 1 : x[i] = last[i]
  BY <1>2, <1>3, FrontOf
<1>7. LastIs(M, L, x)
  BY <1>2, <1>6, LastReplaced
<1>. HIDE DEF x
<1>8. RowShows(d.cells, s.row, x)
  <2>1. /\ RowShows(s.cells, s.row, last)
        /\ \A k \in Bandwidth :
             d.cells[s.row][k] = IF k = s.col - 1 THEN " " ELSE s.cells[s.row][k]
    BY <1>1, <1>2, <1>4 DEF Drawn
  <2>2. ASSUME NEW k \in Bandwidth
        PROVE IF k < Len(x) THEN d.cells[s.row][k] = x[k + 1] ELSE d.cells[s.row][k] \in Blanks
    <3>1. PICK m \in Nat : m = Len(last) /\ m = s.col /\ 1 <= m
      <4>1. Len(last) \in Nat /\ Len(last) = s.col
        BY <1>1, <1>2
      <4>2. Len(last) # 0
        BY <4>1
      <4>3. 1 <= Len(last)
        BY <4>1, <4>2
      <4>. QED BY <4>1, <4>3, Zenon
    <3>2. /\ d.cells[s.row][k] = IF k = m - 1 THEN " " ELSE s.cells[s.row][k]
          /\ IF k < m THEN s.cells[s.row][k] = last[k + 1] ELSE s.cells[s.row][k] \in Blanks
      BY <2>1, <3>1 DEF RowShows
    <3>3. /\ Len(x) = m - 1 /\ k \in Nat
          /\ k + 1 \in 1 .. m - 1 => x[k + 1] = last[k + 1]
      BY <1>6, <3>1, Sizes DEF Bandwidth
    <3>4. CASE k < m - 1
      <4>1. k + 1 \in 1 .. m - 1 /\ k < m /\ k # m - 1
        BY <3>1, <3>3, <3>4
      <4>. QED BY <3>2, <3>3, <3>4, <4>1
    <3>5. CASE k = m - 1
      <4>1. ~(k < m - 1) /\ " " \in Blanks
        BY <3>1, <3>3, <3>5 DEF Blanks
      <4>. QED BY <3>2, <3>3, <3>5, <4>1
    <3>6. CASE k > m - 1
      <4>1. ~(k < m) /\ k # m - 1 /\ ~(k < m - 1)
        BY <3>1, <3>3, <3>6
      <4>. QED BY <3>2, <3>3, <4>1
    <3>. QED BY <3>1, <3>3, <3>4, <3>5, <3>6
  <2>. QED BY <2>2 DEF RowShows
<1>9. Pictured(d, M)
  <2>. HIDE DEF M
  <2>. QED BY <1>1, <1>4, <1>7, <1>8, DrawsLast
<1>10. d.col = s.col /\ d \in Screens
  BY <1>4 DEF Drawn
<1>11. AtColumn(t, d, s.col - 1)
  <2>1. d.col - 1 = s.col - 1
    BY <1>10
  <2>. QED BY <1>3, <1>10, <2>1, MovesTo
<1>. HIDE DEF t
<1>12. Pictured(t, M)
  <2>. HIDE DEF M
  <2>. QED BY <1>9, <1>11, ColumnIsApart
<1>13. t.col = Len(M[Len(M)])
  <2>1. M[Len(M)] = x
    BY <1>7 DEF LastIs
  <2>2. t.col = s.col - 1
    BY <1>11 DEF AtColumn
  <2>. QED BY <1>1, <1>6, <2>1, <2>2
<1>14. Showing(t, M)
  <2>. HIDE DEF M
  <2>. QED BY <1>12, <1>13 DEF Showing
<1>. QED BY <1>5, <1>7, <1>14 DEF x, last

\* One character, as it is drawn and as it is told.
LEMMA ReturnStep ==
  ASSUME NEW s, NEW L, Pictured(s, L)
  PROVE  Pictured(VgaPutc(s, "CR"), TypeOn(L, "CR")) /\ TypeOn(L, "CR") = L
<1>1. s \in Screens /\ 0 \in Bandwidth
  BY Sizes DEF Pictured, Bandwidth
<1>2. VgaPutc(s, "CR") = [s EXCEPT !.col = 0] /\ TypeOn(L, "CR") = L
  BY DEF VgaPutc, TypeOn
<1>. QED BY <1>1, <1>2, MovesTo, ColumnIsApart

LEMMA FeedStep ==
  ASSUME NEW s, NEW L, Pictured(s, L)
  PROVE  /\ Showing(VgaPutc(s, "LF"), TypeOn(L, "LF"))
         /\ TypeOn(L, "LF")[Len(TypeOn(L, "LF"))] = <<>>
<1>1. VgaPutc(s, "LF") = DownOneRow(s) /\ TypeOn(L, "LF") = Append(L, <<>>)
  BY DEF VgaPutc, TypeOn
<1>2. Pictured(DownOneRow(s), Append(L, <<>>)) /\ DownOneRow(s).col = 0
  BY FeedsLine
<1>3. Append(L, <<>>)[Len(Append(L, <<>>))] = <<>>
  <2>1. L \in Seq(Seq(Char)) /\ <<>> \in Seq(Char)
    BY EmptyLine DEF Pictured
  <2>. QED BY <2>1, Appends
<1>. QED BY <1>1, <1>2, <1>3, EmptyLine DEF Showing

LEMMA PrintStep ==
  ASSUME NEW s, NEW L, Showing(s, L), NEW c \in Char \ {"CR", "LF", "BS"}
  PROVE  /\ Showing(VgaPutc(s, c), TypeOn(L, c))
         /\ Len(L[Len(L)]) + 1 < Cols =>
              LastIs(TypeOn(L, c), L, Append(L[Len(L)], c))
<1>. DEFINE last == L[Len(L)]
            M == Append(Front(L), Append(last, c))
            d == Draw(s, c, s.col)
<1>1. Pictured(d, M) /\ d.col = s.col /\ LastIs(M, L, Append(last, c))
  BY DrawsBehind
<1>2. /\ s \in Screens /\ s.col = Len(last) /\ last \in Seq(Char) /\ L \in Seq(Seq(Char))
      /\ 0 < Len(L)
  <2>1. Pictured(s, L) /\ s \in Screens /\ s.col = Len(last)
    BY DEF Showing, Pictured
  <2>. QED BY <2>1, LastLine
<1>3. s.col \in Bandwidth /\ d \in Screens
  BY <1>1, <1>2 DEF Screens, Pictured
<1>4. CASE s.col + 1 < Cols
  <2>1. VgaPutc(s, c) = [d EXCEPT !.col = d.col + 1]
    BY <1>4 DEF VgaPutc
  <2>2. TypeOn(L, c) = M
    BY <1>2, <1>4 DEF TypeOn
  <2>. HIDE DEF d, M, last
  <2>3. s.col + 1 \in Bandwidth
    BY <1>3, <1>4, Sizes DEF Bandwidth
  <2>4. AtColumn(VgaPutc(s, c), d, s.col + 1)
    BY <1>1, <1>3, <2>1, <2>3, MovesTo
  <2>5. Pictured(VgaPutc(s, c), M)
    BY <1>1, <2>4, ColumnIsApart
  <2>6. M[Len(M)] = Append(last, c)
    BY <1>1 DEF LastIs
  <2>7. Len(Append(last, c)) = Len(last) + 1
    BY <1>2, Appends
  <2>8. VgaPutc(s, c).col = Len(M[Len(M)])
    BY <1>2, <2>4, <2>6, <2>7 DEF AtColumn
  <2>. QED BY <1>1, <2>2, <2>5, <2>8 DEF Showing, last
<1>5. CASE ~(s.col + 1 < Cols)
  <2>1. VgaPutc(s, c) = DownOneRow(d)
    BY <1>5 DEF VgaPutc
  <2>2. TypeOn(L, c) = Front(L) \o <<Append(last, c), <<>> >>
    BY <1>2, <1>5 DEF TypeOn
  <2>3. Front(L) \o <<Append(last, c), <<>> >> = Append(M, <<>>)
    <3>1. Front(L) \in Seq(Seq(Char))
      BY <1>2, FrontOf
    <3>2. Append(last, c) \in Seq(Char) /\ <<>> \in Seq(Char)
      BY <1>2, Appends, EmptyLine
    <3>. QED BY <3>1, <3>2, WrapsInto
  <2>. HIDE DEF d, M, last
  <2>4. Pictured(DownOneRow(d), Append(M, <<>>)) /\ DownOneRow(d).col = 0
    BY <1>1, FeedsLine
  <2>5. Append(M, <<>>)[Len(Append(M, <<>>))] = <<>>
    <3>1. M \in Seq(Seq(Char)) /\ <<>> \in Seq(Char)
      BY <1>1, EmptyLine DEF LastIs
    <3>. QED BY <3>1, Appends
  <2>. QED BY <1>2, <1>5, <2>1, <2>2, <2>3, <2>4, <2>5, EmptyLine DEF Showing, last
<1>. QED BY <1>4, <1>5

LEMMA EraseStep ==
  ASSUME NEW s, NEW L, Showing(s, L)
  PROVE  /\ Showing(VgaPutc(s, "BS"), TypeOn(L, "BS"))
         /\ L[Len(L)] # <<>> => LastIs(TypeOn(L, "BS"), L, Front(L[Len(L)]))
<1>1. s.col = Len(L[Len(L)]) /\ L[Len(L)] \in Seq(Char) /\ s \in Screens
  BY LastLine DEF Showing, Pictured
<1>2. CASE s.col = 0
  <2>1. L[Len(L)] = <<>>
    BY <1>1, <1>2, NothingIn
  <2>2. VgaPutc(s, "BS") = s /\ TypeOn(L, "BS") = L
    BY <1>2, <2>1 DEF VgaPutc, TypeOn
  <2>. QED BY <2>1, <2>2
<1>3. CASE s.col # 0
  <2>1. L[Len(L)] # <<>>
    BY <1>1, <1>3
  <2>2. TypeOn(L, "BS") = Append(Front(L), Front(L[Len(L)]))
    BY <2>1 DEF TypeOn
  <2>. QED BY <1>3, <2>2, ErasesLast
<1>. QED BY <1>2, <1>3

-----------------------------------------------------------------------------

(***************************************************************************)
(* The console: whole texts.                                               *)
(***************************************************************************)

Putting == INSTANCE FoldFacts WITH Op <- VgaPutc
Typing == INSTANCE FoldFacts WITH Op <- TypeOn
Bannering == INSTANCE FoldFacts WITH Op <- BannerRow

Typewritten(L, text) == FoldLeft(TypeOn, L, text)

LEMMA PutsAll ==
  ASSUME NEW s, NEW text, NEW n \in Nat, DOMAIN text = 1 .. n
  PROVE  \E g : /\ g[0] = s /\ ConsoleWrite(s, text) = g[n]
                /\ \A k \in 1 .. n : g[k] = VgaPutc(g[k - 1], text[k])
<1>1. PICK g : Putting!Folding(g, s, text, n)
  BY Putting!Folds, Zenon
<1>2. Putting!Folded(s, text) = ConsoleWrite(s, text)
  BY DEF Putting!Folded, Putting!FoldLeft, Putting!MapThenFoldSet, Putting!Max,
         FoldLeft, MapThenFoldSet, Max, ConsoleWrite
<1>. QED BY <1>1, <1>2 DEF Putting!Folding

LEMMA TypesAll ==
  ASSUME NEW L, NEW text, NEW n \in Nat, DOMAIN text = 1 .. n
  PROVE  \E h : /\ h[0] = L /\ Typewritten(L, text) = h[n]
                /\ \A k \in 1 .. n : h[k] = TypeOn(h[k - 1], text[k])
<1>1. PICK h : Typing!Folding(h, L, text, n)
  BY Typing!Folds, Zenon
<1>2. Typing!Folded(L, text) = Typewritten(L, text)
  BY DEF Typing!Folded, Typing!FoldLeft, Typing!MapThenFoldSet, Typing!Max,
         FoldLeft, MapThenFoldSet, Max, Typewritten
<1>. QED BY <1>1, <1>2 DEF Typing!Folding

\* What is shown after k characters; behind a carriage return the column waits
\* for the line feed.
ShownAfter(s, L, text, k) ==
  /\ Pictured(s, L)
  /\ k = 0 \/ text[k] # "CR" => Showing(s, L)

LEMMA CharacterShows ==
  ASSUME NEW text \in Seq(Char), Paced(text), NEW k \in 0 .. Len(text) - 1,
         NEW s, NEW L, ShownAfter(s, L, text, k)
  PROVE  ShownAfter(VgaPutc(s, text[k + 1]), TypeOn(L, text[k + 1]), text, k + 1)
<1>. DEFINE c == text[k + 1]
<1>1. k + 1 \in 1 .. Len(text) /\ k + 1 # 0 /\ c \in Char
  OBVIOUS
<1>2. Pictured(s, L) /\ (k = 0 \/ text[k] # "CR" => Showing(s, L))
  BY DEF ShownAfter
<1>3. CASE c = "CR"
  BY <1>1, <1>2, <1>3, ReturnStep DEF ShownAfter
<1>4. CASE c = "LF"
  BY <1>1, <1>2, <1>4, FeedStep DEF ShownAfter, Showing
<1>5. CASE c \notin {"CR", "LF"}
  <2>1. k = 0 \/ text[k] # "CR"
    <3>1. k # 0 => k \in 1 .. Len(text)
      OBVIOUS
    <3>. QED BY <1>5, <3>1 DEF Paced
  <2>2. Showing(s, L)
    BY <1>2, <2>1
  <2>3. Showing(VgaPutc(s, c), TypeOn(L, c))
    BY <1>1, <1>5, <2>2, PrintStep, EraseStep
  <2>. QED BY <2>3 DEF ShownAfter, Showing
<1>. QED BY <1>3, <1>4, <1>5

\* However long the text, and wherever it wraps, scrolls and is rubbed out:
\* drawing it and telling it agree.
LEMMA TextShows ==
  ASSUME NEW s, NEW L, Showing(s, L), NEW text \in Seq(Char), Paced(text)
  PROVE  Showing(ConsoleWrite(s, text), Typewritten(L, text))
<1>1. PICK n \in Nat : n = Len(text) /\ DOMAIN text = 1 .. n
  OBVIOUS
<1>2. PICK g : /\ g[0] = s /\ ConsoleWrite(s, text) = g[n]
               /\ \A k \in 1 .. n : g[k] = VgaPutc(g[k - 1], text[k])
  BY <1>1, PutsAll
<1>3. PICK h : /\ h[0] = L /\ Typewritten(L, text) = h[n]
               /\ \A k \in 1 .. n : h[k] = TypeOn(h[k - 1], text[k])
  BY <1>1, TypesAll
<1>. DEFINE S == {k \in 0 .. n : ShownAfter(g[k], h[k], text, k)}
<1>4. 0 \in S
  BY <1>2, <1>3 DEF ShownAfter, Showing
<1>5. ASSUME NEW k \in 0 .. n - 1, k \in S PROVE k + 1 \in S
  <2>1. g[k + 1] = VgaPutc(g[k], text[k + 1]) /\ h[k + 1] = TypeOn(h[k], text[k + 1])
    BY <1>2, <1>3
  <2>2. ShownAfter(g[k], h[k], text, k) /\ k + 1 \in 0 .. n
    BY <1>5
  <2>. QED BY <1>1, <2>1, <2>2, CharacterShows
<1>. HIDE DEF S
<1>6. n \in S
  <2>1. \A k \in 0 .. n : k \in S
    BY <1>4, <1>5, Putting!UpTo
  <2>. QED BY <2>1
<1>7. n = 0 \/ text[n] # "CR"
  BY <1>1 DEF Paced
<1>. QED BY <1>2, <1>3, <1>6, <1>7 DEF S, ShownAfter

\* The same after a text that ends with its last line, of which the prompt is
\* the next.
LEMMA PromptShows ==
  ASSUME NEW s, NEW L, Showing(s, L), NEW text \in Seq(Char), Output(text), text # <<>>
  PROVE  /\ Showing(ConsoleWrite(s, text \o Prompt), Typewritten(L, text \o Prompt))
         /\ Typewritten(L, text \o Prompt)[Len(Typewritten(L, text \o Prompt))] = Prompt
<1>. DEFINE all == text \o Prompt
<1>1. Prompt \in Seq(Char) /\ Len(Prompt) = 1 /\ Prompt[1] = ">"
  BY DEF Prompt, Char
<1>2. PICK n \in Nat : n = Len(text) /\ 1 <= n
  OBVIOUS
<1>3. Joined(all, text, Prompt, Char)
  BY <1>1, Joins
<1>4. /\ all \in Seq(Char) /\ Len(all) = n + 1 /\ DOMAIN all = 1 .. n + 1
      /\ all[n] = "LF" /\ all[n + 1] = ">"
      /\ \A i \in 1 .. n : all[i] = text[i]
  <2>1. /\ all \in Seq(Char) /\ Len(all) = n + 1
        /\ \A i \in 1 .. n : all[i] = text[i]
        /\ all[n + 1] = ">"
    BY <1>1, <1>2, <1>3 DEF Joined
  <2>2. text[n] = "LF"
    BY <1>2 DEF Output
  <2>. HIDE DEF all
  <2>. QED BY <1>2, <2>1, <2>2
<1>. HIDE DEF all
<1>5. Paced(all)
  <2>1. \A i \in 1 .. n : text[i] = "CR" => i < n /\ text[i + 1] = "LF"
    BY <1>2 DEF Output, Paced
  <2>2. ASSUME NEW i \in 1 .. n + 1, all[i] = "CR" PROVE i < n + 1 /\ all[i + 1] = "LF"
    <3>1. i # n + 1
      BY <1>4, <2>2
    <3>2. i \in 1 .. n /\ text[i] = "CR"
      BY <1>2, <1>4, <2>2, <3>1
    <3>3. i < n /\ text[i + 1] = "LF" /\ i + 1 \in 1 .. n
      BY <1>2, <2>1, <3>2
    <3>. QED BY <1>2, <1>4, <3>3
  <2>. QED BY <1>4, <2>2 DEF Paced
<1>6. PICK g : /\ g[0] = s /\ ConsoleWrite(s, all) = g[n + 1]
               /\ \A k \in 1 .. n + 1 : g[k] = VgaPutc(g[k - 1], all[k])
  BY <1>2, <1>4, PutsAll
<1>7. PICK h : /\ h[0] = L /\ Typewritten(L, all) = h[n + 1]
               /\ \A k \in 1 .. n + 1 : h[k] = TypeOn(h[k - 1], all[k])
  BY <1>2, <1>4, TypesAll
<1>. DEFINE S == {k \in 0 .. n + 1 : ShownAfter(g[k], h[k], all, k)}
<1>8. 0 \in S
  BY <1>2, <1>6, <1>7 DEF ShownAfter, Showing
<1>9. ASSUME NEW k \in 0 .. (n + 1) - 1, k \in S PROVE k + 1 \in S
  <2>1. g[k + 1] = VgaPutc(g[k], all[k + 1]) /\ h[k + 1] = TypeOn(h[k], all[k + 1])
    BY <1>6, <1>7
  <2>2. ShownAfter(g[k], h[k], all, k) /\ k + 1 \in 0 .. n + 1
    BY <1>9
  <2>. QED BY <1>4, <1>5, <2>1, <2>2, CharacterShows
<1>. HIDE DEF S
<1>10. \A k \in 0 .. n + 1 : k \in S
  <2>1. n + 1 \in Nat
    BY <1>2
  <2>. QED BY <1>8, <1>9, <2>1, Putting!UpTo
<1>11. Showing(g[n + 1], h[n + 1])
  <2>1. n + 1 \in S
    BY <1>2, <1>10
  <2>. QED BY <1>4, <2>1 DEF S, ShownAfter
<1>12. h[n + 1][Len(h[n + 1])] = Prompt
  <2>1. n - 1 \in S /\ n \in S /\ n - 1 \in 0 .. n /\ n - 1 + 1 = n
    BY <1>2, <1>10
  <2>2. h[n] = TypeOn(h[n - 1], "LF") /\ h[n + 1] = TypeOn(h[n], ">")
    BY <1>2, <1>4, <1>7
  <2>3. Pictured(g[n - 1], h[n - 1])
    BY <2>1 DEF S, ShownAfter
  <2>4. h[n][Len(h[n])] = <<>>
    BY <2>2, <2>3, FeedStep
  <2>5. Showing(g[n], h[n])
    BY <1>4, <2>1 DEF S, ShownAfter
  <2>6. ">" \in Char \ {"CR", "LF", "BS"}
    BY DEF Char
  <2>7. LastIs(h[n + 1], h[n], Append(<<>>, ">"))
    <3>1. Len(<<>>) + 1 < Cols
      BY Sizes, EmptyLine
    <3>2. Len(h[n][Len(h[n])]) + 1 < Cols
      BY <2>4, <3>1, Zenon
    <3>3. LastIs(TypeOn(h[n], ">"), h[n], Append(h[n][Len(h[n])], ">"))
      BY <2>5, <2>6, <3>2, PrintStep
    <3>. QED BY <2>2, <2>4, <3>3, Zenon
  <2>8. Append(<<>>, ">") = Prompt
    BY DEF Prompt
  <2>. QED BY <2>7, <2>8 DEF LastIs
<1>. QED BY <1>6, <1>7, <1>11, <1>12 DEF all

LEMMA MaxTwo ==
  ASSUME NEW m \in Int, NEW n \in Int
  PROVE  Max({m, n}) = IF m <= n THEN n ELSE m
<1>. DEFINE k == IF m <= n THEN n ELSE m
<1>1. k \in {m, n} /\ \A y \in {m, n} : k >= y
  OBVIOUS
<1>2. \A x \in {m, n} : (\A y \in {m, n} : x >= y) => x = k
  OBVIOUS
<1>. QED BY <1>1, <1>2 DEF Max

\* The lines that write keeps: as many as the screen has rows.
Kept(all) == SubSeq(all, Max({1, Len(all) - Rows + 1}), Len(all))

LEMMA SameLine ==
  ASSUME NEW n \in Int, NEW m \in Int, NEW k \in Int, NEW r \in Int
  PROVE  m + ((n - m + 1) - k + r) - 1 = n - k + r
OBVIOUS

LEMMA KeepsShowing ==
  ASSUME NEW s, NEW all, Showing(s, all)
  PROVE  Showing(s, Kept(all)) /\ Kept(all)[Len(Kept(all))] = all[Len(all)]
<1>. DEFINE K == Kept(all)
<1>1. Pictured(s, all) /\ s.col = Len(all[Len(all)])
  BY DEF Showing
<1>2. /\ s \in Screens /\ all \in Seq(Seq(Char))
      /\ \A r \in 0 .. s.row : RowShows(s.cells, r, LineAt(all, s.row, r))
      /\ \A r \in s.row + 1 .. Bands - 1 : RowEmpty(s.cells, r)
  BY <1>1 DEF Pictured
<1>3. PICK n \in Nat : n = Len(all) /\ s.row < n
  BY <1>1 DEF Pictured
<1>4. PICK row \in 0 .. Rows - 1 : row = s.row
  BY <1>2 DEF Screens
<1>5. PICK m \in Int : m = Max({1, n - Rows + 1}) /\ 1 <= m /\ m <= n /\ row < n - m + 1
  <2>1. 1 \in Int /\ n - Rows + 1 \in Int
    BY Sizes
  <2>2. Max({1, n - Rows + 1}) = IF 1 <= n - Rows + 1 THEN n - Rows + 1 ELSE 1
    BY <2>1, MaxTwo
  <2>. QED BY <1>3, <1>4, <2>1, <2>2, Sizes
<1>13. 1 <= m /\ m <= n /\ row < n - m + 1
  BY <1>5
<1>6. \A i \in m .. n : all[i] \in Seq(Char)
  BY <1>2, <1>3, <1>5
<1>7. /\ K \in Seq(Seq(Char)) /\ Len(K) = n - m + 1
      /\ \A i \in 1 .. n - m + 1 : K[i] = all[m + i - 1]
  <2>1. K = SubSeq(all, m, n)
    BY <1>3, <1>5 DEF Kept
  <2>2. /\ SubSeq(all, m, n) \in Seq(Seq(Char))
        /\ Len(SubSeq(all, m, n)) = IF m <= n THEN n - m + 1 ELSE 0
        /\ \A i \in 1 .. n - m + 1 : SubSeq(all, m, n)[i] = all[m + i - 1]
    BY <1>6, SubSeqProperties
  <2>. HIDE DEF K
  <2>. QED BY <1>13, <2>1, <2>2
<1>. HIDE DEF K
<1>8. ASSUME NEW r \in 0 .. row PROVE LineAt(K, row, r) = LineAt(all, row, r)
  <2>1. Len(K) - row + r \in 1 .. n - m + 1
    <3>1. Len(K) = n - m + 1
      BY <1>7
    <3>2. (n - m + 1) - row + r \in 1 .. n - m + 1
      BY <1>13
    <3>. QED BY <3>1, <3>2
  <2>2. m + ((n - m + 1) - row + r) - 1 = n - row + r
    BY <1>4, <1>5, SameLine
  <2>. QED BY <1>3, <1>7, <2>1, <2>2 DEF LineAt
<1>9. K[Len(K)] = all[Len(all)]
  <2>1. n - m + 1 \in 1 .. n - m + 1 /\ m + (n - m + 1) - 1 = n
    BY <1>5
  <2>. QED BY <1>3, <1>7, <2>1
<1>10. s.row < Len(K)
  BY <1>4, <1>5, <1>7
<1>11. \A r \in 0 .. s.row : RowShows(s.cells, r, LineAt(K, s.row, r))
  BY <1>2, <1>4, <1>8
<1>12. Pictured(s, K)
  BY <1>2, <1>7, <1>10, <1>11 DEF Pictured
<1>. QED BY <1>1, <1>9, <1>12 DEF Showing, K

LEMMA WriteKeeps == ASSUME NEW text, Write(text)
  PROVE  screen' = ConsoleWrite(screen, text) /\ lines' = Kept(Typewritten(lines, text))
BY DEF Write, Kept, Typewritten

LEMMA WriteShows ==
  ASSUME NEW text \in Seq(Char), Paced(text), Showing(screen, lines), Write(text)
  PROVE  Showing(screen', lines')
<1>1. Showing(screen', Typewritten(lines, text))
  BY WriteKeeps, TextShows
<1>. QED BY <1>1, WriteKeeps, KeepsShowing

\* The last line on the console.
Bottom(L) == L[Len(L)]

LEMMA PromptWritten ==
  ASSUME NEW text \in Seq(Char), Output(text), text # <<>>, Showing(screen, lines),
         Write(text \o Prompt)
  PROVE  Showing(screen', lines') /\ Bottom(lines') = Prompt
<1>. DEFINE all == Typewritten(lines, text \o Prompt)
<1>1. Showing(screen', all) /\ all[Len(all)] = Prompt
  BY WriteKeeps, PromptShows
<1>2. lines' = Kept(all)
  BY WriteKeeps
<1>. QED BY <1>1, <1>2, KeepsShowing DEF Bottom

\* The bottom line is `base` with the first k characters of `text` behind it.
TypedBehind(L, base, text, k) ==
  /\ Bottom(L) \in Seq(Char) /\ Len(Bottom(L)) = Len(base) + k
  /\ \A i \in 1 .. Len(base) : Bottom(L)[i] = base[i]
  /\ \A i \in 1 .. k : Bottom(L)[Len(base) + i] = text[i]

LEMMA LettersArePaced ==
  ASSUME NEW text \in Seq(Typed)
  PROVE  /\ text \in Seq(Char) /\ Paced(text)
         /\ \A i \in 1 .. Len(text) : text[i] \in Char \ {"CR", "LF", "BS"}
<1>1. text \in Seq(Char)
  BY DEF Char
<1>2. \A i \in 1 .. Len(text) : text[i] \in Char \ {"CR", "LF", "BS"}
  <2>1. \A i \in 1 .. Len(text) : text[i] \in Typed /\ text[i] \in Char
    BY <1>1
  <2>. QED BY <2>1, LettersPrint
<1>3. Paced(text)
  BY <1>2 DEF Paced
<1>. QED BY <1>1, <1>2, <1>3

LEMMA CharAppended ==
  ASSUME NEW x \in Seq(Char), NEW c \in Char
  PROVE  /\ Append(x, c) \in Seq(Char) /\ Len(Append(x, c)) = Len(x) + 1
         /\ \A i \in 1 .. Len(x) : Append(x, c)[i] = x[i]
         /\ Append(x, c)[Len(x) + 1] = c
BY Appends

LEMMA NotEmpty == ASSUME NEW x \in Seq(Char), 0 < Len(x) PROVE x # <<>>
OBVIOUS

LEMMA FrontAppended ==
  ASSUME NEW x \in Seq(Char), NEW c \in Char
  PROVE  Append(x, c) # <<>> /\ Front(Append(x, c)) = x
<1>. DEFINE y == Append(x, c)
<1>1. /\ y \in Seq(Char) /\ Len(y) = Len(x) + 1
      /\ \A i \in 1 .. Len(x) : y[i] = x[i]
  BY CharAppended
<1>. HIDE DEF y
<1>2. 0 < Len(y)
  BY <1>1
<1>3. y # <<>>
  BY <1>1, <1>2, NotEmpty
<1>4. /\ Front(y) \in Seq(Char) /\ Len(Front(y)) = Len(y) - 1
      /\ \A i \in 1 .. Len(y) - 1 : Front(y)[i] = y[i]
  BY <1>1, <1>3, FrontOf
<1>5. Len(Front(y)) = Len(x) /\ \A i \in 1 .. Len(x) : Front(y)[i] = x[i]
  BY <1>1, <1>4
<1>6. Front(y) = x
  BY <1>4, <1>5, SeqEqual
<1>. QED BY <1>3, <1>6 DEF y

\* A character that fits, as the bottom line sees it.
LEMMA BottomPrinted ==
  ASSUME NEW s, NEW L, Showing(s, L), NEW c \in Char \ {"CR", "LF", "BS"},
         Len(Bottom(L)) + 1 < Cols
  PROVE  /\ Showing(VgaPutc(s, c), TypeOn(L, c)) /\ Bottom(L) \in Seq(Char)
         /\ Bottom(TypeOn(L, c)) = Append(Bottom(L), c)
<1>1. /\ Showing(VgaPutc(s, c), TypeOn(L, c))
      /\ LastIs(TypeOn(L, c), L, Append(Bottom(L), c))
  BY PrintStep DEF Bottom
<1>2. Bottom(L) \in Seq(Char)
  BY LastLine DEF Showing, Bottom
<1>. QED BY <1>1, <1>2 DEF LastIs, Bottom

\* And a backspace.
LEMMA BottomErased ==
  ASSUME NEW s, NEW L, Showing(s, L), Bottom(L) # <<>>
  PROVE  /\ Showing(VgaPutc(s, "BS"), TypeOn(L, "BS"))
         /\ Bottom(TypeOn(L, "BS")) = Front(Bottom(L))
<1>1. /\ Showing(VgaPutc(s, "BS"), TypeOn(L, "BS"))
      /\ LastIs(TypeOn(L, "BS"), L, Front(Bottom(L)))
  BY EraseStep DEF Bottom
<1>. QED BY <1>1 DEF LastIs, Bottom

\* Typed text that fits into the row stands behind what was there.
LEMMA TypedShows ==
  ASSUME NEW s, NEW L, Showing(s, L), NEW text \in Seq(Typed),
         NEW base \in Seq(Char), Bottom(L) = base, Len(base) + Len(text) < Cols
  PROVE  Bottom(Typewritten(L, text)) = base \o text
<1>1. PICK n \in Nat : n = Len(text) /\ DOMAIN text = 1 .. n
  OBVIOUS
<1>2. PICK m \in Nat : m = Len(base)
  OBVIOUS
<1>3. /\ text \in Seq(Char) /\ Paced(text) /\ m + n < Cols
      /\ \A i \in 1 .. n : text[i] \in Char \ {"CR", "LF", "BS"}
  BY <1>1, <1>2, LettersArePaced
<1>4. PICK g : /\ g[0] = s /\ ConsoleWrite(s, text) = g[n]
               /\ \A k \in 1 .. n : g[k] = VgaPutc(g[k - 1], text[k])
  BY <1>1, PutsAll
<1>5. PICK h : /\ h[0] = L /\ Typewritten(L, text) = h[n]
               /\ \A k \in 1 .. n : h[k] = TypeOn(h[k - 1], text[k])
  BY <1>1, TypesAll
<1>. DEFINE S == {k \in 0 .. n : Showing(g[k], h[k]) /\ TypedBehind(h[k], base, text, k)}
<1>6. 0 \in S
  BY <1>2, <1>4, <1>5 DEF TypedBehind
<1>7. ASSUME NEW k \in 0 .. n - 1, k \in S PROVE k + 1 \in S
  <2>1. PICK c \in Char \ {"CR", "LF", "BS"} : c = text[k + 1]
    BY <1>3
  <2>2. g[k + 1] = VgaPutc(g[k], c) /\ h[k + 1] = TypeOn(h[k], c) /\ k + 1 \in 0 .. n
    BY <1>4, <1>5, <2>1
  <2>3. Showing(g[k], h[k]) /\ TypedBehind(h[k], base, text, k)
    BY <1>7
  <2>4. PICK x \in Seq(Char) : x = Bottom(h[k]) /\ Len(x) = m + k
    BY <1>2, <2>3 DEF TypedBehind
  <2>5. Len(Bottom(h[k])) + 1 < Cols
    <3>1. m + k + 1 < Cols
      BY <1>3, Sizes
    <3>. QED BY <2>4, <3>1
  <2>6. Showing(g[k + 1], h[k + 1]) /\ Bottom(h[k + 1]) = Append(Bottom(h[k]), c)
    BY <2>2, <2>3, <2>5, BottomPrinted
  <2>7. Bottom(h[k + 1]) = Append(x, c)
    BY <2>4, <2>6, Zenon
  <2>8. /\ Append(x, c) \in Seq(Char) /\ Len(Append(x, c)) = Len(x) + 1
        /\ \A i \in 1 .. Len(x) : Append(x, c)[i] = x[i]
        /\ Append(x, c)[Len(x) + 1] = c
    <3>1. c \in Char
      OBVIOUS
    <3>. QED BY <3>1, CharAppended, Zenon
  <2>9. /\ \A i \in 1 .. m : x[i] = base[i]
        /\ \A i \in 1 .. k : x[m + i] = text[i]
    BY <1>2, <2>3, <2>4 DEF TypedBehind
  <2>10. TypedBehind(h[k + 1], base, text, k + 1)
    <3>. DEFINE y == Append(x, c)
    <3>1. y \in Seq(Char) /\ Len(y) = m + (k + 1)
      BY <2>4, <2>8
    <3>. HIDE DEF y
    <3>2. ASSUME NEW i \in 1 .. m PROVE y[i] = base[i]
      BY <2>4, <2>8, <2>9 DEF y
    <3>3. ASSUME NEW i \in 1 .. k + 1 PROVE y[m + i] = text[i]
      <4>1. CASE i = k + 1
        <5>1. m + i = Len(x) + 1
          BY <2>4, <4>1
        <5>. QED BY <2>1, <2>8, <4>1, <5>1 DEF y
      <4>2. CASE i # k + 1
        <5>1. i \in 1 .. k /\ m + i \in 1 .. Len(x)
          BY <2>4, <4>2
        <5>. QED BY <2>8, <2>9, <5>1 DEF y
      <4>. QED BY <4>1, <4>2
    <3>4. Bottom(h[k + 1]) = y
      BY <2>7 DEF y
    <3>. QED BY <1>2, <3>1, <3>2, <3>3, <3>4 DEF TypedBehind
  <2>. QED BY <2>2, <2>6, <2>10
<1>. HIDE DEF S
<1>8. n \in S
  <2>1. \A k \in 0 .. n : k \in S
    BY <1>6, <1>7, Putting!UpTo
  <2>. QED BY <2>1
<1>9. PICK y : y = Bottom(h[n])
  OBVIOUS
<1>10. /\ y \in Seq(Char) /\ Len(y) = m + n
       /\ \A i \in 1 .. m : y[i] = base[i]
       /\ \A i \in 1 .. n : y[m + i] = text[i]
  BY <1>2, <1>8, <1>9 DEF S, TypedBehind
<1>11. PICK z : z = base \o text
  OBVIOUS
<1>12. /\ z \in Seq(Char) /\ Len(z) = m + n
       /\ \A i \in 1 .. m : z[i] = base[i]
       /\ \A i \in 1 .. n : z[m + i] = text[i]
  <2>1. Joined(z, base, text, Char)
    BY <1>3, <1>11, Joins
  <2>. QED BY <1>1, <1>2, <2>1 DEF Joined
<1>13. \A i \in 1 .. m + n : y[i] = z[i]
  <2>1. ASSUME NEW i \in 1 .. m + n, i \notin 1 .. m PROVE y[i] = z[i]
    <3>1. PICK j \in 1 .. n : i = m + j
      BY <2>1
    <3>. QED BY <1>10, <1>12, <3>1
  <2>. QED BY <1>10, <1>12, <2>1
<1>14. y = z
  BY <1>10, <1>12, <1>13, SeqEqual
<1>. QED BY <1>5, <1>9, <1>11, <1>14

\* Rubbing out takes the last character off the bottom line.
LEMMA RubsOut ==
  ASSUME NEW s, NEW L, Showing(s, L), 0 < Len(Bottom(L))
  PROVE  Bottom(TypeOn(TypeOn(TypeOn(L, "BS"), " "), "BS")) = Front(Bottom(L))
<1>. DEFINE L1 == TypeOn(L, "BS")
            L2 == TypeOn(L1, " ")
<1>1. Bottom(L) \in Seq(Char) /\ Len(Bottom(L)) < Cols
  <2>1. Pictured(s, L) /\ s.col = Len(Bottom(L)) /\ s \in Screens
    BY DEF Showing, Pictured, Bottom
  <2>2. s.col < Cols
    BY <2>1, Sizes DEF Screens, Bandwidth
  <2>. QED BY <2>1, <2>2, LastLine DEF Bottom
<1>2. Bottom(L) # <<>>
  BY <1>1, NotEmpty
<1>3. /\ Front(Bottom(L)) \in Seq(Char) /\ Len(Front(Bottom(L))) = Len(Bottom(L)) - 1
  BY <1>1, <1>2, FrontOf
<1>4. Showing(VgaPutc(s, "BS"), L1) /\ Bottom(L1) = Front(Bottom(L))
  BY <1>2, BottomErased
<1>. HIDE DEF L1
<1>5. Len(Bottom(L1)) + 1 < Cols
  BY <1>1, <1>3, <1>4, Sizes
<1>6. " " \in Char \ {"CR", "LF", "BS"} /\ " " \in Char
  BY BlanksAreInk
<1>7. /\ Showing(VgaPutc(VgaPutc(s, "BS"), " "), L2)
      /\ Bottom(L1) \in Seq(Char) /\ Bottom(L2) = Append(Bottom(L1), " ")
  BY <1>4, <1>5, <1>6, BottomPrinted
<1>. HIDE DEF L2
<1>8. /\ Append(Bottom(L1), " ") # <<>>
      /\ Front(Append(Bottom(L1), " ")) = Bottom(L1)
  BY <1>6, <1>7, FrontAppended
<1>9. Bottom(TypeOn(L2, "BS")) = Front(Bottom(L2))
  <2>1. Bottom(L2) # <<>>
    BY <1>7, <1>8, Zenon
  <2>. QED BY <1>7, <2>1, BottomErased
<1>10. Bottom(TypeOn(L2, "BS")) = Front(Bottom(L))
  BY <1>4, <1>7, <1>8, <1>9, Zenon
<1>. QED BY <1>10 DEF L1, L2

LEMMA ThreeTyped ==
  ASSUME NEW L, NEW text \in Seq(Char), NEW n \in Nat, n = Len(text)
  PROVE  n = 3 => Typewritten(L, text) = TypeOn(TypeOn(TypeOn(L, text[1]), text[2]), text[3])
<1>0. DOMAIN text = 1 .. n
  OBVIOUS
<1>1. PICK h : /\ h[0] = L /\ Typewritten(L, text) = h[n]
               /\ \A k \in 1 .. n : h[k] = TypeOn(h[k - 1], text[k])
  BY <1>0, TypesAll
<1>. HAVE n = 3
<1>2. /\ 1 \in 1 .. n /\ 2 \in 1 .. n /\ 3 \in 1 .. n
      /\ 1 - 1 = 0 /\ 2 - 1 = 1 /\ 3 - 1 = 2
  OBVIOUS
<1>3. h[1] = TypeOn(L, text[1])
  BY <1>1, <1>2, Zenon
<1>4. h[2] = TypeOn(h[1], text[2])
  BY <1>1, <1>2, Zenon
<1>5. h[3] = TypeOn(h[2], text[3])
  BY <1>1, <1>2, Zenon
<1>. QED BY <1>1, <1>3, <1>4, <1>5, Zenon

LEMMA Three ==
  ASSUME NEW E, NEW a \in E, NEW b \in E, NEW c \in E PROVE <<a, b, c>> \in Seq(E)
OBVIOUS

LEMMA RubbingOut ==
  ASSUME NEW L
  PROVE  Typewritten(L, <<"BS", " ", "BS">>) = TypeOn(TypeOn(TypeOn(L, "BS"), " "), "BS")
<1>. DEFINE text == <<"BS", " ", "BS">>
<1>1. text \in Seq(Char) /\ Len(text) = 3 /\ text[1] = "BS" /\ text[2] = " " /\ text[3] = "BS"
  <2>1. "BS" \in Char /\ " " \in Char
    BY DEF Char, Typed
  <2>2. text \in Seq(Char)
    BY <2>1, Three, Zenon
  <2>3. Len(text) = 3 /\ text[1] = "BS" /\ text[2] = " " /\ text[3] = "BS"
    OBVIOUS
  <2>. QED BY <2>2, <2>3
<1>. HIDE DEF text
<1>2. PICK n \in Nat : n = Len(text) /\ n = 3
  BY <1>1
<1>3. Typewritten(L, text) = TypeOn(TypeOn(TypeOn(L, text[1]), text[2]), text[3])
  BY <1>1, <1>2, ThreeTyped
<1>. QED BY <1>1, <1>3, Zenon DEF text

-----------------------------------------------------------------------------

(***************************************************************************)
(* The console: the screen at boot and after `clear`.                      *)
(***************************************************************************)

\* Nothing but the banner on the screen, and the cursor in column 0 of a row.
Blanked(s, row) ==
  /\ s \in Screens /\ s.row = row /\ s.col = 0
  /\ \A r \in 0 .. Bands - 1 : RowEmpty(s.cells, r)

BlankLines(row) == [i \in 1 .. row + 1 |-> <<>>]

LEMMA BlankLinesAre ==
  ASSUME NEW row \in Nat
  PROVE  /\ BlankLines(row) \in Seq(Seq(Char)) /\ Len(BlankLines(row)) = row + 1
         /\ \A i \in 1 .. row + 1 : BlankLines(row)[i] = <<>>
<1>1. \A i \in 1 .. row + 1 : <<>> \in Seq(Char)
  BY EmptyLine
<1>2. row + 1 \in Nat
  OBVIOUS
<1>. QED BY <1>1, <1>2 DEF BlankLines

LEMMA BlankShows ==
  ASSUME NEW s, NEW row \in Nat, Blanked(s, row)
  PROVE  Showing(s, BlankLines(row))
<1>. DEFINE L == BlankLines(row)
<1>1. /\ L \in Seq(Seq(Char)) /\ Len(L) = row + 1
      /\ \A i \in 1 .. row + 1 : L[i] = <<>>
  BY BlankLinesAre
<1>. HIDE DEF L
<1>2. /\ s \in Screens /\ s.row = row /\ s.col = 0
      /\ \A r \in 0 .. Bands - 1 : RowEmpty(s.cells, r)
  BY DEF Blanked
<1>3. row < Len(L) /\ row \in 0 .. Bands - 1
  BY <1>1, <1>2, Sizes DEF Screens
<1>4. ASSUME NEW r \in 0 .. row PROVE RowShows(s.cells, r, LineAt(L, row, r))
  <2>1. LineAt(L, row, r) = <<>>
    <3>1. Len(L) - row + r \in 1 .. row + 1
      BY <1>1
    <3>. QED BY <1>1, <3>1 DEF LineAt
  <2>2. RowEmpty(s.cells, r)
    <3>1. r \in 0 .. Bands - 1
      BY <1>3, Sizes
    <3>. QED BY <1>2, <3>1
  <2>3. RowShows(s.cells, r, <<>>)
    BY <2>2, EmptyLine DEF RowEmpty, RowShows, Bandwidth
  <2>. QED BY <2>1, <2>3
<1>5. \A r \in row + 1 .. Bands - 1 : RowEmpty(s.cells, r)
  <2>1. \A r \in row + 1 .. Bands - 1 : r \in 0 .. Bands - 1
    OBVIOUS
  <2>. QED BY <1>2, <2>1
<1>6. L[Len(L)] = <<>>
  <2>1. row + 1 \in 1 .. row + 1
    OBVIOUS
  <2>. QED BY <1>1, <2>1
<1>7. Pictured(s, L)
  BY <1>1, <1>2, <1>3, <1>4, <1>5 DEF Pictured
<1>. QED BY <1>2, <1>6, <1>7, EmptyLine DEF Showing, L

\* vga_clear() leaves nothing where there was nothing.
LEMMA ClearsBands ==
  ASSUME NEW s,
         \A b \in 0 .. Bands - 1 : s.cells[b] \in [Bandwidth -> Ink],
         \A b \in Rows .. Bands - 1 : RowEmpty(s.cells, b)
  PROVE  Blanked(VgaClear(s), 0)
<1>. DEFINE cells == [b \in 0 .. Bands - 1 |-> IF b < Rows THEN BlankBand ELSE s.cells[b]]
<1>1. BlankBand \in [Bandwidth -> Ink] /\ \A k \in Bandwidth : BlankBand[k] \in Blanks
  BY BlanksAreInk DEF BlankBand, Bandwidth, Ink, Blanks
<1>. HIDE DEF BlankBand
<1>2. cells \in [0 .. Bands - 1 -> [Bandwidth -> Ink]]
  BY <1>1
<1>3. \A r \in 0 .. Bands - 1 : RowEmpty(cells, r)
  BY <1>1, Sizes DEF RowEmpty
<1>. HIDE DEF cells
<1>4. 0 \in Bandwidth /\ 0 \in 0 .. Rows - 1
  BY Sizes DEF Bandwidth
<1>5. VgaClear(s) = [row |-> 0, col |-> 0, cells |-> cells]
  BY DEF VgaClear, cells
<1>. QED BY <1>2, <1>3, <1>4, <1>5 DEF Blanked, Screens

LEMMA BannerDraws ==
  ASSUME NEW s, Blanked(s, 0), NEW r \in DOMAIN Banner
  PROVE  Blanked(BannerRow(s, r), 0)
<1>1. r \in 0 .. Bands - 1 /\ Banner[r] \in Seq(Blanks)
  <2>1. r \in 0 .. Rows - 1 /\ Banner[r] \in Seq({" ", "#"})
    BY ScreenAssumption DEF ScreenAssumption
  <2>2. r \in 0 .. Bands - 1
    <3>1. r \in 0 .. Rows - 1
      BY <2>1
    <3>. QED BY <3>1, Sizes
  <2>. QED BY <2>1, <2>2 DEF Blanks
<1>2. PICK text \in Seq(Blanks) : text = Banner[r]
  BY <1>1
<1>. DEFINE band == [c \in 0 .. Cols - 1 |-> IF c < Len(text) THEN text[c + 1] ELSE s.cells[r][c]]
            t == BannerRow(s, r)
<1>3. /\ s \in Screens /\ s.row = 0 /\ s.col = 0
      /\ \A b \in 0 .. Bands - 1 : RowEmpty(s.cells, b)
  BY DEF Blanked
<1>4. \A c \in Bandwidth : band[c] \in Blanks
  <2>1. ASSUME NEW c \in Bandwidth PROVE band[c] \in Blanks
    <3>1. CASE c < Len(text)
      <4>1. c + 1 \in 1 .. Len(text)
        BY <3>1, Sizes DEF Bandwidth
      <4>2. band[c] = text[c + 1]
        BY <3>1 DEF Bandwidth
      <4>. QED BY <4>1, <4>2
    <3>2. CASE ~(c < Len(text))
      BY <1>1, <1>3, <3>2 DEF RowEmpty, Bandwidth
    <3>. QED BY <3>1, <3>2
  <2>. QED BY <2>1
<1>5. band \in [Bandwidth -> Ink]
  <2>1. DOMAIN band = Bandwidth
    BY DEF Bandwidth
  <2>2. \A c \in Bandwidth : band[c] \in Ink
    BY <1>4, BlanksAreInk
  <2>3. band = [c \in Bandwidth |-> band[c]]
    BY DEF Bandwidth
  <2>. HIDE DEF band
  <2>. QED BY <2>2, <2>3
<1>6. t = [s EXCEPT !.cells[r] = band]
  BY <1>2 DEF BannerRow, VgaWrite
<1>. HIDE DEF band, t
<1>7. /\ t \in Screens /\ t.row = 0 /\ t.col = 0
      /\ \A b \in 0 .. Bands - 1 : t.cells[b] = IF b = r THEN band ELSE s.cells[b]
  BY <1>1, <1>3, <1>5, <1>6 DEF Screens
<1>8. \A b \in 0 .. Bands - 1 : RowEmpty(t.cells, b)
  BY <1>3, <1>4, <1>7 DEF RowEmpty
<1>. QED BY <1>7, <1>8 DEF Blanked, t

LEMMA BannerRows == \E n \in Nat : SetToSeq(DOMAIN Banner) \in [1 .. n -> DOMAIN Banner]
<1>. DEFINE S == DOMAIN Banner
            n == Cardinality(S)
<1>1. S \subseteq 0 .. Rows - 1
  BY ScreenAssumption DEF ScreenAssumption
<1>2. IsFiniteSet(S)
  <2>1. IsFiniteSet(0 .. Rows - 1)
    <3>1. 0 \in Int /\ Rows - 1 \in Int
      BY Sizes
    <3>. QED BY <3>1, FS_Interval
  <2>. QED BY <1>1, <2>1, FS_Subset
<1>3. n \in Nat /\ ExistsBijection(1 .. n, S)
  BY <1>2, FS_CardinalityType
<1>. HIDE DEF S
<1>4. PICK f \in Bijection(1 .. n, S) : TRUE
  BY <1>3 DEF ExistsBijection
<1>5. f \in [1 .. n -> S] /\ IsInjective(f)
  BY <1>4 DEF Bijection, Injection, IsInjective
<1>6. SetToSeq(S) \in [1 .. n -> S]
  BY <1>5 DEF SetToSeq
<1>. QED BY <1>3, <1>6 DEF S

LEMMA BannersDraw ==
  ASSUME NEW base, Blanked(base, 0), NEW n \in Nat, NEW rows \in [1 .. n -> DOMAIN Banner]
  PROVE  Blanked(FoldLeft(BannerRow, base, rows), 0)
<1>1. DOMAIN rows = 1 .. n
  OBVIOUS
<1>2. PICK g : Bannering!Folding(g, base, rows, n)
  BY <1>1, Bannering!Folds, Zenon
<1>3. Bannering!Folded(base, rows) = FoldLeft(BannerRow, base, rows)
  BY DEF Bannering!Folded, Bannering!FoldLeft, Bannering!MapThenFoldSet, Bannering!Max,
         FoldLeft, MapThenFoldSet, Max
<1>4. /\ g[0] = base /\ FoldLeft(BannerRow, base, rows) = g[n]
      /\ \A k \in 1 .. n : g[k] = BannerRow(g[k - 1], rows[k])
  BY <1>2, <1>3, Zenon DEF Bannering!Folding
<1>. DEFINE S == {k \in 0 .. n : Blanked(g[k], 0)}
<1>5. 0 \in S
  BY <1>4
<1>6. ASSUME NEW k \in 0 .. n - 1, k \in S PROVE k + 1 \in S
  <2>1. k + 1 \in 1 .. n /\ k + 1 \in 0 .. n /\ (k + 1) - 1 = k
    OBVIOUS
  <2>2. g[k + 1] = BannerRow(g[k], rows[k + 1]) /\ rows[k + 1] \in DOMAIN Banner
    BY <1>4, <2>1
  <2>3. Blanked(g[k], 0)
    BY <1>6
  <2>4. Blanked(g[k + 1], 0)
    BY <2>2, <2>3, BannerDraws
  <2>. QED BY <2>1, <2>4
<1>. HIDE DEF S
<1>7. n \in S
  <2>1. \A k \in 0 .. n : k \in S
    BY <1>5, <1>6, Putting!UpTo
  <2>. QED BY <2>1
<1>. QED BY <1>4, <1>7 DEF S

LEMMA Boots == Blanked(BootScreen, 0)
<1>. DEFINE first == [row |-> 0, col |-> 0, cells |-> [b \in 0 .. Bands - 1 |-> LoaderText]]
            rows == SetToSeq(DOMAIN Banner)
            base == VgaClear(first)
<1>1. Blanked(base, 0)
  <2>1. LoaderText \in [Bandwidth -> Ink] /\ \A k \in Bandwidth : LoaderText[k] \in Blanks
    BY DEF LoaderText, Bandwidth, Ink, Blanks
  <2>. HIDE DEF LoaderText
  <2>2. /\ \A b \in 0 .. Bands - 1 : first.cells[b] \in [Bandwidth -> Ink]
        /\ \A b \in Rows .. Bands - 1 : RowEmpty(first.cells, b)
    BY <2>1, Sizes DEF RowEmpty
  <2>. HIDE DEF first
  <2>. QED BY <2>2, ClearsBands
<1>2. PICK n \in Nat : rows \in [1 .. n -> DOMAIN Banner]
  BY BannerRows
<1>3. BootScreen = FoldLeft(BannerRow, base, rows)
  BY DEF BootScreen
<1>. HIDE DEF rows, base
<1>. QED BY <1>1, <1>2, <1>3, BannersDraw

LEMMA OneTyped ==
  ASSUME NEW L, NEW text \in Seq(Char), NEW n \in Nat, n = Len(text)
  PROVE  n = 1 => Typewritten(L, text) = TypeOn(L, text[1])
<1>0. DOMAIN text = 1 .. n
  OBVIOUS
<1>1. PICK h : /\ h[0] = L /\ Typewritten(L, text) = h[n]
               /\ \A k \in 1 .. n : h[k] = TypeOn(h[k - 1], text[k])
  BY <1>0, TypesAll
<1>. HAVE n = 1
<1>2. 1 \in 1 .. n /\ 1 - 1 = 0
  OBVIOUS
<1>3. h[1] = TypeOn(L, text[1])
  BY <1>1, <1>2, Zenon
<1>. QED BY <1>1, <1>3, Zenon

\* The first prompt on an empty screen.
PromptLines(row) == [i \in 1 .. row + 1 |-> IF i = row + 1 THEN Prompt ELSE <<>>]

LEMMA PromptIs == Prompt \in Seq(Char) /\ Len(Prompt) = 1 /\ Prompt[1] = ">" /\ Paced(Prompt)
<1>1. Prompt \in Seq(Char) /\ Len(Prompt) = 1 /\ Prompt[1] = ">"
  BY DEF Prompt, Char
<1>. QED BY <1>1 DEF Paced

LEMMA FirstPromptShows ==
  ASSUME NEW s, NEW row \in Nat, Blanked(s, row)
  PROVE  Showing(ConsoleWrite(s, Prompt), PromptLines(row)) /\ Bottom(PromptLines(row)) = Prompt
<1>. DEFINE L == BlankLines(row)
            M == Typewritten(L, Prompt)
            P == PromptLines(row)
<1>1. /\ L \in Seq(Seq(Char)) /\ Len(L) = row + 1
      /\ \A i \in 1 .. row + 1 : L[i] = <<>>
  BY BlankLinesAre
<1>2. Showing(s, L)
  BY BlankShows
<1>. HIDE DEF L
<1>3. Showing(ConsoleWrite(s, Prompt), M)
  BY <1>2, PromptIs, TextShows
<1>4. M = TypeOn(L, ">")
  <2>1. PICK n \in Nat : n = Len(Prompt) /\ n = 1
    BY PromptIs
  <2>. QED BY <2>1, PromptIs, OneTyped
<1>5. LastIs(M, L, Prompt)
  <2>1. Len(L) \in 1 .. row + 1 /\ L[Len(L)] = <<>>
    <3>1. row + 1 \in 1 .. row + 1
      OBVIOUS
    <3>. QED BY <1>1, <3>1
  <2>2. ">" \in Char \ {"CR", "LF", "BS"}
    BY DEF Char
  <2>3. Len(<<>>) + 1 < Cols
    BY Sizes, EmptyLine
  <2>4. Len(L[Len(L)]) + 1 < Cols
    BY <2>1, <2>3, Zenon
  <2>5. LastIs(TypeOn(L, ">"), L, Append(L[Len(L)], ">"))
    BY <1>2, <2>2, <2>4, PrintStep
  <2>6. Append(<<>>, ">") = Prompt
    BY DEF Prompt
  <2>. QED BY <1>4, <2>1, <2>5, <2>6, Zenon
<1>. HIDE DEF M
<1>6. /\ P \in Seq(Seq(Char)) /\ Len(P) = row + 1
      /\ \A i \in 1 .. row : P[i] = <<>>
      /\ P[row + 1] = Prompt
  <2>1. <<>> \in Seq(Char) /\ Prompt \in Seq(Char) /\ row + 1 \in Nat
    BY EmptyLine, PromptIs
  <2>. HIDE DEF Prompt
  <2>. QED BY <2>1 DEF PromptLines
<1>. HIDE DEF P
<1>7. /\ M \in Seq(Seq(Char)) /\ Len(M) = row + 1
      /\ \A i \in 1 .. row : M[i] = <<>>
      /\ M[row + 1] = Prompt
  <2>1. \A i \in 1 .. row : i \in 1 .. row + 1
    OBVIOUS
  <2>2. row + 1 - 1 = row
    OBVIOUS
  <2>. QED BY <1>1, <1>5, <2>1, <2>2 DEF LastIs
<1>8. M = P
  <2>1. \A i \in 1 .. row + 1 : i \in 1 .. row \/ i = row + 1
    OBVIOUS
  <2>2. \A i \in 1 .. row + 1 : M[i] = P[i]
    BY <1>6, <1>7, <2>1
  <2>. QED BY <1>6, <1>7, <2>2, SeqEqual
<1>. QED BY <1>3, <1>6, <1>8 DEF P, Bottom

LEMMA BootShows ==
  /\ Showing(ConsoleWrite(BootScreen, Prompt), <<Prompt>>) /\ Bottom(<<Prompt>>) = Prompt
<1>1. PICK row \in Nat : row = 0
  OBVIOUS
<1>2. Showing(ConsoleWrite(BootScreen, Prompt), PromptLines(row))
  BY <1>1, Boots, FirstPromptShows
<1>3. PromptLines(0) = <<Prompt>>
  <2>1. PICK P : P = Prompt
    OBVIOUS
  <2>2. PromptLines(0) = [i \in 1 .. 1 |-> IF i = 1 THEN P ELSE <<>>]
    BY <2>1 DEF PromptLines
  <2>3. [i \in 1 .. 1 |-> IF i = 1 THEN P ELSE <<>>] = <<P>>
    OBVIOUS
  <2>. QED BY <2>1, <2>2, <2>3
<1>4. Bottom(<<Prompt>>) = Prompt
  <2>1. PICK P : P = Prompt
    OBVIOUS
  <2>2. <<P>>[Len(<<P>>)] = P
    OBVIOUS
  <2>. QED BY <2>1, <2>2 DEF Bottom
<1>. QED BY <1>1, <1>2, <1>3, <1>4

\* Below the text rows a screen has nothing that `clear` would have to clear.
EmptyBelow(s) ==
  /\ \A b \in 0 .. Bands - 1 : s.cells[b] \in [Bandwidth -> Ink]
  /\ \A b \in Rows .. Bands - 1 : RowEmpty(s.cells, b)

LEMMA BootEmptyBelow == EmptyBelow(BootScreen)
BY Boots, Sizes DEF Blanked, Screens, EmptyBelow

LEMMA ShowingEmptyBelow == ASSUME NEW s, NEW L, Showing(s, L) PROVE EmptyBelow(s)
<1>1. s \in Screens /\ s.row \in Int /\ s.row < Rows
  BY Sizes DEF Showing, Pictured, Screens
<1>2. \A b \in Rows .. Bands - 1 : b \in s.row + 1 .. Bands - 1
  BY <1>1, Sizes
<1>. QED BY <1>1, <1>2 DEF Showing, Pictured, Screens, EmptyBelow

LEMMA ClearShows ==
  ASSUME NEW old, EmptyBelow(old)
  PROVE  Showing(ClearedScreen(old), ClearedLines) /\ Bottom(ClearedLines) = Prompt
<1>. DEFINE s == VgaClear(old)
            t == [s EXCEPT !.row = ClearRow]
<1>1. Blanked(s, 0)
  BY ClearsBands DEF EmptyBelow
<1>2. ClearedScreen(old) = ConsoleWrite(t, Prompt)
  BY DEF ClearedScreen
<1>. HIDE DEF s
<1>3. Blanked(t, ClearRow)
  BY <1>1, Sizes DEF Blanked, Screens
<1>4. ClearedLines = PromptLines(ClearRow) /\ ClearRow \in Nat
  BY Sizes DEF ClearedLines, PromptLines
<1>. HIDE DEF t
<1>. QED BY <1>2, <1>3, <1>4, FirstPromptShows

-----------------------------------------------------------------------------

(***************************************************************************)
(* The console of a session.                                               *)
(***************************************************************************)

\* What is shown and what was written agree; the bottom line is what is being
\* typed; and an application leaves the line it was started from.
ConsoleInv ==
  /\ Showing(screen, lines)
  /\ pc = "shell" /\ ~mixed => Bottom(lines) = Prompt \o line
  /\ pc = "ring3" => mixed

LEMMA OutputIsPaced == ASSUME NEW out, Output(out) PROVE out \in Seq(Char) /\ Paced(out)
BY DEF Output

LEMMA WriteBottom ==
  ASSUME NEW text \in Seq(Char), Paced(text), Showing(screen, lines), Write(text)
  PROVE  Bottom(lines') = Bottom(Typewritten(lines, text))
<1>1. Showing(screen', Typewritten(lines, text))
  BY WriteKeeps, TextShows
<1>. QED BY <1>1, WriteKeeps, KeepsShowing DEF Bottom

LEMMA PromptAlone == Prompt \o <<>> = Prompt
<1>. PICK p \in Seq(Char) : p = Prompt
  BY PromptIs
<1>1. p \o <<>> = p
  OBVIOUS
<1>. QED BY <1>1

LEMMA Behind ==
  ASSUME NEW a \in Seq(Char), NEW b \in Seq(Char), NEW c \in Seq(Char)
  PROVE  a \o (b \o c) = (a \o b) \o c
OBVIOUS

LEMMA PromptAndLine ==
  ASSUME NEW x \in Seq(Char)
  PROVE  Prompt \o x \in Seq(Char) /\ Len(Prompt \o x) = Len(x) + 1
<1>1. Joined(Prompt \o x, Prompt, x, Char)
  BY PromptIs, Joins
<1>. QED BY <1>1, PromptIs DEF Joined

LEMMA TypedAreChars == ASSUME NEW x \in Seq(Typed) PROVE x \in Seq(Char)
BY DEF Char

LEMMA PrintableShows ==
  ASSUME CoreInv, ConsoleInv, NEW burst \in Keys, pc = "shell", Printable(burst)
  PROVE  ConsoleInv'
<1>. DEFINE fit == Fit(burst)
<1>1. /\ fit \in Seq(Typed) /\ Write(fit) /\ line' = line \o fit /\ pc' = pc
      /\ mixed' = (mixed \/ Len(Prompt \o line') >= Cols)
      /\ line \in Seq(Typed) /\ mixed \in BOOLEAN
  BY BurstTyped, FitTyped DEF CoreInv, LineTyped, Printable
<1>. HIDE DEF fit
<1>2. fit \in Seq(Char) /\ Paced(fit) /\ line \in Seq(Char)
  BY <1>1, LettersArePaced, TypedAreChars
<1>3. Showing(screen', lines') /\ Bottom(lines') = Bottom(Typewritten(lines, fit))
  BY <1>1, <1>2, WriteShows, WriteBottom DEF ConsoleInv
<1>4. ASSUME ~mixed' PROVE Bottom(lines') = Prompt \o line'
  <2>1. ~mixed /\ ~(Len(Prompt \o line') >= Cols)
    BY <1>1, <1>4
  <2>2. PICK base \in Seq(Char) : base = Prompt \o line
    BY <1>2, PromptAndLine
  <2>3. Bottom(lines) = base
    BY <2>1, <2>2 DEF ConsoleInv
  <2>4. Prompt \o line' = base \o fit
    <3>1. Prompt \o (line \o fit) = (Prompt \o line) \o fit
      BY <1>2, PromptIs, Behind
    <3>. QED BY <1>1, <2>2, <3>1
  <2>5. Len(base \o fit) = Len(base) + Len(fit) /\ Len(base) \in Nat /\ Len(fit) \in Nat
    BY <1>2
  <2>6. Len(base) + Len(fit) < Cols
    <3>1. ~(Len(base \o fit) >= Cols)
      BY <2>1, <2>4
    <3>. QED BY <2>5, <3>1, Sizes
  <2>7. Bottom(Typewritten(lines, fit)) = base \o fit
    BY <1>1, <2>3, <2>6, TypedShows DEF ConsoleInv
  <2>. QED BY <1>3, <2>4, <2>7
<1>. QED BY <1>1, <1>3, <1>4 DEF ConsoleInv

\* The prompt and the line without its last character.
LEMMA ShorterBehind ==
  ASSUME NEW p \in Seq(Char), NEW x \in Seq(Char), x # <<>>
  PROVE  Front(p \o x) = p \o SubSeq(x, 1, Len(x) - 1)
<1>. DEFINE c == p \o x
            y == Front(x)
            d == p \o y
<1>1. PICK m \in Nat : m = Len(p)
  OBVIOUS
<1>2. PICK n \in Nat : n = Len(x) /\ 1 <= n
  OBVIOUS
<1>3. /\ y \in Seq(Char) /\ Len(y) = n - 1
      /\ \A i \in 1 .. n - 1 : y[i] = x[i]
  BY <1>2, FrontOf
<1>4. y = SubSeq(x, 1, Len(x) - 1)
  BY DEF Front
<1>. HIDE DEF y
<1>5. Joined(c, p, x, Char) /\ Joined(d, p, y, Char)
  BY <1>3, Joins
<1>. HIDE DEF c, d
<1>6. /\ c \in Seq(Char) /\ Len(c) = m + n
      /\ \A i \in 1 .. m : c[i] = p[i]
      /\ \A i \in 1 .. n : c[m + i] = x[i]
  BY <1>1, <1>2, <1>5 DEF Joined
<1>7. /\ d \in Seq(Char) /\ Len(d) = m + (n - 1)
      /\ \A i \in 1 .. m : d[i] = p[i]
      /\ \A i \in 1 .. n - 1 : d[m + i] = y[i]
  BY <1>1, <1>3, <1>5 DEF Joined
<1>8. /\ Front(c) \in Seq(Char) /\ Len(Front(c)) = m + n - 1
      /\ \A i \in 1 .. m + n - 1 : Front(c)[i] = c[i]
  <2>1. 0 < Len(c)
    BY <1>2, <1>6
  <2>2. c # <<>>
    BY <1>6, <2>1, NotEmpty
  <2>3. /\ Front(c) \in Seq(Char) /\ Len(Front(c)) = Len(c) - 1
        /\ \A i \in 1 .. Len(c) - 1 : Front(c)[i] = c[i]
    BY <1>6, <2>2, FrontOf
  <2>. QED BY <1>6, <2>3
<1>9. \A i \in 1 .. m + n - 1 : Front(c)[i] = d[i]
  <2>1. ASSUME NEW i \in 1 .. m + n - 1, i \notin 1 .. m PROVE Front(c)[i] = d[i]
    <3>1. PICK j \in 1 .. n - 1 : i = m + j
      BY <1>2, <2>1
    <3>2. j \in 1 .. n
      BY <1>2
    <3>. QED BY <1>3, <1>6, <1>7, <1>8, <3>1, <3>2
  <2>. QED BY <1>6, <1>7, <1>8, <2>1
<1>10. Front(c) = d
  <2>1. Len(Front(c)) = Len(d)
    BY <1>7, <1>8
  <2>2. \A i \in 1 .. Len(Front(c)) : Front(c)[i] = d[i]
    BY <1>8, <1>9
  <2>. QED BY <1>7, <1>8, <2>1, <2>2, SeqEqual
<1>. QED BY <1>4, <1>10 DEF c, d

LEMMA RubIsPaced == <<"BS", " ", "BS">> \in Seq(Char) /\ Paced(<<"BS", " ", "BS">>)
<1>. DEFINE text == <<"BS", " ", "BS">>
<1>1. "BS" \in Char /\ " " \in Char
  BY DEF Char, Typed
<1>2. text \in Seq(Char)
  BY <1>1, Three, Zenon
<1>3. Len(text) = 3 /\ text[1] = "BS" /\ text[2] = " " /\ text[3] = "BS"
  OBVIOUS
<1>. HIDE DEF text
<1>4. \A i \in 1 .. Len(text) : text[i] # "CR"
  <2>1. \A i \in 1 .. 3 : i = 1 \/ i = 2 \/ i = 3
    OBVIOUS
  <2>2. "BS" # "CR" /\ " " # "CR"
    OBVIOUS
  <2>. QED BY <1>3, <2>1, <2>2, Zenon
<1>. QED BY <1>2, <1>4 DEF Paced, text

LEMMA NothingTyped == ASSUME NEW L PROVE Typewritten(L, <<>>) = L
<1>1. Typing!Folded(L, <<>>) = Typewritten(L, <<>>)
  BY DEF Typing!Folded, Typing!FoldLeft, Typing!MapThenFoldSet, Typing!Max,
         FoldLeft, MapThenFoldSet, Max, Typewritten
<1>2. Typing!Folded(L, <<>>) = L
  BY Typing!FoldEmpty, Zenon
<1>. QED BY <1>1, <1>2

LEMMA NoneShorter == SubSeq(<<>>, 1, Len(<<>>) - 1) = <<>>
OBVIOUS

LEMMA BackspaceShows ==
  ASSUME CoreInv, ConsoleInv, NEW burst, pc = "shell", Backspace(burst)
  PROVE  ConsoleInv'
<1>1. /\ line' = SubSeq(line, 1, Len(line) - 1) /\ pc' = pc /\ mixed' = mixed
      /\ Write(IF line = <<>> THEN <<>> ELSE <<"BS", " ", "BS">>)
      /\ line \in Seq(Char) /\ Showing(screen, lines)
  BY TypedAreChars DEF CoreInv, LineTyped, Backspace, ConsoleInv
<1>2. CASE line = <<>>
  <2>1. Write(<<>>) /\ Output(<<>>)
    BY <1>1, <1>2, OutputCRLF
  <2>2. Showing(screen', lines') /\ Bottom(lines') = Bottom(Typewritten(lines, <<>>))
    BY <1>1, <2>1, OutputIsPaced, WriteShows, WriteBottom
  <2>3. Bottom(lines') = Bottom(lines)
    BY <2>2, NothingTyped
  <2>4. line' = line
    BY <1>1, <1>2, NoneShorter
  <2>. QED BY <1>1, <2>2, <2>3, <2>4 DEF ConsoleInv
<1>3. CASE line # <<>>
  <2>1. Write(<<"BS", " ", "BS">>)
    BY <1>1, <1>3
  <2>2. /\ Showing(screen', lines')
        /\ Bottom(lines') = Bottom(Typewritten(lines, <<"BS", " ", "BS">>))
    BY <1>1, <2>1, RubIsPaced, WriteShows, WriteBottom
  <2>3. ASSUME ~mixed PROVE Bottom(lines') = Prompt \o line'
    <3>1. Bottom(lines) = Prompt \o line
      BY <2>3 DEF ConsoleInv
    <3>2. 0 < Len(Bottom(lines))
      <4>1. Len(line) \in Nat /\ Len(Prompt \o line) = Len(line) + 1
        <5>1. line \in Seq(Char)
          BY <1>1
        <5>2. Len(Prompt \o line) = Len(line) + 1
          BY <5>1, PromptAndLine, Zenon
        <5>. QED BY <5>1, <5>2
      <4>. QED BY <3>1, <4>1
    <3>3. Bottom(lines') = Front(Bottom(lines))
      BY <1>1, <2>2, <3>2, RubsOut, RubbingOut
    <3>4. Front(Prompt \o line) = Prompt \o SubSeq(line, 1, Len(line) - 1)
      BY <1>1, <1>3, PromptIs, ShorterBehind
    <3>. QED BY <1>1, <3>1, <3>3, <3>4
  <2>. QED BY <1>1, <2>2, <2>3 DEF ConsoleInv
<1>. QED BY <1>2, <1>3

LEMMA NewLine ==
  ASSUME NEW out, Output(out) PROVE Output(CRLF \o out) /\ CRLF \o out # <<>>
<1>1. Output(CRLF \o out)
  BY OutputCRLF, OutputConcat
<1>2. PICK z \in Seq(Char) : z = CRLF \o out
  BY <1>1 DEF Output
<1>3. Joined(z, CRLF, out, Char)
  BY <1>2, CRLFIs, OutputIsPaced, Joins
<1>4. 0 < Len(z)
  <2>1. Len(out) \in Nat
    BY OutputIsPaced
  <2>. QED BY <1>3, <2>1, CRLFIs DEF Joined
<1>. QED BY <1>1, <1>2, <1>4, NotEmpty

LEMMA OutcomeShows ==
  ASSUME ConsoleInv, pc = "shell", NEW out, Output(out), Outcome(out)
  PROVE  ConsoleInv'
<1>1. Output(CRLF \o out) /\ CRLF \o out # <<>> /\ Showing(screen, lines)
  BY NewLine DEF ConsoleInv
<1>2. Output(CRLF \o out \o Message("J"))
  <2>1. "J" \in Char \ {"CR"}
    BY DEF Char
  <2>. QED BY <1>1, <2>1, OutputMessage, OutputConcat
<1>3. CASE Returns(out)
  <2>1. Write(CRLF \o out \o Prompt) /\ line' = <<>> /\ pc' = pc
    BY <1>3 DEF Returns
  <2>2. Showing(screen', lines') /\ Bottom(lines') = Prompt
    BY <1>1, <2>1, OutputIsPaced, PromptWritten
  <2>3. Bottom(lines') = Prompt \o line'
    BY <2>1, <2>2, PromptAlone
  <2>. QED BY <2>1, <2>2, <2>3 DEF ConsoleInv
<1>4. CASE \E counted : EntersRing3(counted, out)
  <2>1. Write(CRLF \o out \o Message("J")) /\ mixed' = TRUE
    BY <1>4 DEF EntersRing3
  <2>2. Showing(screen', lines')
    BY <1>1, <1>2, <2>1, OutputIsPaced, WriteShows
  <2>. QED BY <2>1, <2>2 DEF ConsoleInv
<1>5. CASE \E counted : Spins(counted, out)
  <2>1. Write(CRLF \o out) /\ mixed' = TRUE
    BY <1>5 DEF Spins
  <2>2. Showing(screen', lines')
    BY <1>1, <2>1, OutputIsPaced, WriteShows
  <2>. QED BY <2>1, <2>2 DEF ConsoleInv
<1>6. CASE \E counted : Panics(counted, out)
  <2>1. Write(CRLF \o out) /\ mixed' = TRUE
    BY <1>6 DEF Panics
  <2>2. Showing(screen', lines')
    BY <1>1, <2>1, OutputIsPaced, WriteShows
  <2>. QED BY <2>1, <2>2 DEF ConsoleInv
<1>. QED BY <1>3, <1>4, <1>5, <1>6 DEF Outcome

LEMMA EnterShows ==
  ASSUME CoreInv, ConsoleInv, NEW burst, pc = "shell", Enter(burst)
  PROVE  ConsoleInv'
<1>1. Executed
  BY EnterExecutes DEF CoreInv, LineTyped
<1>2. CASE CmdClear
  <2>1. /\ screen' = ClearedScreen(screen) /\ lines' = ClearedLines /\ line' = <<>> /\ pc' = pc
    BY <1>2 DEF CmdClear
  <2>2. Showing(screen', lines') /\ Bottom(lines') = Prompt \o line'
    BY <2>1, ClearShows, ShowingEmptyBelow, PromptAlone DEF ConsoleInv
  <2>. QED BY <2>1, <2>2 DEF ConsoleInv
<1>3. CASE \E out : Output(out) /\ Outcome(out)
  BY <1>3, OutcomeShows
<1>. QED BY <1>1, <1>2, <1>3 DEF Executed

LEMMA KeyShows == ASSUME CoreInv, ConsoleInv, Key PROVE ConsoleInv'
BY PrintableShows, BackspaceShows, EnterShows DEF Key

\* An answer is printed, with a prompt behind it, or an application started.
LEMMA DaemonShows == ASSUME ConsoleInv, DaemonAnswers PROVE ConsoleInv'
<1>1. Output(Message("I")) /\ Output(Message("L")) /\ Output(Message("E"))
  <2>1. "I" \in Char \ {"CR"} /\ "L" \in Char \ {"CR"} /\ "E" \in Char \ {"CR"}
    BY DEF Char
  <2>. QED BY <2>1, OutputMessage
<1>2. pc = "shell" /\ Showing(screen, lines)
  BY DEF DaemonAnswers, ConsoleInv
<1>3. ASSUME NEW text, Output(text), text # <<>>, Write(text \o Prompt),
             mixed' = (line # <<>>), line' = line, pc' = pc
      PROVE  ConsoleInv'
  <2>1. Showing(screen', lines') /\ Bottom(lines') = Prompt
    BY <1>2, <1>3, OutputIsPaced, PromptWritten
  <2>2. ~mixed' => Bottom(lines') = Prompt \o line'
    BY <1>3, <2>1, PromptAlone
  <2>. QED BY <1>2, <1>3, <2>1, <2>2 DEF ConsoleInv
<1>4. ASSUME NEW text, Output(text), Write(text), mixed' = TRUE PROVE ConsoleInv'
  <2>1. Showing(screen', lines')
    BY <1>2, <1>4, OutputIsPaced, WriteShows
  <2>. QED BY <1>4, <2>1 DEF ConsoleInv
<1>5. /\ Output(CRLF \o Message("I")) /\ CRLF \o Message("I") # <<>>
      /\ Output(CRLF \o Message("L")) /\ CRLF \o Message("L") # <<>>
  BY <1>1, NewLine
<1>6. CASE /\ Write(CRLF \o Message("I") \o Prompt) /\ mixed' = (line # <<>>)
           /\ UNCHANGED <<line, pc>>
  BY <1>3, <1>5, <1>6
<1>7. CASE EntersRing3({"com2_bytes_sent", "elfs_loaded", "p4_clones"}, Message("L"))
  <2>1. Write(CRLF \o Message("L") \o Message("J")) /\ mixed' = TRUE
    BY <1>7 DEF EntersRing3
  <2>2. Output(CRLF \o Message("L") \o Message("J"))
    <3>1. "J" \in Char \ {"CR"}
      BY DEF Char
    <3>. QED BY <1>5, <3>1, OutputMessage, OutputConcat
  <2>. QED BY <1>4, <2>1, <2>2
<1>8. CASE Spins({"com2_bytes_sent", "elfs_loaded"}, Message("L"))
  BY <1>4, <1>5, <1>8 DEF Spins
<1>9. CASE /\ Write(CRLF \o Message("L") \o Message("E") \o Prompt) /\ mixed' = (line # <<>>)
           /\ UNCHANGED <<line, pc>>
  <2>1. Output(Message("L") \o Message("E"))
    BY <1>1, OutputConcat
  <2>2. /\ Output(CRLF \o (Message("L") \o Message("E")))
        /\ CRLF \o (Message("L") \o Message("E")) # <<>>
    BY <2>1, NewLine
  <2>3. CRLF \o (Message("L") \o Message("E")) = CRLF \o Message("L") \o Message("E")
    BY <1>1, CRLFIs, OutputIsPaced, Behind
  <2>. QED BY <1>3, <1>9, <2>2, <2>3
<1>10. CASE \E counted : Panics(counted, Message("L"))
  BY <1>4, <1>5, <1>10 DEF Panics
<1>. QED BY <1>6, <1>7, <1>8, <1>9, <1>10 DEF DaemonAnswers

LEMMA CallShows == ASSUME RegsInv, ConsoleInv, SystemCall PROVE ConsoleInv'
<1>1. PICK num \in Calls, length \in Lengths :
        /\ pc = "ring3" /\ mixed' = mixed
        /\ Handled(Called(num, length))
  BY DEF SystemCall, Called, Handled
<1>2. num \in Int /\ length \in Int
  BY SessionAssumption DEF SessionAssumption
<1>3. PICK R \in [Regs -> Int] : R = Called(num, length) /\ R["r10"] = 0 /\ R["rax"] = num
  BY <1>2, CalledTyped DEF RegsInv
<1>4. mixed /\ Showing(screen, lines)
  BY <1>1 DEF ConsoleInv
<1>5. CASE Faults
  BY <1>1, <1>4, <1>5 DEF Faults, ConsoleInv
<1>6. CASE \E out \in Seq(Char), result \in {0, TheKey} :
             Output(out) /\ ReturnsFrom(R, out, result)
  <2>1. PICK out \in Seq(Char), result \in {0, TheKey} : Output(out) /\ ReturnsFrom(R, out, result)
    BY <1>6
  <2>2. Write(out) /\ Paced(out)
    BY <2>1, OutputIsPaced DEF ReturnsFrom
  <2>3. Showing(screen', lines')
    BY <1>4, <2>2, WriteShows
  <2>. QED BY <1>1, <1>4, <2>3 DEF ConsoleInv
<1>. QED BY <1>1, <1>3, <1>5, <1>6, HandlerReturns

LEMMA ExitShows == ASSUME ConsoleInv, ExitCall PROVE ConsoleInv'
<1>1. Write(Prompt) /\ mixed' = mixed /\ pc = "ring3" /\ mixed /\ Showing(screen, lines)
  BY DEF ExitCall, ConsoleInv
<1>2. Showing(screen', lines')
  BY <1>1, PromptIs, WriteShows
<1>. QED BY <1>1, <1>2 DEF ConsoleInv

\* And the console: every write keeps picture and text together.
THEOREM ConsoleInductive == Spec => [](CoreInv /\ RegsInv /\ ConsoleInv)
<1>1. Init => ConsoleInv
  <2>. SUFFICES ASSUME Init PROVE ConsoleInv
    OBVIOUS
  <2>1. line = <<>> /\ pc = "shell" /\ (FirstPrompt \/ LaterPrompt)
    BY Zenon DEF Init
  <2>2. Showing(screen, lines) /\ Bottom(lines) = Prompt
    BY <2>1, BootShows, ClearShows, BootEmptyBelow DEF FirstPrompt, LaterPrompt
  <2>. QED BY <2>1, <2>2, PromptAlone DEF ConsoleInv
<1>2. CoreInv /\ RegsInv /\ ConsoleInv /\ [Next]_vars => ConsoleInv'
  <2>. SUFFICES ASSUME CoreInv, RegsInv, ConsoleInv, [Next]_vars PROVE ConsoleInv'
    OBVIOUS
  <2>1. CASE UNCHANGED vars
    BY <2>1 DEF ConsoleInv, vars, shellVars
  <2>. QED BY <2>1, KeyShows, DaemonShows, CallShows, ExitShows DEF Next
<1>. QED BY <1>1, <1>2, CoreInductive, PTL DEF Spec

\* However much is typed, printed, scrolled, rubbed out and cleared, the rows up
\* to the cursor are the end of what was written: vga_putc() and scroll().
THEOREM ConsoleShowsOutputCorrect == Spec => []ConsoleShowsOutput
<1>1. ConsoleInv => ConsoleShowsOutput
  BY ShowingShows DEF ConsoleInv, ConsoleShowsOutput
<1>. QED BY <1>1, ConsoleInductive, PTL

\* What Enter will execute is what stands in the cursor's row, for a line of any
\* length that fits and any screen: handle_char().
THEOREM LineIsShownCorrect == Spec => []LineIsShown
<1>1. ConsoleInv => LineIsShown
  <2>. SUFFICES ASSUME ConsoleInv, pc = "shell", ~mixed
                PROVE  /\ screen.col = Len(Prompt \o line)
                       /\ \A i \in 1 .. screen.col :
                            screen.cells[screen.row][i - 1] = (Prompt \o line)[i]
    BY DEF LineIsShown
  <2>1. Bottom(lines) = Prompt \o line /\ Showing(screen, lines)
    BY DEF ConsoleInv
  <2>2. PICK x : x = Prompt \o line
    OBVIOUS
  <2>3. /\ Pictured(screen, lines) /\ screen.col = Len(x) /\ screen \in Screens
        /\ lines[Len(lines)] = x
    BY <2>1, <2>2 DEF Showing, Pictured, Bottom
  <2>4. RowShows(screen.cells, screen.row, x)
    <3>1. LineAt(lines, screen.row, screen.row) = x /\ screen.row \in 0 .. screen.row
      BY <2>3, LastLine
    <3>. QED BY <2>3, <3>1 DEF Pictured
  <2>5. ASSUME NEW i \in 1 .. screen.col PROVE screen.cells[screen.row][i - 1] = x[i]
    <3>1. i - 1 \in Bandwidth /\ i - 1 < Len(x) /\ (i - 1) + 1 = i
      BY <2>3, Sizes DEF Screens, Bandwidth
    <3>. QED BY <2>4, <3>1 DEF RowShows
  <2>. QED BY <2>2, <2>3, <2>5
<1>. QED BY <1>1, ConsoleInductive, PTL

\* The cursor stays on the screen, the line within MAX_LINE, every file has a
\* name, and the registers and counters stay what they are.
THEOREM SessionTypeCorrect == Spec => []SessionTypeOK
<1>1. CoreInv /\ RegsInv /\ ConsoleInv => SessionTypeOK
  <2>. SUFFICES ASSUME CoreInv, RegsInv, ConsoleInv PROVE SessionTypeOK
    OBVIOUS
  <2>1. screen.row \in 0 .. Rows - 1 /\ screen.col \in 0 .. Cols - 1
    BY DEF ConsoleInv, Showing, Pictured, Screens, Bandwidth
  <2>2. /\ line \in Seq(Letters \cup {" "}) /\ Len(line) <= MaxLine
        /\ last_elf \in BOOLEAN /\ awaiting \in BOOLEAN
        /\ \A name \in DOMAIN files : name # <<>> /\ files[name] \in {"elf", "text"}
        /\ metrics \in [Counters -> Nat]
        /\ pc \in {"shell", "ring3", "spin", "fault", "panic"}
        /\ mixed \in BOOLEAN /\ keys \in 0 .. MaxKeys
    BY DEF CoreInv, LineTyped, Typed, ShellTyped, FilesTyped, CountInv, CountersTyped, Pcs
  <2>3. regs \in [Regs -> Int] /\ locked \in BOOLEAN
    BY DEF RegsInv
  <2>. QED BY <2>1, <2>2, <2>3 DEF SessionTypeOK
<1>. QED BY <1>1, ConsoleInductive, PTL

-----------------------------------------------------------------------------

(***************************************************************************)
(* The words of a line.                                                    *)
(***************************************************************************)

\* The members of a set of positions before one of them.
Before(S, i) == {j \in S : j < i}

\* Of the positions in S, n-1 come before i.
IsNth(S, n, i) == i \in S /\ Cardinality(Before(S, i)) = n - 1

LEMMA BeforeIsFinite ==
  ASSUME NEW n \in Nat, NEW S \in SUBSET (1 .. n), NEW i
  PROVE  /\ IsFiniteSet(S) /\ Cardinality(S) \in Nat
         /\ IsFiniteSet(Before(S, i)) /\ Cardinality(Before(S, i)) \in Nat
         /\ Cardinality(Before(S, i)) <= Cardinality(S)
<1>1. IsFiniteSet(1 .. n)
  BY FS_Interval
<1>2. IsFiniteSet(S)
  BY <1>1, FS_Subset
<1>3. Before(S, i) \in SUBSET S
  BY DEF Before
<1>. QED BY <1>2, <1>3, FS_Subset, FS_CardinalityType

\* No other position has as many before it.
LEMMA TheNth ==
  ASSUME NEW n \in Nat, NEW S \in SUBSET (1 .. n), NEW k \in Nat, NEW i, IsNth(S, k, i)
  PROVE  /\ NthOf(S, k) = i
         /\ k <= Cardinality(S)
<1>1. ASSUME NEW x \in S, NEW y \in S, x < y
      PROVE  Cardinality(Before(S, x)) < Cardinality(Before(S, y))
  <2>1. /\ IsFiniteSet(Before(S, x)) /\ Cardinality(Before(S, x)) \in Nat
        /\ IsFiniteSet(Before(S, y)) /\ Cardinality(Before(S, y)) \in Nat
    BY BeforeIsFinite
  <2>2. x \in Int /\ y \in Int /\ \A j \in S : j \in Int
    OBVIOUS
  <2>3. x \notin Before(S, x)
    BY <2>2 DEF Before
  <2>4. Before(S, x) \cup {x} \in SUBSET Before(S, y)
    <3>1. \A j \in S : j < x => j < y
      BY <1>1, <2>2
    <3>2. Before(S, x) \subseteq Before(S, y) /\ x \in Before(S, y)
      BY <1>1, <3>1 DEF Before
    <3>. QED BY <3>2
  <2>5. Cardinality(Before(S, x) \cup {x}) = Cardinality(Before(S, x)) + 1
    BY <2>1, <2>3, FS_AddElement
  <2>6. Cardinality(Before(S, x) \cup {x}) <= Cardinality(Before(S, y))
    BY <2>1, <2>4, FS_Subset
  <2>. QED BY <2>1, <2>5, <2>6
<1>2. i \in S /\ Cardinality({j \in S : j < i}) = k - 1
  BY DEF IsNth, Before
<1>3. NthOf(S, k) \in S /\ Cardinality(Before(S, NthOf(S, k))) = k - 1
  BY <1>2 DEF NthOf, Before
<1>4. NthOf(S, k) = i
  <2>1. PICK x \in S : x = NthOf(S, k)
    BY <1>3
  <2>2. PICK y \in S : y = i
    BY <1>2
  <2>3. x \in Int /\ y \in Int
    OBVIOUS
  <2>4. Cardinality(Before(S, x)) = Cardinality(Before(S, y))
    BY <1>2, <1>3, <2>1, <2>2 DEF Before
  <2>5. Cardinality(Before(S, x)) \in Nat
    BY BeforeIsFinite
  <2>6. ~(x < y) /\ ~(y < x)
    BY <1>1, <2>4, <2>5
  <2>. QED BY <2>1, <2>2, <2>3, <2>6
<1>5. k <= Cardinality(S)
  <2>1. /\ IsFiniteSet(S) /\ Cardinality(S) \in Nat
        /\ IsFiniteSet(Before(S, i)) /\ Cardinality(Before(S, i)) \in Nat
    BY BeforeIsFinite
  <2>2. i \notin Before(S, i) /\ Before(S, i) \cup {i} \in SUBSET S
    BY <1>2 DEF Before
  <2>3. Cardinality(Before(S, i) \cup {i}) = Cardinality(Before(S, i)) + 1
    BY <2>1, <2>2, FS_AddElement
  <2>4. Cardinality(Before(S, i) \cup {i}) <= Cardinality(S)
    BY <2>1, <2>2, FS_Subset
  <2>. QED BY <1>2, <2>1, <2>3, <2>4 DEF IsNth
<1>. QED BY <1>4, <1>5

\* The first position has none before it, the next one more than the last.
LEMMA FirstNth ==
  ASSUME NEW n \in Nat, NEW S \in SUBSET (1 .. n), NEW i \in S, \A j \in S : ~(j < i)
  PROVE  IsNth(S, 1, i)
<1>1. Before(S, i) = {}
  BY DEF Before
<1>. QED BY <1>1, FS_EmptySet DEF IsNth

LEMMA NextNth ==
  ASSUME NEW n \in Nat, NEW S \in SUBSET (1 .. n), NEW k \in Nat,
         NEW i \in S, NEW x \in S, IsNth(S, k, i), i < x,
         \A j \in S : ~(i < j /\ j < x)
  PROVE  IsNth(S, k + 1, x)
<1>1. /\ IsFiniteSet(Before(S, i)) /\ Cardinality(Before(S, i)) \in Nat
  BY BeforeIsFinite
<1>2. i \in Int /\ x \in Int /\ \A j \in S : j \in Int
  OBVIOUS
<1>3. i \notin Before(S, i)
  BY <1>2 DEF Before
<1>4. ASSUME NEW j \in S PROVE j < x <=> j < i \/ j = i
  BY <1>2
<1>5. Before(S, x) = Before(S, i) \cup {i}
  BY <1>4 DEF Before
<1>6. Cardinality(Before(S, x)) = Cardinality(Before(S, i)) + 1
  BY <1>1, <1>3, <1>5, FS_AddElement
<1>. QED BY <1>1, <1>6 DEF IsNth

\* Nothing comes behind the last one.
LEMMA LastNth ==
  ASSUME NEW n \in Nat, NEW S \in SUBSET (1 .. n), NEW k \in Nat,
         NEW i \in S, IsNth(S, k, i), \A j \in S : ~(i < j)
  PROVE  Cardinality(S) = k
<1>1. /\ IsFiniteSet(Before(S, i)) /\ Cardinality(Before(S, i)) \in Nat
  BY BeforeIsFinite
<1>2. i \in Int /\ \A j \in S : j \in Int
  OBVIOUS
<1>3. i \notin Before(S, i)
  BY <1>2 DEF Before
<1>4. S = Before(S, i) \cup {i}
  <2>1. \A j \in S : j < i \/ j = i
    BY <1>2
  <2>. QED BY <2>1 DEF Before
<1>5. Cardinality(Before(S, i) \cup {i}) = Cardinality(Before(S, i)) + 1
  BY <1>1, <1>3, FS_AddElement
<1>. QED BY <1>1, <1>4, <1>5 DEF IsNth

-----------------------------------------------------------------------------

\* The n-th word of s stands at a .. e.
WordAt(s, n, a, e) ==
  /\ a \in 1 .. Len(s) /\ e \in a .. Len(s)
  /\ \A i \in a .. e : ~Blank(s[i])
  /\ IsNth(WordStarts(s), n, a) /\ IsNth(WordEnds(s), n, e)

\* r is what s holds from its n-th word on.
RestFrom(s, n, r) ==
  \/ Words(s) < n /\ r = <<>>
  \/ \E a \in 1 .. Len(s), e \in 1 .. Len(s) :
       WordAt(s, n, a, e) /\ r = SubSeq(s, a, Max(Filled(s)))

LEMMA PositionsOf ==
  ASSUME NEW E, NEW s \in Seq(E)
  PROVE  /\ Len(s) \in Nat
         /\ Filled(s) \in SUBSET (1 .. Len(s))
         /\ WordStarts(s) \in SUBSET (1 .. Len(s))
         /\ WordEnds(s) \in SUBSET (1 .. Len(s))
         /\ \A i \in 1 .. Len(s) : i \in Filled(s) <=> ~Blank(s[i])
BY DEF Filled, WordStarts, WordEnds

\* A position that holds something lies in a word, which ends.
LEMMA WordGoesOn ==
  ASSUME NEW E, NEW s \in Seq(E), NEW a \in Filled(s)
  PROVE  \E e \in WordEnds(s) : /\ a <= e /\ \A i \in a .. e : ~Blank(s[i])
                                /\ \A i \in WordEnds(s) : ~(a <= i /\ i < e)
<1>. DEFINE n == Len(s)
            z == Max(Filled(s))
            S == {i \in WordEnds(s) : a <= i}
<1>1. n \in Nat /\ Filled(s) \subseteq 1 .. n /\ WordEnds(s) \subseteq 1 .. n
  BY PositionsOf
<1>2. z \in Filled(s) /\ \A y \in Filled(s) : y <= z
  BY <1>1, GreatestOf
<1>3. z \in S
  <2>1. z \in 1 .. n /\ (z # n => z + 1 \in 1 .. n /\ z + 1 \notin Filled(s))
    BY <1>1, <1>2
  <2>2. z = n \/ Blank(s[z + 1])
    BY <2>1, PositionsOf
  <2>. QED BY <1>1, <1>2, <2>2 DEF WordEnds
<1>. HIDE DEF z
<1>4. S \in SUBSET (1 .. n) /\ S # {}
  BY <1>1, <1>3
<1>5. Min(S) \in S /\ \A y \in S : Min(S) <= y
  BY <1>1, <1>4, LeastOf
<1>6. PICK e \in S : \A y \in S : e <= y
  BY <1>5
<1>. DEFINE B == {i \in 1 .. n : a <= i /\ i <= e /\ Blank(s[i])}
<1>7. B = {}
  <2>. SUFFICES ASSUME B # {} PROVE FALSE
    OBVIOUS
  <2>1. Min(B) \in B /\ \A y \in B : Min(B) <= y
    <3>1. B \in SUBSET (1 .. n)
      OBVIOUS
    <3>. QED BY <1>1, <3>1, LeastOf
  <2>2. PICK b \in B : \A y \in B : b <= y
    BY <2>1
  <2>3. a \in 1 .. n /\ ~Blank(s[a]) /\ b \in 1 .. n /\ Blank(s[b]) /\ a <= b /\ b <= e
    BY <1>1, <2>2, PositionsOf
  <2>4. b # a
    BY <2>3
  <2>5. b - 1 \in 1 .. n /\ a <= b - 1 /\ b - 1 < b /\ (b - 1) + 1 = b
    BY <1>1, <2>3, <2>4
  <2>6. b - 1 \notin B
    BY <2>2, <2>5
  <2>7. b - 1 <= e /\ e \in Int
    BY <1>1, <2>3
  <2>8. ~Blank(s[b - 1])
    BY <2>5, <2>6, <2>7
  <2>9. b - 1 \in Filled(s)
    BY <2>5, <2>8, PositionsOf
  <2>10. Blank(s[(b - 1) + 1])
    BY <2>3, <2>5
  <2>11. b - 1 \in WordEnds(s)
    BY <2>9, <2>10 DEF WordEnds
  <2>12. e <= b - 1
    BY <1>6, <2>5, <2>11
  <2>. QED BY <2>3, <2>12, <2>7
<1>8. e \in WordEnds(s) /\ a <= e
  OBVIOUS
<1>9. \A i \in a .. e : ~Blank(s[i])
  BY <1>1, <1>7, <1>8
<1>10. ASSUME NEW i \in WordEnds(s) PROVE ~(a <= i /\ i < e)
  BY <1>1, <1>6
<1>. QED BY <1>8, <1>9, <1>10

\* The first word begins where the line holds something first.
LEMMA FirstWord ==
  ASSUME NEW E, NEW s \in Seq(E)
  PROVE  RestFrom(s, 1, TrimAscii(s))
<1>. DEFINE F == Filled(s)
            a == Min(F)
<1>1. /\ Len(s) \in Nat /\ F \in SUBSET (1 .. Len(s))
      /\ WordStarts(s) \in SUBSET (1 .. Len(s)) /\ WordEnds(s) \in SUBSET (1 .. Len(s))
      /\ \A i \in 1 .. Len(s) : i \in F <=> ~Blank(s[i])
  BY PositionsOf
<1>2. WordStarts(s) \subseteq F /\ WordEnds(s) \subseteq F
  BY DEF WordStarts, WordEnds
<1>3. CASE F = {}
  <2>1. WordStarts(s) = {}
    BY <1>2, <1>3
  <2>2. Words(s) = 0
    BY <2>1, FS_EmptySet DEF Words
  <2>. QED BY <1>3, <2>2 DEF RestFrom, TrimAscii
<1>4. CASE F # {}
  <2>1. a \in F /\ \A y \in F : a <= y
    BY <1>1, <1>4, LeastOf
  <2>. HIDE DEF a, F
  <2>2. a \in WordStarts(s)
    <3>1. a \in 1 .. Len(s)
      BY <1>1, <2>1
    <3>2. a # 1 => a - 1 \in 1 .. Len(s) /\ ~(a <= a - 1)
      BY <1>1, <3>1
    <3>3. a # 1 => Blank(s[a - 1])
      BY <1>1, <2>1, <3>2
    <3>. QED BY <2>1, <3>3 DEF WordStarts, F
  <2>3. PICK e \in WordEnds(s) : /\ a <= e /\ \A i \in a .. e : ~Blank(s[i])
                                 /\ \A i \in WordEnds(s) : ~(a <= i /\ i < e)
    BY <2>1, WordGoesOn DEF F
  <2>4. \A j \in WordStarts(s) : ~(j < a)
    BY <1>1, <1>2, <2>1
  <2>5. \A j \in WordEnds(s) : ~(j < e)
    BY <1>1, <1>2, <2>1, <2>3
  <2>6. IsNth(WordStarts(s), 1, a) /\ IsNth(WordEnds(s), 1, e)
    BY <1>1, <2>2, <2>4, <2>5, FirstNth
  <2>7. a \in 1 .. Len(s) /\ e \in 1 .. Len(s) /\ e \in a .. Len(s)
    BY <1>1, <2>1, <2>3
  <2>8. WordAt(s, 1, a, e)
    BY <2>3, <2>6, <2>7 DEF WordAt
  <2>9. TrimAscii(s) = SubSeq(s, a, Max(Filled(s)))
    BY <1>4 DEF TrimAscii, F, a
  <2>. QED BY <2>7, <2>8, <2>9 DEF RestFrom
<1>. QED BY <1>3, <1>4

\* What WordAt and RestFrom call a word and a rest are what ShellLine does.
LEMMA WordIs ==
  ASSUME NEW E, NEW s \in Seq(E), NEW n \in Nat \ {0}, NEW a, NEW e, WordAt(s, n, a, e)
  PROVE  Word(s, n) = SubSeq(s, a, e) /\ n <= Words(s)
<1>1. /\ Len(s) \in Nat
      /\ WordStarts(s) \in SUBSET (1 .. Len(s)) /\ WordEnds(s) \in SUBSET (1 .. Len(s))
  BY PositionsOf
<1>2. IsNth(WordStarts(s), n, a) /\ IsNth(WordEnds(s), n, e)
  BY DEF WordAt
<1>3. NthOf(WordStarts(s), n) = a /\ n <= Words(s) /\ NthOf(WordEnds(s), n) = e
  BY <1>1, <1>2, TheNth DEF Words
<1>4. Words(s) \in Nat
  BY <1>1, BeforeIsFinite DEF Words
<1>5. ~(Words(s) < n)
  BY <1>3, <1>4
<1>. QED BY <1>3, <1>5 DEF Word

LEMMA RestIs ==
  ASSUME NEW E, NEW s \in Seq(E), NEW n \in Nat \ {0}, NEW r, RestFrom(s, n, r)
  PROVE  r = FromWord(s, n)
<1>1. CASE Words(s) < n /\ r = <<>>
  BY <1>1 DEF FromWord
<1>2. ASSUME NEW a \in 1 .. Len(s), NEW e \in 1 .. Len(s),
             WordAt(s, n, a, e), r = SubSeq(s, a, Max(Filled(s)))
      PROVE  r = FromWord(s, n)
  <2>1. /\ Len(s) \in Nat /\ Filled(s) \in SUBSET (1 .. Len(s))
        /\ WordStarts(s) \in SUBSET (1 .. Len(s)) /\ WordEnds(s) \in SUBSET (1 .. Len(s))
    BY PositionsOf
  <2>2. IsNth(WordStarts(s), n, a)
    BY <1>2 DEF WordAt
  <2>3. NthOf(WordStarts(s), n) = a
    BY <2>1, <2>2, TheNth
  <2>4. n <= Words(s) /\ Words(s) \in Nat
    BY <1>2, <2>1, WordIs, BeforeIsFinite DEF Words
  <2>5. WordEnds(s) # {} /\ WordEnds(s) \subseteq Filled(s)
    BY <1>2 DEF WordAt, IsNth, WordEnds
  <2>6. Max(Filled(s)) \in Filled(s) /\ \A y \in Filled(s) : y <= Max(Filled(s))
    BY <2>1, <2>5, GreatestOf
  <2>7. Max(WordEnds(s)) \in WordEnds(s) /\ \A y \in WordEnds(s) : y <= Max(WordEnds(s))
    BY <2>1, <2>5, GreatestOf
  <2>8. PICK z \in Filled(s) : z = Max(Filled(s))
    BY <2>6
  <2>9. z \in WordEnds(s)
    <3>1. PICK e2 \in WordEnds(s) : z <= e2
      BY <2>6, <2>8, WordGoesOn
    <3>2. e2 <= z /\ e2 \in Int /\ z \in Int
      BY <2>1, <2>5, <2>6, <2>8, <3>1
    <3>. QED BY <3>1, <3>2
  <2>10. PICK y \in WordEnds(s) : y = Max(WordEnds(s))
    BY <2>7
  <2>11. y <= z /\ z <= y /\ y \in Int /\ z \in Int
    BY <2>1, <2>5, <2>6, <2>7, <2>8, <2>9, <2>10
  <2>12. Max(WordEnds(s)) = Max(Filled(s))
    BY <2>8, <2>10, <2>11
  <2>13. ~(Words(s) < n)
    BY <2>4
  <2>. QED BY <1>2, <2>3, <2>12, <2>13 DEF FromWord
<1>. QED BY <1>1, <1>2 DEF RestFrom

\* Cutting blanks off both ends leaves what is between them.
LEMMA TrimsTo ==
  ASSUME NEW E, NEW u \in Seq(E), NEW a \in Filled(u), NEW b \in Filled(u),
         \A i \in Filled(u) : a <= i /\ i <= b
  PROVE  TrimAscii(u) = SubSeq(u, a, b)
<1>1. Filled(u) \in SUBSET (1 .. Len(u)) /\ Len(u) \in Nat /\ Filled(u) # {}
  BY PositionsOf
<1>2. /\ Min(Filled(u)) \in Filled(u) /\ \A y \in Filled(u) : Min(Filled(u)) <= y
      /\ Max(Filled(u)) \in Filled(u) /\ \A y \in Filled(u) : y <= Max(Filled(u))
  BY <1>1, LeastOf, GreatestOf
<1>3. PICK x \in Filled(u) : x = Min(Filled(u))
  BY <1>2
<1>4. PICK y \in Filled(u) : y = Max(Filled(u))
  BY <1>2
<1>5. x \in Int /\ y \in Int /\ a \in Int /\ b \in Int
  BY <1>1
<1>6. x = a /\ y = b
  BY <1>2, <1>3, <1>4, <1>5
<1>. QED BY <1>1, <1>3, <1>4, <1>6 DEF TrimAscii

\* The first blank of a sequence whose first k characters are filled, and which
\* ends there or has a blank behind them.
LEMMA FirstBlankAt ==
  ASSUME NEW E, NEW r \in Seq(E), NEW k \in 0 .. Len(r),
         \A i \in 1 .. k : ~Blank(r[i]), k = Len(r) \/ Blank(r[k + 1])
  PROVE  FirstBlank(r) = k + 1
<1>. DEFINE f == FirstBlank(r)
            S == {i \in DOMAIN r : Blank(r[i])} \cup {Len(r) + 1}
<1>1. S \in SUBSET (1 .. Len(r) + 1) /\ S # {} /\ Len(r) \in Nat /\ Len(r) + 1 \in Nat
  OBVIOUS
<1>2. Min(S) \in S /\ \A y \in S : Min(S) <= y
  BY <1>1, LeastOf
<1>3. f = Min(S)
  BY DEF FirstBlank
<1>4. k + 1 \in S
  <2>1. k = Len(r) \/ k + 1 \in DOMAIN r
    BY <1>1
  <2>. QED BY <2>1
<1>5. \A i \in S : ~(i < k + 1)
  BY <1>1
<1>6. \A i \in S : i \in Int
  BY <1>1
<1>. HIDE DEF S
<1>7. f \in S /\ f <= k + 1
  BY <1>2, <1>3, <1>4
<1>. HIDE DEF f
<1>8. f \in Int /\ ~(f < k + 1)
  BY <1>5, <1>6, <1>7
<1>9. f = k + 1
  BY <1>7, <1>8
<1>. QED BY <1>9 DEF f

LEMMA CutIs ==
  ASSUME NEW E, NEW s \in Seq(E), NEW a \in 1 .. Len(s), NEW e \in a .. Len(s)
  PROVE  /\ SubSeq(s, a, e) \in Seq(E) /\ Len(SubSeq(s, a, e)) = e - a + 1
         /\ \A i \in 1 .. e - a + 1 : SubSeq(s, a, e)[i] = s[a + i - 1]
<1>1. a \in Int /\ e \in Int /\ a <= e
  OBVIOUS
<1>2. \A i \in a .. e : s[i] \in E
  OBVIOUS
<1>. QED BY <1>1, <1>2, SubSeqProperties

\* A rest cut at its first blank, with the blank or without: in front the word,
\* behind it the rest from the next word on.
LEMMA CutsWord ==
  ASSUME NEW E, NEW s \in Seq(E), NEW n \in Nat \ {0}, NEW r, RestFrom(s, n, r),
         NEW d \in {0, 1}
  PROVE  /\ TrimAscii(SubSeq(r, 1, FirstBlank(r) - 1)) = Word(s, n)
         /\ RestFrom(s, n + 1, TrimAscii(SubSeq(r, FirstBlank(r) + d, Len(r))))
<1>0. TrimAscii(<<>>) = <<>>
  BY DEF TrimAscii, Filled
<1>1. CASE Words(s) < n /\ r = <<>>
  <2>1. r \in Seq(E) /\ Len(r) = 0
    BY <1>1
  <2>2. FirstBlank(r) = 0 + 1
    <3>1. 0 \in 0 .. Len(r) /\ \A i \in 1 .. 0 : ~Blank(r[i])
      BY <2>1
    <3>. QED BY <2>1, <3>1, FirstBlankAt
  <2>3. SubSeq(r, 1, 0) = <<>> /\ SubSeq(r, 1 + d, 0) = <<>>
    BY SubSeqEmpty
  <2>4. Words(s) \in Nat
    BY PositionsOf, BeforeIsFinite DEF Words
  <2>5. Words(s) < n + 1
    BY <1>1, <2>4
  <2>6. FirstBlank(r) - 1 = 0 /\ FirstBlank(r) + d = 1 + d
    BY <2>2
  <2>7. Word(s, n) = <<>>
    BY <1>1 DEF Word
  <2>8. TrimAscii(SubSeq(r, 1, FirstBlank(r) - 1)) = <<>>
    BY <1>0, <2>3, <2>6
  <2>9. TrimAscii(SubSeq(r, FirstBlank(r) + d, Len(r))) = <<>>
    BY <1>0, <2>1, <2>3, <2>6
  <2>. QED BY <2>5, <2>7, <2>8, <2>9 DEF RestFrom
<1>2. ASSUME NEW a \in 1 .. Len(s), NEW e \in 1 .. Len(s), WordAt(s, n, a, e),
             r = SubSeq(s, a, Max(Filled(s)))
      PROVE  /\ TrimAscii(SubSeq(r, 1, FirstBlank(r) - 1)) = Word(s, n)
             /\ RestFrom(s, n + 1, TrimAscii(SubSeq(r, FirstBlank(r) + d, Len(r))))
  <2>1. /\ Len(s) \in Nat /\ Filled(s) \in SUBSET (1 .. Len(s))
        /\ WordStarts(s) \in SUBSET (1 .. Len(s)) /\ WordEnds(s) \in SUBSET (1 .. Len(s))
        /\ \A i \in 1 .. Len(s) : i \in Filled(s) <=> ~Blank(s[i])
    BY PositionsOf
  <2>2. /\ a <= e /\ \A i \in a .. e : i \in Filled(s)
        /\ IsNth(WordStarts(s), n, a) /\ IsNth(WordEnds(s), n, e)
        /\ a \in WordStarts(s) /\ e \in WordEnds(s)
    BY <1>2, <2>1 DEF WordAt, IsNth
  <2>3. PICK z \in Filled(s) : z = Max(Filled(s)) /\ \A y \in Filled(s) : y <= z
    <3>1. a \in Filled(s)
      BY <2>2
    <3>2. /\ Max(Filled(s)) \in Filled(s)
          /\ \A y \in Filled(s) : Max(Filled(s)) >= y
      BY <2>1, <3>1, GreatestOf
    <3>3. \A y \in Filled(s) : y <= Max(Filled(s))
      BY <2>1, <3>2
    <3>. QED BY <3>2, <3>3
  <2>4. z \in 1 .. Len(s) /\ a \in 1 .. z /\ e \in a .. z
    BY <2>1, <2>2, <2>3
  <2>5. /\ r \in Seq(E) /\ Len(r) = z - a + 1
        /\ \A i \in 1 .. z - a + 1 : r[i] = s[a + i - 1]
    <3>1. \A i \in a .. z : s[i] \in E
      BY <2>4
    <3>. QED BY <1>2, <2>3, <2>4, <3>1, SubSeqProperties
  <2>6. e = z \/ Blank(s[e + 1])
    BY <2>1, <2>2, <2>3, <2>4 DEF WordEnds
  <2>7. FirstBlank(r) = (e - a + 1) + 1
    <3>1. e - a + 1 \in 0 .. Len(r)
      BY <2>4, <2>5
    <3>2. \A i \in 1 .. e - a + 1 : r[i] = s[a + i - 1] /\ a + i - 1 \in a .. e
      BY <2>4, <2>5
    <3>3. \A i \in 1 .. e - a + 1 : ~Blank(r[i])
      BY <1>2, <3>2 DEF WordAt
    <3>4. e - a + 1 = Len(r) \/ Blank(r[e - a + 1 + 1])
      <4>1. CASE e = z
        BY <2>5, <4>1
      <4>2. CASE e # z
        <5>1. e - a + 1 + 1 \in 1 .. z - a + 1 /\ a + (e - a + 1 + 1) - 1 = e + 1
          BY <2>4, <4>2
        <5>. QED BY <2>5, <2>6, <4>2, <5>1
      <4>. QED BY <4>1, <4>2
    <3>. QED BY <2>5, <3>1, <3>3, <3>4, FirstBlankAt
  <2>8. TrimAscii(SubSeq(r, 1, FirstBlank(r) - 1)) = Word(s, n)
    <3>. DEFINE k == e - a + 1
                u == SubSeq(r, 1, k)
                v == SubSeq(s, a, e)
    <3>1. k \in 1 .. z - a + 1 /\ FirstBlank(r) - 1 = k
      BY <2>4, <2>7
    <3>2. u \in Seq(E) /\ Len(u) = k /\ \A i \in 1 .. k : u[i] = r[i]
      <4>1. \A i \in 1 .. k : r[i] \in E
        BY <2>5, <3>1
      <4>2. /\ u \in Seq(E) /\ Len(u) = IF 1 <= k THEN k - 1 + 1 ELSE 0
            /\ \A i \in 1 .. k - 1 + 1 : u[i] = r[1 + i - 1]
        BY <3>1, <4>1, SubSeqProperties
      <4>. QED BY <3>1, <4>2
    <3>3. v \in Seq(E) /\ Len(v) = k /\ \A i \in 1 .. k : v[i] = s[a + i - 1]
      <4>1. \A i \in a .. e : s[i] \in E
        BY <2>4
      <4>. QED BY <2>4, <4>1, SubSeqProperties
    <3>. HIDE DEF k, u, v
    <3>4. u = v
      <4>1. k \in Nat /\ \A i \in 1 .. k : i \in 1 .. z - a + 1
        BY <2>4, <3>1
      <4>2. \A i \in 1 .. k : u[i] = v[i]
        BY <2>5, <3>2, <3>3, <4>1
      <4>. QED BY <3>2, <3>3, <4>1, <4>2, SeqEqual
    <3>5. \A i \in 1 .. k : a + i - 1 \in a .. e
      BY <2>4 DEF k
    <3>6. \A i \in 1 .. k : ~Blank(u[i])
      BY <1>2, <3>3, <3>4, <3>5 DEF WordAt
    <3>7. Filled(u) = 1 .. k
      BY <3>2, <3>6 DEF Filled
    <3>8. 1 \in Filled(u) /\ k \in Filled(u) /\ \A i \in Filled(u) : 1 <= i /\ i <= k
      BY <3>1, <3>7, <2>4
    <3>9. TrimAscii(u) = SubSeq(u, 1, k)
      BY <3>2, <3>8, TrimsTo
    <3>10. SubSeq(u, 1, k) = u
      BY <3>2
    <3>11. Word(s, n) = v
      BY <1>2, WordIs DEF v
    <3>. QED BY <3>1, <3>4, <3>9, <3>10, <3>11 DEF u
  <2>9. RestFrom(s, n + 1, TrimAscii(SubSeq(r, FirstBlank(r) + d, Len(r))))
    <3>. DEFINE g == e + 1 + d
                u == SubSeq(r, g - a + 1, z - a + 1)
    <3>1. FirstBlank(r) + d = g - a + 1 /\ g \in Int
      BY <2>4, <2>7
    <3>2. CASE e = z
      <4>1. u = <<>>
        BY <2>4, <3>2, SubSeqEmpty
      <4>2. \A j \in WordStarts(s) : ~(a < j)
        <5>1. ASSUME NEW j \in WordStarts(s), a < j PROVE FALSE
          <6>1. j \in Filled(s) /\ j \in 1 .. Len(s) /\ (j = 1 \/ Blank(s[j - 1]))
            BY <2>1 DEF WordStarts
          <6>2. j <= z
            BY <2>3, <6>1
          <6>3. j - 1 \in a .. e /\ j # 1
            BY <2>4, <3>2, <5>1, <6>1, <6>2
          <6>. QED BY <1>2, <6>1, <6>3 DEF WordAt
        <5>. QED BY <5>1
      <4>3. Words(s) = n
        BY <2>1, <2>2, <4>2, LastNth DEF Words
      <4>4. Words(s) < n + 1
        BY <4>3
      <4>. QED BY <1>0, <2>5, <3>1, <4>1, <4>4 DEF RestFrom
    <3>3. CASE e # z
      <4>1. /\ e + 1 \in 1 .. z /\ e + 1 \notin Filled(s) /\ e + 1 # z /\ g \in 1 .. z
        BY <2>1, <2>3, <2>4, <2>6, <3>3
      <4>. DEFINE S == {i \in Filled(s) : e < i}
      <4>2. S \in SUBSET (1 .. Len(s)) /\ z \in S
        BY <2>1, <2>4, <3>3
      <4>3. PICK b \in S : \A y \in S : b <= y
        BY <2>1, <4>2, LeastOf
      <4>4. b \in Filled(s) /\ e < b /\ b \in 1 .. z /\ b \in g .. z
        <5>1. b \in Filled(s) /\ e < b /\ b \in 1 .. z
          BY <2>1, <2>3, <2>4
        <5>2. b # e + 1
          BY <4>1, <5>1
        <5>. QED BY <2>4, <5>1, <5>2
      <4>5. \A i \in Filled(s) : e < i => b <= i
        BY <4>3
      <4>. HIDE DEF S
      <4>6. b \in WordStarts(s)
        <5>1. b - 1 \in 1 .. Len(s) /\ e < b - 1 /\ ~(b <= b - 1)
          BY <2>1, <2>4, <4>1, <4>4
        <5>2. Blank(s[b - 1])
          BY <2>1, <4>5, <5>1
        <5>. QED BY <4>4, <5>2 DEF WordStarts
      <4>7. PICK f \in WordEnds(s) : /\ b <= f /\ \A i \in b .. f : ~Blank(s[i])
                                     /\ \A i \in WordEnds(s) : ~(b <= i /\ i < f)
        BY <4>4, WordGoesOn
      <4>8. \A j \in WordStarts(s) : ~(a < j /\ j < b)
        <5>1. ASSUME NEW j \in WordStarts(s), a < j, j < b PROVE FALSE
          <6>1. j \in Filled(s) /\ j \in 1 .. Len(s) /\ (j = 1 \/ Blank(s[j - 1]))
            BY <2>1 DEF WordStarts
          <6>2. ~(e < j)
            BY <2>1, <4>4, <4>5, <5>1, <6>1
          <6>3. j - 1 \in a .. e /\ j # 1
            BY <2>4, <5>1, <6>1, <6>2
          <6>. QED BY <1>2, <6>1, <6>3 DEF WordAt
        <5>. QED BY <5>1
      <4>9. \A j \in WordEnds(s) : ~(e < j /\ j < f)
        <5>1. ASSUME NEW j \in WordEnds(s), e < j, j < f PROVE FALSE
          <6>1. j \in Filled(s)
            BY DEF WordEnds
          <6>2. b <= j
            BY <4>5, <5>1, <6>1
          <6>. QED BY <4>7, <5>1, <6>2
        <5>. QED BY <5>1
      <4>10. a < b /\ e < f /\ f \in 1 .. Len(s) /\ b \in 1 .. Len(s) /\ f \in b .. Len(s)
        BY <2>1, <2>4, <4>4, <4>7
      <4>11. IsNth(WordStarts(s), n + 1, b)
        BY <2>1, <2>2, <4>6, <4>8, <4>10, NextNth
      <4>12. IsNth(WordEnds(s), n + 1, f)
        BY <2>1, <2>2, <4>7, <4>9, <4>10, NextNth
      <4>13. WordAt(s, n + 1, b, f)
        BY <4>7, <4>10, <4>11, <4>12 DEF WordAt
      <4>14. TrimAscii(u) = SubSeq(s, b, z)
        <5>. DEFINE m == z - g + 1
        <5>1. m \in Nat \ {0}
          BY <4>4
        <5>2. u \in Seq(E) /\ Len(u) = m /\ \A i \in 1 .. m : u[i] = s[g + i - 1]
          <6>1. \A i \in g - a + 1 .. z - a + 1 : i \in 1 .. Len(r)
            <7>1. 1 <= g - a + 1 /\ g - a + 1 \in Int /\ z - a + 1 \in Nat
              BY <2>4, <4>1
            <7>. HIDE DEF g
            <7>. QED BY <2>5, <7>1
          <6>2. \A i \in g - a + 1 .. z - a + 1 : r[i] \in E
            BY <2>5, <6>1
          <6>3. g - a + 1 \in Int /\ z - a + 1 \in Int /\ g - a + 1 <= z - a + 1
                /\ (z - a + 1) - (g - a + 1) + 1 = m
            BY <2>4, <4>1
          <6>4. /\ u \in Seq(E) /\ Len(u) = m
                /\ \A i \in 1 .. m : u[i] = r[(g - a + 1) + i - 1]
            BY <6>2, <6>3, SubSeqProperties
          <6>5. \A i \in 1 .. m : /\ (g - a + 1) + i - 1 \in 1 .. z - a + 1
                                  /\ a + ((g - a + 1) + i - 1) - 1 = g + i - 1
            BY <2>4, <4>1
          <6>. QED BY <2>5, <6>4, <6>5
        <5>. HIDE DEF u
        <5>3. \A i \in 1 .. m : i \in Filled(u) <=> g + i - 1 \in Filled(s)
          <6>1. \A i \in 1 .. m : g + i - 1 \in 1 .. Len(s)
            BY <2>1, <2>4, <4>1
          <6>. QED BY <2>1, <5>2, <6>1, PositionsOf
        <5>4. Filled(u) \subseteq 1 .. m
          BY <5>2, PositionsOf
        <5>. DEFINE x == b - g + 1
        <5>5. x \in 1 .. m /\ g + x - 1 = b /\ g + m - 1 = z
          BY <2>4, <4>1, <4>4
        <5>6. x \in Filled(u) /\ m \in Filled(u)
          BY <4>4, <5>1, <5>3, <5>5
        <5>7. ASSUME NEW i \in Filled(u) PROVE x <= i /\ i <= m
          <6>1. i \in 1 .. m /\ g + i - 1 \in Filled(s)
            BY <5>3, <5>4
          <6>2. e < g + i - 1
            BY <2>4, <6>1
          <6>3. b <= g + i - 1
            BY <4>5, <6>1, <6>2
          <6>. QED BY <4>1, <4>4, <6>1, <6>3
        <5>8. TrimAscii(u) = SubSeq(u, x, m)
          BY <5>2, <5>6, <5>7, TrimsTo
        <5>9. /\ SubSeq(u, x, m) \in Seq(E) /\ Len(SubSeq(u, x, m)) = m - x + 1
              /\ \A i \in 1 .. m - x + 1 : SubSeq(u, x, m)[i] = u[x + i - 1]
          <6>. HIDE DEF x, m
          <6>1. x \in 1 .. Len(u) /\ m \in x .. Len(u)
            BY <5>1, <5>2, <5>5
          <6>. QED BY <5>2, <6>1, CutIs
        <5>10. /\ SubSeq(s, b, z) \in Seq(E) /\ Len(SubSeq(s, b, z)) = z - b + 1
               /\ \A i \in 1 .. z - b + 1 : SubSeq(s, b, z)[i] = s[b + i - 1]
          <6>1. b \in 1 .. Len(s) /\ z \in b .. Len(s)
            BY <2>1, <2>4, <4>4
          <6>. QED BY <6>1, CutIs
        <5>11. m - x + 1 = z - b + 1
          BY <2>4, <4>1, <4>4
        <5>12. \A i \in 1 .. z - b + 1 : /\ x + i - 1 \in 1 .. m
                                         /\ g + (x + i - 1) - 1 = b + i - 1
          BY <2>4, <4>1, <4>4
        <5>13. \A i \in 1 .. z - b + 1 : SubSeq(u, x, m)[i] = SubSeq(s, b, z)[i]
          BY <5>2, <5>9, <5>10, <5>11, <5>12
        <5>14. z - b + 1 \in Nat
          BY <4>4
        <5>. HIDE DEF x, m
        <5>15. SubSeq(u, x, m) = SubSeq(s, b, z)
          BY <5>9, <5>10, <5>11, <5>13, <5>14, SeqEqual
        <5>. QED BY <5>8, <5>15
      <4>. QED BY <2>3, <2>5, <3>1, <4>10, <4>13, <4>14 DEF RestFrom
    <3>. QED BY <3>2, <3>3
  <2>. QED BY <2>8, <2>9
<1>. QED BY <1>1, <1>2 DEF RestFrom

\* The nested cuts of a line, one word after the other.
LEMMA Parsed ==
  ASSUME NEW E, NEW s \in Seq(E)
  PROVE  LET c == Split(s)
             n == SplitN(c.rest)
             t == NameAndText(n.rest)
         IN /\ c.head = Word(s, 1) /\ c.rest = FromWord(s, 2)
            /\ n.head = Word(s, 2) /\ n.rest = FromWord(s, 3)
            /\ t.name = Word(s, 3) /\ t.text = FromWord(s, 4)
<1>1. ASSUME NEW k \in Nat \ {0}, NEW r \in Seq(E), RestFrom(s, k, r)
      PROVE  /\ SplitN(r).head = Word(s, k) /\ RestFrom(s, k + 1, SplitN(r).rest)
             /\ NameAndText(r).name = Word(s, k) /\ RestFrom(s, k + 1, NameAndText(r).text)
  <2>1. FirstBlank(r) + 0 = FirstBlank(r)
    BY FirstBlankIs
  <2>2. \A d \in {0, 1} :
          /\ TrimAscii(SubSeq(r, 1, FirstBlank(r) - 1)) = Word(s, k)
          /\ RestFrom(s, k + 1, TrimAscii(SubSeq(r, FirstBlank(r) + d, Len(r))))
    BY <1>1, CutsWord
  <2>. QED BY <2>1, <2>2 DEF SplitN, NameAndText
<1>. DEFINE c == Split(s)
            n == SplitN(c.rest)
            t == NameAndText(n.rest)
<1>2. c.head = Word(s, 1) /\ RestFrom(s, 2, c.rest)
  <2>1. TrimAscii(s) \in Seq(E) /\ RestFrom(s, 1, TrimAscii(s))
    BY TrimTyped, FirstWord DEF Trimmed
  <2>2. /\ NameAndText(TrimAscii(s)).name = Word(s, 1)
        /\ RestFrom(s, 1 + 1, NameAndText(TrimAscii(s)).text)
    BY <1>1, <2>1
  <2>. QED BY <2>2 DEF Split, NameAndText
<1>3. c.rest \in Seq(E)
  BY SplitTyped DEF Trimmed
<1>. HIDE DEF c
<1>4. n.head = Word(s, 2) /\ RestFrom(s, 3, n.rest)
  <2>1. 2 \in Nat \ {0} /\ 2 + 1 = 3
    OBVIOUS
  <2>. QED BY <1>1, <1>2, <1>3, <2>1
<1>5. n.rest \in Seq(E)
  BY <1>3, SplitNTyped DEF Trimmed
<1>. HIDE DEF n
<1>6. t.name = Word(s, 3) /\ RestFrom(s, 4, t.text)
  <2>1. 3 \in Nat \ {0} /\ 3 + 1 = 4
    OBVIOUS
  <2>. QED BY <1>1, <1>4, <1>5, <2>1
<1>7. c.rest = FromWord(s, 2) /\ n.rest = FromWord(s, 3) /\ t.text = FromWord(s, 4)
  <2>1. 2 \in Nat \ {0} /\ 3 \in Nat \ {0} /\ 4 \in Nat \ {0}
    OBVIOUS
  <2>. QED BY <1>2, <1>4, <1>6, <2>1, RestIs
<1>. QED BY <1>2, <1>4, <1>6, <1>7 DEF c, n

\* However a line is spaced, and however long it is, the nested splitting and
\* trimming of execute(), cmd_app() and cmd_storage() finds its words.
THEOREM ParsedAsWordsCorrect == Spec => []ParsedAsWords
<1>1. CoreInv => ParsedAsWords
  BY Parsed DEF CoreInv, LineTyped, ParsedAsWords
<1>. QED BY <1>1, CoreInductive, PTL
=============================================================================
