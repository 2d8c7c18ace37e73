----------------------------- MODULE FoldFacts -----------------------------
(***************************************************************************)
(* What FoldLeft computes, for one operator Op: a module that folds takes  *)
(* an instance of this one.                                                *)
(***************************************************************************)
EXTENDS SequencesExt, WellFoundedInduction, TLAPS

CONSTANT Op(_, _)

Folded(base, seq) == FoldLeft(Op, base, seq)

\* g[k] is the fold of the first k elements of the n.
Folding(g, base, seq, n) ==
  /\ g[0] = base
  /\ \A k \in 1 .. n : g[k] = Op(g[k - 1], seq[k])
  /\ Folded(base, seq) = g[n]

\* Counting up to n stays in S.
LEMMA UpTo ==
  ASSUME NEW n \in Nat, NEW S, 0 \in S, \A k \in 0 .. n - 1 : k \in S => k + 1 \in S
  PROVE  \A k \in 0 .. n : k \in S
<1>. SUFFICES ASSUME NEW m \in 0 .. n, m \notin S PROVE FALSE
  OBVIOUS
<1>. DEFINE T == {k \in Nat : k \in 0 .. n /\ k \notin S}
<1>1. T # {} /\ T \subseteq Nat
  OBVIOUS
<1>2. PICK k \in T : \A j \in T : <<j, k>> \notin OpToRel(<, Nat)
  BY <1>1, NatLessThanWellFounded, WFMin
<1>3. k - 1 \in T /\ <<k - 1, k>> \in OpToRel(<, Nat)
  BY <1>2 DEF OpToRel
<1>. QED BY <1>2, <1>3

\* The function that FoldLeft chooses over the positions of the sequence.
Iteration(it, base, seq, S) ==
  it = [s \in SUBSET S |->
          IF s = {} THEN base ELSE Op(it[s \ {Max(s)}], seq[Max(s)])]

LEMMA MaxIs ==
  ASSUME NEW s \in SUBSET Nat, NEW k \in s, \A i \in s : k >= i
  PROVE  Max(s) = k
<1>1. \A x \in s : (\A i \in s : x >= i) => x = k
  OBVIOUS
<1>. QED BY <1>1 DEF Max

\* There is one.
LEMMA IterationExists ==
  ASSUME NEW base, NEW seq, NEW n \in Nat
  PROVE  \E it : Iteration(it, base, seq, 1 .. n)
<1>. DEFINE S == {k \in 0 .. n : \E it : Iteration(it, base, seq, 1 .. k)}
<1>1. 0 \in S
  <2>. DEFINE it == [s \in SUBSET (1 .. 0) |-> base]
  <2>1. Iteration(it, base, seq, 1 .. 0)
    BY DEF Iteration
  <2>. QED BY <2>1
<1>2. ASSUME NEW k \in 0 .. n - 1, k \in S PROVE k + 1 \in S
  <2>1. PICK g : Iteration(g, base, seq, 1 .. k)
    BY <1>2
  <2>. DEFINE h == [s \in SUBSET (1 .. k + 1) |->
                 IF k + 1 \in s THEN Op(g[s \ {k + 1}], seq[k + 1]) ELSE g[s]]
  <2>2. ASSUME NEW s \in SUBSET (1 .. k + 1)
        PROVE  h[s] = IF s = {} THEN base ELSE Op(h[s \ {Max(s)}], seq[Max(s)])
    <3>1. CASE k + 1 \in s
      <4>1. Max(s) = k + 1
        BY <3>1, MaxIs
      <4>2. h[s \ {k + 1}] = g[s \ {k + 1}]
        OBVIOUS
      <4>. QED BY <3>1, <4>1, <4>2
    <3>2. CASE k + 1 \notin s
      <4>1. s \in SUBSET (1 .. k) /\ h[s] = g[s]
        BY <3>2
      <4>2. h[s \ {Max(s)}] = g[s \ {Max(s)}]
        BY <3>2
      <4>. QED BY <2>1, <4>1, <4>2 DEF Iteration
    <3>. QED BY <3>1, <3>2
  <2>3. Iteration(h, base, seq, 1 .. k + 1)
    BY <2>2 DEF Iteration
  <2>. QED BY <2>3
<1>. HIDE DEF S
<1>3. n \in S
  BY <1>1, <1>2, UpTo
<1>. QED BY <1>3 DEF S

\* The fold of a sequence is the last of its partial folds.
LEMMA Folds ==
  ASSUME NEW base, NEW seq, NEW n \in Nat, DOMAIN seq = 1 .. n
  PROVE  \E g : Folding(g, base, seq, n)
<1>. DEFINE it == CHOOSE it : Iteration(it, base, seq, 1 .. n)
<1>1. Iteration(it, base, seq, 1 .. n)
  BY IterationExists
<1>2. Folded(base, seq) = it[1 .. n]
  BY Zenon DEF Folded, FoldLeft, MapThenFoldSet, Iteration
<1>. HIDE DEF it
<1>. DEFINE g == [k \in 0 .. n |-> it[1 .. k]]
<1>3. g[0] = base
  BY <1>1 DEF Iteration
<1>4. ASSUME NEW k \in 1 .. n PROVE g[k] = Op(g[k - 1], seq[k])
  <2>1. Max(1 .. k) = k /\ (1 .. k) \ {k} = 1 .. k - 1 /\ 1 .. k # {}
    BY MaxIs
  <2>2. 1 .. k \in SUBSET (1 .. n)
    OBVIOUS
  <2>3. it[1 .. k] = Op(it[(1 .. k) \ {k}], seq[k])
    BY <1>1, <2>1, <2>2 DEF Iteration
  <2>4. g[k] = it[1 .. k] /\ g[k - 1] = it[1 .. k - 1]
    <3>1. k \in 0 .. n /\ k - 1 \in 0 .. n
      OBVIOUS
    <3>. QED BY <3>1
  <2>. HIDE DEF g
  <2>. QED BY <2>1, <2>3, <2>4
<1>5. Folded(base, seq) = g[n]
  BY <1>2
<1>6. Folding(g, base, seq, n)
  BY <1>3, <1>4, <1>5 DEF Folding
<1>. QED BY <1>6

LEMMA FoldEmpty == \A base : Folded(base, <<>>) = base
<1>. TAKE base
<1>1. DOMAIN <<>> = 1 .. 0
  OBVIOUS
<1>. QED BY <1>1, Folds DEF Folding

\* Folding one sequence and then another is folding both in a row.
LEMMA FoldConcat ==
  ASSUME NEW E, NEW base, NEW a \in Seq(E), NEW b \in Seq(E)
  PROVE  Folded(base, a \o b) = Folded(Folded(base, a), b)
<1>. DEFINE m == Len(a)
            n == Len(b)
            c == a \o b
<1>1. /\ m \in Nat /\ n \in Nat
      /\ DOMAIN a = 1 .. m /\ DOMAIN b = 1 .. n /\ DOMAIN c = 1 .. m + n
      /\ \A i \in 1 .. m : c[i] = a[i]
      /\ \A i \in 1 .. n : c[m + i] = b[i]
  OBVIOUS
<1>. HIDE DEF m, n, c
<1>2. PICK g : Folding(g, base, a, m)
  BY <1>1, Folds
<1>3. PICK h : Folding(h, g[m], b, n)
  BY <1>1, Folds
<1>4. m + n \in Nat
  BY <1>1
<1>5. PICK f : Folding(f, base, c, m + n)
  BY <1>1, <1>4, Folds
<1>6. \A k \in 0 .. m : k \in {j \in 0 .. m : f[j] = g[j]}
  <2>. DEFINE S == {j \in 0 .. m : f[j] = g[j]}
  <2>1. 0 \in S
    BY <1>1, <1>2, <1>5 DEF Folding
  <2>2. ASSUME NEW k \in 0 .. m - 1, k \in S PROVE k + 1 \in S
    <3>1. k + 1 \in 1 .. m /\ k + 1 \in 1 .. m + n /\ (k + 1) - 1 = k
      BY <1>1
    <3>2. f[k + 1] = Op(f[k], c[k + 1]) /\ g[k + 1] = Op(g[k], a[k + 1])
      BY <1>2, <1>5, <3>1 DEF Folding
    <3>. QED BY <1>1, <2>2, <3>1, <3>2
  <2>. HIDE DEF S
  <2>3. \A k \in 0 .. m : k \in S
    BY <1>1, <2>1, <2>2, UpTo
  <2>. QED BY <2>3 DEF S
<1>7. \A k \in 0 .. n : k \in {j \in 0 .. n : f[m + j] = h[j]}
  <2>. DEFINE S == {j \in 0 .. n : f[m + j] = h[j]}
  <2>1. 0 \in S
    BY <1>1, <1>3, <1>6 DEF Folding
  <2>2. ASSUME NEW k \in 0 .. n - 1, k \in S PROVE k + 1 \in S
    <3>1. /\ k + 1 \in 1 .. n /\ m + k + 1 \in 1 .. m + n
          /\ (k + 1) - 1 = k /\ (m + k + 1) - 1 = m + k
      BY <1>1
    <3>2. f[m + k + 1] = Op(f[m + k], c[m + k + 1]) /\ h[k + 1] = Op(h[k], b[k + 1])
      BY <1>3, <1>5, <3>1 DEF Folding
    <3>3. m + k + 1 = m + (k + 1)
      BY <1>1
    <3>. QED BY <1>1, <2>2, <3>1, <3>2, <3>3
  <2>. HIDE DEF S
  <2>3. \A k \in 0 .. n : k \in S
    BY <1>1, <2>1, <2>2, UpTo
  <2>. QED BY <2>3 DEF S
<1>8. f[m + n] = h[n]
  BY <1>1, <1>7
<1>. QED BY <1>2, <1>3, <1>5, <1>8 DEF Folding, c
=============================================================================
