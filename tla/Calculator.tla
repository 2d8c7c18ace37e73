----------------------------- MODULE Calculator -----------------------------
(***************************************************************************)
(* userspace/src/bin/mathc.rs: the evaluator by recursive descent, and a   *)
(* definition of the value of an expression by its last operator.  Tokens  *)
(* are written with blanks between them.                                   *)
(*                                                                         *)
(* The applications are built with the dev profile of Cargo.toml, in which *)
(* arithmetic that overflows panics: rt.rs then ends the program.          *)
(***************************************************************************)
EXTENDS Integers, SequencesExt

CONSTANTS
  Tokens,    \* what an expression is made of
  MaxTokens, \* bound of the model on its length
  IntMax,    \* 2^63 - 1, the largest i64
  ExpMod     \* 2^32: exponents are taken for u32

ASSUME CalculatorAssumption ==
  /\ MaxTokens \in Nat /\ IntMax \in Nat /\ ExpMod \in Nat \ {0} /\ ExpMod <= IntMax

VARIABLES expr, answer  \* the line typed, and what is printed for it

calcVars == <<expr, answer>>

I64 == -IntMax - 1 .. IntMax

\* The variable x is 42; 'e', "exp" stand for 2.  "big" is IntMax + 1, which
\* parse_num() refuses.
Atoms == {"0", "1", "2", "3", "max", "big", "x", "e"}
Denotes(t) ==
  CASE t = "0" -> 0 [] t = "1" -> 1 [] t = "2" -> 2 [] t = "3" -> 3
    [] t = "max" -> IntMax [] t = "x" -> 42 [] t = "e" -> 2

\* What is evaluated at a position: a value and the position behind it, an
\* error, or a panic.
Value(v, i) == [how |-> "ok", val |-> v, at |-> i]
Err == [how |-> "error", val |-> 0, at |-> 0]
Died == [how |-> "died", val |-> 0, at |-> 0]

\* i64 division truncates towards zero.
Quotient(a, b) ==
  LET q == (IF a < 0 THEN -a ELSE a) \div (IF b < 0 THEN -b ELSE b)
  IN IF (a < 0) = (b < 0) THEN q ELSE -q

\* i64::pow(), by squaring: {} where a product overflows.
RECURSIVE Raise(_, _, _)
Raise(acc, base, exp) ==
  IF exp = 0 THEN {acc}
  ELSE LET next == IF exp % 2 = 1 THEN acc * base ELSE acc IN
       IF next \notin I64 THEN {}
       ELSE IF exp = 1 THEN {next}
       ELSE IF base * base \notin I64 THEN {}
       ELSE Raise(next, base * base, exp \div 2)

\* lhs.pow(rhs as u32).
Power(a, b) == Raise(1, a, b % ExpMod)

\* The result of an operator: {} where it overflows.
Apply(op, a, b) ==
  CASE op = "+" -> {a + b} \cap I64 [] op = "-" -> {a - b} \cap I64
    [] op = "*" -> {a * b} \cap I64 [] op = "/" -> {Quotient(a, b)} \cap I64
    [] op = "^" -> Power(a, b)

Checked(vals, i) == IF vals = {} THEN Died ELSE Value(CHOOSE v \in vals : TRUE, i)
Combine(op, l, r) ==
  IF r.how # "ok" THEN r
  ELSE IF op = "/" /\ r.val = 0 THEN Err
  ELSE Checked(Apply(op, l.val, r.val), r.at)

\* Whether one of the operators follows what has been read, r.
Follows(s, r, ops) == r.how = "ok" /\ r.at <= Len(s) /\ s[r.at] \in ops

RECURSIVE EvalExpr(_, _), Sum(_, _), EvalTerm(_, _), Product(_, _), EvalAtom(_, _)

EvalExpr(s, i) == Sum(s, EvalTerm(s, i))

\* The loops of eval_expr() and eval_term(): `l` has been read.
Sum(s, l) ==
  IF Follows(s, l, {"+", "-"})
  THEN Sum(s, Combine(s[l.at], l, EvalTerm(s, l.at + 1))) ELSE l

\* eval_pow(): at most one '^'.
EvalPow(s, i) ==
  LET l == EvalAtom(s, i)
  IN IF Follows(s, l, {"^"}) THEN Combine("^", l, EvalAtom(s, l.at + 1)) ELSE l

EvalTerm(s, i) == Product(s, EvalPow(s, i))

\* The variant takes what follows an operator as one term.
Product_FromTheRight(s, l) ==
  IF Follows(s, l, {"*", "/"})
  THEN Combine(s[l.at], l, EvalTerm(s, l.at + 1)) ELSE l
Product(s, l) ==
  IF Follows(s, l, {"*", "/"})
  THEN Product(s, Combine(s[l.at], l, EvalPow(s, l.at + 1))) ELSE l

EvalAtom(s, i) ==
  IF i > Len(s) THEN Err
  ELSE IF s[i] = "(" THEN
    LET e == EvalExpr(s, i + 1)
    IN IF Follows(s, e, {")"}) THEN Value(e.val, e.at + 1)
       ELSE IF e.how = "ok" THEN Err ELSE e
  ELSE IF s[i] = "-" THEN
    LET a == EvalAtom(s, i + 1)
    IN IF a.how = "ok" THEN Checked({-a.val} \cap I64, a.at) ELSE a
  ELSE IF s[i] \in Atoms \ {"big"} THEN Value(Denotes(s[i]), i + 1)
  ELSE Err

\* One line at the prompt.
Evaluate ==
  /\ expr = <<>>
  /\ \E s \in BoundedSeq(Tokens, MaxTokens) :
       s # <<>> /\ expr' = s /\ answer' = EvalExpr(s, 1)

CalcInit == expr = <<>> /\ answer = Err

-----------------------------------------------------------------------------

(***************************************************************************)
(* The value of an expression: its last operator outside of parentheses    *)
(* splits it, + and - before * and /, and those before ^.  A '-' that      *)
(* stands before an operand is a sign, and binds closest.  There is none,  *)
(* {}, where a part has no value in I64.                                   *)
(***************************************************************************)
Depth(s, i) ==
  Cardinality({j \in 1 .. i : s[j] = "("}) - Cardinality({j \in 1 .. i : s[j] = ")"})
EndsOperand(t) == t \in Atoms \cup {")"}
Binary(s, ops) ==
  {i \in 2 .. Len(s) : s[i] \in ops /\ EndsOperand(s[i - 1]) /\ Depth(s, i) = 0}

WellFormed(s) ==
  /\ s # <<>> /\ Depth(s, Len(s)) = 0 /\ \A i \in DOMAIN s : Depth(s, i) >= 0
  /\ EndsOperand(s[Len(s)])
  /\ \A i \in DOMAIN s :
       LET operand == i > 1 /\ EndsOperand(s[i - 1]) IN
       IF s[i] \in {"+", "*", "/", "^", ")"} THEN operand ELSE s[i] = "-" \/ ~operand

Abs(n) == IF n < 0 THEN -n ELSE n

\* The quotient whose remainder is smaller than the divisor and has the sign of
\* the dividend; a power is a repeated product.
QuotientOf(a, b) == {q \in I64 : Abs(a - b * q) < Abs(b) /\ (a - b * q) * a >= 0}
RECURSIVE PowerOf(_, _)
PowerOf(a, b) ==
  IF b < 0 THEN {} ELSE IF b = 0 THEN {1}
  ELSE {p * a : p \in PowerOf(a, b - 1)} \cap I64

RECURSIVE ValueOf(_)
ValueOf(s) ==
  LET split == IF Binary(s, {"+", "-"}) # {} THEN Binary(s, {"+", "-"})
               ELSE IF Binary(s, {"*", "/"}) # {} THEN Binary(s, {"*", "/"})
               ELSE Binary(s, {"^"})
      i == Max(split)
      Of(a, b) == CASE s[i] = "+" -> {a + b} [] s[i] = "-" -> {a - b} [] s[i] = "*" -> {a * b}
                    [] s[i] = "/" -> QuotientOf(a, b) [] s[i] = "^" -> PowerOf(a, b)
  IN IF split # {}
     THEN UNION {UNION {Of(a, b) \cap I64 : a \in ValueOf(SubSeq(s, 1, i - 1))} :
                 b \in ValueOf(SubSeq(s, i + 1, Len(s)))}
     ELSE IF s[1] = "-" THEN {-a : a \in ValueOf(Tail(s))} \cap I64
     ELSE IF s[1] = "(" THEN ValueOf(SubSeq(s, 2, Len(s) - 1))
     ELSE IF s[1] = "big" THEN {} ELSE {Denotes(s[1])}

\* Two '^' in a row: read from the left here, the second left out by mathc.
Chained(s) ==
  \E i, j \in DOMAIN s : /\ i < j /\ s[i] = "^" /\ s[j] = "^"
                         /\ \A k \in i .. j - 1 : s[k] \notin {"+", "*", "/", "(", ")"}

\* No exponent is negative or too large for a u32.
ExponentsFit(s) ==
  \A i \in DOMAIN s : s[i] = "^" =>
    LET end == Min({j \in i + 1 .. Len(s) : WellFormed(SubSeq(s, i + 1, j))})
    IN ValueOf(SubSeq(s, i + 1, end)) \subseteq 0 .. ExpMod - 1

Printed == {a \in {answer.val} : answer.how = "ok"}

\* An expression gets its value if it has one, and none is printed otherwise; a
\* line that is no expression gets the value of the longest expression it begins
\* with, or none.  This is where every exponent fits a u32.  (A chain of '^' is
\* no expression for mathc.)
CalculatesRight ==
  expr # <<>> =>
    /\ WellFormed(expr) /\ ~Chained(expr) /\ ExponentsFit(expr) => Printed = ValueOf(expr)
    /\ answer.how = "ok" =>
         LET read == SubSeq(expr, 1, answer.at - 1)
         IN WellFormed(read) /\ (ExponentsFit(read) => ValueOf(read) = {answer.val})

-----------------------------------------------------------------------------

\* mathc.rs:142 - "Supported: + - * / ^ ( ) numbers": the prompt comes back
\* after every expression whose operands are numbers.  A power with a negative
\* exponent ends the program instead, by the panic on overflow in i64::pow().
PromptComesBack == expr # <<>> /\ WellFormed(expr) => answer.how # "died"

\* The same line: two '^' in a row are supported too.
PowersChain ==
  expr # <<>> /\ WellFormed(expr) /\ ExponentsFit(expr) => Printed = ValueOf(expr)

=============================================================================
