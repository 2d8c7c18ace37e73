----------------------------- MODULE ShellLine -----------------------------
(***************************************************************************)
(* How kernel/src/shell.rs takes a command line apart: the search for the  *)
(* first blank in execute() and in `app save` and `storage write`, and     *)
(* splitn(2) in cmd_app() and cmd_storage().  A line is a sequence of      *)
(* characters; " " stands for space and tab.                               *)
(***************************************************************************)
EXTENDS Integers, SequencesExt, FiniteSetsExt

Blank(c) == c = " "

\* The positions that hold something, and the first blank (0: none).
Filled(s) == {i \in DOMAIN s : ~Blank(s[i])}
FirstBlank(s) == Min({i \in DOMAIN s : Blank(s[i])} \cup {Len(s) + 1})
HasBlank(s) == \E i \in DOMAIN s : Blank(s[i])

\* [u8]::trim_ascii() of Rust's core library, and the same cutting the front
\* only.  (The trait AsciiTrim of shell.rs:273 would panic on a line of blanks,
\* but the library's method of that name shadows it.)
TrimAscii_FrontOnly(s) ==
  IF Filled(s) = {} THEN <<>> ELSE SubSeq(s, Min(Filled(s)), Len(s))
TrimAscii(s) ==
  IF Filled(s) = {} THEN <<>> ELSE SubSeq(s, Min(Filled(s)), Max(Filled(s)))

\* execute(): the blank stays with the arguments, and is trimmed off them.
Split(line) ==
  LET t == TrimAscii(line)
  IN [head |-> TrimAscii(SubSeq(t, 1, FirstBlank(t) - 1)),
      rest |-> TrimAscii(SubSeq(t, FirstBlank(t), Len(t)))]

\* splitn(2) at the first blank, which is dropped; both parts are trimmed.
SplitN(args) ==
  [head |-> TrimAscii(SubSeq(args, 1, FirstBlank(args) - 1)),
   rest |-> TrimAscii(SubSeq(args, FirstBlank(args) + 1, Len(args)))]

\* `app save` and `storage write` cut `rest` once more, and only where it
\* has a blank.
NameAndText(rest) ==
  [name |-> TrimAscii(SubSeq(rest, 1, FirstBlank(rest) - 1)),
   text |-> TrimAscii(SubSeq(rest, FirstBlank(rest), Len(rest)))]

-----------------------------------------------------------------------------

(***************************************************************************)
(* The same told by words: a word is a longest run of characters without a *)
(* blank, and the rest of a line after some of its words is what lies      *)
(* between the next word and the last.                                     *)
(***************************************************************************)
WordStarts(s) == {i \in Filled(s) : i = 1 \/ Blank(s[i - 1])}
WordEnds(s) == {i \in Filled(s) : i = Len(s) \/ Blank(s[i + 1])}
NthOf(S, n) == CHOOSE i \in S : Cardinality({j \in S : j < i}) = n - 1

Words(s) == Cardinality(WordStarts(s))
Word(s, n) ==
  IF Words(s) < n THEN <<>>
  ELSE SubSeq(s, NthOf(WordStarts(s), n), NthOf(WordEnds(s), n))
FromWord(s, n) ==
  IF Words(s) < n THEN <<>>
  ELSE SubSeq(s, NthOf(WordStarts(s), n), Max(WordEnds(s)))

=============================================================================
