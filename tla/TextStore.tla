----------------------------- MODULE TextStore -----------------------------
(***************************************************************************)
(* The applications todo, calendar and editor of userspace/src/bin: lists  *)
(* of entries or lines, kept as one text in a file that system call 5 cuts *)
(* after Limit bytes.  Every command of todo and calendar reads the text,  *)
(* changes the list and writes all of it back.                             *)
(*                                                                         *)
(* A text is a sequence of characters; a word in a command line, such as   *)
(* "add", stands for its letters.                                          *)
(***************************************************************************)
EXTENDS ShellLine

CONSTANTS
  Limit,     \* 4096, of the file and of the applications' buffers
  OldTexts,  \* what another application may have left in the file
  TypedKeys, \* TypedKeys[app]: the key sequences typed before Enter
  MaxLines   \* bound of the model on what is typed

VARIABLES
  app,     \* which of the applications runs
  file,    \* its file
  lines,   \* the editor's lines
  typed,   \* how many command lines were typed
  wanted,  \* history: the list as the user left it when it was last stored
  stored   \* history: whether it has been

textVars == <<app, file, lines, typed, wanted, stored>>

NL == "nl"
Colon == ":"

\* Characters are strings; Enter ends what is typed and is no part of it.
ASSUME TextAssumption ==
  /\ Limit \in Nat /\ MaxLines \in Nat
  /\ OldTexts \subseteq Seq(STRING)
  /\ DOMAIN TypedKeys \subseteq {"todo", "calendar", "editor"}
  /\ \A a \in DOMAIN TypedKeys : TypedKeys[a] \subseteq Seq(STRING \ {NL})

General == <<"general">>
Number(s) ==
  IF Len(s) = 1 /\ \E n \in 1 .. 9 : ToString(n) = s[1]
  THEN CHOOSE n \in 1 .. 9 : ToString(n) = s[1]
  ELSE 0

\* read_line(): backspace takes back the last character.
TakeKey(s, k) == IF k # "BS" THEN Append(s, k) ELSE IF s = <<>> THEN s ELSE Front(s)
ReadLine(keys) == FoldLeft(TakeKey, <<>>, keys)

\* str::lines(): a newline ends a line, and so does the end of the text.
TakeChar(t, c) ==
  IF c = NL THEN [lines |-> Append(t.lines, t.line), line |-> <<>>]
  ELSE [t EXCEPT !.line = Append(@, c)]
LinesOf(text) ==
  LET t == FoldLeft(TakeChar, [lines |-> <<>>, line |-> <<>>], text)
  IN IF t.line = <<>> THEN t.lines ELSE Append(t.lines, t.line)

\* sw() and storage_write(), by system call 5.
Cut(text) == SubSeq(text, 1, Min({Len(text), Limit}))

-----------------------------------------------------------------------------

\* An entry: whether it is done, its category or date, its description.
Entry(done, head, text) == [done |-> done, head |-> head, text |-> text]
Mark(done) == <<"[", IF done THEN "x" ELSE " ", "]">>

\* The first place of a separator, its length, and the two parts.
Parts(s, sep) ==
  LET at == {i \in 1 .. Len(s) + 1 - Len(sep) : SubSeq(s, i, i + Len(sep) - 1) = sep}
  IN [found |-> at # {},
      head |-> IF at = {} THEN <<>> ELSE TrimAscii(SubSeq(s, 1, Min(at) - 1)),
      text |-> IF at = {} THEN s ELSE TrimAscii(SubSeq(s, Min(at) + Len(sep), Len(s)))]

\* parse_todos() on one line: an entry or none; and the same for a version that
\* expects a mark only where an entry is done.
ParseTodo_DoneOnly(line) ==
  LET t == TrimAscii(line)
      done == IsPrefix(Mark(TRUE), t)
      p == Parts(TrimAscii(IF done THEN SubSeq(t, 4, Len(t)) ELSE t), <<Colon>>)
  IN IF t = <<>> THEN <<>> ELSE <<Entry(done, IF p.found THEN p.head ELSE General, p.text)>>
ParseTodo(line) ==
  LET t == TrimAscii(line)
      marked == IsPrefix(Mark(TRUE), t) \/ IsPrefix(Mark(FALSE), t)
      p == Parts(TrimAscii(IF marked THEN SubSeq(t, 4, Len(t)) ELSE t), <<Colon>>)
  IN IF t = <<>> THEN <<>>
     ELSE <<Entry(IsPrefix(Mark(TRUE), t), IF p.found THEN p.head ELSE General, p.text)>>

\* parse_events() on one line: a line without ": " is no event.
ParseEvent(line) ==
  LET p == Parts(TrimAscii(line), <<Colon, " ">>)
  IN IF p.found THEN <<Entry(FALSE, p.head, p.text)>> ELSE <<>>

ParseLine(line) == IF app = "todo" THEN ParseTodo(line) ELSE ParseEvent(line)
Parse(text) ==
  LET all == LinesOf(text) IN FlattenSeq([n \in DOMAIN all |-> ParseLine(all[n])])

\* fmt_todos() and fmt_events().
FmtEntry(e) ==
  (IF app = "todo" THEN Append(Mark(e.done), " ") ELSE <<>>)
    \o e.head \o <<Colon, " ">> \o e.text \o <<NL>>
Fmt(entries) == FlattenSeq([n \in DOMAIN entries |-> FmtEntry(entries[n])])

\* sw(): the list that the user sees from now on is meant to be `entries`.
Store(entries) ==
  /\ file' = Cut(Fmt(entries)) /\ wanted' = entries /\ stored' = TRUE
  /\ UNCHANGED lines

-----------------------------------------------------------------------------

Command == {SplitN(TrimAscii(ReadLine(keys))) : keys \in TypedKeys[app]}
Typing(apps) == app \in apps /\ typed < MaxLines /\ typed' = typed + 1 /\ UNCHANGED app

\* `add <category> <text>`, `add <text>`; a date is not optional.
Add ==
  /\ Typing({"todo", "calendar"})
  /\ \E c \in Command :
       /\ c.head = <<"add">> /\ c.rest # <<>>
       /\ app = "calendar" => HasBlank(c.rest)
       /\ LET p == SplitN(c.rest)
          IN Store(Append(Parse(file),
               IF HasBlank(c.rest) THEN Entry(FALSE, p.head, p.rest)
               ELSE Entry(FALSE, General, c.rest)))

\* `today <text>`.
Today ==
  /\ Typing({"calendar"})
  /\ \E c \in Command :
       /\ c.head = <<"today">>
       /\ Store(Append(Parse(file),
            Entry(FALSE, <<"today">>, IF c.rest = <<>> THEN <<"Reminder">> ELSE c.rest)))

\* `done <n>` and `del <n>`, by the numbers that `list` shows.
Done ==
  /\ Typing({"todo"})
  /\ \E c \in Command :
       /\ c.head = <<"done">>
       /\ Number(c.rest) \in DOMAIN Parse(file)
       /\ Store([Parse(file) EXCEPT ![Number(c.rest)].done = TRUE])

Del ==
  /\ Typing({"todo", "calendar"})
  /\ \E c \in Command :
       /\ c.head = <<"del">>
       /\ Number(c.rest) \in DOMAIN Parse(file)
       /\ Store(RemoveAt(Parse(file), Number(c.rest)))

-----------------------------------------------------------------------------

\* editor: `:i <n> <text>`, `:r <n> <text>` and `:d <n>`.
Edit ==
  /\ Typing({"editor"})
  /\ \E c \in Command :
       LET n == Number(SubSeq(c.rest, 1, FirstBlank(c.rest) - 1))
           text == SubSeq(c.rest, FirstBlank(c.rest) + 1, Len(c.rest))
       IN \/ /\ c.head = <<":i">> /\ HasBlank(c.rest)
             /\ n > 0 /\ n <= Len(lines) + 1
             /\ lines' = InsertAt(lines, n, text)
          \/ /\ c.head = <<":r">> /\ HasBlank(c.rest)
             /\ n \in DOMAIN lines
             /\ lines' = [lines EXCEPT ![n] = text]
          \/ /\ c.head = <<":d">>
             /\ Number(c.rest) \in DOMAIN lines
             /\ lines' = RemoveAt(lines, Number(c.rest))
  /\ UNCHANGED <<file, wanted, stored>>

\* save_lines(): no newline behind the last line, and an off-by-one of it.
Join_TwoShort(ls) ==
  FlattenSeq([n \in DOMAIN ls |-> IF n < Len(ls) - 1 THEN Append(ls[n], NL) ELSE ls[n]])
Join(ls) ==
  FlattenSeq([n \in DOMAIN ls |-> IF n < Len(ls) THEN Append(ls[n], NL) ELSE ls[n]])

Save ==
  /\ Typing({"editor"})
  /\ \E c \in Command : c.head \in {<<":w">>, <<":save">>}
  /\ file' = Cut(Join(lines)) /\ wanted' = lines /\ stored' = TRUE
  /\ UNCHANGED lines

\* `:q`, and the editor started again on the same file.
Reopen ==
  /\ Typing({"editor"})
  /\ \E c \in Command : c.head = <<":q">>
  /\ lines' = LinesOf(file)
  /\ UNCHANGED <<file, wanted, stored>>

-----------------------------------------------------------------------------

TextInit ==
  /\ app \in DOMAIN TypedKeys
  /\ file \in OldTexts
  /\ lines = IF app = "editor" THEN LinesOf(file) ELSE <<>>
  /\ typed = 0
  /\ wanted = <<>> /\ stored = FALSE

TextNext == Add \/ Today \/ Done \/ Del \/ Edit \/ Save \/ Reopen

TextSpec == TextInit /\ [][TextNext]_textVars

-----------------------------------------------------------------------------

\* An entry that lies within the limit, and the separator of todo in no
\* category up to it.
Intact(n) ==
  /\ Len(Fmt(SubSeq(wanted, 1, n))) <= Limit
  /\ app = "todo" => \A m \in 1 .. n : ~Contains(wanted[m].head, Colon)

\* What todo and calendar stored is what they show afterwards: same text, same
\* number, same category or date, done or not.  (What reaches behind the limit
\* is cut; a category with a ':' is read back as a shorter one.)
EntriesReadBack ==
  stored /\ app \in {"todo", "calendar"} =>
    /\ Len(Parse(file)) <= Len(wanted)
    /\ \A n \in DOMAIN wanted :
         Intact(n) => n \in DOMAIN Parse(file) /\ Parse(file)[n] = wanted[n]

\* The editor, started again after ":w", shows the lines it had - within the
\* limit, and but for an empty line at the end, which the format cannot tell.
EditorReadsBack ==
  stored /\ app = "editor" =>
    \/ LinesOf(file) = wanted
    \/ Len(Join(wanted)) > Limit
    \/ wanted # <<>> /\ Last(wanted) = <<>>

-----------------------------------------------------------------------------

\* editor.rs:87 - "Saved {} lines".
SavedMeansSaved == stored /\ app = "editor" => LinesOf(file) = wanted

\* todo.rs:68 - "add <cat> <desc>".
CategoriesReadBack ==
  stored /\ app = "todo" /\ Len(Fmt(wanted)) <= Limit => Parse(file) = wanted

=============================================================================
