------------------------------ MODULE AppBuild ------------------------------
(***************************************************************************)
(* strip_fences() and generate_and_build() of daemon/src/main.rs: what the *)
(* LLM answered goes between two markers of userspace/src/main.rs, make    *)
(* builds it, and the binary is read back.                                 *)
(*                                                                         *)
(* A text is a sequence of lines: "fence" (begins with three backquotes),  *)
(* "fn" (a function's head), "close" (only a '}'), "open" (ends with '{'), *)
(* "block" (ends with '}'), "blank", "START" and "END" (the markers), and  *)
(* any others are statements.  A binary is the text it was built from.     *)
(***************************************************************************)
EXTENDS Integers, SequencesExt

CONSTANTS
  Mains,      \* what userspace/src/main.rs may be when the daemon starts
  Responses,  \* what the LLM may answer
  MaxAsked    \* bound of the model on requests

ASSUME BuildAssumption ==
  Mains \subseteq Seq(STRING) /\ Responses \subseteq Seq(STRING) /\ MaxAsked \in Nat

VARIABLES
  main,      \* userspace/src/main.rs
  binary,    \* target/karnelos-user/debug/karnelos-user
  response,  \* what the LLM answered last
  reply,     \* what generate_and_build() returned, a binary or an error
  asked,     \* requests so far
  original   \* history: the main.rs that the daemon started with

buildVars == <<main, binary, response, reply, asked, original>>

Failure(kind) == [ok |-> FALSE, text |-> <<kind>>]
Delivered(text) == [ok |-> TRUE, text |-> text]

\* The lines of a text at the places in S.
Keep(text, S) ==
  FlattenSeq([i \in DOMAIN text |-> IF i \in S THEN <<text[i]>> ELSE <<>>])

\* str::trim() on whole lines.
Trim(text) ==
  LET kept == {i \in DOMAIN text : text[i] # "blank"}
  IN IF kept = {} THEN <<>> ELSE SubSeq(text, Min(kept), Max(kept))

\* A '}' at the end of the last line is cut off.
TrimBraces(text) ==
  IF text # <<>> /\ Last(text) = "block" THEN Append(Front(text), "open") ELSE text

\* The lines that the loop keeps.  The variant takes the lines before the
\* first fence, and between two blocks, for code.
FencesBefore(text, i) == Cardinality({j \in 1 .. i - 1 : text[j] = "fence"})
InFence_Not(text, i) == FencesBefore(text, i) % 2 = 0
InFence(text, i) == FencesBefore(text, i) % 2 = 1

StripFences(body) ==
  LET inside == {i \in DOMAIN body :
                   InFence(body, i) /\ body[i] \notin {"fence", "fn", "close"}}
      kept == TrimBraces(Trim(Keep(body, inside)))
  IN IF body = <<>> \/ body[1] # "fence" \/ kept = <<>> THEN body ELSE kept

\* existing.find(): the first of the lines.
HasMarkers(text) == Contains(text, "START") /\ Contains(text, "END")
FirstOf(text, line) == Min({i \in DOMAIN text : text[i] = line})
UpToStart(text) == SubSeq(text, 1, FirstOf(text, "START"))
FromEnd(text) == SubSeq(text, FirstOf(text, "END"), Len(text))

\* What is returned after make(1) has ended with `ok`; the variant does not
\* look at its exit status.
Built_StatusIgnored(ok, file) == Delivered(file)
Built(ok, file) == IF ok THEN Delivered(file) ELSE Failure("BUILD_FAILED")

Asking == asked < MaxAsked /\ asked' = asked + 1 /\ UNCHANGED original

\* call_llm() fails: the error is the answer.
LlmFails ==
  /\ Asking
  /\ reply' = Failure("ERROR")
  /\ UNCHANGED <<main, binary, response>>

\* It answers with nothing, or main.rs lacks a marker: `?` ends the connection.
NothingToBuild ==
  /\ Asking
  /\ \E r \in Responses :
       /\ response' = r
       /\ \/ StripFences(Trim(r)) = <<>> /\ reply' = Failure("too short")
          \/ /\ StripFences(Trim(r)) # <<>> /\ ~HasMarkers(main)
             /\ reply' = Failure("dropped")
  /\ UNCHANGED <<main, binary>>

\* The body replaces the old one; make succeeds or not, and what it built may
\* be too large.
Build ==
  /\ Asking
  /\ HasMarkers(main)
  /\ \E r \in Responses, ok \in BOOLEAN :
       LET body == StripFences(Trim(r)) IN
       /\ body # <<>>
       /\ response' = r
       /\ main' = UpToStart(main) \o body \o FromEnd(main)
       /\ binary' = IF ok THEN main' ELSE binary
       /\ \/ reply' = Built(ok, binary')
          \/ ok /\ reply' = Failure("too large")

BuildInit ==
  /\ main \in Mains /\ original = main
  /\ binary = <<>> /\ response = <<>>
  /\ reply = Failure("none") /\ asked = 0

BuildNext == LlmFails \/ NothingToBuild \/ Build

BuildSpec == BuildInit /\ [][BuildNext]_buildVars

-----------------------------------------------------------------------------

Statement(line) == line \notin {"fence", "fn", "close", "open", "block", "blank"}
Statements(text) == Keep(text, {i \in DOMAIN text : Statement(text[i])})

\* The fences of the answer that enclose line i, told from behind: the next
\* fence closes its block.
Enclosed(text, i) ==
  LET next == {j \in DOMAIN text : j > i /\ text[j] = "fence"}
  IN Cardinality({j \in DOMAIN text : text[j] = "fence"}) % 2 # Cardinality(next) % 2

Once(text, line) == Cardinality({i \in DOMAIN text : text[i] = line}) = 1

\* A binary that `gen` gets is made of the answer to this very request, within
\* the main.rs that the daemon started with - whatever earlier requests left
\* there, and although their builds may have failed.  Of an answer in fences it
\* has each statement between them, in order, and none around them, unless
\* nothing is left of what they enclose: then the answer is taken as it is.  (As
\* long as no answer left an end marker of its own in main.rs.)
BuiltFromAnswer ==
  reply.ok /\ Once(main, "END") =>
    LET before == UpToStart(original)
        after == FromEnd(original)
        body == SubSeq(reply.text, Len(before) + 1, Len(reply.text) - Len(after))
        fenced == /\ Trim(response)[1] = "fence"
                  /\ \E i \in DOMAIN response :
                       /\ Enclosed(response, i)
                       /\ response[i] \notin {"fence", "fn", "close", "blank"}
        inside == {i \in DOMAIN response : fenced => Enclosed(response, i)}
    IN /\ reply.text = before \o body \o after
       /\ Statements(body) = Statements(Keep(response, inside))

-----------------------------------------------------------------------------

\* daemon/src/main.rs:145 - "Replace the body between the markers": all of it,
\* also where the old body has a marker in it.
OldBodyReplaced ==
  reply.ok => Len(main) <= Len(original) + Len(response)

=============================================================================
