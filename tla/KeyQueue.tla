------------------------------ MODULE KeyQueue ------------------------------
(***************************************************************************)
(* What the keyboard driver promises its readers: a queue of characters,   *)
(* first in first out, that keeps what it holds and drops a new character  *)
(* when it is full.                                                        *)
(***************************************************************************)
EXTENDS Naturals, Sequences

CONSTANTS Chars, Capacity, NoChar

VARIABLES
  queue,
  got  \* what the last read returned

Type(c) ==
  /\ queue' = IF Len(queue) < Capacity THEN Append(queue, c) ELSE queue
  /\ UNCHANGED got

Take ==
  IF queue = <<>>
  THEN got' = NoChar /\ UNCHANGED queue
  ELSE got' = Head(queue) /\ queue' = Tail(queue)

Init == queue = <<>> /\ got = NoChar

Next == (\E c \in Chars : Type(c)) \/ Take

Spec == Init /\ [][Next]_<<queue, got>>
=============================================================================
