----------------------------- MODULE MCElfStream -----------------------------
(***************************************************************************)
(* A chunk of two bytes and binaries of one to ten bytes: less than a      *)
(* chunk, one chunk, several, with and without a rest, and sizes of one    *)
(* and two digits.  Their bytes may be digits and newlines, which a        *)
(* receiver that lost its place takes for a size.                          *)
(***************************************************************************)
EXTENDS ElfStream

MCElves ==
  {<<"x">>, <<"x", "1">>, <<"1", "nl", "x", "2">>, <<"nl", "3", "x", "nl", "1">>,
   <<"1", "0", "x", "x", "x", "x", "x", "x", "x", "nl">>}
MCDecimal == [n \in 1 .. MaxElf |->
  IF n < 10 THEN <<Digit(n)>> ELSE <<Digit(n \div 10), Digit(n % 10)>>]
MCErrorLines == {<<"x">>, <<"x", "4", "x", "0">>}
MCTroubles == {{}, {"profile", "errors", "impatient", "silence", "overrun"}}
=============================================================================
