----------------------------- MODULE MCSession -----------------------------
(***************************************************************************)
(* Four letters.  Five bursts make `gen r` and `run`, or `app  save r r`,  *)
(* with Enter.  A line of nine characters wraps in ten columns, and the    *)
(* third line of output scrolls.                                           *)
(***************************************************************************)
EXTENDS Session

MCLetters == {"a", "s", "r", "c"}
MCKeys == {<<"a", " ">>, <<" ", "s", " ">>, <<"c", " ">>, <<"r">>, <<"r", " ">>, <<"BS">>, <<"CR">>}
MCCommand ==
  (<<"a">> :> "app") @@ (<<"s">> :> "storage") @@ (<<"c">> :> "gen") @@
  (<<"r">> :> "run") @@ (<<"r", "r">> :> "user") @@ (<<"r", "a">> :> "perf") @@
  (<<"r", "r", "a">> :> "echo") @@ (<<"r", "c">> :> "clear")
MCOldFiles == (<<"r">> :> "elf") @@ (<<"r", "r">> :> "text")
MCBanner == 1 :> <<"#", "#", "#">>
=============================================================================
