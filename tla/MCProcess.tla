------------------------------ MODULE MCProcess ------------------------------
(***************************************************************************)
(* Two entries per table.  The demo page and two image pages share the P1  *)
(* (0,0,0); the stack has its P2 and P1 to itself, as DEMO_BASE and        *)
(* USER_STACK_TOP have in the kernel.  One run takes at most ten frames.   *)
(***************************************************************************)
EXTENDS Process

MCIndex == {0, 1}
MCPages == {"code", "data", "far", "stack0", "stack1"}

At(a, b, c, d) == [level \in Levels |-> <<a, b, c, d>>[level + 1]]

MCWalk == [v \in MCPages |->
  CASE v = "code"   -> At(0, 0, 0, 0)
    [] v = "data"   -> At(0, 0, 0, 1)
    [] v = "far"    -> At(0, 0, 1, 0)
    [] v = "stack0" -> At(0, 1, 1, 0)
    [] v = "stack1" -> At(0, 1, 1, 1)]

MCImagePages == {"code", "data", "far"}
MCStackPages == <<"stack0", "stack1">>

\* Frame 3 lies among the frames that are free at boot.
MCReserved == {0, 1, 3}
Clean == {}
OldData == {5}
=============================================================================
