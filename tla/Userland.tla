------------------------------ MODULE Userland ------------------------------
(***************************************************************************)
(* A user program, part by part: how the daemon builds it, how its image   *)
(* is loaded, its heap, and what the applications compute.  The parts      *)
(* share no state: `part` is the one that a behaviour shows.               *)
(***************************************************************************)
EXTENDS ElfImage, UserHeap, TextStore, Calculator, AppBuild

VARIABLE part

vars == <<part, imageVars, heapVars, textVars, calcVars, buildVars>>

Init ==
  /\ part \in {"image", "heap", "text", "calculator", "build"}
  /\ ImageInit /\ (part # "image" => image = CHOOSE i \in Images : TRUE)
  /\ HeapInit
  /\ TextInit /\ (part # "text" => app = "todo" /\ file = <<>>)
  /\ CalcInit
  /\ BuildInit /\ (part # "build" => main = <<>>)

Next ==
  /\ UNCHANGED part
  /\ \/ /\ part = "image" /\ ImageNext
        /\ UNCHANGED <<heapVars, textVars, calcVars, buildVars>>
     \/ /\ part = "heap" /\ HeapNext
        /\ UNCHANGED <<imageVars, textVars, calcVars, buildVars>>
     \/ /\ part = "text" /\ TextNext
        /\ UNCHANGED <<imageVars, heapVars, calcVars, buildVars>>
     \/ /\ part = "calculator" /\ Evaluate
        /\ UNCHANGED <<imageVars, heapVars, textVars, buildVars>>
     \/ /\ part = "build" /\ BuildNext
        /\ UNCHANGED <<imageVars, heapVars, textVars, calcVars>>

Spec == Init /\ [][Next]_vars

=============================================================================
