----------------------------- MODULE GenService -----------------------------
(***************************************************************************)
(* What `gen` promises the user of the shell: every request gets one       *)
(* binary, built after it was made and for it alone, and no binary comes   *)
(* unasked.                                                                *)
(***************************************************************************)
CONSTANT Elves

VARIABLES
  state, \* "idle", "asked", "built"
  built, \* what the last build made
  kept   \* the binary that the shell runs

Ask ==
  /\ state = "idle"
  /\ state' = "asked"
  /\ UNCHANGED <<built, kept>>

Build ==
  /\ state = "asked"
  /\ state' = "built"
  /\ built' \in Elves
  /\ UNCHANGED kept

Deliver ==
  /\ state = "built"
  /\ state' = "idle"
  /\ kept' = built
  /\ UNCHANGED built

Init == state = "idle" /\ built = <<>> /\ kept = <<>>

Next == Ask \/ Build \/ Deliver

Spec == Init /\ [][Next]_<<state, built, kept>>
=============================================================================
