----------------------------- MODULE MCKeyboard -----------------------------
(***************************************************************************)
(* A buffer for two characters and four scan codes: enough to start an     *)
(* application and then fill the buffer, drop a character and wrap around. *)
(***************************************************************************)
EXTENDS Keyboard
=============================================================================
