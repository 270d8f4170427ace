----------------------------- MODULE MCKeyboard -----------------------------
(***************************************************************************)
(* Two keys of the host on a ring with room for one, two codes queued by   *)
(* the program and one other port access or pulse of port B.               *)
(***************************************************************************)
EXTENDS Keyboard

MCPortBWrites == {{2, 6, 7}, {}}

=============================================================================
