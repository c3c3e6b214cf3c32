----------------------------- MODULE MCCommander -----------------------------
(* A serial port and an infrared receiver, two keys, and a list that holds   *)
(* two commands.                                                             *)
EXTENDS Commander

CONSTANTS forward, unknown

MCKeys == forward :> 17 @@ unknown :> 16
=============================================================================
