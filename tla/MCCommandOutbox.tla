-------------------------- MODULE MCCommandOutbox --------------------------
(***************************************************************************)
(* Instances of CommandOutbox for TLC.                                     *)
(***************************************************************************)
EXTENDS CommandOutbox, TLC

CONSTANTS c1, c2

TwoSteers == c1 :> "control_message" @@ c2 :> "control_message"
=============================================================================
