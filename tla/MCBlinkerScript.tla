---------------------------- MODULE MCBlinkerScript ----------------------------
(***************************************************************************)
(* The instance of BlinkerScript: eight blinkers, as many as the app is    *)
(* built with, and the commands of the script.                             *)
(***************************************************************************)
EXTENDS BlinkerScript

MCCommands == SessionCommands
MCImages == {[Int1 |-> 1, Int2 |-> 1]}
================================================================================
