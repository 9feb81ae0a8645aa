----------------------------- MODULE MCGroundView -----------------------------
(***************************************************************************)
(* A small instance of GroundView: the commands that concern the counters  *)
(* and the table, well and ill formed.                                     *)
(***************************************************************************)
EXTENDS GroundView

Cmd(cc, size) == [mid |-> "CMD", cc |-> cc, size |-> size, n1 |-> 0, n2 |-> 0]

MCCommands ==
  {Cmd(cc, CmdSize(cc)) : cc \in {"NOOP", "RESET_COUNTERS", "DISPLAY_PARAM", "PROCESS"}}
    \cup {Cmd("RESET_COUNTERS", "TwoU16"), Cmd("UNKNOWN", "NoArgs")}

\* Two images that pass the validation and one that does not.
MCImages == {[Int1 |-> 0, Int2 |-> 1], [Int1 |-> 1, Int2 |-> 0], [Int1 |-> 2, Int2 |-> 0]}
================================================================================
