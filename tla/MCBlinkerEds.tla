----------------------------- MODULE MCBlinkerEds -----------------------------
(***************************************************************************)
(* A small instance of BlinkerEds: commands the data sheet knows, well and *)
(* ill formed, and one that only the other dispatcher knows.               *)
(***************************************************************************)
EXTENDS BlinkerEds

Cmd(cc, size) == [mid |-> "CMD", cc |-> cc, size |-> size, n1 |-> 0, n2 |-> 0]

MCCommands ==
  {Cmd(cc, CmdSize(cc)) : cc \in {"NOOP", "RESET_COUNTERS", "PROCESS", "DISPLAY_PARAM",
                                  "ENABLE_ALL"}}
    \cup {Cmd("PROCESS", "TwoU16")}

MCImages == {[Int1 |-> 0, Int2 |-> 1], [Int1 |-> 1, Int2 |-> 0], [Int1 |-> 2, Int2 |-> 0]}
================================================================================
