----------------------------- MODULE MCDocClaims -----------------------------
(***************************************************************************)
(* A small instance of DocClaims: the commands for all blinkers and one of *)
(* each other kind the claims are about.                                   *)
(***************************************************************************)
EXTENDS DocClaims

Cmd(cc) == [mid |-> "CMD", cc |-> cc, size |-> CmdSize(cc), n1 |-> 1, n2 |-> 0]

MCCommands ==
  {Cmd(cc) : cc \in {"NOOP", "DISPLAY_PARAM", "RESET_ALL", "ENABLE_ALL", "DISABLE_ALL",
                      "ENABLE_SPEC"}}

MCImages == {[Int1 |-> 1, Int2 |-> 1]}
================================================================================
