----------------------------- MODULE MCBankLedger -----------------------------
(***************************************************************************)
(* A small instance of BankLedger: every bank command on every blinker and *)
(* on the first number beyond the bank, and swaps of any two of these.     *)
(***************************************************************************)
EXTENDS BankLedger

Cmd(cc, n1, n2) == [mid |-> "CMD", cc |-> cc, size |-> CmdSize(cc), n1 |-> n1, n2 |-> n2]

MCCommands ==
  {Cmd(cc, 0, 0) : cc \in {"RESET_ALL", "ENABLE_ALL", "DISABLE_ALL"}}
    \cup {Cmd(cc, n, 0) : cc \in SpecCodes, n \in 0 .. TotalBlinkers}
    \cup {Cmd("SWAP", n1, n2) : n1, n2 \in 0 .. TotalBlinkers}

MCImages == {[Int1 |-> 1, Int2 |-> 1]}
================================================================================
