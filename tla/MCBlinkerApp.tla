----------------------------- MODULE MCBlinkerApp -----------------------------
(***************************************************************************)
(* Small instances of BlinkerApp for TLC: which packets the rest of the    *)
(* system sends, and which table images there are.                         *)
(***************************************************************************)
EXTENDS AppContract

Packet(mid, cc, size, n1, n2) == [mid |-> mid, cc |-> cc, size |-> size, n1 |-> n1, n2 |-> n2]
Cmd(cc, n1, n2) == Packet("CMD", cc, CmdSize(cc), n1, n2)

\* A packet of a foreign message id.
Stray == Tick("STRAY")

\* Commands for every operation of the contract, which make every variable of
\* the data leave its initial value, and packets that are rejected.
LifeCommands ==
  {Cmd(cc, 0, 0) : cc \in {"NOOP", "RESET_COUNTERS", "DISPLAY_PARAM", "PROCESS", "ENABLE_ALL"}}
    \cup {Cmd(cc, 1, 0) : cc \in {"ENABLE_SPEC", "DISABLE_SPEC", "REPORT_SPEC", "RESET_SPEC"}}
    \cup {Cmd("SWAP", 0, 1)}
    \cup {Packet("CMD", "NOOP", "TwoU16", 0, 0), Packet("CMD", "UNKNOWN", "NoArgs", 0, 0), Stray}

\* Commands enough to keep the pipe full, one of them of several steps.
BusyCommands == {Cmd("NOOP", 0, 0), Cmd("PROCESS", 0, 0)}

\* An image that passes the validation at the bound, and one just beyond it.
MCImages == {[Int1 |-> 1, Int2 |-> 1], [Int1 |-> 2, Int2 |-> 0]}
================================================================================
