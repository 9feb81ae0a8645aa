------------------------------ MODULE GroundView ------------------------------
(***************************************************************************)
(* What an operator on the ground can work out from the app's outputs      *)
(* alone.  The variables of this module record it; they follow out, the    *)
(* outputs of each step, and the start of the app, and influence nothing.  *)
(***************************************************************************)
EXTENDS BlinkerApp

CONSTANT MaxSeen   \* bound: how many events of a kind are counted
ASSUME MaxSeenAssumption == MaxSeen \in Nat

VARIABLES
  noopsSeen,    \* NOOP_INF events since the last RESET_INF or start
  errorsSeen,   \* CMD_LEN_ERR events since then
  valuesSeen    \* the numbers of the last table values logged

seenVars == <<noopsSeen, errorsSeen, valuesSeen>>

GroundInit == Init /\ noopsSeen = 0 /\ errorsSeen = 0 /\ valuesSeen = <<>>

Cleared == Sent("RESET_INF") \/ pc = "Init"

Observe ==
  /\ noopsSeen' = IF Cleared' THEN 0 ELSE IF Sent("NOOP_INF")' THEN noopsSeen + 1 ELSE noopsSeen
  /\ errorsSeen' = IF Cleared' THEN 0 ELSE IF Sent("CMD_LEN_ERR")' THEN errorsSeen + 1 ELSE errorsSeen
  /\ valuesSeen' = IF Said("Values")' THEN out'[1].args ELSE valuesSeen
  /\ noopsSeen' + errorsSeen' <= MaxSeen

GroundNext == Next /\ Observe

GroundSpec == GroundInit /\ [][GroundNext]_<<vars, seenVars>>

\* A housekeeping packet tells the operator exactly how many NOOPs were
\* executed and how many commands had a bad length since the counters were
\* last reset, modulo the counters' width, whichever commands and restarts
\* came in between (BLINKER_APP_SendHkCmd, ResetCountersCmd and Init).
TelemetryMatchesEvents ==
  Sent("HK_TLM") => out[1].args = <<errorsSeen % CmdWrap, noopsSeen % CmdWrap>>

\* The CRC that ProcessCmd logs is the CRC of the table whose values it has
\* logged before, and that table is valid: no load becomes active between
\* BLINKER_APP_ProcessCmd's GetAddress and ReleaseAddress.
ProcessLogsOneTable ==
  Said("Crc") => out[1].args = valuesSeen /\ valuesSeen[1] <= TblElement1Max
================================================================================
