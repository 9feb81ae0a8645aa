------------------------------ MODULE CfeOutputs ------------------------------
(***************************************************************************)
(* Everything the blinker app lets the outside see goes through three cFE  *)
(* services: an event (CFE_EVS_SendEvent), a line in the system log        *)
(* (CFE_ES_WriteToSysLog) and a telemetry packet (CFE_SB_TransmitMsg).     *)
(* The services are not part of the repository; what the app hands them    *)
(* is.                                                                     *)
(*                                                                         *)
(* out is the sequence of outputs of the LAST step, empty when the step    *)
(* produced none.  text tells apart events that the code sends under one   *)
(* event id, and args are the numbers printed in the text.                 *)
(***************************************************************************)
EXTENDS Naturals, Sequences

VARIABLE out

EventIds ==
  {"INIT_INF", "CC_ERR", "NOOP_INF", "RESET_INF", "MID_ERR", "CMD_LEN_ERR",
   "PIPE_ERR", "VALUE_INF", "CR_PIPE_ERR", "SUB_HK_ERR", "SUB_CMD_ERR",
   "TABLE_REG_ERR", "REPORT_SPEC_BLINKER_INF"}

Texts ==
  {"Initialized", "EvsRegisterFailed", "CreatePipeFailed", "SubscribeFailed", "RegisterFailed",
   "PipeReadError", "Invalid", "BadLength", "Noop", "ResetCounters", "Value", "HkTlm",
   "GetAddressFailed", "Values", "Crc", "GetInfoFailed", "ReleaseFailed", "Untracked",
   "AllReset", "AllEnabled", "AllDisabled", "Reset", "Report", "Enabled", "Disabled", "Swapped"}

Output == [id : EventIds \cup {"HK_TLM", "SYSLOG"}, text : Texts, args : Seq(Nat)]

Event(eid, text, args) == [id |-> eid, text |-> text, args |-> args]
SysLog(text, args) == [id |-> "SYSLOG", text |-> text, args |-> args]

Emit(o) == out' = <<o>>
Silent == out' = <<>>

\* The last step produced an output with this id, or with this text.
Sent(id) == \E k \in DOMAIN out : out[k].id = id
Said(text) == \E k \in DOMAIN out : out[k].text = text
================================================================================
