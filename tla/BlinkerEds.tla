------------------------------ MODULE BlinkerEds ------------------------------
(***************************************************************************)
(* The other build of the app (CFE_EDS_ENABLED_BUILD): the dispatcher is   *)
(* blinker_app_eds_dispatch.c, which leaves the choice of the handler to   *)
(* code generated from eds/blinker_app.xml and looks at its status.  All   *)
(* other files, and so all other actions, are those of BlinkerApp.         *)
(***************************************************************************)
EXTENDS AppContract, FiniteSets

CONSTANT MaxErrors   \* bound: how many errors are counted
ASSUME MaxErrorsAssumption == MaxErrors \in Nat

VARIABLE errorsSeen   \* the error events since the last RESET_INF or start

\* BLINKER_TC_DISPATCH_TABLE: the command codes with a handler; SEND_HK
\* has one, too.
EdsCodes == {"NOOP", "RESET_COUNTERS", "PROCESS", "DISPLAY_PARAM"}

\* EdsDispatch_BLINKER_APP_Application_Telecommand: what it finds wrong with
\* a packet.  It holds every packet against its type in the data sheet.
EdsStatus(m) ==
  IF m.mid \notin {"CMD", "SEND_HK"} THEN "UNKNOWN_MSG_ID"
  ELSE IF m.mid = "CMD" /\ m.cc \notin EdsCodes THEN "BAD_COMMAND_CODE"
  ELSE IF m.size # (IF m.mid = "CMD" THEN CmdSize(m.cc) ELSE "NoArgs") THEN "WRONG_MSG_LENGTH"
  ELSE "SUCCESS"

(***************************************************************************)
(* BLINKER_APP_TaskPipe: every status but success is an error.             *)
(***************************************************************************)
ErrorEvent(status) ==
  CASE status = "UNKNOWN_MSG_ID" -> Event("MID_ERR", "Invalid", <<>>)
    [] status = "WRONG_MSG_LENGTH" -> Event("CMD_LEN_ERR", "BadLength", <<>>)
    [] OTHER -> Event("CC_ERR", "Invalid", <<>>)

\* Mutated: as in the other dispatcher, a bad code is not counted.
EdsRejectUncounted(m) ==
  /\ Take(m, "RunLoop") /\ EdsStatus(m) # "SUCCESS"
  /\ ErrCounter' = IF EdsStatus(m) = "BAD_COMMAND_CODE" THEN ErrCounter
                                                       ELSE (ErrCounter + 1) % CmdWrap
  /\ Emit(ErrorEvent(EdsStatus(m)))
  /\ UNCHANGED <<CmdCounter, HkTlm, bankVars, tblVars>>

\* Mutated: what is rejected is counted as executed, too.
EdsRejectCountedTwice(m) ==
  /\ Take(m, "RunLoop") /\ EdsStatus(m) # "SUCCESS"
  /\ ErrCounter' = (ErrCounter + 1) % CmdWrap
  /\ CmdCounter' = (CmdCounter + 1) % CmdWrap
  /\ Emit(ErrorEvent(EdsStatus(m)))
  /\ UNCHANGED <<HkTlm, bankVars, tblVars>>

EdsReject(m) ==
  /\ Take(m, "RunLoop") /\ EdsStatus(m) # "SUCCESS"
  /\ ErrCounter' = (ErrCounter + 1) % CmdWrap
  /\ Emit(ErrorEvent(EdsStatus(m)))
  /\ UNCHANGED <<CmdCounter, HkTlm, bankVars, tblVars>>

\* A handler has returned an error after these outputs.  The repository does
\* not say whether the generated code passes the status on to TaskPipe; if so
\* it counts, like a command code that is not known.
HandlerFails(outputs) ==
  /\ \/ out' = outputs /\ UNCHANGED ErrCounter
     \/ /\ out' = Append(outputs, ErrorEvent("HandlerStatus"))
        /\ ErrCounter' = (ErrCounter + 1) % CmdWrap
  /\ UNCHANGED <<CmdCounter, HkTlm, bankVars, tblVars>>

\* ProcessCmd is the one handler of the table whose status may be an error.
EdsProcessCmd(m) ==
  /\ EdsStatus(m) = "SUCCESS" /\ Selects(m, "PROCESS")
  /\ \/ Take(m, "LogValues") /\ active # NoImage /\ Silent /\ UNCHANGED <<dataVars, tblVars>>
     \/ Take(m, "RunLoop") /\ HandlerFails(<<SysLog("GetAddressFailed", <<>>)>>)

EdsLogCrc ==
  /\ pc = "LogCrc" /\ pc' = "RunLoop"
  /\ \E crc \in {SysLog("Crc", <<active.Int1, active.Int2>>), SysLog("GetInfoFailed", <<>>)} :
       \/ out' = <<crc>> /\ UNCHANGED <<dataVars, tblVars>>
       \/ HandlerFails(<<crc, SysLog("ReleaseFailed", <<>>)>>)
  /\ UNCHANGED <<RunStatus, taskVars, busVars>>

EdsTaskPipe ==
  \E m \in Packets :
    \/ EdsReject(m) \/ EdsProcessCmd(m)
    \/ /\ EdsStatus(m) = "SUCCESS"
       /\ NoopCmd(m) \/ ResetCountersCmd(m) \/ DisplayParamCmd(m) \/ SendHkCmd(m)

EdsStep ==
  \/ AppInit \/ EnterLoop \/ LeaveLoop \/ ExitApp \/ ReceiveFails
  \/ EdsTaskPipe \/ LogValues \/ EdsLogCrc
  \/ Environment

\* The operator counts error events.
ErrorIds == {"MID_ERR", "CMD_LEN_ERR", "CC_ERR"}

CountErrors ==
  /\ errorsSeen' = IF Sent("RESET_INF")' \/ pc' = "Init" THEN 0
                   ELSE errorsSeen + Cardinality({k \in DOMAIN out' : out'[k].id \in ErrorIds})
  /\ errorsSeen' <= MaxErrors

EdsNext == EdsStep /\ CountErrors

EdsSpec == Init /\ errorsSeen = 0 /\ [][EdsNext]_<<vars, errorsSeen>>

(***************************************************************************)
(* Properties; ContractSafety of AppContract is checked of this build too. *)
(***************************************************************************)
\* Unlike with the other dispatcher, the error counter that a housekeeping
\* packet shows is the number of error events since the last reset or start,
\* modulo its width: each packet TaskPipe rejects counts once, and so does a
\* failure of ProcessCmd if and only if an event tells of it.
EdsTelemetryCountsErrors ==
  Sent("HK_TLM") => out[1].args[1] = errorsSeen % CmdWrap
================================================================================
