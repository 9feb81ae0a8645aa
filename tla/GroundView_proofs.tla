-------------------------- MODULE GroundView_proofs --------------------------
(***************************************************************************)
(* Proofs that what the ground works out from the app's outputs agrees     *)
(* with the app, for every width of the counters and set of packets.       *)
(***************************************************************************)
EXTENDS GroundView, BlinkerApp_proofs, Modulo_proofs

\* The app's counters are the ground's, but for their width; and ProcessCmd
\* still holds the table whose values it has logged.
CountsAgree ==
  /\ noopsSeen \in Nat /\ errorsSeen \in Nat
  /\ pc = "Init" => noopsSeen = 0 /\ errorsSeen = 0
  /\ pc # "Init" => /\ CmdCounter = noopsSeen % CmdWrap
                    /\ ErrCounter = errorsSeen % CmdWrap

ValuesAgree == pc = "LogCrc" => valuesSeen = <<active.Int1, active.Int2>>

GInv == IInv /\ CountsAgree /\ ValuesAgree /\ TelemetryMatchesEvents /\ ProcessLogsOneTable

LEMMA GroundInvInit == GroundInit => GInv
<1> SUFFICES ASSUME GroundInit PROVE GInv
  OBVIOUS
<1>1. IInv
  BY InvInit DEF GroundInit
<1>2. CountsAgree /\ ValuesAgree
  BY DEF GroundInit, Init, CountsAgree, ValuesAgree
<1>3. TelemetryMatchesEvents /\ ProcessLogsOneTable
  BY DEF GroundInit, Init, TelemetryMatchesEvents, ProcessLogsOneTable, Sent, Said
<1>4. QED BY <1>1, <1>2, <1>3 DEF GInv

\* A step of which the ground learns nothing about the counters or the table.
Unnoticed ==
  /\ \A id \in {"NOOP_INF", "RESET_INF", "CMD_LEN_ERR", "HK_TLM"} : ~ Sent(id)'
  /\ \A text \in {"Values", "Crc"} : ~ Said(text)'

\* Such a step of the running app, or of its environment.
Neutral ==
  /\ Unnoticed
  /\ UNCHANGED counterVars
  /\ pc' = "Init" <=> pc = "Init"
  /\ pc' = "LogCrc" => pc = "LogCrc" /\ active' = active

\* An output that tells nothing about them.
Neither(o) ==
  /\ o.id \notin {"NOOP_INF", "RESET_INF", "CMD_LEN_ERR", "HK_TLM"}
  /\ o.text \notin {"Values", "Crc"}

LEMMA UnnoticedOutputs ==
  ASSUME \/ out' = <<>>
         \/ \E o : out' = <<o>> /\ Neither(o)
         \/ \E o, p : out' = <<o, p>> /\ Neither(o) /\ Neither(p)
  PROVE  Unnoticed
<1>1. CASE out' = <<>>
  BY <1>1, NoOutput DEF Unnoticed
<1>2. ASSUME NEW o, out' = <<o>>, Neither(o) PROVE Unnoticed
  BY <1>2, OneOutput DEF Unnoticed, Neither
<1>3. ASSUME NEW o, NEW p, out' = <<o, p>>, Neither(o), Neither(p) PROVE Unnoticed
  <2>1. ASSUME NEW x
        PROVE  /\ Sent(x)' <=> (o.id = x \/ p.id = x)
               /\ Said(x)' <=> (o.text = x \/ p.text = x)
    BY <1>3, TwoOutputs
  <2>2. QED BY <1>3, <2>1 DEF Unnoticed, Neither
<1>4. QED BY <1>1, <1>2, <1>3

LEMMA NeutralKeeps ==
  ASSUME GInv, Observe, Neutral
  PROVE  CountsAgree' /\ ValuesAgree' /\ TelemetryMatchesEvents' /\ ProcessLogsOneTable'
<1>1. /\ noopsSeen' = IF pc = "Init" THEN 0 ELSE noopsSeen
      /\ errorsSeen' = IF pc = "Init" THEN 0 ELSE errorsSeen
      /\ valuesSeen' = valuesSeen
  BY DEF Observe, Cleared, Neutral, Unnoticed
<1>2. CountsAgree'
  BY <1>1 DEF GInv, CountsAgree, Neutral, counterVars
<1>3. ValuesAgree'
  BY <1>1 DEF GInv, ValuesAgree, Neutral
<1>4. TelemetryMatchesEvents' /\ ProcessLogsOneTable'
  BY DEF TelemetryMatchesEvents, ProcessLogsOneTable, Neutral, Unnoticed
<1>5. QED BY <1>2, <1>3, <1>4

LEMMA NeutralInit ==
  ASSUME CreatePipe \/ SubscribeAll \/ RegisterTable \/ LoadTable
  PROVE  Neutral
<1>1. Unnoticed
  BY UnnoticedOutputs
  DEF CreatePipe, SubscribeAll, SubscribeTo, RegisterTable, LoadTable, GiveUp, InitInf, Silent,
      Emit, Event, SysLog, Neither
<1>2. QED
  BY <1>1
  DEF CreatePipe, SubscribeAll, SubscribeTo, RegisterTable, LoadTable, GiveUp, Neutral, dataVars,
      counterVars

LEMMA NeutralLoop ==
  ASSUME EnterLoop \/ LeaveLoop \/ ExitApp \/ ReceiveFails
  PROVE  Neutral
<1>1. Unnoticed
  BY UnnoticedOutputs
  DEF EnterLoop, LeaveLoop, ExitApp, ReceiveFails, GiveUp, Silent, Emit, Event, Neither
<1>2. QED
  BY <1>1
  DEF EnterLoop, LeaveLoop, ExitApp, ReceiveFails, GiveUp, Neutral, dataVars, counterVars

LEMMA NeutralEnvironment ==
  ASSUME Environment, ~ Restart
  PROVE  Neutral
<1>1. Unnoticed /\ pc' = pc
  BY UnnoticedOutputs
  DEF Environment, GroundSends, RequestHk, RequestBlink, Send, TableCommand, RequestExit, Silent
<1>2. active' = active /\ UNCHANGED counterVars
  BY
  DEF Environment, GroundSends, RequestHk, RequestBlink, Send, TableCommand, TblLoadCmd,
      TblValidateCmd, TblActivateCmd, RequestExit, tblVars, dataVars, counterVars
<1>3. QED BY <1>1, <1>2 DEF Neutral

LEMMA NeutralHandler ==
  ASSUME NEW m,
         \/ RejectMessage(m) \/ DisplayParamCmd(m) \/ ProcessCmd(m)
         \/ BankCommand(m) \/ BlinkTick(m)
  PROVE  Neutral
<1>1. CASE RejectMessage(m) \/ DisplayParamCmd(m) \/ ProcessCmd(m) \/ BlinkTick(m)
  <2>1. Unnoticed
    BY <1>1, UnnoticedOutputs
    DEF RejectMessage, DisplayParamCmd, ProcessCmd, BlinkTick, Blink, Silent, Emit, Event, SysLog, Neither
  <2>2. QED
    BY <1>1, <2>1
    DEF RejectMessage, DisplayParamCmd, ProcessCmd, BlinkTick, Take, Neutral, dataVars, counterVars
<1>2. CASE BankCommand(m)
  <2>1. \E o : /\ out' = <<o>>
               /\ o.id \in {"REPORT_SPEC_BLINKER_INF", "CC_ERR"}
               /\ o.text \in {"AllReset", "AllEnabled", "AllDisabled", "Reset", "Report", "Enabled",
                              "Disabled", "Swapped", "Untracked"}
    BY <1>2
    DEF BankCommand, ResetAllBlinkersCmd, EnableAllBlinkersCmd, DisableAllBlinkersCmd,
        ResetSpecBlinkersCmd, ReportSpecBlinkersCmd, EnableSpecBlinkersCmd,
        DisableSpecBlinkersCmd, SwapBlinkerCountsCmd, Acknowledge, RefuseBlinker, Emit, Event
  <2>2. Unnoticed
    BY <2>1, UnnoticedOutputs DEF Neither
  <2>3. QED BY <1>2, <2>2 DEF BankCommand, Take, Neutral, counterVars
<1>3. QED BY <1>1, <1>2
\* Every step keeps the counts in agreement, and the table under ProcessCmd.
LEMMA GroundHandlers ==
  ASSUME GInv, Observe, TaskPipe
  PROVE  CountsAgree' /\ ValuesAgree' /\ TelemetryMatchesEvents' /\ ProcessLogsOneTable'
<1>1. PICK m \in Packets :
        \/ BadLength(m) \/ RejectMessage(m)
        \/ NoopCmd(m) \/ ResetCountersCmd(m) \/ DisplayParamCmd(m) \/ ProcessCmd(m)
        \/ BankCommand(m) \/ BlinkTick(m) \/ SendHkCmd(m)
  BY DEF TaskPipe
<1>2. /\ noopsSeen \in Nat /\ errorsSeen \in Nat
      /\ pc = "Receive" => /\ CmdCounter = noopsSeen % CmdWrap
                           /\ ErrCounter = errorsSeen % CmdWrap
  BY DEF GInv, CountsAgree
<1>3. /\ ((noopsSeen % CmdWrap) + 1) % CmdWrap = (noopsSeen + 1) % CmdWrap
      /\ ((errorsSeen % CmdWrap) + 1) % CmdWrap = (errorsSeen + 1) % CmdWrap
      /\ 0 % CmdWrap = 0
  BY <1>2, WrapAfterIncrement, ZeroRemainder, CmdWrapAssumption
<1>4. CASE NoopCmd(m)
  <2>1. /\ out' = <<Event("NOOP_INF", "Noop", <<>>)>>
        /\ pc = "Receive" /\ pc' = "RunLoop"
        /\ CmdCounter' = (CmdCounter + 1) % CmdWrap /\ ErrCounter' = ErrCounter
    BY <1>4 DEF NoopCmd, Take, Emit
  <2>2. /\ Sent("NOOP_INF")' /\ ~ Sent("RESET_INF")' /\ ~ Sent("CMD_LEN_ERR")' /\ ~ Sent("HK_TLM")'
        /\ ~ Said("Crc")'
    BY <2>1, OneOutput DEF Event
  <2>3. noopsSeen' = noopsSeen + 1 /\ errorsSeen' = errorsSeen
    BY <2>1, <2>2 DEF Observe, Cleared
  <2>4. QED
    BY <1>2, <1>3, <2>1, <2>2, <2>3
    DEF CountsAgree, ValuesAgree, TelemetryMatchesEvents, ProcessLogsOneTable
<1>5. CASE BadLength(m)
  <2>1. /\ out' = <<Event("CMD_LEN_ERR", "BadLength", <<>>)>>
        /\ pc = "Receive" /\ pc' = "RunLoop"
        /\ CmdCounter' = CmdCounter /\ ErrCounter' = (ErrCounter + 1) % CmdWrap
    BY <1>5 DEF BadLength, Take, Emit
  <2>2. /\ Sent("CMD_LEN_ERR")' /\ ~ Sent("RESET_INF")' /\ ~ Sent("NOOP_INF")' /\ ~ Sent("HK_TLM")'
        /\ ~ Said("Crc")'
    BY <2>1, OneOutput DEF Event
  <2>3. noopsSeen' = noopsSeen /\ errorsSeen' = errorsSeen + 1
    BY <2>1, <2>2 DEF Observe, Cleared
  <2>4. QED
    BY <1>2, <1>3, <2>1, <2>2, <2>3
    DEF CountsAgree, ValuesAgree, TelemetryMatchesEvents, ProcessLogsOneTable
<1>6. CASE ResetCountersCmd(m)
  <2>1. /\ out' = <<Event("RESET_INF", "ResetCounters", <<>>)>>
        /\ pc' = "RunLoop" /\ CmdCounter' = 0 /\ ErrCounter' = 0
    BY <1>6 DEF ResetCountersCmd, Take, Emit
  <2>2. Sent("RESET_INF")' /\ ~ Sent("HK_TLM")' /\ ~ Said("Crc")'
    BY <2>1, OneOutput DEF Event
  <2>3. noopsSeen' = 0 /\ errorsSeen' = 0
    BY <2>2 DEF Observe, Cleared
  <2>4. QED
    BY <1>3, <2>1, <2>2, <2>3
    DEF CountsAgree, ValuesAgree, TelemetryMatchesEvents, ProcessLogsOneTable
<1>7. CASE SendHkCmd(m)
  <2>1. /\ out' = <<[id |-> "HK_TLM", text |-> "HkTlm", args |-> <<ErrCounter, CmdCounter>>]>>
        /\ pc = "Receive" /\ pc' = "RunLoop"
        /\ CmdCounter' = CmdCounter /\ ErrCounter' = ErrCounter
    BY <1>7 DEF SendHkCmd, Take, Emit, counterVars
  <2>2. /\ ~ Sent("RESET_INF")' /\ ~ Sent("NOOP_INF")' /\ ~ Sent("CMD_LEN_ERR")' /\ ~ Said("Crc")'
        /\ out'[1].args = <<ErrCounter, CmdCounter>>
    BY <2>1, OneOutput
  <2>3. noopsSeen' = noopsSeen /\ errorsSeen' = errorsSeen
    BY <2>1, <2>2 DEF Observe, Cleared
  <2>4. QED
    BY <1>2, <2>1, <2>2, <2>3
    DEF CountsAgree, ValuesAgree, TelemetryMatchesEvents, ProcessLogsOneTable
<1>8. QED BY <1>1, <1>4, <1>5, <1>6, <1>7, NeutralHandler, NeutralKeeps

\* The steps of ProcessCmd that log.
LEMMA GroundLogs ==
  ASSUME GInv, Observe, LogValues \/ LogCrc
  PROVE  CountsAgree' /\ ValuesAgree' /\ TelemetryMatchesEvents' /\ ProcessLogsOneTable'
<1>1. CASE LogValues
  <2>1. /\ out' = <<SysLog("Values", <<active.Int1, active.Int2>>)>>
        /\ pc = "LogValues" /\ pc' = "LogCrc" /\ active' = active
        /\ CmdCounter' = CmdCounter /\ ErrCounter' = ErrCounter
    BY <1>1 DEF LogValues, Emit, dataVars, tblVars
  <2>2. /\ ~ Sent("RESET_INF")' /\ ~ Sent("NOOP_INF")' /\ ~ Sent("CMD_LEN_ERR")' /\ ~ Sent("HK_TLM")'
        /\ Said("Values")' /\ ~ Said("Crc")'
        /\ out'[1].args = <<active.Int1, active.Int2>>
    BY <2>1, OneOutput DEF SysLog
  <2>3. /\ noopsSeen' = noopsSeen /\ errorsSeen' = errorsSeen
        /\ valuesSeen' = <<active.Int1, active.Int2>>
    BY <2>1, <2>2 DEF Observe, Cleared
  <2>4. QED
    BY <2>1, <2>2, <2>3
    DEF GInv, CountsAgree, ValuesAgree, TelemetryMatchesEvents, ProcessLogsOneTable
<1>2. CASE LogCrc
  <2>1. /\ pc = "LogCrc" /\ pc' = "RunLoop"
        /\ CmdCounter' = CmdCounter /\ ErrCounter' = ErrCounter
    BY <1>2 DEF LogCrc, dataVars
  <2>2. /\ ~ Sent("RESET_INF")' /\ ~ Sent("NOOP_INF")' /\ ~ Sent("CMD_LEN_ERR")' /\ ~ Sent("HK_TLM")'
        /\ ~ Said("Values")'
        /\ Said("Crc")' => out'[1].args = <<active.Int1, active.Int2>>
    <3>1. PICK crc \in {SysLog("Crc", <<active.Int1, active.Int2>>), SysLog("GetInfoFailed", <<>>)} :
            out' \in {<<crc>>, <<crc, SysLog("ReleaseFailed", <<>>)>>}
      BY <1>2 DEF LogCrc
    <3>2. /\ crc.id = "SYSLOG" /\ crc.text \in {"Crc", "GetInfoFailed"}
          /\ crc.text = "Crc" => crc.args = <<active.Int1, active.Int2>>
      BY <3>1 DEF SysLog
    <3>3. CASE out' = <<crc>>
      BY <3>2, <3>3, OneOutput
    <3>4. CASE out' = <<crc, SysLog("ReleaseFailed", <<>>)>>
      <4>1. /\ out'[1] = crc
            /\ \A x : /\ Sent(x)' <=> (crc.id = x \/ "SYSLOG" = x)
                      /\ Said(x)' <=> (crc.text = x \/ "ReleaseFailed" = x)
        BY <3>4, TwoOutputs DEF SysLog
      <4>2. QED BY <3>2, <4>1
    <3>5. QED BY <3>1, <3>3, <3>4
  <2>3. noopsSeen' = noopsSeen /\ errorsSeen' = errorsSeen /\ valuesSeen' = valuesSeen
    BY <2>1, <2>2 DEF Observe, Cleared
  <2>4. valuesSeen = <<active.Int1, active.Int2>> /\ active.Int1 \in Nat /\ active.Int1 <= TblElement1Max
    <3>1. active # NoImage
      BY <2>1, LoopIsAcquired DEF GInv, IInv, Core, RunLoopHasResources, LoopSteps
    <3>2. active \in Image /\ TblValidationFunc(active)
      BY <3>1 DEF GInv, IInv, Core, TypeOK, TblTypeOK, Validated
    <3>3. active.Int1 \in Nat /\ active.Int1 <= TblElement1Max
      BY <3>2, TblElement1MaxAssumption DEF Image, TblValidationFunc
    <3>4. QED BY <2>1, <3>3 DEF GInv, ValuesAgree
  <2>5. ProcessLogsOneTable'
    BY <2>2, <2>3, <2>4 DEF ProcessLogsOneTable
  <2>6. QED
    BY <2>1, <2>2, <2>3, <2>5 DEF GInv, CountsAgree, ValuesAgree, TelemetryMatchesEvents
<1>3. QED BY <1>1, <1>2

\* The start of the app: the counts begin anew on both sides.
LEMMA GroundStarts ==
  ASSUME GInv, Observe, EvsRegister \/ Restart
  PROVE  CountsAgree' /\ ValuesAgree' /\ TelemetryMatchesEvents' /\ ProcessLogsOneTable'
<1>1. Unnoticed
  BY UnnoticedOutputs DEF EvsRegister, GiveUp, Restart, Silent, SysLog, Neither
<1>2. TelemetryMatchesEvents' /\ ProcessLogsOneTable'
  BY <1>1 DEF Unnoticed, TelemetryMatchesEvents, ProcessLogsOneTable
<1>3. pc' # "LogCrc"
  BY DEF EvsRegister, GiveUp, Restart
<1>4. CASE EvsRegister
  <2>1. /\ noopsSeen = 0 /\ errorsSeen = 0 /\ pc' # "Init"
        /\ CmdCounter' = 0 /\ ErrCounter' = 0
    BY <1>4 DEF EvsRegister, ClearData, GiveUp, GInv, CountsAgree
  <2>2. noopsSeen' = 0 /\ errorsSeen' = 0
    BY <2>1, <1>1 DEF Observe, Unnoticed
  <2>3. 0 % CmdWrap = 0
    BY ZeroRemainder, CmdWrapAssumption
  <2>4. QED BY <1>2, <1>3, <2>1, <2>2, <2>3 DEF CountsAgree, ValuesAgree
<1>5. CASE Restart
  <2>1. pc' = "Init" /\ noopsSeen' = 0 /\ errorsSeen' = 0
    BY <1>5 DEF Restart, Observe, Cleared
  <2>2. QED BY <1>2, <1>3, <2>1 DEF CountsAgree, ValuesAgree
<1>6. QED BY <1>4, <1>5

LEMMA GroundInvStep == ASSUME GInv, [GroundNext]_<<vars, seenVars>> PROVE GInv'
<1>1. CASE GroundNext
  <2>1. Next /\ Observe
    BY <1>1 DEF GroundNext
  <2>2. IInv'
    BY <2>1, IInvStep DEF GInv
  <2>3. CountsAgree' /\ ValuesAgree' /\ TelemetryMatchesEvents' /\ ProcessLogsOneTable'
    BY <2>1, GroundHandlers, GroundLogs, GroundStarts, NeutralInit, NeutralLoop, NeutralEnvironment,
       NeutralKeeps
    DEF Next, AppStep, AppInit, Environment
  <2>4. QED BY <2>2, <2>3 DEF GInv
<1>2. CASE UNCHANGED <<vars, seenVars>>
  <2>1. IInv'
    BY <1>2, IInvStep DEF GInv
  <2>2. QED
    BY <1>2, <2>1
    DEF GInv, vars, seenVars, dataVars, tblVars, CountsAgree, ValuesAgree, TelemetryMatchesEvents,
        ProcessLogsOneTable, Sent, Said
<1>3. QED BY <1>1, <1>2

(***************************************************************************)
(* Theorems.                                                               *)
(***************************************************************************)

\* The parts of GInv hold in every behaviour observed from the ground.
THEOREM GroundInvariance == GroundSpec => []GInv
<1>1. GroundInit => GInv
  BY GroundInvInit
<1>2. GInv /\ [GroundNext]_<<vars, seenVars>> => GInv'
  BY GroundInvStep
<1>3. QED BY <1>1, <1>2, PTL DEF GroundSpec

\* The counters of a housekeeping packet are the events seen since the last
\* reset, modulo the width of the counters, for every width and every set of
\* packets on the bus (BLINKER_APP_SendHkCmd, ResetCountersCmd and Init).
THEOREM TelemetryIsTrue == GroundSpec => []TelemetryMatchesEvents
<1>1. GInv => TelemetryMatchesEvents
  BY DEF GInv
<1>2. QED BY <1>1, GroundInvariance, PTL

\* BLINKER_APP_ProcessCmd logs the values and the CRC of one valid table, for
\* every set of images and whatever the ground does to the table meanwhile.
THEOREM ProcessSeesOneTable == GroundSpec => []ProcessLogsOneTable
<1>1. GInv => ProcessLogsOneTable
  BY DEF GInv
<1>2. QED BY <1>1, GroundInvariance, PTL
================================================================================
