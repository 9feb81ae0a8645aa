---------------------------- MODULE BlinkerEds_proofs ----------------------------
(***************************************************************************)
(* The build with the generated dispatcher, for every value of the         *)
(* constants: it keeps the app's invariant and its contract, and its error *)
(* counter is the number of error events.                                  *)
(***************************************************************************)
EXTENDS BlinkerEds, AppContract_proofs, Modulo_proofs, FiniteSetTheorems

\* The handlers that are those of the other build.
Shared(m) == NoopCmd(m) \/ ResetCountersCmd(m) \/ DisplayParamCmd(m) \/ SendHkCmd(m)

LEMMA EdsStepCases ==
  ASSUME EdsStep
  PROVE  \/ Common \/ LogValues \/ EdsLogCrc
         \/ \E m \in Packets : EdsReject(m) \/ EdsProcessCmd(m) \/ Shared(m)
  BY DEF EdsStep, EdsTaskPipe, Common, Shared

LEMMA SharedIsHandler ==
  ASSUME NEW m, Shared(m)
  PROVE  Handler(m)
  BY DEF Shared, Handler

(***************************************************************************)
(* What the dispatcher and a handler that fails send.                      *)
(***************************************************************************)
LEMMA ErrorEvents ==
  ASSUME NEW status
  PROVE  ErrorEvent(status) \in {Event("MID_ERR", "Invalid", <<>>),
                                 Event("CMD_LEN_ERR", "BadLength", <<>>),
                                 Event("CC_ERR", "Invalid", <<>>)}
  BY DEF ErrorEvent

\* A failing handler has written to the system log only; its outputs are
\* followed by one error event if and only if it is counted.
LEMMA FailureOutputs ==
  ASSUME NEW outputs \in Seq(Output), HandlerFails(outputs)
  PROVE  \/ out' = outputs /\ ErrCounter' = ErrCounter
         \/ /\ ErrCounter' = (ErrCounter + 1) % CmdWrap
            /\ Len(out') = Len(outputs) + 1
            /\ \A k \in 1 .. Len(outputs) : out'[k] = outputs[k]
            /\ out'[Len(outputs) + 1] = ErrorEvent("HandlerStatus")
            /\ out' \in Seq(Output)
<1>1. CASE out' = outputs /\ UNCHANGED ErrCounter
  BY <1>1
<1>2. CASE /\ out' = Append(outputs, ErrorEvent("HandlerStatus"))
           /\ ErrCounter' = (ErrCounter + 1) % CmdWrap
  <2>1. ErrorEvent("HandlerStatus") \in Output
    BY ErrorEvents, LiteralOutputs DEF EventIds, Texts
  <2>2. QED BY <1>2, <2>1
<1>3. QED BY <1>1, <1>2 DEF HandlerFails

(***************************************************************************)
(* The invariant of the app.                                               *)
(***************************************************************************)
LEMMA RejectTyped ==
  ASSUME TypeOK, NEW m, EdsReject(m)
  PROVE  TypeOK'
<1>1. out' \in Seq(Output)
  BY ErrorEvents, LiteralOutputs DEF EdsReject, Emit, EventIds, Texts
<1>2. ErrCounter' \in 0 .. CmdWrap - 1
  BY CmdWrapAssumption DEF EdsReject, TypeOK
<1>3. Take(m, "RunLoop") /\ "RunLoop" \in {"RunLoop", "LogValues"}
  BY DEF EdsReject
<1>4. CmdCounter' \in 0 .. CmdWrap - 1 /\ HkTlm' \in Telemetry /\ BankTypeOK' /\ TblTypeOK'
  BY DEF EdsReject, TypeOK, BankTypeOK, TblTypeOK, bankVars, tblVars
<1>5. QED BY <1>1, <1>2, <1>3, <1>4, TakeTyped DEF TypeOK

LEMMA FailureTyped ==
  ASSUME TypeOK, NEW outputs \in Seq(Output), HandlerFails(outputs)
  PROVE  /\ CmdCounter' \in 0 .. CmdWrap - 1 /\ ErrCounter' \in 0 .. CmdWrap - 1
         /\ HkTlm' \in Telemetry /\ BankTypeOK' /\ TblTypeOK'
         /\ out' \in Seq(Output)
<1>1. out' \in Seq(Output) /\ ErrCounter' \in 0 .. CmdWrap - 1
  BY FailureOutputs, CmdWrapAssumption DEF TypeOK
<1>2. QED BY <1>1 DEF HandlerFails, TypeOK, BankTypeOK, TblTypeOK, bankVars, tblVars

LEMMA ProcessTyped ==
  ASSUME TypeOK, NEW m, EdsProcessCmd(m)
  PROVE  TypeOK'
<1>1. CASE Take(m, "LogValues") /\ Silent /\ UNCHANGED <<dataVars, tblVars>>
  <2>1. out' \in Seq(Output)
    BY <1>1, LiteralOutputs DEF Silent
  <2>2. QED
    BY <1>1, <2>1, TakeTyped DEF TypeOK, BankTypeOK, TblTypeOK, dataVars, tblVars
<1>2. CASE Take(m, "RunLoop") /\ HandlerFails(<<SysLog("GetAddressFailed", <<>>)>>)
  <2>1. <<SysLog("GetAddressFailed", <<>>)>> \in Seq(Output)
    BY LiteralOutputs DEF Texts
  <2>2. QED BY <1>2, <2>1, FailureTyped, TakeTyped DEF TypeOK
<1>3. QED BY <1>1, <1>2 DEF EdsProcessCmd

\* What the last call of ProcessCmd may find.
Checksums == {SysLog("Crc", <<active.Int1, active.Int2>>), SysLog("GetInfoFailed", <<>>)}

LEMMA ChecksumsTyped ==
  ASSUME TypeOK, RunLoopHasResources, pc = "LogCrc", NEW crc \in Checksums
  PROVE  <<crc>> \in Seq(Output) /\ <<crc, SysLog("ReleaseFailed", <<>>)>> \in Seq(Output)
<1>1. active \in Image
  BY DEF RunLoopHasResources, LoopSteps, TypeOK, TblTypeOK
<1>2. <<active.Int1, active.Int2>> \in Seq(Nat)
  BY <1>1 DEF Image
<1>3. SysLog("Crc", <<active.Int1, active.Int2>>) \in Output
  BY <1>2, SysLogTyped DEF Texts
<1>4. SysLog("GetInfoFailed", <<>>) \in Output /\ SysLog("ReleaseFailed", <<>>) \in Output
  BY LiteralOutputs DEF Texts
<1>5. QED BY <1>3, <1>4, LiteralOutputs DEF Checksums

LEMMA LogCrcTyped ==
  ASSUME TypeOK, RunLoopHasResources, EdsLogCrc
  PROVE  TypeOK'
<1>1. PICK crc \in Checksums :
        \/ out' = <<crc>> /\ UNCHANGED <<dataVars, tblVars>>
        \/ HandlerFails(<<crc, SysLog("ReleaseFailed", <<>>)>>)
  BY DEF EdsLogCrc, Checksums
<1>2. /\ CmdCounter' \in 0 .. CmdWrap - 1 /\ ErrCounter' \in 0 .. CmdWrap - 1
      /\ HkTlm' \in Telemetry /\ BankTypeOK' /\ TblTypeOK'
      /\ out' \in Seq(Output)
  <2>1. <<crc>> \in Seq(Output) /\ <<crc, SysLog("ReleaseFailed", <<>>)>> \in Seq(Output)
    BY ChecksumsTyped DEF EdsLogCrc
  <2>2. CASE out' = <<crc>> /\ UNCHANGED <<dataVars, tblVars>>
    BY <2>1, <2>2 DEF TypeOK, BankTypeOK, TblTypeOK, dataVars, tblVars
  <2>3. QED BY <1>1, <2>1, <2>2, FailureTyped
<1>3. QED
  BY <1>2 DEF EdsLogCrc, TypeOK, taskVars, busVars

(***************************************************************************)
(* The steps of this build, seen from the rest of the app, are those of    *)
(* the other one: Core and StatusRuns do not depend on the dispatcher.     *)
(***************************************************************************)
LEMMA ProcessFrame ==
  ASSUME NEW m, EdsReject(m) \/ EdsProcessCmd(m)
  PROVE  Handling
<1>1. Take(m, "RunLoop") \/ Take(m, "LogValues")
  BY DEF EdsReject, EdsProcessCmd
<1>2. UNCHANGED tblVars
  BY DEF EdsReject, EdsProcessCmd, HandlerFails
<1>3. QED BY <1>1, <1>2 DEF Take, ReceiveBuffer, taskVars, Handling

LEMMA LogFrame ==
  ASSUME LogValues \/ EdsLogCrc
  PROVE  Logging
  BY DEF LogValues, EdsLogCrc, HandlerFails, Logging

LEMMA EdsFrame ==
  ASSUME EdsStep
  PROVE  FrameNext
  BY EdsStepCases, SharedIsHandler, HandlerFrame, ProcessFrame, LogFrame DEF FrameNext

LEMMA EdsTyped ==
  ASSUME CInv, EdsStep
  PROVE  TypeOK'
<1>1. TypeOK /\ RunLoopHasResources
  BY LoopIsAcquired DEF CInv, Core
<1>2. CASE Common
  BY <1>1, <1>2, TypeCommon
<1>3. CASE LogValues
  BY <1>1, <1>3, TypeLogs
<1>4. CASE EdsLogCrc
  BY <1>1, <1>4, LogCrcTyped
<1>5. CASE \E m \in Packets : EdsReject(m) \/ EdsProcessCmd(m) \/ Shared(m)
  BY <1>1, <1>5, RejectTyped, ProcessTyped, SharedIsHandler, TypeHandler
<1>6. QED BY <1>2, <1>3, <1>4, <1>5, EdsStepCases

LEMMA EdsCInv ==
  ASSUME CInv, EdsStep \/ UNCHANGED vars
  PROVE  CInv'
<1>1. TypeOK'
  BY EdsTyped, TypeCommon DEF CInv, Core
<1>2. [FrameNext]_vars
  BY EdsFrame
<1>3. QED BY <1>1, <1>2, CoreStep, StatusRunsStep DEF CInv

(***************************************************************************)
(* The contract.                                                           *)
(***************************************************************************)
\* A failing handler answers nothing.
LEMMA FailureSays ==
  ASSUME NEW outputs \in Seq(Output), HandlerFails(outputs),
         \A k \in 1 .. Len(outputs) : outputs[k].id = "SYSLOG" /\ outputs[k].text \notin Answers
  PROVE  /\ \A k \in DOMAIN out' : out'[k].text \notin Answers
         /\ \/ /\ ErrCounter' = ErrCounter
               /\ \A k \in DOMAIN out' : out'[k].id = "SYSLOG"
            \/ /\ ErrCounter' = (ErrCounter + 1) % CmdWrap
               /\ \E k \in DOMAIN out' :
                    /\ out'[k].id \in ErrorIds
                    /\ \A j \in DOMAIN out' \ {k} : out'[j].id = "SYSLOG"
<1>1. CASE out' = outputs /\ ErrCounter' = ErrCounter
  BY <1>1
<1>2. CASE /\ ErrCounter' = (ErrCounter + 1) % CmdWrap
           /\ Len(out') = Len(outputs) + 1
           /\ \A k \in 1 .. Len(outputs) : out'[k] = outputs[k]
           /\ out'[Len(outputs) + 1] = ErrorEvent("HandlerStatus")
           /\ out' \in Seq(Output)
  <2>1. DOMAIN out' = 1 .. Len(outputs) + 1
    BY <1>2
  <2>2. /\ ErrorEvent("HandlerStatus").id \in ErrorIds
        /\ ErrorEvent("HandlerStatus").text \notin Answers
    BY ErrorEvents DEF Event, ErrorIds, Answers
  <2>3. /\ Len(outputs) + 1 \in DOMAIN out'
        /\ \A j \in DOMAIN out' \ {Len(outputs) + 1} : j \in 1 .. Len(outputs)
    BY <2>1
  <2>4. QED BY <1>2, <2>2, <2>3
<1>3. QED BY <1>1, <1>2, FailureOutputs

\* What ProcessCmd has written to the system log when it fails.
LEMMA LogsOfProcess ==
  /\ \A k \in 1 .. Len(<<SysLog("GetAddressFailed", <<>>)>>) :
       /\ <<SysLog("GetAddressFailed", <<>>)>>[k].id = "SYSLOG"
       /\ <<SysLog("GetAddressFailed", <<>>)>>[k].text \notin Answers
  /\ \A crc \in Checksums :
       /\ crc.id = "SYSLOG" /\ crc.text \notin Answers
       /\ \A k \in 1 .. Len(<<crc, SysLog("ReleaseFailed", <<>>)>>) :
            /\ <<crc, SysLog("ReleaseFailed", <<>>)>>[k].id = "SYSLOG"
            /\ <<crc, SysLog("ReleaseFailed", <<>>)>>[k].text \notin Answers
  BY DEF SysLog, Answers, Checksums

\* The logs of PROCESS, and its failures: all they may change is the error
\* counter, and they tell of it.
LEMMA ProcessOutcome ==
  ASSUME CInv, EdsLogCrc \/ (\E m : EdsProcessCmd(m))
  PROVE  /\ \A k \in DOMAIN out' : out'[k].text \notin Answers
         /\ \/ /\ ErrCounter' = ErrCounter
               /\ \A k \in DOMAIN out' : out'[k].id = "SYSLOG"
            \/ /\ ErrCounter' = (ErrCounter + 1) % CmdWrap
               /\ \E k \in DOMAIN out' :
                    /\ out'[k].id \in ErrorIds
                    /\ \A j \in DOMAIN out' \ {k} : out'[j].id = "SYSLOG"
<1>1. CASE EdsLogCrc
  <2>1. PICK crc \in Checksums :
          \/ out' = <<crc>> /\ UNCHANGED <<dataVars, tblVars>>
          \/ HandlerFails(<<crc, SysLog("ReleaseFailed", <<>>)>>)
    BY <1>1 DEF EdsLogCrc, Checksums
  <2>2. <<crc, SysLog("ReleaseFailed", <<>>)>> \in Seq(Output)
    BY <1>1, ChecksumsTyped, LoopIsAcquired DEF EdsLogCrc, CInv, Core
  <2>3. CASE out' = <<crc>> /\ UNCHANGED <<dataVars, tblVars>>
    <3>1. \A k \in DOMAIN out' : out'[k] = crc
      BY <2>3
    <3>2. QED BY <2>3, <3>1, LogsOfProcess DEF dataVars
  <2>4. CASE HandlerFails(<<crc, SysLog("ReleaseFailed", <<>>)>>)
    BY <2>2, <2>4, LogsOfProcess, FailureSays
  <2>5. QED BY <2>1, <2>3, <2>4
<1>2. CASE \E m : EdsProcessCmd(m)
  <2>1. CASE Silent /\ UNCHANGED <<dataVars, tblVars>>
    BY <2>1 DEF Silent, dataVars
  <2>2. CASE HandlerFails(<<SysLog("GetAddressFailed", <<>>)>>)
    <3>1. <<SysLog("GetAddressFailed", <<>>)>> \in Seq(Output)
      BY LiteralOutputs DEF Texts
    <3>2. QED BY <2>2, <3>1, LogsOfProcess, FailureSays
  <2>3. QED BY <1>2, <2>1, <2>2 DEF EdsProcessCmd
<1>3. QED BY <1>1, <1>2

LEMMA EdsProcessKeeps ==
  ASSUME CInv, EdsLogCrc \/ (\E m : EdsProcessCmd(m))
  PROVE  Contract!Next
<1>1. Answer' = <<>>
  BY ProcessOutcome, OtherTexts
<1>2. UNCHANGED <<CmdCounter, BlinkerCounts, BlinkerStatuses, active>>
  BY DEF EdsLogCrc, EdsProcessCmd, HandlerFails, dataVars, tblVars, bankVars
<1>3. Life = "running" /\ Life' = Life
  <2>1. CASE EdsLogCrc
    BY <2>1 DEF EdsLogCrc, CInv, StatusRuns, Life, InitSteps, LoopSteps
  <2>2. CASE \E m : EdsProcessCmd(m)
    BY <2>2, ProcessFrame, HandlerRuns
  <2>3. QED BY <2>1, <2>2
<1>4. CASE ErrCounter' = ErrCounter
  BY <1>1, <1>2, <1>3, <1>4, QuietStep
<1>5. CASE ErrCounter' = (ErrCounter + 1) % CmdWrap
  <2>1. Contract!Count
    BY <1>1, <1>2, <1>5 DEF Contract!Count, Contract!bank, Enabled
  <2>2. QED BY <1>3, <2>1 DEF Contract!Next, Contract!Operate
<1>6. QED BY <1>4, <1>5, ProcessOutcome

LEMMA RejectKeeps ==
  ASSUME CInv, NEW m, EdsReject(m)
  PROVE  Contract!Next
<1>1. Answer' = <<>>
  BY ErrorEvents, NoAnswer DEF EdsReject, Emit, Event
<1>2. Contract!Count
  BY <1>1 DEF EdsReject, Contract!Count, Contract!bank, Enabled, bankVars, tblVars
<1>3. Life = "running" /\ UNCHANGED Life
  BY ProcessFrame, HandlerRuns
<1>4. QED BY <1>2, <1>3 DEF Contract!Next, Contract!Operate

LEMMA EdsContractStep ==
  ASSUME CInv, EdsStep \/ UNCHANGED vars
  PROVE  [Contract!Next]_(Contract!vars)
<1>1. CASE UNCHANGED vars
  BY <1>1, StutterKeeps
<1>2. CASE Common
  BY <1>2, CommonKeeps
<1>3. CASE LogValues
  BY <1>3, UnseenKeeps
<1>4. CASE EdsLogCrc \/ \E m \in Packets : EdsProcessCmd(m)
  BY <1>4, EdsProcessKeeps
<1>5. CASE \E m \in Packets : EdsReject(m) \/ Shared(m)
  BY <1>5, RejectKeeps, SharedIsHandler, HandlerKeeps
<1>6. QED BY <1>1, <1>2, <1>3, <1>4, <1>5, EdsStepCases

(***************************************************************************)
(* The count of errors.                                                    *)
(***************************************************************************)
\* The error counter holds the number of error events modulo its width, from
\* the moment Init has cleared it; a packet shows it as it is when sent.
ErrorsCounted ==
  /\ errorsSeen \in Nat
  /\ pc = "Init" => errorsSeen = 0
  /\ pc # "Init" => ErrCounter = errorsSeen % CmdWrap
  /\ Sent("HK_TLM") => pc # "Init" /\ out[1].args[1] = ErrCounter

\* The ids the count, or a packet that shows it, depends on.
CountIds == ErrorIds \cup {"RESET_INF", "HK_TLM"}

LEMMA NothingCounted ==
  ASSUME errorsSeen \in Nat, CountErrors, pc' # "Init",
         \A k \in DOMAIN out' : out'[k].id \notin ErrorIds \cup {"RESET_INF"}
  PROVE  errorsSeen' = errorsSeen
<1>1. ~ Sent("RESET_INF")'
  BY DEF Sent
<1>2. {k \in DOMAIN out' : out'[k].id \in ErrorIds} = {}
  OBVIOUS
<1>3. errorsSeen' = errorsSeen + Cardinality({})
  BY <1>1, <1>2 DEF CountErrors
<1>4. QED BY <1>3, FS_EmptySet

LEMMA OneCounted ==
  ASSUME errorsSeen \in Nat, CountErrors, pc' # "Init",
         NEW k \in DOMAIN out', out'[k].id \in ErrorIds,
         \A j \in DOMAIN out' \ {k} : out'[j].id \notin ErrorIds \cup {"RESET_INF"}
  PROVE  errorsSeen' = errorsSeen + 1
<1>1. ~ Sent("RESET_INF")'
  BY DEF Sent, ErrorIds
<1>2. {j \in DOMAIN out' : out'[j].id \in ErrorIds} = {k}
  OBVIOUS
<1>3. errorsSeen' = errorsSeen + Cardinality({k})
  BY <1>1, <1>2 DEF CountErrors
<1>4. QED BY <1>3, FS_Singleton

\* A step that sends nothing about errors, and leaves the counter alone.
LEMMA MildKeeps ==
  ASSUME ErrorsCounted, CountErrors, pc # "Init", pc' # "Init", ErrCounter' = ErrCounter,
         \A k \in DOMAIN out' : out'[k].id \notin CountIds
  PROVE  ErrorsCounted'
<1>1. errorsSeen' = errorsSeen
  BY NothingCounted DEF ErrorsCounted, CountIds
<1>2. ~ Sent("HK_TLM")'
  BY DEF Sent, CountIds
<1>3. QED BY <1>1, <1>2 DEF ErrorsCounted

\* A step that counts one error, and sends one error event among its outputs.
LEMMA ErrorKeeps ==
  ASSUME ErrorsCounted, CountErrors, pc # "Init", pc' # "Init",
         ErrCounter' = (ErrCounter + 1) % CmdWrap,
         NEW k \in DOMAIN out', out'[k].id \in ErrorIds,
         \A j \in DOMAIN out' \ {k} : out'[j].id \notin CountIds
  PROVE  ErrorsCounted'
<1>1. errorsSeen' = errorsSeen + 1 /\ errorsSeen' \in Nat
  BY OneCounted DEF ErrorsCounted, CountIds
<1>2. ErrCounter' = (errorsSeen + 1) % CmdWrap
  BY WrapAfterIncrement, CmdWrapAssumption DEF ErrorsCounted
<1>3. ~ Sent("HK_TLM")'
  BY DEF Sent, CountIds, ErrorIds
<1>4. QED BY <1>1, <1>2, <1>3 DEF ErrorsCounted

\* The outputs of what is common to both builds tell of no error counted.
LEMMA CommonOutputs ==
  ASSUME Common
  PROVE  \A k \in DOMAIN out' : out'[k].id \notin CountIds
<1>1. \/ out' = <<>>
      \/ \E o : out' = <<o>> /\ o.id \notin CountIds
      \/ \E o, p : out' = <<o, p>> /\ o.id \notin CountIds /\ p.id \notin CountIds
  <2>1. CASE AppInit
    BY <2>1
    DEF AppInit, EvsRegister, CreatePipe, SubscribeAll, SubscribeTo, RegisterTable, LoadTable,
        GiveUp, InitInf, Silent, Emit, Event, SysLog, CountIds, ErrorIds
  <2>2. CASE EnterLoop \/ LeaveLoop \/ ExitApp \/ ReceiveFails
    BY <2>2
    DEF EnterLoop, LeaveLoop, ExitApp, ReceiveFails, GiveUp, Silent, Event, CountIds, ErrorIds
  <2>3. CASE Environment
    BY <2>3
    DEF Environment, GroundSends, RequestHk, RequestBlink, Send, TableCommand, RequestExit,
        Restart, Silent
  <2>4. QED BY <2>1, <2>2, <2>3 DEF Common
<1>2. QED BY <1>1

LEMMA CommonCounts ==
  ASSUME ErrorsCounted, CountErrors, Common
  PROVE  ErrorsCounted'
<1>1. \A k \in DOMAIN out' : out'[k].id \notin CountIds
  BY CommonOutputs
<1>2. ~ Sent("HK_TLM")'
  BY <1>1 DEF Sent, CountIds
<1>3. CASE EvsRegister
  <2>1. pc = "Init" /\ pc' # "Init" /\ ErrCounter' = 0
    BY <1>3 DEF EvsRegister, ClearData, GiveUp
  <2>2. errorsSeen' = 0
    BY <1>1, <2>1, NothingCounted DEF ErrorsCounted, CountIds
  <2>3. QED BY <1>2, <2>1, <2>2, ZeroRemainder, CmdWrapAssumption DEF ErrorsCounted
<1>4. CASE Restart
  BY <1>2, <1>4 DEF Restart, CountErrors, ErrorsCounted
<1>5. CASE Common /\ ~ EvsRegister /\ ~ Restart
  <2>1. ErrCounter' = ErrCounter
    BY <1>5
    DEF Common, AppInit, CreatePipe, SubscribeAll, SubscribeTo, RegisterTable, LoadTable,
        EnterLoop, LeaveLoop, ExitApp, ReceiveFails, Environment, GroundSends, RequestHk,
        RequestBlink, Send, TableCommand, RequestExit, dataVars
  <2>2. CASE pc # "Init" /\ pc' # "Init"
    BY <1>1, <2>1, <2>2, MildKeeps
  <2>3. CASE pc = "Init" /\ pc' = "Init"
    BY <1>2, <2>3 DEF CountErrors, ErrorsCounted
  <2>4. pc = "Init" <=> pc' = "Init"
    BY <1>5
    DEF Common, AppInit, CreatePipe, SubscribeAll, SubscribeTo, RegisterTable, LoadTable, GiveUp,
        EnterLoop, LeaveLoop, ExitApp, ReceiveFails, Environment, GroundSends, RequestHk,
        RequestBlink, Send, TableCommand, RequestExit
  <2>5. QED BY <2>2, <2>3, <2>4
<1>6. QED BY <1>3, <1>4, <1>5

LEMMA SharedCounts ==
  ASSUME ErrorsCounted, CountErrors, NEW m, Shared(m)
  PROVE  ErrorsCounted'
<1>1. pc # "Init" /\ pc' # "Init"
  BY SharedIsHandler, HandlerFrame DEF Handling
<1>2. CASE NoopCmd(m) \/ DisplayParamCmd(m)
  <2>1. ErrCounter' = ErrCounter
    BY <1>2 DEF NoopCmd, DisplayParamCmd, dataVars
  <2>2. \A k \in DOMAIN out' : out'[k].id \notin CountIds
    BY <1>2 DEF NoopCmd, DisplayParamCmd, Emit, Event, CountIds, ErrorIds
  <2>3. QED BY <1>1, <2>1, <2>2, MildKeeps
<1>3. CASE ResetCountersCmd(m)
  <2>1. Sent("RESET_INF")' /\ ~ Sent("HK_TLM")' /\ ErrCounter' = 0
    BY <1>3, OneOutput DEF ResetCountersCmd, Emit, Event
  <2>2. errorsSeen' = 0
    BY <2>1 DEF CountErrors
  <2>3. QED BY <1>1, <2>1, <2>2, ZeroRemainder, CmdWrapAssumption DEF ErrorsCounted
<1>4. CASE SendHkCmd(m)
  <2>1. /\ ErrCounter' = ErrCounter
        /\ out' = <<[id |-> "HK_TLM", text |-> "HkTlm", args |-> <<ErrCounter, CmdCounter>>]>>
    BY <1>4 DEF SendHkCmd, Emit, counterVars
  <2>2. out'[1].args[1] = ErrCounter'
    BY <2>1
  <2>3. errorsSeen' = errorsSeen
    BY <1>1, <2>1, NothingCounted DEF ErrorsCounted, ErrorIds
  <2>4. QED BY <1>1, <2>1, <2>2, <2>3 DEF ErrorsCounted
<1>5. QED BY <1>2, <1>3, <1>4 DEF Shared

LEMMA ProcessCounts ==
  ASSUME CInv, ErrorsCounted, CountErrors, EdsLogCrc \/ (\E m : EdsProcessCmd(m))
  PROVE  ErrorsCounted'
<1>1. pc # "Init" /\ pc' # "Init"
  <2>1. CASE EdsLogCrc
    BY <2>1 DEF EdsLogCrc
  <2>2. CASE \E m : EdsProcessCmd(m)
    BY <2>2, ProcessFrame DEF Handling
  <2>3. QED BY <2>1, <2>2
<1>2. "SYSLOG" \notin CountIds
  BY DEF CountIds, ErrorIds
<1>3. CASE ErrCounter' = ErrCounter /\ \A k \in DOMAIN out' : out'[k].id = "SYSLOG"
  BY <1>1, <1>2, <1>3, MildKeeps
<1>4. CASE /\ ErrCounter' = (ErrCounter + 1) % CmdWrap
           /\ \E k \in DOMAIN out' :
                /\ out'[k].id \in ErrorIds
                /\ \A j \in DOMAIN out' \ {k} : out'[j].id = "SYSLOG"
  BY <1>1, <1>2, <1>4, ErrorKeeps
<1>5. QED BY <1>3, <1>4, ProcessOutcome

LEMMA RejectCounts ==
  ASSUME ErrorsCounted, CountErrors, NEW m, EdsReject(m)
  PROVE  ErrorsCounted'
<1>1. pc # "Init" /\ pc' # "Init"
  BY ProcessFrame DEF Handling
<1>2. ErrCounter' = (ErrCounter + 1) % CmdWrap
  BY DEF EdsReject
<1>3. DOMAIN out' = {1} /\ out'[1].id \in ErrorIds
  BY ErrorEvents DEF EdsReject, Emit, Event, ErrorIds
<1>4. QED BY <1>1, <1>2, <1>3, ErrorKeeps

LEMMA ErrorsStep ==
  ASSUME CInv, ErrorsCounted, EdsNext \/ UNCHANGED <<vars, errorsSeen>>
  PROVE  ErrorsCounted'
<1>1. CASE UNCHANGED <<vars, errorsSeen>>
  BY <1>1 DEF vars, dataVars, ErrorsCounted, Sent
<1>2. CASE CountErrors /\ Common
  BY <1>2, CommonCounts
<1>3. CASE CountErrors /\ LogValues
  <2>1. \A k \in DOMAIN out' : out'[k].id \notin CountIds
    BY <1>3 DEF LogValues, Emit, SysLog, CountIds, ErrorIds
  <2>2. pc # "Init" /\ pc' # "Init" /\ ErrCounter' = ErrCounter
    BY <1>3 DEF LogValues, dataVars
  <2>3. QED BY <1>3, <2>1, <2>2, MildKeeps
<1>4. CASE CountErrors /\ (EdsLogCrc \/ \E m \in Packets : EdsProcessCmd(m))
  BY <1>4, ProcessCounts
<1>5. CASE CountErrors /\ \E m \in Packets : EdsReject(m) \/ Shared(m)
  BY <1>5, RejectCounts, SharedCounts
<1>6. QED BY <1>1, <1>2, <1>3, <1>4, <1>5, EdsStepCases DEF EdsNext

(***************************************************************************)
(* Theorems.                                                               *)
(***************************************************************************)

\* What is invariant of the app whatever its dispatcher: types, the resources
\* of the run loop, the validity of the active table, the fresh data after a
\* restart (BLINKER_APP_Init and the handlers both builds share).
THEOREM EdsInvariance == EdsSpec => []CInv
<1>1. Init => CInv
  BY InvInit DEF IInv, CInv, Init, StatusRuns, LoopSteps
<1>2. CInv /\ [EdsNext]_<<vars, errorsSeen>> => CInv'
  BY EdsCInv DEF EdsNext
<1>3. QED BY <1>1, <1>2, PTL DEF EdsSpec

\* This build keeps the contract of the other one, for every value of the
\* constants, whatever the generated code makes of a handler that fails.
THEOREM EdsKeepsContract == EdsSpec => ContractSafety
<1>1. EdsSpec => Contract!Init
  BY ContractInit DEF EdsSpec
<1>2. CInv /\ [EdsNext]_<<vars, errorsSeen>> => [Contract!Next]_(Contract!vars)
  BY EdsContractStep DEF EdsNext
<1>3. QED
  BY <1>1, <1>2, EdsInvariance, PTL DEF EdsSpec, ContractSafety, Contract!Safety

\* The error counter in housekeeping telemetry is the number of error events
\* since the last reset or start, modulo its width, in every history.
THEOREM EdsErrorsCounted == EdsSpec => []EdsTelemetryCountsErrors
<1>1. Init /\ errorsSeen = 0 => ErrorsCounted
  BY DEF Init, ErrorsCounted, Sent
<1>2. CInv /\ ErrorsCounted /\ [EdsNext]_<<vars, errorsSeen>> => ErrorsCounted'
  BY ErrorsStep
<1>3. ErrorsCounted => EdsTelemetryCountsErrors
  BY DEF ErrorsCounted, EdsTelemetryCountsErrors
<1>4. QED BY <1>1, <1>2, <1>3, EdsInvariance, PTL DEF EdsSpec
================================================================================
