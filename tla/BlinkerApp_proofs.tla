---------------------------- MODULE BlinkerApp_proofs ----------------------------
(***************************************************************************)
(* Proofs of the safety properties of BlinkerApp for every number of       *)
(* blinkers, width of the counters, depth of the pipe, set of packets and  *)
(* set of table images.                                                    *)
(***************************************************************************)
EXTENDS BlinkerApp, TLAPS

\* What a step hands to cFE: one output, or two.
LEMMA OutputsTyped ==
  ASSUME NEW id \in EventIds \cup {"HK_TLM", "SYSLOG"}, NEW text \in Texts, NEW args \in Seq(Nat)
  PROVE  /\ [id |-> id, text |-> text, args |-> args] \in Output
         /\ <<[id |-> id, text |-> text, args |-> args]>> \in Seq(Output)
  BY DEF Output

LEMMA EmitTyped ==
  ASSUME NEW eid \in EventIds, NEW text \in Texts, NEW args \in Seq(Nat)
  PROVE  Event(eid, text, args) \in Output
  BY DEF Output, Event

LEMMA SysLogTyped ==
  ASSUME NEW text \in Texts, NEW args \in Seq(Nat)
  PROVE  SysLog(text, args) \in Output
  BY DEF Output, SysLog

\* A count that wraps stays in range.
LEMMA WrapTyped ==
  ASSUME NEW n \in Nat, NEW w \in Nat \ {0}
  PROVE  n % w \in 0 .. w - 1
  OBVIOUS

LEMMA BlinkTyped ==
  ASSUME BankTypeOK, Blink
  PROVE  BankTypeOK' /\ out' \in Seq(Output)
  BY CountWrapAssumption DEF BankTypeOK, Blink, Silent, Blinkers

LEMMA BankInitTyped == AllZero \in [Blinkers -> 0 .. CountWrap - 1] /\ AllZero \in [Blinkers -> {0, 1}]
  BY CountWrapAssumption DEF AllZero

LEMMA AcknowledgeTyped ==
  ASSUME NEW text \in Texts, NEW args \in Seq(Nat), Acknowledge(text, args)
  PROVE  out' \in Seq(Output)
  BY EmitTyped DEF Acknowledge, Emit, EventIds

LEMMA RefuseTyped ==
  ASSUME BankTypeOK, NEW args \in Seq(Nat), RefuseBlinker(args)
  PROVE  BankTypeOK' /\ out' \in Seq(Output)
<1>1. BankTypeOK'
  BY DEF RefuseBlinker, bankVars, BankTypeOK
<1>2. "CC_ERR" \in EventIds /\ "Untracked" \in Texts
  BY DEF EventIds, Texts
<1>3. out' \in Seq(Output)
  BY <1>2, EmitTyped DEF RefuseBlinker, Emit
<1>4. QED BY <1>1, <1>3

\* Any handler of a bank command, with the numbers the command carries.
BankHandler(n1, n2) ==
  \/ ResetAllBlinkersCmd \/ EnableAllBlinkersCmd \/ DisableAllBlinkersCmd
  \/ ResetSpecBlinkersCmd(n1) \/ ReportSpecBlinkersCmd(n1)
  \/ EnableSpecBlinkersCmd(n1) \/ DisableSpecBlinkersCmd(n1)
  \/ SwapBlinkerCountsCmd(n1, n2)

LEMMA TrackedIsBlinker ==
  ASSUME NEW n \in Nat, Tracked(n)
  PROVE  n \in Blinkers
  BY TotalBlinkersAssumption DEF Tracked, Blinkers

LEMMA BankCommandsTyped ==
  ASSUME BankTypeOK, NEW n1 \in Nat, NEW n2 \in Nat, BankHandler(n1, n2)
  PROVE  BankTypeOK'
<1> USE DEF BankTypeOK
<1>1. CASE ResetAllBlinkersCmd \/ EnableAllBlinkersCmd \/ DisableAllBlinkersCmd
  BY <1>1, CountWrapAssumption
  DEF ResetAllBlinkersCmd, EnableAllBlinkersCmd, DisableAllBlinkersCmd, Fill
<1>2. CASE ResetSpecBlinkersCmd(n1)
  BY <1>2, CountWrapAssumption DEF ResetSpecBlinkersCmd, RefuseBlinker, bankVars
<1>3. CASE ReportSpecBlinkersCmd(n1)
  BY <1>3 DEF ReportSpecBlinkersCmd, RefuseBlinker, bankVars
<1>4. CASE EnableSpecBlinkersCmd(n1) \/ DisableSpecBlinkersCmd(n1)
  BY <1>4 DEF EnableSpecBlinkersCmd, DisableSpecBlinkersCmd, RefuseBlinker, bankVars
<1>5. CASE SwapBlinkerCountsCmd(n1, n2)
  BY <1>5, TrackedIsBlinker DEF SwapBlinkerCountsCmd, RefuseBlinker, bankVars
<1>6. QED BY <1>1, <1>2, <1>3, <1>4, <1>5 DEF BankHandler

LEMMA BankOutputsTyped ==
  ASSUME BankTypeOK, NEW n1 \in Nat, NEW n2 \in Nat, BankHandler(n1, n2)
  PROVE  out' \in Seq(Output)
<1>1. ASSUME NEW n \in Nat, Tracked(n)
      PROVE  BlinkerCounts[n] \in Nat
  BY <1>1, TrackedIsBlinker, CountWrapAssumption DEF BankTypeOK
<1>2. /\ <<>> \in Seq(Nat) /\ <<n1>> \in Seq(Nat) /\ <<n1, n2>> \in Seq(Nat)
      /\ Tracked(n1) => <<n1, BlinkerCounts[n1]>> \in Seq(Nat)
      /\ Tracked(n1) /\ Tracked(n2) =>
           <<n1, n2, BlinkerCounts[n2], BlinkerCounts[n1]>> \in Seq(Nat)
  BY <1>1
<1>3. {"AllReset", "AllEnabled", "AllDisabled", "Reset", "Report", "Enabled", "Disabled",
       "Swapped"} \subseteq Texts
  BY DEF Texts
<1>4. CASE ResetAllBlinkersCmd \/ EnableAllBlinkersCmd \/ DisableAllBlinkersCmd
  BY <1>2, <1>3, <1>4, AcknowledgeTyped
  DEF ResetAllBlinkersCmd, EnableAllBlinkersCmd, DisableAllBlinkersCmd
<1>5. CASE ResetSpecBlinkersCmd(n1) \/ ReportSpecBlinkersCmd(n1)
  BY <1>2, <1>3, <1>5, AcknowledgeTyped, RefuseTyped
  DEF ResetSpecBlinkersCmd, ReportSpecBlinkersCmd
<1>6. CASE EnableSpecBlinkersCmd(n1) \/ DisableSpecBlinkersCmd(n1)
  BY <1>2, <1>3, <1>6, AcknowledgeTyped, RefuseTyped
  DEF EnableSpecBlinkersCmd, DisableSpecBlinkersCmd
<1>7. CASE SwapBlinkerCountsCmd(n1, n2)
  BY <1>2, <1>3, <1>7, AcknowledgeTyped, RefuseTyped DEF SwapBlinkerCountsCmd
<1>8. QED BY <1>4, <1>5, <1>6, <1>7 DEF BankHandler

(***************************************************************************)
(* The pipe.                                                               *)
(***************************************************************************)
PipeOK == pipe \in Seq(Packets) /\ Len(pipe) <= PipeDepth

LEMMA DeliverTyped ==
  ASSUME PipeOK, NEW m \in Packets, Deliver(m)
  PROVE  PipeOK'
  BY PipeDepthAssumption DEF PipeOK, Deliver

LEMMA ReceiveTyped ==
  ASSUME PipeOK, NEW m, ReceiveBuffer(m)
  PROVE  PipeOK' /\ m \in Packets
  BY PipeDepthAssumption DEF PipeOK, ReceiveBuffer

LEMMA PacketsAreMessages == Packets \subseteq Message
  BY CommandsAssumption DEF Packets, Tick, Message, MessageIds, Sizes

LEMMA TableTyped ==
  ASSUME TblTypeOK,
         \/ TblManage \/ TblUnregister \/ TblRegister \/ TblValidateCmd \/ TblActivateCmd
         \/ (\E img \in Images : TblLoad(img) \/ TblLoadCmd(img))
  PROVE  TblTypeOK'
  BY ImagesAssumption
  DEF TblTypeOK, TblManage, TblUnregister, TblRegister, TblValidateCmd, TblActivateCmd,
      TblLoad, TblLoadCmd, Stages, tblVars

(***************************************************************************)
(* Type correctness.                                                       *)
(***************************************************************************)
LEMMA ZeroDataTyped ==
  ASSUME ClearData
  PROVE  /\ CmdCounter' \in 0 .. CmdWrap - 1 /\ ErrCounter' \in 0 .. CmdWrap - 1
         /\ HkTlm' \in Telemetry /\ BankTypeOK'
  BY CmdWrapAssumption, CountWrapAssumption
  DEF ClearData, ClearBank, ZeroTlm, AllZero, Telemetry, BankTypeOK

LEMMA TypeInit == Init => TypeOK
<1> SUFFICES ASSUME Init PROVE TypeOK
  OBVIOUS
<1>1. HkTlm \in Telemetry /\ BankTypeOK
  BY CountWrapAssumption DEF Init, BankInit, ZeroTlm, AllZero, Telemetry, BankTypeOK
<1>2. TblTypeOK
  BY DEF Init, TblInit, TblTypeOK, Stages
<1>3. QED
  BY <1>1, <1>2, CmdWrapAssumption, PipeDepthAssumption
  DEF Init, BusInit, TypeOK, InitSteps

\* The outputs of the actions that are not bank commands.
LEMMA LiteralOutputs ==
  /\ <<>> \in Seq(Output)
  /\ \A eid \in EventIds, text \in Texts : Event(eid, text, <<>>) \in Output
  /\ \A text \in Texts : SysLog(text, <<>>) \in Output
  /\ \A o \in Output : <<o>> \in Seq(Output)
  /\ \A o, p \in Output : <<o, p>> \in Seq(Output)
<1>1. <<>> \in Seq(Nat)
  OBVIOUS
<1>2. \A eid \in EventIds, text \in Texts : Event(eid, text, <<>>) \in Output
  BY <1>1, EmitTyped
<1>3. \A text \in Texts : SysLog(text, <<>>) \in Output
  BY <1>1, SysLogTyped
<1>4. /\ <<>> \in Seq(Output)
      /\ \A o \in Output : <<o>> \in Seq(Output)
      /\ \A o, p \in Output : <<o, p>> \in Seq(Output)
  OBVIOUS
<1>5. QED BY <1>2, <1>3, <1>4

LEMMA TypeAppInit == ASSUME TypeOK, AppInit PROVE TypeOK'
<1>1. CASE EvsRegister
  <2>1. out' \in Seq(Output)
    BY <1>1, LiteralOutputs DEF EvsRegister, GiveUp, Silent, Texts
  <2>2. QED
    BY <1>1, <2>1, ZeroDataTyped
    DEF EvsRegister, GiveUp, TypeOK, InitSteps, TblTypeOK, tblVars, busVars
<1>2. CASE CreatePipe
  <2>1. out' \in Seq(Output)
    BY <1>2, LiteralOutputs DEF CreatePipe, GiveUp, Silent, Texts, EventIds
  <2>2. QED
    BY <1>2, <2>1
    DEF CreatePipe, GiveUp, TypeOK, BankTypeOK, TblTypeOK, InitSteps, dataVars, tblVars, busVars
<1>3. CASE SubscribeAll
  <2>1. out' \in Seq(Output)
    BY <1>3, LiteralOutputs DEF SubscribeAll, SubscribeTo, GiveUp, Silent, Texts, EventIds
  <2>2. QED
    BY <1>3, <2>1
    DEF SubscribeAll, SubscribeTo, Subscribe, GiveUp, TypeOK, BankTypeOK, TblTypeOK, InitSteps,
        MessageIds, dataVars, taskVars, tblVars, busVars
<1>4. CASE RegisterTable
  <2>1. out' \in Seq(Output)
    <3>1. Event("TABLE_REG_ERR", "RegisterFailed", <<>>) \in Output /\ InitInf \in Output
      BY LiteralOutputs DEF InitInf, Texts, EventIds
    <3>2. QED BY <1>4, <3>1, LiteralOutputs DEF RegisterTable, GiveUp, Silent
  <2>2. TblTypeOK'
    BY <1>4, TableTyped DEF RegisterTable, TypeOK, TblTypeOK, tblVars
  <2>3. QED
    BY <1>4, <2>1, <2>2
    DEF RegisterTable, GiveUp, TypeOK, BankTypeOK, InitSteps, dataVars, taskVars, busVars
<1>5. CASE LoadTable
  <2>1. out' \in Seq(Output)
    BY <1>5, LiteralOutputs DEF LoadTable, GiveUp, InitInf, Emit, Texts, EventIds
  <2>2. TblTypeOK'
    BY <1>5, TableTyped DEF LoadTable, TypeOK, TblTypeOK, tblVars
  <2>3. QED
    BY <1>5, <2>1, <2>2
    DEF LoadTable, GiveUp, TypeOK, BankTypeOK, InitSteps, dataVars, taskVars, busVars
<1>6. QED BY <1>1, <1>2, <1>3, <1>4, <1>5 DEF AppInit

LEMMA TypeLoop ==
  ASSUME TypeOK, EnterLoop \/ LeaveLoop \/ ExitApp \/ ReceiveFails
  PROVE  TypeOK'
<1>1. CASE EnterLoop
  BY <1>1
  DEF EnterLoop, Silent, TypeOK, BankTypeOK, TblTypeOK, LoopSteps, dataVars, taskVars, tblVars, busVars
<1>2. CASE LeaveLoop
  BY <1>2
  DEF LeaveLoop, Silent, TypeOK, BankTypeOK, TblTypeOK, dataVars, taskVars, tblVars, busVars
<1>3. CASE ExitApp
  BY <1>3, PipeDepthAssumption
  DEF ExitApp, Silent, DeletePipe, TblUnregister, TypeOK, BankTypeOK, TblTypeOK, Stages, dataVars
<1>4. CASE ReceiveFails
  <2>1. out' \in Seq(Output)
    BY <1>4, LiteralOutputs DEF ReceiveFails, GiveUp, Texts, EventIds
  <2>2. QED
    BY <1>4, <2>1
    DEF ReceiveFails, GiveUp, TypeOK, BankTypeOK, TblTypeOK, dataVars, taskVars, tblVars, busVars
<1>5. QED BY <1>1, <1>2, <1>3, <1>4

\* Any handler of a packet, and the branches that reject it.
Handler(m) ==
  \/ BadLength(m) \/ RejectMessage(m)
  \/ NoopCmd(m) \/ ResetCountersCmd(m) \/ DisplayParamCmd(m) \/ ProcessCmd(m)
  \/ BankCommand(m) \/ BlinkTick(m) \/ SendHkCmd(m)

LEMMA TaskPipeHandles == TaskPipe => \E m \in Packets : Handler(m)
  BY DEF TaskPipe, Handler

\* What every handler has in common: it takes a packet from the pipe.
LEMMA TakeTyped ==
  ASSUME TypeOK, NEW m, NEW next \in {"RunLoop", "LogValues"}, Take(m, next)
  PROVE  /\ m \in Packets /\ m.n1 \in Nat /\ m.n2 \in Nat
         /\ pc' \in InitSteps \cup LoopSteps \cup {"RunLoop", "ExitApp", "Exited"}
         /\ RunStatus' \in {"UNDEFINED", "APP_RUN", "APP_ERROR", "APP_EXIT"}
         /\ pipe' \in Seq(Packets) /\ Len(pipe') <= PipeDepth
         /\ subs' \subseteq MessageIds
         /\ held' \subseteq {"EVS", "PIPE"}
         /\ controlReq' \in {"APP_RUN", "APP_EXIT"}
         /\ starts' \in Nat
<1>1. m \in Packets /\ pipe' \in Seq(Packets) /\ Len(pipe') <= PipeDepth
  BY ReceiveTyped DEF Take, TypeOK, PipeOK
<1>2. m.n1 \in Nat /\ m.n2 \in Nat
  BY <1>1, PacketsAreMessages DEF Message
<1>3. QED
  BY <1>1, <1>2 DEF Take, ReceiveBuffer, TypeOK, LoopSteps, taskVars

LEMMA TypeHandler ==
  ASSUME TypeOK, NEW m \in Packets, Handler(m)
  PROVE  TypeOK'
<1> DEFINE Rest == /\ CmdCounter' \in 0 .. CmdWrap - 1
                   /\ ErrCounter' \in 0 .. CmdWrap - 1
                   /\ HkTlm' \in Telemetry
                   /\ BankTypeOK'
                   /\ TblTypeOK'
                   /\ out' \in Seq(Output)
<1>1. ASSUME NEW next \in {"RunLoop", "LogValues"}, Take(m, next), Rest
      PROVE  TypeOK'
  BY <1>1, TakeTyped DEF TypeOK
<1>2. /\ "RunLoop" \in {"RunLoop", "LogValues"}
      /\ "LogValues" \in {"RunLoop", "LogValues"}
  OBVIOUS
<1>3. CASE BadLength(m)
  <2>1. out' \in Seq(Output)
    BY <1>3, LiteralOutputs DEF BadLength, Emit, Texts, EventIds
  <2>2. ErrCounter' \in 0 .. CmdWrap - 1
    BY <1>3, CmdWrapAssumption DEF BadLength, TypeOK
  <2>3. CmdCounter' \in 0 .. CmdWrap - 1 /\ HkTlm' \in Telemetry /\ BankTypeOK' /\ TblTypeOK'
    BY <1>3 DEF BadLength, TypeOK, BankTypeOK, TblTypeOK, bankVars, tblVars
  <2>4. QED BY <1>1, <1>2, <1>3, <2>1, <2>2, <2>3 DEF BadLength
<1>4. CASE NoopCmd(m)
  <2>1. out' \in Seq(Output)
    BY <1>4, LiteralOutputs DEF NoopCmd, Emit, Texts, EventIds
  <2>2. CmdCounter' \in 0 .. CmdWrap - 1
    BY <1>4, CmdWrapAssumption DEF NoopCmd, TypeOK
  <2>3. ErrCounter' \in 0 .. CmdWrap - 1 /\ HkTlm' \in Telemetry /\ BankTypeOK' /\ TblTypeOK'
    BY <1>4 DEF NoopCmd, TypeOK, BankTypeOK, TblTypeOK, bankVars, tblVars
  <2>4. QED BY <1>1, <1>2, <1>4, <2>1, <2>2, <2>3 DEF NoopCmd
<1>5. CASE ResetCountersCmd(m)
  <2>1. out' \in Seq(Output)
    BY <1>5, LiteralOutputs DEF ResetCountersCmd, Emit, Texts, EventIds
  <2>2. CmdCounter' \in 0 .. CmdWrap - 1 /\ ErrCounter' \in 0 .. CmdWrap - 1
    BY <1>5, CmdWrapAssumption DEF ResetCountersCmd
  <2>3. HkTlm' \in Telemetry /\ BankTypeOK' /\ TblTypeOK'
    BY <1>5 DEF ResetCountersCmd, TypeOK, BankTypeOK, TblTypeOK, bankVars, tblVars
  <2>4. QED BY <1>1, <1>2, <1>5, <2>1, <2>2, <2>3 DEF ResetCountersCmd
<1>6. CASE RejectMessage(m)
  <2>1. out' \in Seq(Output)
    BY <1>6, LiteralOutputs DEF RejectMessage, Emit, Texts, EventIds
  <2>2. Rest
    BY <1>6, <2>1 DEF RejectMessage, TypeOK, BankTypeOK, TblTypeOK, dataVars, tblVars
  <2>3. QED BY <1>1, <1>2, <1>6, <2>2 DEF RejectMessage
<1>7. CASE DisplayParamCmd(m)
  <2>1. <<m.n1, m.n2>> \in Seq(Nat)
    BY PacketsAreMessages DEF Message
  <2>2. out' \in Seq(Output)
    <3>1. Event("VALUE_INF", "Value", <<m.n1, m.n2>>) \in Output
      BY <2>1, EmitTyped DEF Texts, EventIds
    <3>2. QED BY <1>7, <3>1, LiteralOutputs DEF DisplayParamCmd, Emit
  <2>3. Rest
    BY <1>7, <2>2 DEF DisplayParamCmd, TypeOK, BankTypeOK, TblTypeOK, dataVars, tblVars
  <2>4. QED BY <1>1, <1>2, <1>7, <2>3 DEF DisplayParamCmd
<1>8. CASE ProcessCmd(m)
  <2>1. out' \in Seq(Output)
    BY <1>8, LiteralOutputs DEF ProcessCmd, Emit, Silent, Texts
  <2>2. Rest
    BY <1>8, <2>1 DEF ProcessCmd, TypeOK, BankTypeOK, TblTypeOK, dataVars, tblVars
  <2>3. QED BY <1>1, <1>2, <1>8, <2>2 DEF ProcessCmd
<1>9. CASE BankCommand(m)
  <2>1. BankHandler(m.n1, m.n2)
    BY <1>9 DEF BankCommand, BankHandler
  <2>2. BankTypeOK /\ m.n1 \in Nat /\ m.n2 \in Nat
    BY PacketsAreMessages DEF TypeOK, Message
  <2>3. BankTypeOK' /\ out' \in Seq(Output)
    BY <2>1, <2>2, BankCommandsTyped, BankOutputsTyped
  <2>4. Rest
    BY <1>9, <2>3 DEF BankCommand, TypeOK, TblTypeOK, counterVars, tblVars
  <2>5. QED BY <1>1, <1>2, <1>9, <2>4 DEF BankCommand
<1>10. CASE BlinkTick(m)
  <2>1. BankTypeOK' /\ out' \in Seq(Output)
    BY <1>10, BlinkTyped DEF BlinkTick, TypeOK
  <2>2. Rest
    BY <1>10, <2>1 DEF BlinkTick, TypeOK, TblTypeOK, counterVars, tblVars
  <2>3. QED BY <1>1, <1>2, <1>10, <2>2 DEF BlinkTick
<1>11. CASE SendHkCmd(m)
  <2>1. CmdCounter \in Nat /\ ErrCounter \in Nat
    BY CmdWrapAssumption DEF TypeOK
  <2>2. out' \in Seq(Output)
    <3>1. <<ErrCounter, CmdCounter>> \in Seq(Nat)
      BY <2>1
    <3>2. [id |-> "HK_TLM", text |-> "HkTlm", args |-> <<ErrCounter, CmdCounter>>] \in Output
      BY <3>1 DEF Output, Texts
    <3>3. QED BY <1>11, <3>2, LiteralOutputs DEF SendHkCmd, Emit
  <2>3. HkTlm' \in Telemetry
    BY <1>11, <2>1 DEF SendHkCmd, TypeOK, Telemetry
  <2>4. TblTypeOK'
    BY <1>11, TableTyped DEF SendHkCmd, TypeOK
  <2>5. Rest
    BY <1>11, <2>2, <2>3, <2>4 DEF SendHkCmd, TypeOK, BankTypeOK, counterVars, bankVars
  <2>6. QED BY <1>1, <1>2, <1>11, <2>5 DEF SendHkCmd
<1>12. QED BY <1>3, <1>4, <1>5, <1>6, <1>7, <1>8, <1>9, <1>10, <1>11 DEF Handler

\* The logs of ProcessCmd print a table, not an empty buffer: here the types
\* depend on the run loop having its resources.
LEMMA TypeLogs ==
  ASSUME TypeOK, RunLoopHasResources, LogValues \/ LogCrc
  PROVE  TypeOK'
<1>1. active \in Image
  BY DEF RunLoopHasResources, LogValues, LogCrc, LoopSteps, TypeOK, TblTypeOK
<1>2. <<active.Int1, active.Int2>> \in Seq(Nat)
  BY <1>1 DEF Image
<1>3. SysLog("Values", <<active.Int1, active.Int2>>) \in Output
      /\ SysLog("Crc", <<active.Int1, active.Int2>>) \in Output
  BY <1>2, SysLogTyped DEF Texts
<1>4. SysLog("GetInfoFailed", <<>>) \in Output /\ SysLog("ReleaseFailed", <<>>) \in Output
  BY LiteralOutputs DEF Texts
<1>5. out' \in Seq(Output)
  <2>1. CASE LogValues
    BY <2>1, <1>3, LiteralOutputs DEF LogValues, Emit
  <2>2. CASE LogCrc
    <3>1. PICK crc \in Output : out' \in {<<crc>>, <<crc, SysLog("ReleaseFailed", <<>>)>>}
      BY <2>2, <1>3, <1>4 DEF LogCrc
    <3>2. QED BY <3>1, <1>4, LiteralOutputs
  <2>3. QED BY <2>1, <2>2
<1>6. QED
  BY <1>5
  DEF LogValues, LogCrc, TypeOK, BankTypeOK, TblTypeOK, LoopSteps, dataVars, taskVars, tblVars, busVars

LEMMA TypeEnvironment == ASSUME TypeOK, Environment PROVE TypeOK'
<1>1. CASE GroundSends \/ RequestHk \/ RequestBlink
  <2>1. PICK m \in Packets : Send(m)
    BY <1>1 DEF GroundSends, RequestHk, RequestBlink, Packets
  <2>2. pipe' \in Seq(Packets) /\ Len(pipe') <= PipeDepth
    BY <2>1, DeliverTyped DEF Send, TypeOK, PipeOK
  <2>3. QED
    BY <2>1, <2>2
    DEF Send, Deliver, Silent, TypeOK, BankTypeOK, TblTypeOK, dataVars, taskVars, tblVars
<1>2. CASE TableCommand
  <2>1. TblTypeOK'
    BY <1>2, TableTyped DEF TableCommand, TypeOK
  <2>2. QED
    BY <1>2, <2>1 DEF TableCommand, Silent, TypeOK, BankTypeOK, dataVars, taskVars, busVars
<1>3. CASE RequestExit
  BY <1>3
  DEF RequestExit, Silent, TypeOK, BankTypeOK, TblTypeOK, dataVars, tblVars, busVars
<1>4. CASE Restart
  BY <1>4
  DEF Restart, Silent, TypeOK, BankTypeOK, TblTypeOK, InitSteps, dataVars, tblVars, busVars
<1>5. QED BY <1>1, <1>2, <1>3, <1>4 DEF Environment

\* What the app does whatever its dispatcher: all but handling a message and
\* the logs of ProcessCmd.
Common == AppInit \/ EnterLoop \/ LeaveLoop \/ ExitApp \/ ReceiveFails \/ Environment

LEMMA TypeCommon ==
  ASSUME TypeOK, Common \/ UNCHANGED vars
  PROVE  TypeOK'
<1>1. CASE UNCHANGED vars
  BY <1>1
  DEF vars, dataVars, taskVars, tblVars, busVars, TypeOK, BankTypeOK, TblTypeOK
<1>2. CASE Common
  BY <1>2, TypeAppInit, TypeLoop, TypeEnvironment DEF Common
<1>3. QED BY <1>1, <1>2

LEMMA TypeStep ==
  ASSUME TypeOK, RunLoopHasResources, [Next]_vars
  PROVE  TypeOK'
<1>1. CASE Common \/ UNCHANGED vars
  BY <1>1, TypeCommon
<1>2. CASE TaskPipe
  BY <1>2, TaskPipeHandles, TypeHandler
<1>3. CASE LogValues \/ LogCrc
  BY <1>3, TypeLogs
<1>4. QED BY <1>1, <1>2, <1>3 DEF Next, AppStep, Common

(***************************************************************************)
(* The inductive invariant.                                                *)
(***************************************************************************)
Handled == {"SEND_HK", "CMD", "BLINK"}

\* How far Init has come is visible in what cFE has given to the task; the
\* task still has it all when it is, or is about to be, inside the run loop.
Acquired ==
  /\ pc \in {"Init", "Exited"} => held = {} /\ subs = {}
  /\ pc = "CreatePipe" => held = {"EVS"} /\ subs = {}
  /\ pc \notin {"Init", "Exited", "CreatePipe", "RunLoop", "ExitApp"} => held = {"EVS", "PIPE"}
  /\ pc = "SubscribeHk" => subs = {}
  /\ pc = "SubscribeCmd" => subs = {"SEND_HK"}
  /\ pc = "SubscribeBlink" => subs = {"SEND_HK", "CMD"}
  /\ pc \in {"TblRegister", "TblLoad"} => subs = Handled
  /\ pc \in LoopSteps \/ (pc = "RunLoop" /\ RunStatus = "APP_RUN") =>
       held = {"EVS", "PIPE"} /\ subs = Handled /\ active # NoImage

\* An image on its way to the active buffer has been validated.
Validated ==
  /\ stage \in {"loaded", "validating", "valid", "invalid", "pending"} => working # NoImage
  /\ stage \in {"valid", "pending"} => TblValidationFunc(working)
  /\ active # NoImage => TblValidationFunc(active)

\* Only messages the app has subscribed to ever enter its pipe.
PipeHandled ==
  /\ subs \subseteq Handled
  /\ \A k \in 1 .. Len(pipe) : pipe[k].mid \in Handled

\* An error keeps the task out of the run loop.
ErrorOutside == RunStatus = "APP_ERROR" => pc \in {"Init", "RunLoop", "ExitApp", "Exited"}

\* What does not depend on the dispatcher the app is built with.
Core ==
  /\ TypeOK
  /\ ErrorOutside
  /\ Acquired
  /\ Validated
  /\ PipeHandled
  /\ FreshAfterRestart

IInv == Core /\ NoMessageIdError

LEMMA InvInit == Init => IInv
<1> SUFFICES ASSUME Init PROVE IInv
  OBVIOUS
<1>1. TypeOK
  BY TypeInit
<1>2. Acquired /\ Validated
  BY DEF Init, BusInit, TblInit, Acquired, Validated, LoopSteps
<1>3. PipeHandled /\ NoMessageIdError
  BY DEF Init, BusInit, PipeHandled, NoMessageIdError, Sent
<1>4. FreshAfterRestart /\ ErrorOutside
  BY DEF Init, FreshAfterRestart, ErrorOutside
<1>5. QED BY <1>1, <1>2, <1>3, <1>4 DEF IInv, Core

LEMMA LoopIsAcquired == Acquired => RunLoopHasResources
  BY DEF Acquired, RunLoopHasResources, Handled

(***************************************************************************)
(* The frame of a step: what a dispatcher may do, seen from the rest of    *)
(* the app.  All parts of Core but the types follow from it alone.         *)
(***************************************************************************)
\* A message is taken from the pipe and handled.
Handling ==
  /\ pc = "Receive" /\ pc' \in {"RunLoop", "LogValues"}
  /\ RunStatus' = RunStatus /\ held' = held /\ subs' = subs
  /\ pipe # <<>> /\ pipe' = Tail(pipe)
  /\ TblManage \/ UNCHANGED tblVars

\* ProcessCmd goes on to its next call.
Logging ==
  /\ <<pc, pc'>> \in {<<"LogValues", "LogCrc">>, <<"LogCrc", "RunLoop">>}
  /\ UNCHANGED <<RunStatus, taskVars, tblVars, busVars>>

FrameNext == Common \/ Handling \/ Logging

LEMMA HandlerTakes ==
  ASSUME NEW m, Handler(m)
  PROVE  Take(m, "RunLoop") \/ Take(m, "LogValues")
  BY
  DEF Handler, BadLength, RejectMessage, NoopCmd, ResetCountersCmd, DisplayParamCmd, ProcessCmd,
      BankCommand, BlinkTick, SendHkCmd

LEMMA HandlerFrame ==
  ASSUME NEW m, Handler(m)
  PROVE  Handling
<1>1. Take(m, "RunLoop") \/ Take(m, "LogValues")
  BY HandlerTakes
<1>2. TblManage \/ UNCHANGED tblVars
  BY
  DEF Handler, BadLength, RejectMessage, NoopCmd, ResetCountersCmd, DisplayParamCmd, ProcessCmd,
      BankCommand, BlinkTick, SendHkCmd
<1>3. QED BY <1>1, <1>2 DEF Take, ReceiveBuffer, taskVars, Handling

LEMMA TaskPipeFrame == TaskPipe => Handling
  BY TaskPipeHandles, HandlerFrame

LEMMA NextFrame == [Next]_vars => [FrameNext]_vars
<1>1. LogValues \/ LogCrc => Logging
  BY DEF LogValues, LogCrc, Logging
<1>2. QED BY <1>1, TaskPipeFrame DEF Next, AppStep, FrameNext, Common

LEMMA ValidatedStep ==
  ASSUME Core, [FrameNext]_vars
  PROVE  Validated'
<1> USE DEF Core, Validated, TypeOK, TblTypeOK, Stages
<1>1. CASE UNCHANGED tblVars
  BY <1>1 DEF tblVars
<1>2. CASE TblManage
  BY <1>2 DEF TblManage, tblVars
<1>3. CASE TblRegister
  BY <1>3 DEF TblRegister
<1>4. CASE \E img \in Images : TblLoad(img)
  BY <1>4, ImagesAssumption DEF TblLoad
<1>5. CASE TblUnregister
  BY <1>5 DEF TblUnregister
<1>6. CASE (\E img \in Images : TblLoadCmd(img)) \/ TblValidateCmd \/ TblActivateCmd
  BY <1>6, ImagesAssumption DEF TblLoadCmd, TblValidateCmd, TblActivateCmd
<1>7. \/ UNCHANGED tblVars \/ TblManage \/ TblRegister \/ TblUnregister
      \/ \E img \in Images : TblLoad(img) \/ TblLoadCmd(img)
      \/ TblValidateCmd \/ TblActivateCmd
  BY
  DEF FrameNext, Handling, Logging, Common, AppInit, EvsRegister, CreatePipe, SubscribeAll,
      SubscribeTo, RegisterTable, LoadTable, EnterLoop, LeaveLoop, ExitApp, ReceiveFails, Environment,
      GroundSends, RequestHk, RequestBlink, Send, TableCommand, RequestExit, Restart, vars
<1>8. QED BY <1>1, <1>2, <1>3, <1>4, <1>5, <1>6, <1>7

LEMMA AcquiredStep ==
  ASSUME Core, [FrameNext]_vars
  PROVE  Acquired'
<1> USE DEF Core, Acquired, LoopSteps, Handled
<1>1. CASE UNCHANGED vars
  BY <1>1 DEF vars, taskVars, tblVars, busVars
<1>2. CASE AppInit
  <2>1. CASE EvsRegister
    BY <2>1 DEF EvsRegister, GiveUp, busVars, tblVars
  <2>2. CASE CreatePipe
    BY <2>2 DEF CreatePipe, GiveUp, busVars, tblVars
  <2>3. CASE SubscribeAll
    BY <2>3 DEF SubscribeAll, SubscribeTo, Subscribe, GiveUp, busVars, taskVars, tblVars
  <2>4. CASE RegisterTable
    BY <2>4 DEF RegisterTable, GiveUp, busVars, taskVars
  <2>5. CASE LoadTable
    BY <2>5, ImagesAssumption DEF LoadTable, TblLoad, GiveUp, busVars, taskVars
  <2>6. QED BY <1>2, <2>1, <2>2, <2>3, <2>4, <2>5 DEF AppInit
<1>3. CASE EnterLoop \/ LeaveLoop \/ ReceiveFails
  BY <1>3 DEF EnterLoop, LeaveLoop, ReceiveFails, GiveUp, Continue, busVars, taskVars, tblVars
<1>4. CASE ExitApp
  BY <1>4 DEF ExitApp, DeletePipe
<1>5. CASE Handling
  <2>1. active # NoImage => active' # NoImage
    BY <1>5 DEF Handling, Validated, TblManage, tblVars
  <2>2. QED BY <1>5, <2>1 DEF Handling
<1>6. CASE Logging
  BY <1>6 DEF Logging, busVars, taskVars, tblVars
<1>7. CASE Environment
  <2>1. CASE GroundSends \/ RequestHk \/ RequestBlink
    BY <2>1 DEF GroundSends, RequestHk, RequestBlink, Send, Deliver, taskVars, tblVars
  <2>2. CASE TableCommand
    BY <2>2 DEF TableCommand, TblLoadCmd, TblValidateCmd, TblActivateCmd, busVars, taskVars
  <2>3. CASE RequestExit \/ Restart
    BY <2>3 DEF RequestExit, Restart, busVars, tblVars
  <2>4. QED BY <1>7, <2>1, <2>2, <2>3 DEF Environment
<1>8. QED BY <1>1, <1>2, <1>3, <1>4, <1>5, <1>6, <1>7 DEF FrameNext, Common

LEMMA PipeHandledStep ==
  ASSUME Core, [FrameNext]_vars
  PROVE  PipeHandled'
<1> USE DEF Core, PipeHandled, TypeOK
<1>1. CASE UNCHANGED busVars
  BY <1>1 DEF busVars
<1>2. CASE Handling
  <2>1. /\ Len(Tail(pipe)) = Len(pipe) - 1
        /\ \A k \in 1 .. Len(Tail(pipe)) : Tail(pipe)[k] = pipe[k + 1]
    BY <1>2 DEF Handling
  <2>2. \A k \in 1 .. Len(pipe') : pipe'[k] = pipe[k + 1] /\ k + 1 \in 1 .. Len(pipe)
    BY <1>2, <2>1 DEF Handling
  <2>3. QED BY <1>2, <2>2 DEF Handling
<1>3. CASE \E m \in Packets : Send(m)
  <2>1. PICK m \in Packets : Deliver(m)
    BY <1>3 DEF Send
  <2>2. \A k \in 1 .. Len(pipe') : pipe'[k] = IF k = Len(pipe) + 1 THEN m ELSE pipe[k]
    BY <2>1 DEF Deliver
  <2>3. Len(pipe') = Len(pipe) + 1 /\ m.mid \in Handled /\ subs' = subs
    BY <2>1 DEF Deliver
  <2>4. QED BY <2>2, <2>3
<1>4. CASE SubscribeAll
  BY <1>4 DEF SubscribeAll, SubscribeTo, Subscribe, Handled, busVars
<1>5. CASE ExitApp
  BY <1>5 DEF ExitApp, DeletePipe
<1>6. \/ UNCHANGED busVars \/ Handling \/ SubscribeAll \/ ExitApp
      \/ \E m \in Packets : Send(m)
  BY DEF FrameNext, Common, AppInit, EvsRegister, CreatePipe, RegisterTable, LoadTable, EnterLoop,
         LeaveLoop, Logging, ReceiveFails, Environment, GroundSends, RequestHk,
         RequestBlink, TableCommand, RequestExit, Restart, Packets, vars
<1>7. QED BY <1>1, <1>2, <1>3, <1>4, <1>5, <1>6

LEMMA FreshStep ==
  ASSUME Core, [FrameNext]_vars
  PROVE  FreshAfterRestart'
<1> USE DEF Core, FreshAfterRestart, InitSteps
<1>1. CASE EvsRegister
  BY <1>1 DEF EvsRegister, ClearData, ClearBank
<1>2. CASE UNCHANGED dataVars /\ (pc' = pc \/ pc \in InitSteps \ {"Init"} \/ pc' \notin InitSteps \ {"Init"})
  BY <1>2 DEF dataVars
<1>3. CASE Handling
  BY <1>3 DEF Handling
<1>4. QED
  BY <1>1, <1>2, <1>3
  DEF FrameNext, Common, AppInit, CreatePipe, SubscribeAll, SubscribeTo, RegisterTable, LoadTable,
      GiveUp, EnterLoop, LeaveLoop, ExitApp, Logging, ReceiveFails, Environment,
      GroundSends, RequestHk, RequestBlink, Send, TableCommand, RequestExit, Restart, vars

LEMMA ErrorOutsideStep ==
  ASSUME Core, [FrameNext]_vars
  PROVE  ErrorOutside'
<1> USE DEF Core, ErrorOutside
<1>1. CASE UNCHANGED vars
  BY <1>1 DEF vars
<1>2. CASE Handling
  BY <1>2 DEF Handling
<1>3. CASE FrameNext /\ ~ Handling
  BY <1>3
  DEF FrameNext, Common, AppInit, EvsRegister, CreatePipe, SubscribeAll, SubscribeTo, RegisterTable,
      LoadTable, GiveUp, EnterLoop, Continue, LeaveLoop, ExitApp, Logging, ReceiveFails,
      Environment, GroundSends, RequestHk, RequestBlink, Send, TableCommand, RequestExit, Restart
<1>4. QED BY <1>1, <1>2, <1>3

LEMMA CoreStep ==
  ASSUME Core, [FrameNext]_vars, TypeOK'
  PROVE  Core'
  BY AcquiredStep, ValidatedStep, PipeHandledStep, FreshStep, ErrorOutsideStep DEF Core

\* What a step has sent and said, by the number of its outputs.
LEMMA NoOutput ==
  ASSUME out' = <<>>
  PROVE  \A x : ~ Sent(x)' /\ ~ Said(x)'
  BY DEF Sent, Said

LEMMA OneOutput ==
  ASSUME NEW o, out' = <<o>>
  PROVE  out'[1] = o /\ (\A x : (Sent(x)' <=> o.id = x) /\ (Said(x)' <=> o.text = x))
<1>1. DOMAIN out' = {1} /\ out'[1] = o
  OBVIOUS
<1>2. QED BY <1>1 DEF Sent, Said

LEMMA TwoOutputs ==
  ASSUME NEW o, NEW p, out' = <<o, p>>
  PROVE  /\ out'[1] = o
         /\ \A x : /\ Sent(x)' <=> (o.id = x \/ p.id = x)
                   /\ Said(x)' <=> (o.text = x \/ p.text = x)
<1>1. DOMAIN out' = {1, 2} /\ out'[1] = o /\ out'[2] = p
  OBVIOUS
<1>2. QED BY <1>1 DEF Sent, Said

\* Outputs among which there is no MID_ERR.
LEMMA NoMidOutputs ==
  ASSUME \/ out' = <<>>
         \/ \E o : out' = <<o>> /\ o.id # "MID_ERR"
         \/ \E o, p : out' = <<o, p>> /\ o.id # "MID_ERR" /\ p.id # "MID_ERR"
  PROVE  NoMessageIdError'
  BY DEF NoMessageIdError, Sent

LEMMA NoMidTaskPipe ==
  ASSUME IInv, TaskPipe
  PROVE  NoMessageIdError'
<1> PICK m \in Packets : Handler(m)
  BY TaskPipeHandles
<1>1. CASE RejectMessage(m)
  <2>1. m = pipe[1] /\ 1 \in 1 .. Len(pipe)
    BY <1>1 DEF RejectMessage, Take, ReceiveBuffer, IInv, Core, TypeOK
  <2>2. m.mid \in Handled
    BY <2>1 DEF IInv, Core, PipeHandled
  <2>3. m.mid = "CMD"
    BY <1>1, <2>2 DEF RejectMessage, Dispatchable, Handled
  <2>4. out' = <<Event("CC_ERR", "Invalid", <<>>)>>
    BY <1>1, <2>3 DEF RejectMessage, Emit
  <2>5. QED BY <2>4, NoMidOutputs DEF Event
<1>2. CASE BadLength(m) \/ NoopCmd(m) \/ ResetCountersCmd(m) \/ DisplayParamCmd(m)
  BY <1>2, NoMidOutputs DEF BadLength, NoopCmd, ResetCountersCmd, DisplayParamCmd, Emit, Event
<1>3. CASE ProcessCmd(m) \/ BlinkTick(m) \/ SendHkCmd(m)
  BY <1>3, NoMidOutputs DEF ProcessCmd, BlinkTick, Blink, SendHkCmd, Emit, Silent, SysLog
<1>4. CASE BankCommand(m)
  <2>1. \E o : out' = <<o>> /\ o.id \in {"REPORT_SPEC_BLINKER_INF", "CC_ERR"}
    BY <1>4
    DEF BankCommand, ResetAllBlinkersCmd, EnableAllBlinkersCmd, DisableAllBlinkersCmd,
        ResetSpecBlinkersCmd, ReportSpecBlinkersCmd, EnableSpecBlinkersCmd,
        DisableSpecBlinkersCmd, SwapBlinkerCountsCmd, Acknowledge, RefuseBlinker, Emit, Event
  <2>2. QED BY <2>1, NoMidOutputs
<1>5. QED BY <1>1, <1>2, <1>3, <1>4 DEF Handler

LEMMA NoMidStep ==
  ASSUME IInv, [Next]_vars
  PROVE  NoMessageIdError'
<1>1. CASE UNCHANGED vars
  BY <1>1 DEF IInv, NoMessageIdError, Sent, vars
<1>2. CASE TaskPipe
  BY <1>2, NoMidTaskPipe
<1>3. CASE AppInit
  BY <1>3, NoMidOutputs
  DEF AppInit, EvsRegister, CreatePipe, SubscribeAll, SubscribeTo, RegisterTable, LoadTable,
      GiveUp, InitInf, Silent, Emit, Event, SysLog
<1>4. CASE EnterLoop \/ LeaveLoop \/ ExitApp \/ LogValues \/ ReceiveFails
  BY <1>4, NoMidOutputs
  DEF EnterLoop, LeaveLoop, ExitApp, LogValues, ReceiveFails, GiveUp, Silent, Emit, Event, SysLog
<1>5. CASE LogCrc
  <2>1. PICK crc : /\ out' \in {<<crc>>, <<crc, SysLog("ReleaseFailed", <<>>)>>}
                   /\ crc.id = "SYSLOG"
    BY <1>5 DEF LogCrc, SysLog
  <2>2. QED BY <2>1, NoMidOutputs DEF SysLog
<1>6. CASE Environment
  BY <1>6, NoMidOutputs
  DEF Environment, GroundSends, RequestHk, RequestBlink, Send, TableCommand, RequestExit,
      Restart, Silent
<1>7. QED BY <1>1, <1>2, <1>3, <1>4, <1>5, <1>6 DEF Next, AppStep

LEMMA IInvStep ==
  ASSUME IInv, [Next]_vars
  PROVE  IInv'
<1>1. TypeOK'
  BY TypeStep, LoopIsAcquired DEF IInv, Core
<1>2. QED
  BY <1>1, NextFrame, CoreStep, NoMidStep DEF IInv

(***************************************************************************)
(* Theorems.                                                               *)
(***************************************************************************)

\* The parts above make an invariant of every behaviour of the app.
THEOREM Invariance == Spec => []IInv
<1>1. Init => IInv
  BY InvInit
<1>2. IInv /\ [Next]_vars => IInv'
  BY IInvStep
<1>3. QED BY <1>1, <1>2, PTL DEF Spec

\* Every variable keeps its type, for every number of blinkers, depth of the
\* pipe and width of the counters: the counters of blinker_app.h:53-54 and
\* :82-83 stay in range, and the pipe within its depth.
THEOREM TypeCorrect == Spec => []TypeOK
<1>1. IInv => TypeOK
  BY DEF IInv, Core
<1>2. QED BY <1>1, Invariance, PTL

\* Inside the run loop the task has everything BLINKER_APP_Init acquires.
THEOREM ResourcesAcquired == Spec => []RunLoopHasResources
<1>1. IInv => RunLoopHasResources
  BY LoopIsAcquired DEF IInv, Core
<1>2. QED BY <1>1, Invariance, PTL

\* The default branch of BLINKER_APP_TaskPipe is never taken.
THEOREM NoUnknownMessageId == Spec => []NoMessageIdError
<1>1. IInv => NoMessageIdError
  BY DEF IInv
<1>2. QED BY <1>1, Invariance, PTL

\* No invalid image ever becomes active, by the initial load or by commands.
THEOREM ActiveIsValid == Spec => []ActiveImageValid
<1>1. IInv => ActiveImageValid
  <2> SUFFICES ASSUME IInv, active # NoImage PROVE active.Int1 <= TblElement1Max
    BY DEF ActiveImageValid
  <2>1. active.Int1 \in Nat
    BY DEF IInv, Core, TypeOK, TblTypeOK, Image
  <2>2. QED
    BY <2>1, TblElement1MaxAssumption DEF IInv, Core, Validated, TblValidationFunc
<1>2. QED BY <1>1, Invariance, PTL

\* A restarted app starts from zeroed data, whatever the last run left.
THEOREM RestartIsFresh == Spec => []FreshAfterRestart
<1>1. IInv => FreshAfterRestart
  BY DEF IInv, Core
<1>2. QED BY <1>1, Invariance, PTL

\* With RunStatus APP_ERROR no message is handled any more, and nothing else
\* changes the data before ES starts the app again.
THEOREM ErrorStopsHandling == Spec => ErrorIsFinal
<1>1. IInv /\ [Next]_vars =>
        [RunStatus = "APP_ERROR" /\ pc # "Init" => UNCHANGED dataVars]_vars
  <2> SUFFICES ASSUME IInv, Next, RunStatus = "APP_ERROR", pc # "Init"
               PROVE  UNCHANGED dataVars
    OBVIOUS
  <2>1. pc \in {"RunLoop", "ExitApp", "Exited"}
    BY DEF IInv, Core, ErrorOutside
  <2>2. ~ TaskPipe
    BY <2>1, TaskPipeFrame DEF Handling
  <2>3. QED
    BY <2>1, <2>2
    DEF Next, AppStep, AppInit, EvsRegister, CreatePipe, SubscribeAll, SubscribeTo, RegisterTable,
        LoadTable, EnterLoop, LeaveLoop, ExitApp, LogValues, LogCrc, ReceiveFails, Environment,
        GroundSends, RequestHk, RequestBlink, Send, TableCommand, RequestExit, Restart
<1>2. QED BY <1>1, Invariance, PTL DEF Spec, ErrorIsFinal
================================================================================
