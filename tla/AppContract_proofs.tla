--------------------------- MODULE AppContract_proofs ---------------------------
(***************************************************************************)
(* The app implements its contract, for every value of the constants:      *)
(* each step of BlinkerApp is, under the mapping of AppContract, a step of  *)
(* BlinkerContract or changes nothing the contract speaks of.              *)
(***************************************************************************)
EXTENDS AppContract, BlinkerApp_proofs

\* From the moment Init has registered for events until the loop is left the
\* app wants to run: without it "running" would not be what the loop allows.
StatusRuns == pc \in (InitSteps \ {"Init"}) \cup LoopSteps => RunStatus = "APP_RUN"

LEMMA StatusRunsStep ==
  ASSUME StatusRuns, [FrameNext]_vars
  PROVE  StatusRuns'
<1> USE DEF StatusRuns, InitSteps, LoopSteps
<1>1. CASE UNCHANGED vars
  BY <1>1 DEF vars
<1>2. CASE Handling
  BY <1>2 DEF Handling
<1>3. CASE FrameNext /\ ~ Handling
  BY <1>3
  DEF FrameNext, Common, Logging, AppInit, EvsRegister, CreatePipe, SubscribeAll, SubscribeTo,
      RegisterTable, LoadTable, GiveUp, EnterLoop, Continue, LeaveLoop, ExitApp, ReceiveFails,
      Environment, GroundSends, RequestHk, RequestBlink, Send, TableCommand, RequestExit, Restart
<1>4. QED BY <1>1, <1>2, <1>3

\* The invariant the refinement needs, of either build.
CInv == Core /\ StatusRuns

LEMMA CInvariance == Spec => []CInv
<1>1. Init => StatusRuns
  BY DEF Init, StatusRuns, LoopSteps
<1>2. StatusRuns /\ [Next]_vars => StatusRuns'
  BY StatusRunsStep, NextFrame
<1>3. Spec => []StatusRuns
  BY <1>1, <1>2, PTL DEF Spec
<1>4. IInv => Core
  BY DEF IInv
<1>5. QED BY <1>3, <1>4, Invariance, PTL DEF CInv

(***************************************************************************)
(* Answers.                                                                *)
(***************************************************************************)
Answers == {"Report", "Swapped", "HkTlm"}

LEMMA OtherTexts ==
  ASSUME \A k \in DOMAIN out' : out'[k].text \notin Answers
  PROVE  Answer' = <<>>
<1>1. ~ Said("Report")' /\ ~ Said("Swapped")' /\ ~ Said("HkTlm")'
  BY DEF Said, Answers
<1>2. QED BY <1>1 DEF Answer

LEMMA NoAnswer ==
  ASSUME \/ out' = <<>>
         \/ \E o : out' = <<o>> /\ o.text \notin {"Report", "Swapped", "HkTlm"}
         \/ \E o, p : /\ out' = <<o, p>>
                      /\ {o.text, p.text} \cap {"Report", "Swapped", "HkTlm"} = {}
  PROVE  Answer' = <<>>
<1>1. \A k \in DOMAIN out' : out'[k].text \notin Answers
  <2>1. CASE out' = <<>>
    BY <2>1
  <2>2. CASE \E o : out' = <<o>> /\ o.text \notin {"Report", "Swapped", "HkTlm"}
    BY <2>2 DEF Answers
  <2>3. CASE \E o, p : /\ out' = <<o, p>>
                       /\ {o.text, p.text} \cap {"Report", "Swapped", "HkTlm"} = {}
    <3>1. PICK o, p : /\ out' = <<o, p>>
                      /\ {o.text, p.text} \cap {"Report", "Swapped", "HkTlm"} = {}
      BY <2>3
    <3>2. DOMAIN out' = {1, 2} /\ out'[1] = o /\ out'[2] = p
      BY <3>1
    <3>3. QED BY <3>1, <3>2 DEF Answers
  <2>4. QED BY <2>1, <2>2, <2>3
<1>2. QED BY <1>1, OtherTexts

LEMMA OneAnswer ==
  ASSUME NEW o, out' = <<o>>, o.text \in {"Report", "Swapped", "HkTlm"}
  PROVE  Answer' = o.args
<1>1. DOMAIN out' = {1} /\ out'[1] = o
  OBVIOUS
<1>2. Said("Report")' \/ Said("Swapped")' \/ Said("HkTlm")'
  BY <1>1 DEF Said
<1>3. QED BY <1>1, <1>2 DEF Answer

\* A step that leaves data, table and stage of life alone and answers nothing.
LEMMA QuietStep ==
  ASSUME Life' = Life, UNCHANGED <<CmdCounter, ErrCounter, BlinkerCounts, BlinkerStatuses, active>>,
         Answer' = <<>>
  PROVE  Contract!Next
  BY DEF Contract!Next, Contract!Quiet, Contract!bank, Contract!counters, Enabled

(***************************************************************************)
(* The life of the app.                                                    *)
(***************************************************************************)
LEMMA EvsRegisterKeeps ==
  ASSUME CInv, EvsRegister
  PROVE  Contract!Next
<1>1. Life = "down" /\ Life' \in {"starting", "stopping"}
  BY DEF EvsRegister, GiveUp, Life, InitSteps, LoopSteps
<1>2. /\ BlinkerCounts' = [i \in 0 .. TotalBlinkers - 1 |-> 0] /\ Enabled' = {}
      /\ CmdCounter' = 0 /\ ErrCounter' = 0
  BY DEF EvsRegister, ClearData, ClearBank, AllZero, Blinkers, Enabled
<1>3. Answer' = <<>>
  BY NoAnswer DEF EvsRegister, GiveUp, Silent, SysLog
<1>4. active' = active
  BY DEF EvsRegister, tblVars
<1>5. QED
  BY <1>1, <1>2, <1>3, <1>4
  DEF Contract!Next, Contract!Start, Contract!Zero, Contract!Numbers

\* A call of Init other than the first and the last.
LEMMA AcquireKeeps ==
  ASSUME CInv, CreatePipe \/ SubscribeAll \/ RegisterTable
  PROVE  Contract!Next
<1>1. Life = "starting" /\ Life' \in {"starting", "stopping"}
  BY DEF CreatePipe, SubscribeAll, SubscribeTo, RegisterTable, GiveUp, Life, InitSteps, LoopSteps
<1>2. UNCHANGED <<CmdCounter, ErrCounter, BlinkerCounts, BlinkerStatuses, active>>
  BY DEF CreatePipe, SubscribeAll, SubscribeTo, RegisterTable, TblRegister, dataVars, tblVars
<1>3. Answer' = <<>>
  BY NoAnswer
  DEF CreatePipe, SubscribeAll, SubscribeTo, RegisterTable, GiveUp, Silent, InitInf, Event
<1>4. CASE Life' = Life
  BY <1>2, <1>3, <1>4, QuietStep
<1>5. CASE Life' = "stopping"
  BY <1>1, <1>2, <1>3, <1>5
  DEF Contract!Next, Contract!GiveUp, Contract!bank, Contract!counters, Enabled
<1>6. QED BY <1>1, <1>4, <1>5

LEMMA LoadKeeps ==
  ASSUME CInv, LoadTable
  PROVE  Contract!Next
<1>1. Life = "starting"
  BY DEF LoadTable, Life, InitSteps
<1>2. UNCHANGED <<CmdCounter, ErrCounter, BlinkerCounts, BlinkerStatuses>>
  BY DEF LoadTable, dataVars
<1>3. Answer' = <<>>
  BY NoAnswer DEF LoadTable, GiveUp, Emit, InitInf, Event
<1>4. CASE \E img \in Images : TblLoad(img) /\ RunStatus' = RunStatus
  <2>1. active' \in Valid
    BY <1>4, ImagesAssumption DEF TblLoad, Valid
  <2>2. Life' = "running"
    BY <1>4 DEF LoadTable, GiveUp, Life, CInv, StatusRuns, InitSteps, LoopSteps
  <2>3. QED
    BY <1>1, <1>2, <1>3, <2>1, <2>2
    DEF Contract!Next, Contract!Ready, Contract!bank, Contract!counters, Enabled
<1>5. CASE GiveUp(<<InitInf>>) /\ UNCHANGED tblVars
  <2>1. Life' = "stopping" /\ active' = active
    BY <1>5 DEF GiveUp, Life, InitSteps, LoopSteps, tblVars
  <2>2. QED
    BY <1>1, <1>2, <1>3, <2>1
    DEF Contract!Next, Contract!GiveUp, Contract!bank, Contract!counters, Enabled
<1>6. QED BY <1>4, <1>5 DEF LoadTable

LEMMA LoopKeeps ==
  ASSUME CInv, EnterLoop \/ LeaveLoop \/ ReceiveFails
  PROVE  Contract!Next
<1>1. UNCHANGED <<CmdCounter, ErrCounter, BlinkerCounts, BlinkerStatuses, active>>
  BY DEF EnterLoop, LeaveLoop, ReceiveFails, dataVars, tblVars
<1>2. Answer' = <<>>
  BY NoAnswer DEF EnterLoop, LeaveLoop, ReceiveFails, GiveUp, Silent, Event
<1>3. Life' = Life \/ (Life = "running" /\ Life' = "stopping")
  BY DEF EnterLoop, LeaveLoop, ReceiveFails, GiveUp, Continue, Life, InitSteps, LoopSteps
<1>4. QED
  BY <1>1, <1>2, <1>3, QuietStep
  DEF Contract!Next, Contract!GiveUp, Contract!bank, Contract!counters, Enabled

LEMMA ExitKeeps ==
  ASSUME CInv, ExitApp
  PROVE  Contract!Next
<1>1. Life = "stopping" /\ Life' = "down"
  BY DEF ExitApp, Life, InitSteps, LoopSteps
<1>2. /\ UNCHANGED <<CmdCounter, ErrCounter, BlinkerCounts, BlinkerStatuses>>
      /\ active' = NoImage
  BY DEF ExitApp, TblUnregister, dataVars
<1>3. Answer' = <<>>
  BY NoAnswer DEF ExitApp, Silent
<1>4. QED
  BY <1>1, <1>2, <1>3
  DEF Contract!Next, Contract!Stop, Contract!bank, Contract!counters, Enabled

\* The logs of PROCESS, and everything the rest of the system does.
LEMMA UnseenKeeps ==
  ASSUME CInv, LogValues \/ LogCrc \/ Environment
  PROVE  Contract!Next
<1>1. UNCHANGED <<CmdCounter, ErrCounter, BlinkerCounts, BlinkerStatuses, active>>
  BY DEF LogValues, LogCrc, Environment, GroundSends, RequestHk, RequestBlink, Send,
         TableCommand, TblLoadCmd, TblValidateCmd, TblActivateCmd, RequestExit, Restart,
         dataVars, tblVars
<1>2. Life' = Life
  BY DEF LogValues, LogCrc, Environment, GroundSends, RequestHk, RequestBlink, Send,
         TableCommand, RequestExit, Restart, Life, CInv, StatusRuns, InitSteps, LoopSteps
<1>3. Answer' = <<>>
  <2>1. CASE LogValues
    BY <2>1, NoAnswer DEF LogValues, Emit, SysLog
  <2>2. CASE LogCrc
    BY <2>2, NoAnswer DEF LogCrc, SysLog
  <2>3. CASE Environment
    BY <2>3, NoAnswer
    DEF Environment, GroundSends, RequestHk, RequestBlink, Send, TableCommand, RequestExit,
        Restart, Silent
  <2>4. QED BY <2>1, <2>2, <2>3
<1>4. QED BY <1>1, <1>2, <1>3, QuietStep

(***************************************************************************)
(* The handlers.                                                           *)
(***************************************************************************)
LEMMA HandlerRuns ==
  ASSUME CInv, Handling
  PROVE  Life = "running" /\ UNCHANGED Life
<1>1. RunStatus = "APP_RUN"
  BY DEF Handling, CInv, StatusRuns, LoopSteps
<1>2. QED
  BY <1>1 DEF Handling, Life, InitSteps, LoopSteps

LEMMA EnabledIsSet ==
  ASSUME BankTypeOK, NEW i \in Blinkers
  PROVE  i \in Enabled <=> BlinkerStatuses[i] # 0
  BY DEF Enabled

\* The counters: NOOP, RESET_COUNTERS and a bad length.
LEMMA CountersKeep ==
  ASSUME CInv, Handling, NEW m, NoopCmd(m) \/ ResetCountersCmd(m) \/ BadLength(m)
  PROVE  Contract!Next
<1>1. Answer' = <<>>
  BY NoAnswer DEF NoopCmd, ResetCountersCmd, BadLength, Emit, Event
<1>2. UNCHANGED <<BlinkerCounts, BlinkerStatuses, active>>
  BY DEF NoopCmd, ResetCountersCmd, BadLength, bankVars, tblVars
<1>3. \/ CmdCounter' = (CmdCounter + 1) % CmdWrap /\ UNCHANGED ErrCounter
      \/ ErrCounter' = (ErrCounter + 1) % CmdWrap /\ UNCHANGED CmdCounter
      \/ CmdCounter' = 0 /\ ErrCounter' = 0
  BY DEF NoopCmd, ResetCountersCmd, BadLength
<1>4. Contract!Count
  BY <1>1, <1>2, <1>3 DEF Contract!Count, Contract!bank, Enabled
<1>5. QED
  BY <1>4, HandlerRuns DEF Contract!Next, Contract!Operate

\* Handlers that neither change the data nor report on it.
LEMMA SilentHandlersKeep ==
  ASSUME CInv, Handling, NEW m, RejectMessage(m) \/ DisplayParamCmd(m) \/ ProcessCmd(m)
  PROVE  Contract!Next
<1>1. Answer' = <<>>
  BY NoAnswer DEF RejectMessage, DisplayParamCmd, ProcessCmd, Emit, Silent, Event, SysLog
<1>2. UNCHANGED <<CmdCounter, ErrCounter, BlinkerCounts, BlinkerStatuses, active>>
  BY DEF RejectMessage, DisplayParamCmd, ProcessCmd, dataVars, tblVars
<1>3. QED BY <1>1, <1>2, HandlerRuns, QuietStep

\* Housekeeping tells the counters; a table that becomes active is valid,
\* because it was validated before it could be pending.
LEMMA SendHkKeeps ==
  ASSUME CInv, Handling, NEW m, SendHkCmd(m)
  PROVE  Contract!Next
<1>1. Answer' = <<ErrCounter, CmdCounter>>
  BY OneAnswer DEF SendHkCmd, Emit
<1>2. UNCHANGED <<CmdCounter, ErrCounter, BlinkerCounts, BlinkerStatuses>>
  BY DEF SendHkCmd, counterVars, bankVars
<1>3. active' \in Valid \cup {active}
  BY DEF SendHkCmd, TblManage, tblVars, CInv, Core, Validated, TypeOK, TblTypeOK, Valid
<1>4. Contract!HouseKeep
  BY <1>1, <1>2, <1>3 DEF Contract!HouseKeep, Contract!bank, Contract!counters, Enabled
<1>5. QED
  BY <1>4, HandlerRuns DEF Contract!Next, Contract!Operate

LEMMA BlinkKeeps ==
  ASSUME CInv, Handling, NEW m, BlinkTick(m)
  PROVE  Contract!Next
<1>1. Answer' = <<>>
  BY NoAnswer DEF BlinkTick, Blink, Silent
<1>2. UNCHANGED <<CmdCounter, ErrCounter, BlinkerStatuses, active>>
  BY DEF BlinkTick, Blink, counterVars, tblVars
<1>3. BlinkerCounts' = [i \in 0 .. TotalBlinkers - 1 |->
                          IF i \in Enabled THEN (BlinkerCounts[i] + 1) % CountWrap
                                           ELSE BlinkerCounts[i]]
  BY DEF BlinkTick, Blink, Blinkers, Enabled
<1>4. Contract!Blink
  BY <1>1, <1>2, <1>3 DEF Contract!Blink, Contract!counters, Contract!Numbers, Enabled
<1>5. QED
  BY <1>4, HandlerRuns DEF Contract!Next, Contract!Operate

(***************************************************************************)
(* The bank commands.                                                      *)
(***************************************************************************)
LEMMA GroupsCovered ==
  /\ Swept \in Contract!Groups /\ Swept \subseteq Blinkers
  /\ \A i \in Blinkers : {i} \in Contract!Groups
<1>1. Swept = (0 .. TotalBlinkers - 1) \ {TotalBlinkers - 1}
  BY TotalBlinkersAssumption DEF Swept
<1>2. QED BY <1>1 DEF Contract!Groups, Contract!Numbers, Blinkers, Swept

\* A command that is refused, or that has switched a group of blinkers on or
\* off, reset a group, reported a blinker, or exchanged two counts.
LEMMA SwitchKeeps ==
  ASSUME BankTypeOK, Answer' = <<>>,
         UNCHANGED <<CmdCounter, ErrCounter, BlinkerCounts, active>>,
         NEW G \in Contract!Groups, NEW v \in {0, 1}, G \subseteq Blinkers,
         BlinkerStatuses' = [i \in Blinkers |-> IF i \in G THEN v ELSE BlinkerStatuses[i]]
  PROVE  Contract!Switch(G)
<1>1. CASE v = 1
  <2>1. Enabled' = Enabled \cup G
    BY <1>1 DEF Enabled
  <2>2. QED BY <2>1 DEF Contract!Switch, Contract!counters
<1>2. CASE v = 0
  <2>1. Enabled' = Enabled \ G
    BY <1>2 DEF Enabled
  <2>2. QED BY <2>1 DEF Contract!Switch, Contract!counters
<1>3. QED BY <1>1, <1>2

LEMMA AllCommandsKeep ==
  ASSUME CInv, UNCHANGED <<CmdCounter, ErrCounter, active>>,
         ResetAllBlinkersCmd \/ EnableAllBlinkersCmd \/ DisableAllBlinkersCmd
  PROVE  \E G \in Contract!Groups : Contract!Switch(G) \/ Contract!ResetCounts(G)
<1>1. Answer' = <<>>
  BY NoAnswer
  DEF ResetAllBlinkersCmd, EnableAllBlinkersCmd, DisableAllBlinkersCmd, Acknowledge, Emit, Event
<1>2. BankTypeOK
  BY DEF CInv, Core, TypeOK
<1>3. CASE ResetAllBlinkersCmd
  <2>1. Contract!ResetCounts(Swept)
    BY <1>1, <1>3
    DEF ResetAllBlinkersCmd, Fill, Contract!ResetCounts, Contract!Numbers, Contract!counters,
        Enabled, Blinkers
  <2>2. QED BY <2>1, GroupsCovered
<1>4. CASE EnableAllBlinkersCmd
  <2>1. Contract!Switch(Swept)
    BY <1>1, <1>2, <1>4, SwitchKeeps, GroupsCovered DEF EnableAllBlinkersCmd, Fill
  <2>2. QED BY <2>1, GroupsCovered
<1>5. CASE DisableAllBlinkersCmd
  <2>1. Contract!Switch(Swept)
    BY <1>1, <1>2, <1>5, SwitchKeeps, GroupsCovered DEF DisableAllBlinkersCmd, Fill
  <2>2. QED BY <2>1, GroupsCovered
<1>6. QED BY <1>3, <1>4, <1>5

LEMMA SpecCommandsKeep ==
  ASSUME CInv, UNCHANGED <<CmdCounter, ErrCounter, active>>, NEW n \in Blinkers, Tracked(n),
         \/ ResetSpecBlinkersCmd(n) \/ ReportSpecBlinkersCmd(n)
         \/ EnableSpecBlinkersCmd(n) \/ DisableSpecBlinkersCmd(n)
  PROVE  \/ \E G \in Contract!Groups : Contract!Switch(G) \/ Contract!ResetCounts(G)
         \/ \E i \in Contract!Numbers : Contract!Report(i)
<1>1. BankTypeOK /\ {n} \in Contract!Groups /\ {n} \subseteq Blinkers
  BY GroupsCovered DEF CInv, Core, TypeOK
<1>2. CASE ResetSpecBlinkersCmd(n)
  <2>1. Answer' = <<>>
    BY <1>2, NoAnswer DEF ResetSpecBlinkersCmd, Acknowledge, Emit, Event
  <2>2. BlinkerCounts' = [i \in 0 .. TotalBlinkers - 1 |-> IF i \in {n} THEN 0 ELSE BlinkerCounts[i]]
    BY <1>1, <1>2 DEF ResetSpecBlinkersCmd, BankTypeOK, Blinkers
  <2>3. Contract!ResetCounts({n})
    BY <1>2, <2>1, <2>2
    DEF ResetSpecBlinkersCmd, Contract!ResetCounts, Contract!Numbers, Contract!counters, Enabled
  <2>4. QED BY <1>1, <2>3
<1>3. CASE ReportSpecBlinkersCmd(n)
  <2>1. Answer' = <<n, BlinkerCounts[n]>>
    BY <1>3, OneAnswer DEF ReportSpecBlinkersCmd, Acknowledge, Emit, Event
  <2>2. Contract!Report(n)
    BY <1>3, <2>1
    DEF ReportSpecBlinkersCmd, Contract!Report, Contract!bank, Contract!counters, bankVars, Enabled
  <2>3. QED BY <2>2 DEF Contract!Numbers, Blinkers
<1>4. CASE EnableSpecBlinkersCmd(n)
  <2>1. Answer' = <<>>
    BY <1>4, NoAnswer DEF EnableSpecBlinkersCmd, Acknowledge, Emit, Event
  <2>2. BlinkerStatuses' = [i \in Blinkers |-> IF i \in {n} THEN 1 ELSE BlinkerStatuses[i]]
    BY <1>1, <1>4 DEF EnableSpecBlinkersCmd, BankTypeOK
  <2>3. BlinkerCounts' = BlinkerCounts
    BY <1>4 DEF EnableSpecBlinkersCmd
  <2>4. QED BY <1>1, <2>1, <2>2, <2>3, SwitchKeeps
<1>5. CASE DisableSpecBlinkersCmd(n)
  <2>1. Answer' = <<>>
    BY <1>5, NoAnswer DEF DisableSpecBlinkersCmd, Acknowledge, Emit, Event
  <2>2. BlinkerStatuses' = [i \in Blinkers |-> IF i \in {n} THEN 0 ELSE BlinkerStatuses[i]]
    BY <1>1, <1>5 DEF DisableSpecBlinkersCmd, BankTypeOK
  <2>3. BlinkerCounts' = BlinkerCounts
    BY <1>5 DEF DisableSpecBlinkersCmd
  <2>4. QED BY <1>1, <2>1, <2>2, <2>3, SwitchKeeps
<1>6. QED BY <1>2, <1>3, <1>4, <1>5

LEMMA SwapKeeps ==
  ASSUME CInv, UNCHANGED <<CmdCounter, ErrCounter, active>>,
         NEW i \in Blinkers, NEW j \in Blinkers, Tracked(i), Tracked(j),
         SwapBlinkerCountsCmd(i, j)
  PROVE  Contract!Exchange(i, j)
<1>1. Answer' = <<i, j, BlinkerCounts[j], BlinkerCounts[i]>>
  BY OneAnswer DEF SwapBlinkerCountsCmd, Acknowledge, Emit, Event
<1>2. BlinkerCounts' = [k \in 0 .. TotalBlinkers - 1 |->
                          IF k = i THEN BlinkerCounts[j]
                          ELSE IF k = j THEN BlinkerCounts[i] ELSE BlinkerCounts[k]]
  BY DEF SwapBlinkerCountsCmd, CInv, Core, TypeOK, BankTypeOK, Blinkers
<1>3. QED
  BY <1>1, <1>2
  DEF SwapBlinkerCountsCmd, Contract!Exchange, Contract!Numbers, Contract!counters, Enabled

LEMMA BankCommandKeeps ==
  ASSUME CInv, Handling, NEW m \in Packets, BankCommand(m)
  PROVE  Contract!Next
<1>1. UNCHANGED <<CmdCounter, ErrCounter, active>>
  BY DEF BankCommand, counterVars, tblVars
<1>2. m.n1 \in Nat /\ m.n2 \in Nat
  BY PacketsAreMessages DEF Message
<1>3. CASE \E args : RefuseBlinker(args)
  <2>1. Answer' = <<>>
    BY <1>3, NoAnswer DEF RefuseBlinker, Emit, Event
  <2>2. UNCHANGED <<BlinkerCounts, BlinkerStatuses>>
    BY <1>3 DEF RefuseBlinker, bankVars
  <2>3. QED BY <1>1, <2>1, <2>2, HandlerRuns, QuietStep
<1>4. CASE ResetAllBlinkersCmd \/ EnableAllBlinkersCmd \/ DisableAllBlinkersCmd
  BY <1>1, <1>4, AllCommandsKeep, HandlerRuns DEF Contract!Next, Contract!Operate
<1>5. CASE /\ Tracked(m.n1)
           /\ \/ ResetSpecBlinkersCmd(m.n1) \/ ReportSpecBlinkersCmd(m.n1)
              \/ EnableSpecBlinkersCmd(m.n1) \/ DisableSpecBlinkersCmd(m.n1)
  <2>1. m.n1 \in Blinkers
    BY <1>2, <1>5, TrackedIsBlinker
  <2>2. \/ \E G \in Contract!Groups : Contract!Switch(G) \/ Contract!ResetCounts(G)
        \/ \E i \in Contract!Numbers : Contract!Report(i)
    BY <1>1, <1>5, <2>1, SpecCommandsKeep
  <2>3. QED BY <2>2, HandlerRuns DEF Contract!Next, Contract!Operate
<1>6. CASE Tracked(m.n1) /\ Tracked(m.n2) /\ SwapBlinkerCountsCmd(m.n1, m.n2)
  <2>1. m.n1 \in Blinkers /\ m.n2 \in Blinkers
    BY <1>2, <1>6, TrackedIsBlinker
  <2>2. Contract!Exchange(m.n1, m.n2)
    BY <1>1, <1>6, <2>1, SwapKeeps
  <2>3. m.n1 \in Contract!Numbers /\ m.n2 \in Contract!Numbers
    BY <2>1 DEF Contract!Numbers, Blinkers
  <2>4. QED BY <2>2, <2>3, HandlerRuns DEF Contract!Next, Contract!Operate
<1>7. BankHandler(m.n1, m.n2)
  BY DEF BankCommand, BankHandler
<1>8. QED
  BY <1>3, <1>4, <1>5, <1>6, <1>7
  DEF BankHandler, ResetSpecBlinkersCmd, ReportSpecBlinkersCmd, EnableSpecBlinkersCmd,
      DisableSpecBlinkersCmd, SwapBlinkerCountsCmd

(***************************************************************************)
(* The refinement.                                                         *)
(***************************************************************************)
LEMMA ContractInit == Init => Contract!Init
<1> SUFFICES ASSUME Init PROVE Contract!Init
  OBVIOUS
<1>1. Life = "down" /\ active = NoImage
  BY DEF Init, TblInit, Life
<1>2. Answer = <<>>
  BY DEF Init, Answer, Said
<1>3. /\ BlinkerCounts = [i \in 0 .. TotalBlinkers - 1 |-> 0] /\ Enabled = {}
      /\ CmdCounter = 0 /\ ErrCounter = 0
  BY DEF Init, BankInit, AllZero, Blinkers, Enabled
<1>4. QED BY <1>1, <1>2, <1>3 DEF Contract!Init, Contract!Numbers

LEMMA HandlerKeeps ==
  ASSUME CInv, NEW m \in Packets, Handler(m)
  PROVE  Contract!Next
  BY HandlerFrame, CountersKeep, SilentHandlersKeep, SendHkKeeps, BlinkKeeps, BankCommandKeeps
  DEF Handler

\* Whatever the dispatcher.
LEMMA CommonKeeps ==
  ASSUME CInv, Common
  PROVE  Contract!Next
  BY EvsRegisterKeeps, AcquireKeeps, LoadKeeps, LoopKeeps, ExitKeeps, UnseenKeeps
  DEF Common, AppInit

LEMMA StutterKeeps ==
  ASSUME UNCHANGED vars
  PROVE  UNCHANGED Contract!vars
  BY
  DEF vars, dataVars, tblVars, Contract!vars, Contract!bank, Contract!counters, Life, Enabled,
      Answer, Said

LEMMA ContractStep == CInv /\ [Next]_vars => [Contract!Next]_(Contract!vars)
<1> SUFFICES ASSUME CInv, [Next]_vars PROVE [Contract!Next]_(Contract!vars)
  OBVIOUS
<1>1. CASE UNCHANGED vars
  BY <1>1, StutterKeeps
<1>2. CASE TaskPipe
  BY <1>2, TaskPipeHandles, HandlerKeeps
<1>3. CASE LogValues \/ LogCrc
  BY <1>3, UnseenKeeps
<1>4. CASE Common
  BY <1>4, CommonKeeps
<1>5. QED BY <1>1, <1>2, <1>3, <1>4 DEF Next, AppStep, Common

\* BlinkerApp implements the steps of BlinkerContract for every number of
\* blinkers, width of the counts, pipe, set of packets and set of images: what
\* BLINKER_APP_Main and its handlers do is never more than the contract allows.
THEOREM AppKeepsContract == Spec => ContractSafety
<1>1. Spec => []CInv
  BY CInvariance
<1>2. Spec => Contract!Init
  BY ContractInit DEF Spec
<1>3. QED
  BY <1>1, <1>2, ContractStep, PTL DEF Spec, ContractSafety, Contract!Safety
================================================================================
