------------------------------ MODULE BlinkerApp ------------------------------
(***************************************************************************)
(* The blinker app: one task that initializes itself, then takes messages  *)
(* from its command pipe one by one until cFE's executive services (ES)    *)
(* tell it to leave its run loop.  pc names the cFE call the task is at;   *)
(* the bus, the table service's task and ES act between any two of them.   *)
(***************************************************************************)
EXTENDS BlinkerBank, ExampleTable, SoftwareBus

CONSTANTS
  CmdWrap,    \* number of values of a uint8, 2^8 in the code
  Commands,   \* the packets other tasks may send on the bus
  MaxStarts   \* bound: how often ES starts the app

(***************************************************************************)
(* Messages.  size names the structure a packet is as long as, and n1, n2  *)
(* are the numbers of its payload.  SpecBlinker_t is padded to the length  *)
(* of SwapBlinkers_t.  "STRAY" stands for the other message ids of the     *)
(* bus, "UNKNOWN" for the function codes the app does not define.          *)
(***************************************************************************)
MessageIds == {"CMD", "SEND_HK", "BLINK", "STRAY"}
NoArgCodes == {"NOOP", "RESET_COUNTERS", "PROCESS", "RESET_ALL", "ENABLE_ALL", "DISABLE_ALL"}
SpecCodes == {"RESET_SPEC", "REPORT_SPEC", "ENABLE_SPEC", "DISABLE_SPEC"}
CommandCodes == NoArgCodes \cup SpecCodes \cup {"DISPLAY_PARAM", "SWAP"}
Sizes == {"NoArgs", "DisplayParam", "TwoU16"}

Message == [mid : MessageIds, cc : CommandCodes \cup {"UNKNOWN"}, size : Sizes,
            n1 : Nat, n2 : Nat]

\* The length ProcessGroundCommand expects of a command.
CmdSize(cc) ==
  IF cc \in NoArgCodes THEN "NoArgs"
  ELSE IF cc = "DISPLAY_PARAM" THEN "DisplayParam" ELSE "TwoU16"

\* The two packets of the scheduler carry nothing but their message id.
Tick(mid) == [mid |-> mid, cc |-> "UNKNOWN", size |-> "NoArgs", n1 |-> 0, n2 |-> 0]

\* Every packet that other tasks send on the bus.
Packets == Commands \cup {Tick("SEND_HK"), Tick("BLINK")}

ASSUME CmdWrapAssumption == CmdWrap \in Nat \ {0, 1}
ASSUME CommandsAssumption == Commands \subseteq Message
ASSUME MaxStartsAssumption == MaxStarts \in Nat

VARIABLES
  pc,                      \* the call the task is at
  RunStatus,               \* BLINKER_APP_Data.RunStatus
  CmdCounter, ErrCounter,  \* BLINKER_APP_Data.CmdCounter and .ErrCounter
  HkTlm,                   \* BLINKER_APP_Data.HkTlm.Payload
  held,                    \* what cFE has given to the task: EVS, a pipe
  controlReq,              \* what ES wants of the app: APP_RUN, or APP_EXIT
  starts                   \* how often ES has started the app

counterVars == <<CmdCounter, ErrCounter>>
dataVars == <<CmdCounter, ErrCounter, HkTlm, BlinkerCounts, BlinkerStatuses>>
taskVars == <<held, controlReq, starts>>
vars == <<pc, RunStatus, dataVars, taskVars, tblVars, busVars, out>>

InitSteps == {"Init", "CreatePipe", "SubscribeHk", "SubscribeCmd", "SubscribeBlink",
              "TblRegister", "TblLoad"}
LoopSteps == {"Receive", "LogValues", "LogCrc"}

Telemetry == [CommandErrorCounter : Nat, CommandCounter : Nat,
              BlinkerStatus : [Blinkers -> Nat], BlinkerCount : [Blinkers -> Nat]]

ZeroTlm == [CommandErrorCounter |-> 0, CommandCounter |-> 0,
            BlinkerStatus |-> AllZero, BlinkerCount |-> AllZero]

\* ES has loaded the app: its static data is zero.
Init ==
  /\ pc = "Init" /\ RunStatus = "UNDEFINED"
  /\ CmdCounter = 0 /\ ErrCounter = 0 /\ HkTlm = ZeroTlm
  /\ BankInit /\ TblInit /\ BusInit
  /\ held = {} /\ controlReq = "APP_RUN" /\ starts = 1
  /\ out = <<>>

(***************************************************************************)
(* BLINKER_APP_Init, one action per cFE call.  A call that fails ends      *)
(* initialization, and BLINKER_APP_Main turns the status returned into     *)
(* RunStatus APP_ERROR before it reaches the run loop.                     *)
(***************************************************************************)
GiveUp(outputs) ==
  /\ pc' = "RunLoop"
  /\ RunStatus' = "APP_ERROR"
  /\ out' = outputs

InitInf == Event("INIT_INF", "Initialized", <<>>)

\* Mutated: the counters are reset one by one instead of by memset.
ClearCountersOnly ==
  /\ CmdCounter' = 0 /\ ErrCounter' = 0
  /\ UNCHANGED <<HkTlm, bankVars>>

ClearData ==
  /\ CmdCounter' = 0 /\ ErrCounter' = 0 /\ HkTlm' = ZeroTlm
  /\ ClearBank

EvsRegister ==
  /\ pc = "Init"
  /\ ClearData
  /\ \/ /\ pc' = "CreatePipe" /\ RunStatus' = "APP_RUN" /\ Silent
        /\ held' = held \cup {"EVS"}
     \/ /\ GiveUp(<<SysLog("EvsRegisterFailed", <<>>)>>)
        /\ UNCHANGED held
  /\ UNCHANGED <<controlReq, starts, tblVars, busVars>>

CreatePipe ==
  /\ pc = "CreatePipe"
  /\ \/ /\ pc' = "SubscribeHk" /\ UNCHANGED RunStatus /\ Silent
        /\ held' = held \cup {"PIPE"}
     \/ /\ GiveUp(<<Event("CR_PIPE_ERR", "CreatePipeFailed", <<>>)>>)
        /\ UNCHANGED held
  /\ UNCHANGED <<dataVars, controlReq, starts, tblVars, busVars>>

\* Mutated: the status of the call is reported but not returned.
SubscribeUnchecked(mid, errorId, here, next) ==
  /\ pc = here /\ pc' = next /\ UNCHANGED RunStatus
  /\ \/ Silent /\ Subscribe(mid)
     \/ Emit(Event(errorId, "SubscribeFailed", <<>>)) /\ UNCHANGED busVars
  /\ UNCHANGED <<dataVars, taskVars, tblVars>>

SubscribeTo(mid, errorId, here, next) ==
  /\ pc = here
  /\ \/ /\ pc' = next /\ UNCHANGED RunStatus /\ Silent
        /\ Subscribe(mid)
     \/ /\ GiveUp(<<Event(errorId, "SubscribeFailed", <<>>)>>)
        /\ UNCHANGED busVars
  /\ UNCHANGED <<dataVars, taskVars, tblVars>>

SubscribeAll ==
  \/ SubscribeTo("SEND_HK", "SUB_HK_ERR", "SubscribeHk", "SubscribeCmd")
  \/ SubscribeTo("CMD", "SUB_CMD_ERR", "SubscribeCmd", "SubscribeBlink")
  \/ SubscribeTo("BLINK", "SUB_CMD_ERR", "SubscribeBlink", "TblRegister")

RegisterTable ==
  /\ pc = "TblRegister"
  /\ \/ /\ pc' = "TblLoad" /\ UNCHANGED RunStatus /\ Silent
        /\ TblRegister
     \/ /\ GiveUp(<<Event("TABLE_REG_ERR", "RegisterFailed", <<>>), InitInf>>)
        /\ UNCHANGED tblVars
  /\ UNCHANGED <<dataVars, taskVars, busVars>>

\* The load fails when there is no file, when the image in it does not pass
\* the validation, or when the ground has already begun a load of its own.
LoadTable ==
  /\ pc = "TblLoad"
  /\ \/ /\ pc' = "RunLoop" /\ UNCHANGED RunStatus /\ Emit(InitInf)
        /\ stage = "empty" /\ \E img \in Images : TblLoad(img)
     \/ /\ GiveUp(<<InitInf>>)
        /\ UNCHANGED tblVars
  /\ UNCHANGED <<dataVars, taskVars, busVars>>

AppInit == EvsRegister \/ CreatePipe \/ SubscribeAll \/ RegisterTable \/ LoadTable

(***************************************************************************)
(* BLINKER_APP_Main's loop.  CFE_ES_RunLoop returns true only while the    *)
(* app itself wants to run and ES does not want it to stop; in the latter  *)
(* case it overwrites RunStatus.                                           *)
(***************************************************************************)
\* Mutated: one of the two conditions is forgotten.
ContinueUnlessAsked == controlReq = "APP_RUN"
ContinueUnlessFailed == RunStatus = "APP_RUN"

Continue == RunStatus = "APP_RUN" /\ controlReq = "APP_RUN"

EnterLoop ==
  /\ pc = "RunLoop" /\ Continue
  /\ pc' = "Receive" /\ Silent
  /\ UNCHANGED <<RunStatus, dataVars, taskVars, tblVars, busVars>>

\* Mutated: an app that has failed waits for ES to ask it to exit.
LeaveLoopWhenAsked ==
  /\ pc = "RunLoop" /\ controlReq # "APP_RUN"
  /\ pc' = "ExitApp" /\ Silent
  /\ RunStatus' = IF RunStatus = "APP_RUN" THEN controlReq ELSE RunStatus
  /\ UNCHANGED <<dataVars, taskVars, tblVars, busVars>>

LeaveLoop ==
  /\ pc = "RunLoop" /\ ~ Continue
  /\ pc' = "ExitApp" /\ Silent
  /\ RunStatus' = IF RunStatus = "APP_RUN" THEN controlReq ELSE RunStatus
  /\ UNCHANGED <<dataVars, taskVars, tblVars, busVars>>

\* CFE_ES_ExitApp: cFE takes back everything the app held.
ExitApp ==
  /\ pc = "ExitApp"
  /\ pc' = "Exited" /\ Silent
  /\ held' = {} /\ DeletePipe /\ TblUnregister
  /\ UNCHANGED <<RunStatus, dataVars, controlReq, starts>>

ReceiveFails ==
  /\ pc = "Receive"
  /\ GiveUp(<<Event("PIPE_ERR", "PipeReadError", <<>>)>>)
  /\ UNCHANGED <<dataVars, taskVars, tblVars, busVars>>

(***************************************************************************)
(* BLINKER_APP_TaskPipe: one action per handler.  Taking the message and   *)
(* handling it is one step, except for ProcessCmd.                         *)
(***************************************************************************)
Take(m, next) ==
  /\ pc = "Receive" /\ ReceiveBuffer(m)
  /\ pc' = next
  /\ UNCHANGED <<RunStatus, taskVars>>

\* The switch of ProcessGroundCommand has selected this command code.
Selects(m, cc) == m.mid = "CMD" /\ m.cc = cc

\* The command is selected and VerifyCmdLength has returned true.
Runs(m, cc) == Selects(m, cc) /\ m.size = CmdSize(cc)

\* VerifyCmdLength returns false.
BadLength(m) ==
  /\ Take(m, "RunLoop")
  /\ \E cc \in CommandCodes : Selects(m, cc) /\ m.size # CmdSize(cc)
  /\ ErrCounter' = (ErrCounter + 1) % CmdWrap
  /\ Emit(Event("CMD_LEN_ERR", "BadLength", <<>>))
  /\ UNCHANGED <<CmdCounter, HkTlm, bankVars, tblVars>>

NoopCmd(m) ==
  /\ Take(m, "RunLoop") /\ Runs(m, "NOOP")
  /\ CmdCounter' = (CmdCounter + 1) % CmdWrap
  /\ Emit(Event("NOOP_INF", "Noop", <<>>))
  /\ UNCHANGED <<ErrCounter, HkTlm, bankVars, tblVars>>

\* Mutated: the error counter is not reset.
ResetCommandCounterOnly(m) ==
  /\ Take(m, "RunLoop") /\ Runs(m, "RESET_COUNTERS")
  /\ CmdCounter' = 0
  /\ Emit(Event("RESET_INF", "ResetCounters", <<>>))
  /\ UNCHANGED <<ErrCounter, HkTlm, bankVars, tblVars>>

ResetCountersCmd(m) ==
  /\ Take(m, "RunLoop") /\ Runs(m, "RESET_COUNTERS")
  /\ CmdCounter' = 0 /\ ErrCounter' = 0
  /\ Emit(Event("RESET_INF", "ResetCounters", <<>>))
  /\ UNCHANGED <<HkTlm, bankVars, tblVars>>

DisplayParamCmd(m) ==
  /\ Take(m, "RunLoop") /\ Runs(m, "DISPLAY_PARAM")
  /\ Emit(Event("VALUE_INF", "Value", <<m.n1, m.n2>>))
  /\ UNCHANGED <<dataVars, tblVars>>

BankCommand(m) ==
  /\ Take(m, "RunLoop")
  /\ \/ Runs(m, "RESET_ALL")    /\ ResetAllBlinkersCmd
     \/ Runs(m, "ENABLE_ALL")   /\ EnableAllBlinkersCmd
     \/ Runs(m, "DISABLE_ALL")  /\ DisableAllBlinkersCmd
     \/ Runs(m, "RESET_SPEC")   /\ ResetSpecBlinkersCmd(m.n1)
     \/ Runs(m, "REPORT_SPEC")  /\ ReportSpecBlinkersCmd(m.n1)
     \/ Runs(m, "ENABLE_SPEC")  /\ EnableSpecBlinkersCmd(m.n1)
     \/ Runs(m, "DISABLE_SPEC") /\ DisableSpecBlinkersCmd(m.n1)
     \/ Runs(m, "SWAP")         /\ SwapBlinkerCountsCmd(m.n1, m.n2)
  /\ UNCHANGED <<counterVars, HkTlm, tblVars>>

BlinkTick(m) ==
  /\ Take(m, "RunLoop") /\ m.mid = "BLINK"
  /\ Blink
  /\ UNCHANGED <<counterVars, HkTlm, tblVars>>

\* Mutated: the table is not managed.
SendHkWithoutManage(m) ==
  /\ Take(m, "RunLoop") /\ m.mid = "SEND_HK"
  /\ HkTlm' = [HkTlm EXCEPT !.CommandErrorCounter = ErrCounter,
                            !.CommandCounter = CmdCounter]
  /\ Emit([id |-> "HK_TLM", text |-> "HkTlm", args |-> <<ErrCounter, CmdCounter>>])
  /\ UNCHANGED <<counterVars, bankVars, tblVars>>

\* The packet's length is not looked at.  BlinkerStatus and BlinkerCount of
\* the telemetry keep what Init left there.
SendHkCmd(m) ==
  /\ Take(m, "RunLoop") /\ m.mid = "SEND_HK"
  /\ HkTlm' = [HkTlm EXCEPT !.CommandErrorCounter = ErrCounter,
                            !.CommandCounter = CmdCounter]
  /\ Emit([id |-> "HK_TLM", text |-> "HkTlm", args |-> <<ErrCounter, CmdCounter>>])
  /\ TblManage
  /\ UNCHANGED <<counterVars, bankVars>>

\* Mutated: TaskPipe's switch has lost the case of the blink message.
DispatchableButBlink(m) == m.mid = "SEND_HK" \/ (m.mid = "CMD" /\ m.cc \in CommandCodes)

\* The switches of TaskPipe and ProcessGroundCommand have a case for it.
Dispatchable(m) ==
  m.mid \in {"SEND_HK", "BLINK"} \/ (m.mid = "CMD" /\ m.cc \in CommandCodes)

\* Their default branches: an unknown function code, an unknown message id.
RejectMessage(m) ==
  /\ Take(m, "RunLoop") /\ ~ Dispatchable(m)
  /\ Emit(Event(IF m.mid = "CMD" THEN "CC_ERR" ELSE "MID_ERR", "Invalid", <<>>))
  /\ UNCHANGED <<dataVars, tblVars>>

(***************************************************************************)
(* ProcessCmd holds the table's address over three calls, between which    *)
(* the table service's task may run: GetAddress, the log of the values,    *)
(* and the log of the CRC followed by ReleaseAddress.  The CRC of an image *)
(* is represented by the image's values.                                   *)
(***************************************************************************)
ProcessCmd(m) ==
  /\ Runs(m, "PROCESS")
  /\ \/ Take(m, "LogValues") /\ active # NoImage /\ Silent
     \/ Take(m, "RunLoop") /\ Emit(SysLog("GetAddressFailed", <<>>))
  /\ UNCHANGED <<dataVars, tblVars>>

LogValues ==
  /\ pc = "LogValues" /\ pc' = "LogCrc"
  /\ Emit(SysLog("Values", <<active.Int1, active.Int2>>))
  /\ UNCHANGED <<RunStatus, dataVars, taskVars, tblVars, busVars>>

LogCrc ==
  /\ pc = "LogCrc" /\ pc' = "RunLoop"
  /\ \E crc \in {SysLog("Crc", <<active.Int1, active.Int2>>), SysLog("GetInfoFailed", <<>>)} :
       out' \in {<<crc>>, <<crc, SysLog("ReleaseFailed", <<>>)>>}
  /\ UNCHANGED <<RunStatus, dataVars, taskVars, tblVars, busVars>>

TaskPipe ==
  \E m \in Packets :
    \/ BadLength(m) \/ RejectMessage(m)
    \/ NoopCmd(m) \/ ResetCountersCmd(m) \/ DisplayParamCmd(m) \/ ProcessCmd(m)
    \/ BankCommand(m) \/ BlinkTick(m) \/ SendHkCmd(m)

(***************************************************************************)
(* The rest of the system: the ground, the scheduler, the table service's  *)
(* task and ES.  Their steps make the app output nothing.                  *)
(***************************************************************************)
Send(m) == Deliver(m) /\ Silent /\ UNCHANGED <<pc, RunStatus, dataVars, taskVars, tblVars>>

GroundSends == \E m \in Commands : Send(m)
RequestHk == Send(Tick("SEND_HK"))
RequestBlink == Send(Tick("BLINK"))

TableCommand ==
  /\ \/ \E img \in Images : TblLoadCmd(img)
     \/ TblValidateCmd
     \/ TblActivateCmd
  /\ Silent
  /\ UNCHANGED <<pc, RunStatus, dataVars, taskVars, busVars>>

RequestExit ==
  /\ pc # "Exited" /\ controlReq = "APP_RUN"
  /\ controlReq' = "APP_EXIT" /\ Silent
  /\ UNCHANGED <<pc, RunStatus, dataVars, held, starts, tblVars, busVars>>

\* ES starts the app anew.  What its static data then holds is left as the
\* previous run left it: Init's memset may not rely on a fresh load.
Restart ==
  /\ pc = "Exited" /\ starts < MaxStarts
  /\ pc' = "Init" /\ starts' = starts + 1 /\ controlReq' = "APP_RUN" /\ Silent
  /\ UNCHANGED <<RunStatus, dataVars, held, tblVars, busVars>>

Environment ==
  GroundSends \/ RequestHk \/ RequestBlink \/ TableCommand \/ RequestExit \/ Restart

\* What the task does by itself; a pipe that fails is not its doing.
AppStep == AppInit \/ EnterLoop \/ LeaveLoop \/ ExitApp \/ TaskPipe \/ LogValues \/ LogCrc

Next == AppStep \/ ReceiveFails \/ Environment

(***************************************************************************)
(* The task is scheduled; and the scheduler, which repeats its             *)
(* housekeeping request for ever, finds room in the pipe now and then.     *)
(***************************************************************************)
Fairness == WF_vars(AppStep) /\ SF_vars(RequestHk)

Spec == Init /\ [][Next]_vars /\ Fairness

(***************************************************************************)
(* Properties.                                                             *)
(***************************************************************************)
TypeOK ==
  /\ pc \in InitSteps \cup LoopSteps \cup {"RunLoop", "ExitApp", "Exited"}
  /\ RunStatus \in {"UNDEFINED", "APP_RUN", "APP_ERROR", "APP_EXIT"}
  /\ CmdCounter \in 0 .. CmdWrap - 1
  /\ ErrCounter \in 0 .. CmdWrap - 1
  /\ HkTlm \in Telemetry
  /\ BankTypeOK
  /\ TblTypeOK
  /\ pipe \in Seq(Packets) /\ Len(pipe) <= PipeDepth
  /\ subs \subseteq MessageIds
  /\ held \subseteq {"EVS", "PIPE"}
  /\ controlReq \in {"APP_RUN", "APP_EXIT"}
  /\ starts \in Nat
  /\ out \in Seq(Output)

\* Inside the run loop the task has everything Init must acquire: events,
\* the pipe, the three subscriptions and a loaded table.  An error return
\* of any call of BLINKER_APP_Init must keep it out of the loop.
RunLoopHasResources ==
  pc \in LoopSteps => /\ held = {"EVS", "PIPE"}
                      /\ subs = {"SEND_HK", "CMD", "BLINK"}
                      /\ active # NoImage

\* BLINKER_APP_TaskPipe's default branch is never taken, whatever is sent on
\* the bus: Init subscribes to no message id the switch does not handle.
NoMessageIdError == ~ Sent("MID_ERR")

\* The active table always passed BLINKER_APP_TblValidationFunc, along
\* whichever path it came: the initial load, or load, validate and activate
\* commands of the ground carried out by later housekeeping requests.
ActiveImageValid == active # NoImage => active.Int1 <= TblElement1Max

\* While BLINKER_APP_Init is at work, and so when the run loop is first
\* entered, nothing of an earlier run of the app is left in its data.
FreshAfterRestart ==
  pc \in InitSteps \ {"Init"} =>
    /\ CmdCounter = 0 /\ ErrCounter = 0
    /\ HkTlm = ZeroTlm
    /\ BlinkerCounts = AllZero /\ BlinkerStatuses = AllZero

\* Once RunStatus is APP_ERROR (a failed Init, a failed pipe) the app handles
\* no further message: its data stays put until ES starts it again.
ErrorIsFinal ==
  [][RunStatus = "APP_ERROR" /\ pc # "Init" => UNCHANGED dataVars]_vars

\* An error ends the app: the run loop is left, and ExitApp reached, in each
\* of its lives.  Until BLINKER_APP_Main sets RunStatus at "Init", it may still
\* hold the error of the life before, which nothing follows from.
ErrorLeadsToExit == (RunStatus = "APP_ERROR" /\ pc # "Init") ~> pc = "Exited"

\* ES need not kill the app: its exit request is noticed, because the next
\* housekeeping request wakes the task that pends for ever on its pipe.
ExitRequestHonoured == controlReq = "APP_EXIT" ~> pc = "Exited"

\* A validation or an activation the ground has requested does not stay
\* pending: a housekeeping request manages the table, or the app exits.
TableRequestServed ==
  stage \in {"validating", "pending"} ~> stage \notin {"validating", "pending"}
================================================================================
