------------------------------- MODULE UnitTests -------------------------------
(***************************************************************************)
(* The coverage tests of unit-test/coveragetest.  Each suite is a process: *)
(* one source file of the app, everything it calls replaced by stubs, and  *)
(* the test functions run one after the other.  The unit under test takes  *)
(* the steps it takes in BlinkerApp; the stubs decide what each call       *)
(* returns.  Numbers in the comments are lines of the test functions.      *)
(***************************************************************************)
EXTENDS BlinkerApp, FiniteSets

\* Bound: how many calls of a stub are counted, more than a test asks for.
CONSTANT MaxCalls
ASSUME MaxCallsAssumption == MaxCalls \in Nat /\ MaxCalls > 6

VARIABLES
  suite,       \* the test program
  nth, at,     \* its current test, and the step of it that comes next
  unit,        \* the function under test that was called last
  calls,       \* how often each stub was called
  due, broken, \* stubs with a deferred, with another default return value
  hook,        \* what the event hook looks for, and how often it saw it
  failed       \* the calls of Init that have failed so far

stubVars == <<calls, due, broken, hook>>
runVars == <<suite, nth, at>>
utVars == <<runVars, unit, stubVars, failed>>

Handlers == [NOOP |-> "NoopCmd", RESET_COUNTERS |-> "ResetCountersCmd", PROCESS |-> "ProcessCmd",
             DISPLAY_PARAM |-> "DisplayParamCmd"]

Stubs == {"EvsRegister", "CreatePipe", "Subscribe", "TblRegister", "TblLoad", "RunLoop",
          "ReceiveBuffer", "ExitApp", "TaskPipe", "SendEvent", "WriteToSysLog", "TransmitMsg",
          "TimeStampMsg", "TblManage", "GetAddress", "ReleaseAddress", "GetCrc", "GetInfo",
          "NoopCmd", "ResetCountersCmd", "ProcessCmd", "DisplayParamCmd", "SendHkCmd"}

NoHook == [id |-> "none", text |-> "none", matches |-> 0]

(***************************************************************************)
(* The steps tests are made of.                                            *)
(***************************************************************************)
NoMessage == Tick("STRAY")
Call(u) == [do |-> "call", unit |-> u, msg |-> NoMessage]
CallWith(u, m) == [do |-> "call", unit |-> u, msg |-> m]
Expect(what, value) == [do |-> "expect", what |-> what, value |-> value]
Default(s) == [do |-> "default", stub |-> s]
ClearDefault(s) == [do |-> "clear", stub |-> s]
CheckEvent(id, text) == [do |-> "hook", id |-> id, text |-> text]
Table(img) == [do |-> "table", img |-> img]

\* Mutated: the loop is told to go on by default instead of once.
DeferredForGood(s, n) == Default(s)

\* The n-th call from now on returns what the test wants it to return.
Deferred(s, n) == [do |-> "deferred", stub |-> s, n |-> n]

\* Well-formed, too short, and of no known code; payloads do not matter here.
Cmd(cc) == [mid |-> "CMD", cc |-> cc, size |-> CmdSize(cc), n1 |-> 0, n2 |-> 0]
Short(cc) == [Cmd(cc) EXCEPT !.size = "Short"]
BadCode == [Cmd("NOOP") EXCEPT !.cc = "UNKNOWN"]

(***************************************************************************)
(* coveragetest_blinker_app.c: Main and Init; TaskPipe is a stub.          *)
(***************************************************************************)
MainTest ==
  << Call("Main"), Expect("ExitApp", 1),
     Deferred("EvsRegister", 1), Call("Main"), Expect("RunStatus", "APP_ERROR"),
     Deferred("RunLoop", 1), Call("Main"), Expect("ReceiveBuffer", 1),
     Deferred("RunLoop", 1), Deferred("ReceiveBuffer", 1),
     CheckEvent("PIPE_ERR", "PipeReadError"), Call("Main"), Expect("matches", 1) >>

InitTest ==
  << Call("Init"), Expect("status", "success"),
     Deferred("EvsRegister", 1), Call("Init"), Expect("status", "error"), Expect("WriteToSysLog", 1),
     Deferred("CreatePipe", 1), Call("Init"), Expect("status", "error"), Expect("SendEvent", 2),
     Deferred("Subscribe", 1), Call("Init"), Expect("status", "error"), Expect("SendEvent", 3),
     Deferred("Subscribe", 2), Call("Init"), Expect("status", "error"), Expect("SendEvent", 4),
     Deferred("TblRegister", 1), Call("Init"), Expect("status", "error"), Expect("SendEvent", 6) >>

(***************************************************************************)
(* coveragetest_blinker_app_dispatch.c: the handlers are stubs.            *)
(***************************************************************************)
TaskPipeTest ==
  << CheckEvent("MID_ERR", "Invalid"),
     CallWith("TaskPipe", Cmd("NOOP")), CallWith("TaskPipe", Tick("SEND_HK")),
     CallWith("TaskPipe", NoMessage), Expect("matches", 1) >>

\* A command of the right length, then one a byte too short, the n-th one.
DispatchOf(cc, n) ==
  << CallWith("ProcessGroundCommand", Cmd(cc)), Expect(Handlers[cc], 1),
     CallWith("ProcessGroundCommand", Short(cc)), Expect(Handlers[cc], 1), Expect("matches", n) >>

ProcessGroundCommandTest ==
  <<CheckEvent("CMD_LEN_ERR", "BadLength")>>
    \o DispatchOf("NOOP", 1) \o DispatchOf("RESET_COUNTERS", 2)
    \o DispatchOf("PROCESS", 3) \o DispatchOf("DISPLAY_PARAM", 4)
    \o << CheckEvent("CC_ERR", "Invalid"), CallWith("ProcessGroundCommand", BadCode),
          Expect("matches", 1) >>

VerifyCmdLengthTest ==
  << CheckEvent("CMD_LEN_ERR", "BadLength"),
     CallWith("VerifyCmdLength", Cmd("PROCESS")), Expect("matches", 0),
     CallWith("VerifyCmdLength", Short("PROCESS")), Expect("matches", 1) >>

(***************************************************************************)
(* coveragetest_blinker_app_cmds.c and coveragetest_blinker_app_utils.c.   *)
(***************************************************************************)
ReportHousekeepingTest ==
  << CallWith("SendHkCmd", Tick("SEND_HK")),
     Expect("TransmitMsg", 1), Expect("TimeStampMsg", 1), Expect("TblManage", 1) >>

NoopCmdTest ==
  << CheckEvent("NOOP_INF", "any"), CallWith("NoopCmd", Cmd("NOOP")),
     Expect("status", "success"), Expect("matches", 1) >>

ResetCountersCmdTest ==
  << CheckEvent("RESET_INF", "ResetCounters"), CallWith("ResetCountersCmd", Cmd("RESET_COUNTERS")),
     Expect("status", "success"), Expect("matches", 1) >>

ProcessCmdTest ==
  LET process == CallWith("ProcessCmd", Cmd("PROCESS")) IN
  << Table([Int1 |-> 40, Int2 |-> 50]), process, Expect("status", "success"),
     Expect("WriteToSysLog", 1), Expect("GetAddress", 1),
     Default("GetAddress"), process, Expect("status", "error"), Expect("WriteToSysLog", 2),
     ClearDefault("GetAddress"), Default("ReleaseAddress"), process,
     Expect("status", "error"), Expect("WriteToSysLog", 4) >>

DisplayParamCmdTest ==
  << CheckEvent("VALUE_INF", "Value"), CallWith("DisplayParamCmd", Cmd("DISPLAY_PARAM")),
     Expect("status", "success"), Expect("matches", 1) >>

TblValidationFuncTest ==
  << Table([Int1 |-> 0, Int2 |-> 0]), Call("TblValidationFunc"), Expect("status", "success"),
     Table([Int1 |-> 1 + TblElement1Max, Int2 |-> 0]), Call("TblValidationFunc"),
     Expect("status", "error") >>

GetCrcTest ==
  << Default("GetInfo"), Call("GetCrc"), Expect("WriteToSysLog", 1),
     ClearDefault("GetInfo"), Call("GetCrc"), Expect("WriteToSysLog", 2) >>

(***************************************************************************)
(* The four test programs: what UtTest_Setup adds, in that order.          *)
(***************************************************************************)
Suites ==
  [blinker_app |-> <<MainTest, InitTest>>,
   dispatch |-> <<TaskPipeTest, ProcessGroundCommandTest, VerifyCmdLengthTest>>,
   cmds |-> <<ReportHousekeepingTest, NoopCmdTest, ResetCountersCmdTest, ProcessCmdTest,
              DisplayParamCmdTest>>,
   utils |-> <<TblValidationFuncTest, GetCrcTest>>]

Script == Suites[suite][nth]
Step == Script[at]

\* The function under test has returned to the test.
Returned == pc = "Exited" \/ (unit # "Main" /\ pc = "RunLoop")

\* Blinker_UT_Setup: UT_ResetState forgets everything about the stubs.
Blinker_UT_Setup ==
  /\ calls' = [s \in Stubs |-> 0] /\ due' = [s \in Stubs |-> 0]
  /\ broken' = {} /\ hook' = NoHook

UtInit ==
  /\ pc = "Exited" /\ RunStatus = "UNDEFINED"
  /\ CmdCounter = 0 /\ ErrCounter = 0 /\ HkTlm = ZeroTlm
  /\ BankInit /\ TblInit /\ BusInit
  /\ held = {} /\ controlReq = "APP_RUN" /\ starts = 1 /\ out = <<>>
  /\ suite \in DOMAIN Suites /\ nth = 1 /\ at = 1 /\ unit = "none"
  /\ calls = [s \in Stubs |-> 0] /\ due = [s \in Stubs |-> 0]
  /\ broken = {} /\ hook = NoHook
  /\ failed = {}

NextTest ==
  /\ Returned /\ at > Len(Script) /\ nth < Len(Suites[suite])
  /\ nth' = nth + 1 /\ at' = 1
  /\ Blinker_UT_Setup
  /\ UNCHANGED <<vars, suite, unit, failed>>

(***************************************************************************)
(* The steps of a test function.                                           *)
(***************************************************************************)
Proceed == Returned /\ at <= Len(Script) /\ at' = at + 1 /\ UNCHANGED <<suite, nth, failed>>

\* Where the unit under test begins.
Entry(u) ==
  CASE u \in {"Main", "Init"} -> "Init"
    [] u = "GetCrc" -> "LogCrc"
    [] u = "TblValidationFunc" -> "RunLoop"
    [] OTHER -> "Receive"

CallUnit ==
  /\ Proceed /\ Step.do = "call"
  /\ unit' = Step.unit /\ pc' = Entry(Step.unit)
  /\ pipe' = <<Step.msg>>
  /\ UNCHANGED <<RunStatus, dataVars, taskVars, tblVars, subs, out, stubVars>>

Configure ==
  /\ Proceed /\ Step.do \in {"deferred", "default", "clear"}
  /\ due' = IF Step.do = "deferred" THEN [due EXCEPT ![Step.stub] = Step.n] ELSE due
  /\ broken' = CASE Step.do = "default" -> broken \cup {Step.stub}
                 [] Step.do = "clear" -> broken \ {Step.stub}
                 [] OTHER -> broken
  /\ UNCHANGED <<vars, unit, calls, hook>>

\* UT_CheckEvent_Setup_Impl
SetHook ==
  /\ Proceed /\ Step.do = "hook"
  /\ hook' = [id |-> Step.id, text |-> Step.text, matches |-> 0]
  /\ UNCHANGED <<vars, unit, calls, due, broken>>

ProvideTable ==
  /\ Proceed /\ Step.do = "table"
  /\ active' = Step.img
  /\ UNCHANGED <<pc, RunStatus, dataVars, taskVars, working, stage, busVars, out, unit, stubVars>>

\* What the function under test has returned to its caller.
Status ==
  IF \/ unit = "Init" /\ RunStatus = "APP_ERROR"
     \/ unit = "ProcessCmd" /\ (Said("GetAddressFailed") \/ Said("ReleaseFailed"))
     \/ unit = "TblValidationFunc" /\ ~ TblValidationFunc(active)
  THEN "error" ELSE "success"

Observed(what) ==
  CASE what = "RunStatus" -> RunStatus
    [] what = "status" -> Status
    [] what = "matches" -> hook.matches
    [] OTHER -> calls[what]

Asserting == Returned /\ at <= Len(Script) /\ Step.do = "expect"

Assert == Proceed /\ Asserting /\ UNCHANGED <<vars, unit, stubVars>>

(***************************************************************************)
(* The stubs.  Every step of the unit under test calls some of them: those *)
(* named, and one for each of its outputs.                                 *)
(***************************************************************************)
\* The stub's next call returns what the test has configured.
Configured(s) == s \in broken \/ due[s] = 1

\* The stub behind an output.  In the commands' suite GetCrc is a stub itself.
Carrier(o) ==
  CASE o.id = "SYSLOG" -> IF suite = "cmds" /\ o.text = "Crc" THEN "GetCrc" ELSE "WriteToSysLog"
    [] o.id = "HK_TLM" -> "TransmitMsg"
    [] OTHER -> "SendEvent"

\* UT_CheckEvent_Hook, called for every event.
Matching(o) == o.id = hook.id /\ hook.text \in {"any", o.text}

Outputs(Test(_)) == Cardinality({k \in DOMAIN out' : Test(out'[k])})

\* Bound: no assertion looks at more calls, or matches, than this.
UpTo(n) == IF n > MaxCalls THEN MaxCalls ELSE n

CallStubs(S) ==
  /\ calls' = [s \in Stubs |-> UpTo(calls[s] + (IF s \in S THEN 1 ELSE 0)
                                     + Outputs(LAMBDA o : Carrier(o) = s))]
  /\ due' = [s \in Stubs |-> IF s \in S /\ due[s] > 0 THEN due[s] - 1 ELSE due[s]]
  /\ hook' = [hook EXCEPT !.matches = UpTo(@ + Outputs(Matching))]
  /\ UNCHANGED <<runVars, unit, broken>>

CalledBy == [Init |-> "EvsRegister", CreatePipe |-> "CreatePipe", SubscribeHk |-> "Subscribe",
             SubscribeCmd |-> "Subscribe", SubscribeBlink |-> "Subscribe",
             TblRegister |-> "TblRegister", TblLoad |-> "TblLoad"]

InitCalls ==
  /\ unit \in {"Main", "Init"} /\ AppInit
  /\ RunStatus' = "APP_ERROR" <=> Configured(CalledBy[pc])
  /\ CallStubs({CalledBy[pc]})
  /\ failed' = IF Configured(CalledBy[pc]) THEN failed \cup {pc} ELSE failed

\* CFE_ES_RunLoop returns false by default, and leaves RunStatus alone.
RunLoopStub ==
  /\ unit = "Main" /\ pc = "RunLoop"
  /\ pc' = IF Configured("RunLoop") THEN "Receive" ELSE "ExitApp"
  /\ Silent /\ UNCHANGED <<RunStatus, dataVars, taskVars, tblVars, busVars>>
  /\ CallStubs({"RunLoop"}) /\ UNCHANGED failed

MainReceives ==
  /\ unit = "Main" /\ pc = "Receive"
  /\ \/ /\ Configured("ReceiveBuffer") /\ ReceiveFails
        /\ CallStubs({"ReceiveBuffer"})
     \/ /\ ~ Configured("ReceiveBuffer")
        /\ pc' = "RunLoop" /\ Silent
        /\ UNCHANGED <<RunStatus, dataVars, taskVars, tblVars, busVars>>
        /\ CallStubs({"ReceiveBuffer", "TaskPipe"})
  /\ UNCHANGED failed

MainExits == unit = "Main" /\ ExitApp /\ CallStubs({"ExitApp"}) /\ UNCHANGED failed

\* The dispatcher with stubs for handlers: what it does not reject itself it
\* passes on, and nothing comes of it.
Dispatches(m) ==
  /\ unit \in {"TaskPipe", "ProcessGroundCommand"}
  /\ \/ (BadLength(m) \/ RejectMessage(m)) /\ CallStubs({})
     \/ /\ Take(m, "RunLoop") /\ Silent /\ UNCHANGED <<dataVars, tblVars>>
        /\ \/ /\ m.mid = "SEND_HK"
              /\ CallStubs({"SendHkCmd"})
           \/ /\ Runs(m, m.cc) /\ m.cc \in DOMAIN Handlers
              /\ CallStubs({Handlers[m.cc]})
  /\ UNCHANGED failed

VerifiesLength(m) ==
  /\ unit = "VerifyCmdLength"
  /\ \/ BadLength(m)
     \/ Runs(m, m.cc) /\ Take(m, "RunLoop") /\ Silent /\ UNCHANGED <<dataVars, tblVars>>
  /\ CallStubs({}) /\ UNCHANGED failed

Handles(m) ==
  /\ \/ unit = "SendHkCmd" /\ SendHkCmd(m) /\ CallStubs({"TimeStampMsg", "TblManage"})
     \/ unit = "NoopCmd" /\ NoopCmd(m) /\ CallStubs({})
     \/ unit = "ResetCountersCmd" /\ ResetCountersCmd(m) /\ CallStubs({})
     \/ unit = "DisplayParamCmd" /\ DisplayParamCmd(m) /\ CallStubs({})
     \/ /\ unit = "ProcessCmd" /\ ProcessCmd(m) /\ CallStubs({"GetAddress"})
        /\ Said("GetAddressFailed")' <=> Configured("GetAddress")
  /\ UNCHANGED failed

LogsValues == unit = "ProcessCmd" /\ LogValues /\ CallStubs({}) /\ UNCHANGED failed

\* The rest of ProcessCmd around the stub of GetCrc, and GetCrc alone.
LogsCrc ==
  /\ LogCrc
  /\ \/ /\ unit = "ProcessCmd" /\ Said("Crc")'
        /\ Said("ReleaseFailed")' <=> Configured("ReleaseAddress")
        /\ CallStubs({"ReleaseAddress"})
     \/ /\ unit = "GetCrc" /\ ~ Said("ReleaseFailed")'
        /\ Said("GetInfoFailed")' <=> Configured("GetInfo")
        /\ CallStubs({"GetInfo"})
  /\ UNCHANGED failed

UnitRuns ==
  \/ InitCalls \/ RunLoopStub \/ MainReceives \/ MainExits \/ LogsValues \/ LogsCrc
  \/ \E k \in DOMAIN pipe : Dispatches(pipe[k]) \/ VerifiesLength(pipe[k]) \/ Handles(pipe[k])

UtNext == NextTest \/ CallUnit \/ Configure \/ SetHook \/ ProvideTable \/ Assert \/ UnitRuns

UtSpec == UtInit /\ [][UtNext]_<<vars, utVars>> /\ WF_<<vars, utVars>>(UtNext)

(***************************************************************************)
(* Properties.                                                             *)
(***************************************************************************)
Over == Returned /\ at > Len(Script)

\* Every assertion of the coverage tests holds: stub counts that accumulate
\* over error paths, statuses, and events matched exactly as often as the
\* tests say (UtAssert_* in coveragetest_blinker_app*.c).
AssertionsHold == Asserting => Observed(Step.what) = Step.value

\* Each test program comes to its end, although Main's loop ends only when
\* CFE_ES_RunLoop says so: "otherwise it will stay there infinitely".
SuiteEnds == <>(Over /\ nth = Len(Suites[suite]))

\* Violated.  coveragetest_blinker_app.c:153 "Trigger a failure for each of
\* the sub-calls": at the end of the suite each call of Init has failed once.
EverySubCallFails == suite = "blinker_app" /\ nth = 2 /\ Over => failed = InitSteps
================================================================================
