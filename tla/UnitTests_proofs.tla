--------------------------- MODULE UnitTests_proofs ---------------------------
(***************************************************************************)
(* The coverage tests: every assertion holds, for any number of blinkers,  *)
(* any limit of the table, and however far the stubs count their calls.    *)
(*                                                                         *)
(* The invariant goes through the twelve tests and says, of every step,    *)
(* what the stubs have counted and what they will still do: while the test *)
(* is in control, and while the function under test runs.                  *)
(***************************************************************************)
EXTENDS UnitTests, BlinkerApp_proofs, FiniteSetTheorems

\* What the hook may look for.
HookIds == EventIds \cup {"none"}
HookTexts == Texts \cup {"none", "any"}

UtTypeOK ==
  /\ calls \in [Stubs -> 0 .. MaxCalls]
  /\ due \in [Stubs -> Nat]
  /\ hook \in [id : HookIds, text : HookTexts, matches : 0 .. MaxCalls]
  /\ broken \subseteq Stubs

Seen(id, text, n) == hook = [id |-> id, text |-> text, matches |-> n]

Calls(s, n) == calls[s] = n

\* A function under test that has taken no step yet has its message to take.
Called(u, m) == unit = u /\ pc = "Receive" /\ pipe = <<m>>

(***************************************************************************)
(* The tests of Main and Init.  f is the step of Init that the test lets   *)
(* fail, or "none"; DueFor says what its stub is to return from p onwards. *)
(***************************************************************************)
InitStubs == {"EvsRegister", "CreatePipe", "Subscribe", "TblRegister", "TblLoad"}

NoneDue(S) == \A s \in S : due[s] = 0
OnlyDue(s, n) == due[s] = n /\ NoneDue(InitStubs \ {s})

DueFor(f, p) ==
  /\ f = "none" => NoneDue(InitStubs)
  /\ f = "Init" => p = "Init" /\ OnlyDue("EvsRegister", 1)
  /\ f = "CreatePipe" => p \in {"Init", "CreatePipe"} /\ OnlyDue("CreatePipe", 1)
  /\ f = "SubscribeHk" => p \in {"Init", "CreatePipe", "SubscribeHk"} /\ OnlyDue("Subscribe", 1)
  /\ f = "SubscribeCmd" =>
       \/ p \in {"Init", "CreatePipe", "SubscribeHk"} /\ OnlyDue("Subscribe", 2)
       \/ p = "SubscribeCmd" /\ OnlyDue("Subscribe", 1)
  /\ f = "TblRegister" => p \in InitSteps \ {"TblLoad"} /\ OnlyDue("TblRegister", 1)

InitUnderWay(f) == pc \in InitSteps /\ (pc # "Init" => RunStatus = "APP_RUN") /\ DueFor(f, pc)
InitOver(f) == RunStatus = (IF f = "none" THEN "APP_RUN" ELSE "APP_ERROR") /\ NoneDue(InitStubs)

InitEvents(f) == IF f = "Init" THEN 0 ELSE IF f = "TblRegister" THEN 2 ELSE 1
InitLogs(f) == IF f = "Init" THEN 1 ELSE 0

\* The loop's stubs: how often RunLoop is to go on, ReceiveBuffer to fail.
LoopDue(l, r) == due["RunLoop"] = l /\ due["ReceiveBuffer"] = r
Waits(l, r) == NoneDue(InitStubs) /\ LoopDue(l, r)

Entering == InitUnderWay("none") \/ pc = "RunLoop"
Leaving == pc \in {"RunLoop", "ExitApp"}
Left == pc = "Exited"

MainInv ==
  /\ broken = {}
  /\ at > 1 => unit = "Main"
  /\ \/ at = 1 /\ Left /\ Waits(0, 0) /\ Calls("ExitApp", 0) /\ Calls("ReceiveBuffer", 0)
     \/ at = 2 /\ (Entering \/ Leaving) /\ Waits(0, 0)
               /\ Calls("ExitApp", 0) /\ Calls("ReceiveBuffer", 0)
     \/ at \in {2, 3} /\ Left /\ Waits(0, 0) /\ Calls("ExitApp", 1) /\ Calls("ReceiveBuffer", 0)
     \/ at = 4 /\ Left /\ DueFor("Init", "Init") /\ LoopDue(0, 0) /\ Calls("ReceiveBuffer", 0)
     \/ at = 5 /\ InitUnderWay("Init") /\ LoopDue(0, 0) /\ Calls("ReceiveBuffer", 0)
     \/ at = 5 /\ Leaving /\ InitOver("Init") /\ LoopDue(0, 0) /\ Calls("ReceiveBuffer", 0)
     \/ at \in {5, 6} /\ Left /\ InitOver("Init") /\ LoopDue(0, 0) /\ Calls("ReceiveBuffer", 0)
     \/ at = 7 /\ Left /\ Waits(1, 0) /\ Calls("ReceiveBuffer", 0)
     \/ at = 8 /\ Entering /\ Waits(1, 0) /\ Calls("ReceiveBuffer", 0)
     \/ at = 8 /\ pc = "Receive" /\ Waits(0, 0) /\ Calls("ReceiveBuffer", 0)
     \/ at = 8 /\ (Leaving \/ Left) /\ Waits(0, 0) /\ Calls("ReceiveBuffer", 1)
     \/ at = 9 /\ Left /\ Waits(0, 0)
     \/ at = 10 /\ Left /\ Waits(1, 0)
     \/ at = 11 /\ Left /\ Waits(1, 1)
     \/ at = 12 /\ Left /\ Waits(1, 1) /\ Seen("PIPE_ERR", "PipeReadError", 0)
     \/ at = 13 /\ Entering /\ Waits(1, 1) /\ Seen("PIPE_ERR", "PipeReadError", 0)
     \/ at = 13 /\ pc = "Receive" /\ Waits(0, 1) /\ Seen("PIPE_ERR", "PipeReadError", 0)
     \/ at = 13 /\ (Leaving \/ Left) /\ Waits(0, 0) /\ Seen("PIPE_ERR", "PipeReadError", 1)
     \/ at = 14 /\ Left

\* The k-th step of the test is the call in which step f of Init fails, with
\* e events and l entries of the system log reported so far.
Reported(e, l) == Calls("SendEvent", e) /\ Calls("WriteToSysLog", l)

InitRound(k, f, e, l) ==
  \/ at = k /\ Returned /\ DueFor(f, "Init") /\ Reported(e, l)
  \/ at = k + 1 /\ unit = "Init" /\ InitUnderWay(f) /\ Reported(e, l)
  \/ /\ at \in k + 1 .. (IF k = 1 THEN 3 ELSE k + 3)
     /\ unit = "Init" /\ pc = "RunLoop" /\ InitOver(f)
     /\ Reported(e + InitEvents(f), l + InitLogs(f))

InitInv ==
  /\ broken = {}
  /\ \/ InitRound(1, "none", 0, 0)
     \/ InitRound(4, "Init", 1, 0)
     \/ InitRound(8, "CreatePipe", 1, 1)
     \/ InitRound(12, "SubscribeHk", 2, 1)
     \/ InitRound(16, "SubscribeCmd", 3, 1)
     \/ InitRound(20, "TblRegister", 4, 1)

(***************************************************************************)
(* The tests of the dispatcher.                                            *)
(***************************************************************************)
TaskPipeInv ==
  \/ at = 1 /\ Returned
  \/ at = 2 /\ Returned /\ Seen("MID_ERR", "Invalid", 0)
  \/ /\ at \in 3 .. 5 /\ Called("TaskPipe", TaskPipeTest[at - 1].msg)
     /\ Seen("MID_ERR", "Invalid", 0)
  \/ at \in 3 .. 4 /\ Returned /\ Seen("MID_ERR", "Invalid", 0)
  \/ at \in 5 .. 6 /\ Returned /\ Seen("MID_ERR", "Invalid", 1)

\* The j-th command has two calls: the step before 5j-2, and the one before 5j.
DispatchCodes == <<"NOOP", "RESET_COUNTERS", "PROCESS", "DISPLAY_PARAM">>

Dispatched(k) ==
  /\ Seen("CMD_LEN_ERR", "BadLength", k \div 5)
  /\ \A j \in 1 .. 4 : Calls(Handlers[DispatchCodes[j]], IF k >= 5 * j - 2 THEN 1 ELSE 0)

CallPositions == {5 * j - 2 : j \in 1 .. 4} \cup {5 * j : j \in 1 .. 4}

ProcessGroundCommandInv ==
  \/ at = 1 /\ Returned /\ \A j \in 1 .. 4 : Calls(Handlers[DispatchCodes[j]], 0)
  \/ at \in 2 .. 22 /\ Returned /\ Dispatched(at)
  \/ /\ at \in CallPositions /\ Called("ProcessGroundCommand", ProcessGroundCommandTest[at - 1].msg)
     /\ Dispatched(at - 1)
  \/ at = 23 /\ Returned /\ Seen("CC_ERR", "Invalid", 0)
  \/ at = 24 /\ Called("ProcessGroundCommand", BadCode) /\ Seen("CC_ERR", "Invalid", 0)
  \/ at \in 24 .. 25 /\ Returned /\ Seen("CC_ERR", "Invalid", 1)

VerifyCmdLengthInv ==
  \/ at = 1 /\ Returned
  \/ at \in 2 .. 4 /\ Returned /\ Seen("CMD_LEN_ERR", "BadLength", 0)
  \/ /\ at \in {3, 5} /\ Called("VerifyCmdLength", VerifyCmdLengthTest[at - 1].msg)
     /\ Seen("CMD_LEN_ERR", "BadLength", 0)
  \/ at \in 5 .. 6 /\ Returned /\ Seen("CMD_LEN_ERR", "BadLength", 1)

(***************************************************************************)
(* The tests of the handlers and of the table's functions.                 *)
(***************************************************************************)
ReportHousekeepingInv ==
  \/ at = 1 /\ Returned
     /\ \A s \in {"TransmitMsg", "TimeStampMsg", "TblManage"} : Calls(s, 0)
  \/ at = 2 /\ Called("SendHkCmd", Tick("SEND_HK"))
     /\ \A s \in {"TransmitMsg", "TimeStampMsg", "TblManage"} : Calls(s, 0)
  \/ at \in 2 .. 5 /\ Returned
     /\ \A s \in {"TransmitMsg", "TimeStampMsg", "TblManage"} : Calls(s, 1)

\* A handler that reports one event, and the command it is called with.
CommandInv(u, m, id, text) ==
  \/ at = 1 /\ Returned
  \/ at = 2 /\ Returned /\ Seen(id, text, 0)
  \/ at = 3 /\ Called(u, m) /\ Seen(id, text, 0)
  \/ at \in 3 .. 5 /\ Returned /\ unit = u /\ Seen(id, text, 1)

NoopCmdInv == CommandInv("NoopCmd", Cmd("NOOP"), "NOOP_INF", "any")
ResetCountersCmdInv ==
  CommandInv("ResetCountersCmd", Cmd("RESET_COUNTERS"), "RESET_INF", "ResetCounters")
DisplayParamCmdInv ==
  CommandInv("DisplayParamCmd", Cmd("DISPLAY_PARAM"), "VALUE_INF", "Value")

Processing == unit = "ProcessCmd"
Logged(n, g) == Calls("WriteToSysLog", n) /\ Calls("GetAddress", g)

ProcessCmdInv ==
  /\ NoneDue({"GetAddress", "ReleaseAddress"})
  /\ broken = (IF at \in 7 .. 10 THEN {"GetAddress"} ELSE IF at \in 12 .. 15 THEN {"ReleaseAddress"} ELSE {})
  /\ \/ at \in 1 .. 2 /\ Returned /\ Logged(0, 0)
     \/ at = 3 /\ Called("ProcessCmd", Cmd("PROCESS")) /\ Logged(0, 0)
     \/ at = 3 /\ Processing /\ pc = "LogValues" /\ Logged(0, 1)
     \/ at = 3 /\ Processing /\ pc = "LogCrc" /\ Logged(1, 1)
     \/ at \in 3 .. 6 /\ Processing /\ Returned /\ Logged(1, 1)
        /\ ~ Said("GetAddressFailed") /\ ~ Said("ReleaseFailed")
     \/ at = 7 /\ Returned /\ Calls("WriteToSysLog", 1)
     \/ at = 8 /\ Called("ProcessCmd", Cmd("PROCESS")) /\ Calls("WriteToSysLog", 1)
     \/ at \in 8 .. 10 /\ Processing /\ Returned /\ Calls("WriteToSysLog", 2)
        /\ Said("GetAddressFailed")
     \/ at \in 11 .. 12 /\ Returned /\ Calls("WriteToSysLog", 2)
     \/ at = 13 /\ Called("ProcessCmd", Cmd("PROCESS")) /\ Calls("WriteToSysLog", 2)
     \/ at = 13 /\ Processing /\ pc = "LogValues" /\ Calls("WriteToSysLog", 2)
     \/ at = 13 /\ Processing /\ pc = "LogCrc" /\ Calls("WriteToSysLog", 3)
     \/ at \in 13 .. 15 /\ Processing /\ Returned /\ Calls("WriteToSysLog", 4)
        /\ Said("ReleaseFailed")

TblValidationInv ==
  /\ Returned
  /\ at \in {3, 6} => unit = "TblValidationFunc"
  /\ at \in 2 .. 3 => active = [Int1 |-> 0, Int2 |-> 0]
  /\ at \in 5 .. 6 => active = [Int1 |-> 1 + TblElement1Max, Int2 |-> 0]
  /\ at \in 1 .. 7

GetCrcInv ==
  \/ at \in 1 .. 2 /\ Returned /\ Calls("WriteToSysLog", 0)
  \/ at = 3 /\ unit = "GetCrc" /\ pc = "LogCrc" /\ Calls("WriteToSysLog", 0)
  \/ at \in 3 .. 5 /\ Returned /\ Calls("WriteToSysLog", 1)
  \/ at = 6 /\ unit = "GetCrc" /\ pc = "LogCrc" /\ Calls("WriteToSysLog", 1)
  \/ at \in 6 .. 7 /\ Returned /\ Calls("WriteToSysLog", 2)

(***************************************************************************)
(* The invariant of the four test programs.                                *)
(***************************************************************************)
Running(s, n) == suite = s /\ nth = n

TestInv ==
  \/ Running("blinker_app", 1) /\ MainInv
  \/ Running("blinker_app", 2) /\ InitInv
  \/ Running("dispatch", 1) /\ TaskPipeInv
  \/ Running("dispatch", 2) /\ ProcessGroundCommandInv
  \/ Running("dispatch", 3) /\ VerifyCmdLengthInv
  \/ Running("cmds", 1) /\ ReportHousekeepingInv
  \/ Running("cmds", 2) /\ NoopCmdInv
  \/ Running("cmds", 3) /\ ResetCountersCmdInv
  \/ Running("cmds", 4) /\ ProcessCmdInv
  \/ Running("cmds", 5) /\ DisplayParamCmdInv
  \/ Running("utils", 1) /\ TblValidationInv
  \/ Running("utils", 2) /\ GetCrcInv

UInv == UtTypeOK /\ TestInv

(***************************************************************************)
(* What the stubs count.                                                   *)
(***************************************************************************)
LEMMA UpToExact == \A n \in Nat : UpTo(n) \in 0 .. MaxCalls /\ (n <= 6 => UpTo(n) = n)
  BY MaxCallsAssumption DEF UpTo

LEMMA SmallSets ==
  /\ Cardinality({}) = 0 /\ Cardinality({1}) = 1 /\ Cardinality({2}) = 1
  /\ Cardinality({1, 2}) = 2
<1>1. Cardinality({1, 2}) = 2
  <2>1. IsFiniteSet({1}) /\ Cardinality({1}) = 1 BY FS_Singleton
  <2>2. {1, 2} = {1} \cup {2} /\ 2 \notin {1} OBVIOUS
  <2>3. QED BY <2>1, <2>2, FS_AddElement
<1>2. QED BY <1>1, FS_EmptySet, FS_Singleton

\* What one step adds to a count: the outputs that the stub is behind.
By(s, o) == IF Carrier(o) = s THEN 1 ELSE 0
Hit(o) == IF Matching(o) THEN 1 ELSE 0

LEMMA CountsOfNone ==
  ASSUME out' = <<>>
  PROVE  Outputs(Matching) = 0 /\ \A s : Outputs(LAMBDA o : Carrier(o) = s) = 0
  BY SmallSets DEF Outputs

LEMMA CountsOfOne ==
  ASSUME NEW p, out' = <<p>>
  PROVE  Outputs(Matching) = Hit(p) /\ \A s : Outputs(LAMBDA o : Carrier(o) = s) = By(s, p)
<1>1. DOMAIN out' = {1} /\ out'[1] = p OBVIOUS
<1>2. Outputs(Matching) = Hit(p)
  <2>1. {k \in DOMAIN out' : Matching(out'[k])} = IF Matching(p) THEN {1} ELSE {} BY <1>1
  <2>2. QED BY <2>1, SmallSets DEF Outputs, Hit
<1>3. ASSUME NEW s PROVE Outputs(LAMBDA o : Carrier(o) = s) = By(s, p)
  <2>1. {k \in DOMAIN out' : Carrier(out'[k]) = s} = IF Carrier(p) = s THEN {1} ELSE {} BY <1>1
  <2>2. QED BY <2>1, SmallSets DEF Outputs, By
<1>4. QED BY <1>2, <1>3

LEMMA CountsOfTwo ==
  ASSUME NEW p, NEW q, out' = <<p, q>>
  PROVE  /\ Outputs(Matching) = Hit(p) + Hit(q)
         /\ \A s : Outputs(LAMBDA o : Carrier(o) = s) = By(s, p) + By(s, q)
<1>1. DOMAIN out' = {1, 2} /\ out'[1] = p /\ out'[2] = q OBVIOUS
<1>2. Outputs(Matching) = Hit(p) + Hit(q)
  <2>1. {k \in DOMAIN out' : Matching(out'[k])} =
          IF Matching(p) THEN (IF Matching(q) THEN {1, 2} ELSE {1})
          ELSE IF Matching(q) THEN {2} ELSE {}
    BY <1>1
  <2>2. QED BY <2>1, SmallSets DEF Outputs, Hit
<1>3. ASSUME NEW s PROVE Outputs(LAMBDA o : Carrier(o) = s) = By(s, p) + By(s, q)
  <2>1. {k \in DOMAIN out' : Carrier(out'[k]) = s} =
          IF Carrier(p) = s THEN (IF Carrier(q) = s THEN {1, 2} ELSE {1})
          ELSE IF Carrier(q) = s THEN {2} ELSE {}
    BY <1>1
  <2>2. QED BY <2>1, SmallSets DEF Outputs, By
<1>4. QED BY <1>2, <1>3

\* What the last step is said to have reported.
LEMMA SaidOfOne ==
  ASSUME NEW p, out' = <<p>>, NEW text
  PROVE  Said(text)' <=> p.text = text
<1>1. DOMAIN out' = {1} /\ out'[1] = p OBVIOUS
<1>2. QED BY <1>1 DEF Said

LEMMA SaidOfTwo ==
  ASSUME NEW p, NEW q, out' = <<p, q>>, NEW text
  PROVE  Said(text)' <=> p.text = text \/ q.text = text
<1>1. DOMAIN out' = {1, 2} /\ out'[1] = p /\ out'[2] = q OBVIOUS
<1>2. QED BY <1>1 DEF Said

(***************************************************************************)
(* What a step that calls the stubs S changes.                             *)
(***************************************************************************)
In(s, S) == IF s \in S THEN 1 ELSE 0

\* The step has counted the calls of S, and n(s) calls and h matches more.
Stubbed(S) ==
  /\ UNCHANGED <<suite, nth, at, unit, broken>>
  /\ UtTypeOK'
  /\ \A s \in Stubs : due'[s] = IF s \in S /\ due[s] > 0 THEN due[s] - 1 ELSE due[s]

Matched(h) ==
  hook' = [id |-> hook.id, text |-> hook.text, matches |-> UpTo(hook.matches + h)]

LEMMA CallStubsCounts ==
  ASSUME UtTypeOK, NEW S, CallStubs(S), NEW h \in Nat, NEW n \in [Stubs -> Nat],
         Outputs(Matching) = h, \A s \in Stubs : Outputs(LAMBDA o : Carrier(o) = s) = n[s]
  PROVE  /\ Stubbed(S) /\ Matched(h)
         /\ \A s \in Stubs : calls'[s] = UpTo(calls[s] + In(s, S) + n[s])
<1>1. \A s \in Stubs : calls'[s] = UpTo(calls[s] + In(s, S) + n[s])
  BY DEF CallStubs, In, Outputs
<1>2. hook' = [hook EXCEPT !.matches = UpTo(hook.matches + h)]
  BY DEF CallStubs, Outputs
<1>3. Matched(h)
  BY <1>2 DEF UtTypeOK, Matched
<1>4. calls' \in [Stubs -> 0 .. MaxCalls]
  <2>1. \A s \in Stubs : UpTo(calls[s] + In(s, S) + n[s]) \in 0 .. MaxCalls
    BY UpToExact DEF UtTypeOK, In
  <2>2. calls' = [s \in Stubs |-> calls'[s]]
    BY DEF CallStubs
  <2>3. QED BY <1>1, <2>1, <2>2
<1>5. due' \in [Stubs -> Nat]
  BY DEF CallStubs, UtTypeOK
<1>6. hook' \in [id : HookIds, text : HookTexts, matches : 0 .. MaxCalls]
  BY <1>3, UpToExact DEF UtTypeOK, Matched
<1>7. Stubbed(S)
  BY <1>4, <1>5, <1>6 DEF Stubbed, CallStubs, UtTypeOK, runVars
<1>8. QED BY <1>1, <1>3, <1>7

LEMMA CallsWithNone ==
  ASSUME UtTypeOK, NEW S, CallStubs(S), out' = <<>>
  PROVE  /\ Stubbed(S) /\ Matched(0)
         /\ \A s \in Stubs : calls'[s] = UpTo(calls[s] + In(s, S))
<1> DEFINE n == [s \in Stubs |-> 0]
<1>1. Outputs(Matching) = 0 /\ \A s \in Stubs : Outputs(LAMBDA o : Carrier(o) = s) = n[s]
  BY CountsOfNone DEF Outputs
<1>2. n \in [Stubs -> Nat] OBVIOUS
<1>3. /\ Stubbed(S) /\ Matched(0)
      /\ \A s \in Stubs : calls'[s] = UpTo(calls[s] + In(s, S) + n[s])
  <2> HIDE DEF n
  <2>1. QED BY <1>1, <1>2, CallStubsCounts DEF Outputs
<1>4. QED BY <1>3 DEF UtTypeOK, In

LEMMA CallsWithOne ==
  ASSUME UtTypeOK, NEW S, CallStubs(S), NEW p, out' = <<p>>
  PROVE  /\ Stubbed(S) /\ Matched(Hit(p))
         /\ \A s \in Stubs : calls'[s] = UpTo(calls[s] + In(s, S) + By(s, p))
<1> DEFINE n == [s \in Stubs |-> By(s, p)]
<1>1. /\ Outputs(Matching) = Hit(p)
      /\ \A s \in Stubs : Outputs(LAMBDA o : Carrier(o) = s) = n[s]
  BY CountsOfOne DEF Outputs
<1>2. n \in [Stubs -> Nat] /\ Hit(p) \in Nat BY DEF By, Hit
<1>3. /\ Stubbed(S) /\ Matched(Hit(p))
      /\ \A s \in Stubs : calls'[s] = UpTo(calls[s] + In(s, S) + n[s])
  <2> HIDE DEF n
  <2>1. QED BY <1>1, <1>2, CallStubsCounts DEF Outputs
<1>4. QED BY <1>3

LEMMA CallsWithTwo ==
  ASSUME UtTypeOK, NEW S, CallStubs(S), NEW p, NEW q, out' = <<p, q>>
  PROVE  /\ Stubbed(S) /\ Matched(Hit(p) + Hit(q))
         /\ \A s \in Stubs : calls'[s] = UpTo(calls[s] + In(s, S) + (By(s, p) + By(s, q)))
<1> DEFINE n == [s \in Stubs |-> By(s, p) + By(s, q)]
<1>1. /\ Outputs(Matching) = Hit(p) + Hit(q)
      /\ \A s \in Stubs : Outputs(LAMBDA o : Carrier(o) = s) = n[s]
  BY CountsOfTwo DEF Outputs
<1>2. n \in [Stubs -> Nat] /\ Hit(p) + Hit(q) \in Nat BY DEF By, Hit
<1>3. /\ Stubbed(S) /\ Matched(Hit(p) + Hit(q))
      /\ \A s \in Stubs : calls'[s] = UpTo(calls[s] + In(s, S) + n[s])
  <2> HIDE DEF n
  <2>1. QED BY <1>1, <1>2, CallStubsCounts DEF Outputs
<1>4. QED BY <1>3

LEMMA CountOfEvent ==
  ASSUME NEW eid \in EventIds, NEW text, NEW args
  PROVE  /\ \A s \in Stubs : By(s, Event(eid, text, args)) = IF s = "SendEvent" THEN 1 ELSE 0
         /\ Hit(Event(eid, text, args)) =
              IF eid = hook.id /\ hook.text \in {"any", text} THEN 1 ELSE 0
  BY DEF EventIds, By, Hit, Carrier, Matching, Event

LEMMA CountOfSysLog ==
  ASSUME UtTypeOK, NEW text, NEW args
  PROVE  /\ \A s \in Stubs : By(s, SysLog(text, args)) =
              IF suite = "cmds" /\ text = "Crc" THEN (IF s = "GetCrc" THEN 1 ELSE 0)
              ELSE IF s = "WriteToSysLog" THEN 1 ELSE 0
         /\ Hit(SysLog(text, args)) = 0
<1>1. hook.id # "SYSLOG"
  BY DEF UtTypeOK, HookIds, EventIds
<1>2. QED BY <1>1 DEF By, Hit, Carrier, Matching, SysLog

(***************************************************************************)
(* Either the test is in control, or the function under test runs.         *)
(***************************************************************************)
TestActs == CallUnit \/ Configure \/ SetHook \/ ProvideTable \/ Assert

LEMMA UnitIsRunning ==
  ASSUME UnitRuns
  PROVE  ~ Returned
<1>1. CASE InitCalls
  BY <1>1 DEF InitCalls, AppInit, EvsRegister, CreatePipe, SubscribeAll, SubscribeTo,
              RegisterTable, LoadTable, Returned
<1>2. CASE RunLoopStub \/ MainReceives \/ MainExits \/ LogsValues \/ LogsCrc
  BY <1>2 DEF RunLoopStub, MainReceives, MainExits, LogsValues, LogsCrc, ReceiveFails, ExitApp,
              LogValues, LogCrc, Returned
<1>3. CASE \E k \in DOMAIN pipe :
             Dispatches(pipe[k]) \/ VerifiesLength(pipe[k]) \/ Handles(pipe[k])
  <2>1. PICK k \in DOMAIN pipe :
               Dispatches(pipe[k]) \/ VerifiesLength(pipe[k]) \/ Handles(pipe[k])
    BY <1>3
  <2>2. ASSUME NEW m, NEW next, Take(m, next) PROVE pc = "Receive"
    BY <2>2 DEF Take
  <2>3. CASE Dispatches(pipe[k]) \/ VerifiesLength(pipe[k])
    BY <2>2, <2>3 DEF Dispatches, VerifiesLength, BadLength, RejectMessage, Returned
  <2>4. CASE Handles(pipe[k])
    <3>1. \/ SendHkCmd(pipe[k]) \/ NoopCmd(pipe[k]) \/ ResetCountersCmd(pipe[k])
          \/ DisplayParamCmd(pipe[k]) \/ ProcessCmd(pipe[k])
      BY <2>4 DEF Handles
    <3>2. Take(pipe[k], "RunLoop") \/ Take(pipe[k], "LogValues")
      BY <3>1, HandlerTakes DEF Handler
    <3>3. QED BY <2>2, <3>2 DEF Returned
  <2>5. QED BY <2>1, <2>3, <2>4
<1>4. QED BY <1>1, <1>2, <1>3 DEF UnitRuns

LEMMA TestIsInControl ==
  ASSUME TestActs \/ NextTest
  PROVE  Returned
  BY DEF TestActs, CallUnit, Configure, SetHook, ProvideTable, Assert, Proceed, NextTest

LEMMA StepActs ==
  ASSUME UtTypeOK, TestActs
  PROVE  /\ Returned /\ at <= Len(Script) /\ at' = at + 1 /\ UNCHANGED <<suite, nth, calls>>
         /\ Step.do = "call" =>
              /\ unit' = Step.unit /\ pc' = Entry(Step.unit) /\ pipe' = <<Step.msg>>
              /\ UNCHANGED <<RunStatus, active, due, broken, hook>>
         /\ Step.do # "call" => UNCHANGED <<unit, pc, RunStatus, out>> /\ Returned'
         /\ Step.do \notin {"call", "table"} => UNCHANGED active
         /\ Step.do = "table" => active' = Step.img
         /\ Step.do = "deferred" => due' = [due EXCEPT ![Step.stub] = Step.n]
         /\ Step.do # "deferred" => UNCHANGED due
         /\ Step.do = "default" => broken' = broken \cup {Step.stub}
         /\ Step.do = "clear" => broken' = broken \ {Step.stub}
         /\ Step.do \notin {"default", "clear"} => UNCHANGED broken
         /\ Step.do = "hook" => hook' = [id |-> Step.id, text |-> Step.text, matches |-> 0]
         /\ Step.do # "hook" => UNCHANGED hook
<1> USE DEF Proceed
<1>1. CASE CallUnit
  BY <1>1 DEF CallUnit, stubVars, tblVars
<1>2. CASE Configure
  BY <1>2 DEF Configure, vars, tblVars, Returned
<1>3. CASE SetHook
  BY <1>3 DEF SetHook, vars, tblVars, Returned
<1>4. CASE ProvideTable
  BY <1>4 DEF ProvideTable, stubVars, Returned
<1>5. CASE Assert
  BY <1>5 DEF Assert, Asserting, stubVars, vars, tblVars, Returned
<1>6. QED BY <1>1, <1>2, <1>3, <1>4, <1>5 DEF TestActs

\* What a step of a test may ask for keeps the stubs' configuration in order.
StepOK(st) ==
  /\ st.do = "hook" => st.id \in HookIds /\ st.text \in HookTexts
  /\ st.do = "deferred" => st.stub \in Stubs /\ st.n \in Nat
  /\ st.do = "default" => st.stub \in Stubs

LEMMA StepTyped ==
  ASSUME UtTypeOK, TestActs, StepOK(Step)
  PROVE  UtTypeOK'
<1>1. calls' = calls BY StepActs
<1>2. due' \in [Stubs -> Nat] BY StepActs DEF StepOK, UtTypeOK
<1>3. hook' \in [id : HookIds, text : HookTexts, matches : 0 .. MaxCalls]
  BY StepActs, MaxCallsAssumption DEF StepOK, UtTypeOK
<1>4. broken' \subseteq Stubs BY StepActs DEF StepOK, UtTypeOK
<1>5. QED BY <1>1, <1>2, <1>3, <1>4 DEF UtTypeOK

\* A test that calls a function with a message.
LEMMA CallActs ==
  ASSUME UtTypeOK, TestActs, NEW u, NEW m, Step = CallWith(u, m),
         u \notin {"Main", "Init", "GetCrc", "TblValidationFunc"}
  PROVE  /\ UtTypeOK' /\ Called(u, m)' /\ ~ Returned'
         /\ UNCHANGED <<RunStatus, active, calls, due, broken, hook>>
<1>1. Step.do = "call" /\ Step.unit = u /\ Step.msg = m /\ StepOK(Step)
  BY DEF CallWith, StepOK
<1>2. QED BY <1>1, StepActs, StepTyped DEF Entry, Called, Returned

LEMMA HookActs ==
  ASSUME UtTypeOK, TestActs, NEW id \in EventIds, NEW text \in HookTexts,
         Step = CheckEvent(id, text)
  PROVE  /\ UtTypeOK' /\ Seen(id, text, 0)' /\ Returned'
         /\ UNCHANGED <<unit, pc, RunStatus, active, out, calls, due, broken>>
<1>1. Step.do = "hook" /\ Step.id = id /\ Step.text = text /\ StepOK(Step)
  BY DEF CheckEvent, StepOK, HookIds
<1>2. QED BY <1>1, StepActs, StepTyped DEF Seen

LEMMA ExpectActs ==
  ASSUME UtTypeOK, TestActs, NEW what, NEW value, Step = Expect(what, value)
  PROVE  /\ UtTypeOK' /\ Returned'
         /\ UNCHANGED <<unit, pc, RunStatus, active, out, calls, due, broken, hook>>
<1>1. Step.do = "expect" /\ StepOK(Step)
  BY DEF Expect, StepOK
<1>2. QED BY <1>1, StepActs, StepTyped

LEMMA EntryActs ==
  ASSUME UtTypeOK, TestActs, NEW u, Step = Call(u)
  PROVE  /\ UtTypeOK' /\ unit' = u /\ pc' = Entry(u)
         /\ UNCHANGED <<RunStatus, active, calls, due, broken, hook>>
<1>1. Step.do = "call" /\ Step.unit = u /\ StepOK(Step)
  BY DEF Call, StepOK
<1>2. QED BY <1>1, StepActs, StepTyped

LEMMA TableActs ==
  ASSUME UtTypeOK, TestActs, NEW img, Step = Table(img)
  PROVE  /\ UtTypeOK' /\ active' = img /\ Returned'
         /\ UNCHANGED <<unit, pc, RunStatus, out, calls, due, broken, hook>>
<1>1. Step.do = "table" /\ Step.img = img /\ StepOK(Step)
  BY DEF Table, StepOK
<1>2. QED BY <1>1, StepActs, StepTyped

LEMMA StubActs ==
  ASSUME UtTypeOK, TestActs, NEW s \in Stubs, Step = Default(s) \/ Step = ClearDefault(s)
  PROVE  /\ UtTypeOK' /\ Returned'
         /\ Step = Default(s) => broken' = broken \cup {s}
         /\ Step = ClearDefault(s) => broken' = broken \ {s}
         /\ UNCHANGED <<unit, pc, RunStatus, active, out, calls, due, hook>>
<1>1. CASE Step = Default(s)
  <2>1. Step.do = "default" /\ Step.stub = s /\ StepOK(Step) /\ Step # ClearDefault(s)
    BY <1>1 DEF Default, ClearDefault, StepOK
  <2>2. QED BY <1>1, <2>1, StepActs, StepTyped
<1>2. CASE Step = ClearDefault(s)
  <2>1. Step.do = "clear" /\ Step.stub = s /\ StepOK(Step) /\ Step # Default(s)
    BY <1>2 DEF Default, ClearDefault, StepOK
  <2>2. QED BY <2>1, StepActs, StepTyped
<1>3. QED BY <1>1, <1>2

(***************************************************************************)
(* The test of Main.                                                       *)
(***************************************************************************)
LEMMA MainScript ==
  ASSUME Running("blinker_app", 1)
  PROVE  /\ Script = MainTest /\ Len(MainTest) = 13
         /\ MainTest[1] = Call("Main") /\ MainTest[2] = Expect("ExitApp", 1)
         /\ MainTest[3] = Deferred("EvsRegister", 1) /\ MainTest[4] = Call("Main")
         /\ MainTest[5] = Expect("RunStatus", "APP_ERROR")
         /\ MainTest[6] = Deferred("RunLoop", 1) /\ MainTest[7] = Call("Main")
         /\ MainTest[8] = Expect("ReceiveBuffer", 1)
         /\ MainTest[9] = Deferred("RunLoop", 1) /\ MainTest[10] = Deferred("ReceiveBuffer", 1)
         /\ MainTest[11] = CheckEvent("PIPE_ERR", "PipeReadError")
         /\ MainTest[12] = Call("Main") /\ MainTest[13] = Expect("matches", 1)
<1>1. Script = MainTest BY DEF Running, Script, Suites
<1>2. QED BY <1>1 DEF MainTest

LEMMA MainTestActs ==
  ASSUME UtTypeOK, Running("blinker_app", 1), MainInv, TestActs
  PROVE  UtTypeOK' /\ Running("blinker_app", 1)' /\ MainInv'
<1>1. /\ Returned /\ at <= 13 /\ at' = at + 1 /\ Step = MainTest[at]
      /\ UNCHANGED <<suite, nth, calls>>
  BY StepActs, MainScript DEF Step
<1>2. Running("blinker_app", 1)' BY <1>1 DEF Running
<1> USE DEF MainInv, Left, Calls
<1>3. CASE at \in {1, 4, 7, 12}
  <2>1. Step.do = "call" /\ Step.unit = "Main" /\ StepOK(Step)
    BY <1>1, <1>3, MainScript DEF Call, StepOK
  <2>2. unit' = "Main" /\ pc' = "Init" /\ UNCHANGED <<due, broken, hook>>
    BY <2>1, StepActs DEF Entry
  <2>3. UtTypeOK' BY <2>1, StepTyped
  <2>4. QED
    BY <1>1, <1>2, <1>3, <2>2, <2>3
    DEF Entering, InitUnderWay, DueFor, Waits, LoopDue, InitSteps, Seen, NoneDue, OnlyDue
<1>4. CASE at \in {2, 5, 8, 13}
  <2>1. Step.do = "expect" /\ StepOK(Step)
    BY <1>1, <1>4, MainScript DEF Expect, StepOK
  <2>2. UNCHANGED <<unit, pc, RunStatus, due, broken, hook>>
    BY <2>1, StepActs
  <2>3. UtTypeOK' BY <2>1, StepTyped
  <2>4. QED
    BY <1>1, <1>2, <1>4, <2>2, <2>3
    DEF Returned, Waits, LoopDue, NoneDue, InitOver, Entering, Leaving, InitUnderWay, InitSteps
<1>5. CASE at \in {3, 6, 9, 10}
  <2>1. /\ Step.do = "deferred" /\ Step.n = 1 /\ StepOK(Step)
        /\ Step.stub = IF at = 3 THEN "EvsRegister" ELSE IF at = 10 THEN "ReceiveBuffer" ELSE "RunLoop"
    BY <1>1, <1>5, MainScript DEF Deferred, StepOK, Stubs
  <2>2. UNCHANGED <<unit, pc, RunStatus, broken, hook>> /\ due' = [due EXCEPT ![Step.stub] = 1]
    BY <2>1, StepActs
  <2>3. UtTypeOK' BY <2>1, StepTyped
  <2>4. QED
    BY <1>1, <1>2, <1>5, <2>1, <2>2, <2>3
    DEF Returned, Waits, LoopDue, NoneDue, InitOver, InitStubs, Stubs, OnlyDue, DueFor, UtTypeOK
<1>6. CASE at = 11
  <2>1. /\ Step.do = "hook" /\ StepOK(Step)
        /\ Step.id = "PIPE_ERR" /\ Step.text = "PipeReadError"
    BY <1>1, <1>6, MainScript DEF CheckEvent, StepOK, HookIds, HookTexts, EventIds, Texts
  <2>2. /\ UNCHANGED <<unit, pc, RunStatus, broken, due>>
        /\ hook' = [id |-> "PIPE_ERR", text |-> "PipeReadError", matches |-> 0]
    BY <2>1, StepActs
  <2>3. UtTypeOK' BY <2>1, StepTyped
  <2>4. QED
    BY <1>1, <1>2, <1>6, <2>2, <2>3 DEF Waits, LoopDue, NoneDue, Seen
<1>7. QED BY <1>1, <1>3, <1>4, <1>5, <1>6

(***************************************************************************)
(* Init among its stubs.                                                   *)
(***************************************************************************)
Following == [Init |-> "CreatePipe", CreatePipe |-> "SubscribeHk", SubscribeHk |-> "SubscribeCmd",
              SubscribeCmd |-> "SubscribeBlink", SubscribeBlink |-> "TblRegister",
              TblRegister |-> "TblLoad", TblLoad |-> "RunLoop"]

InitIds == {"CR_PIPE_ERR", "SUB_HK_ERR", "SUB_CMD_ERR", "TABLE_REG_ERR", "INIT_INF"}

\* What Init reports when a call succeeds, and when it fails.
OneEvent == \E eid \in InitIds, text \in Texts : out' = <<Event(eid, text, <<>>)>>
TwoEvents ==
  \E d, e \in InitIds, t, u \in Texts : out' = <<Event(d, t, <<>>), Event(e, u, <<>>)>>

Succeeds ==
  /\ pc' = Following[pc] /\ RunStatus' = "APP_RUN"
  /\ IF pc = "TblLoad" THEN OneEvent ELSE out' = <<>>

Fails ==
  /\ pc' = "RunLoop" /\ RunStatus' = "APP_ERROR"
  /\ CASE pc = "Init" -> out' = <<SysLog("EvsRegisterFailed", <<>>)>>
       [] pc = "TblRegister" -> TwoEvents
       [] OTHER -> OneEvent

LEMMA InitOutcome ==
  ASSUME InitCalls, pc # "Init" => RunStatus = "APP_RUN"
  PROVE  /\ pc \in InitSteps
         /\ Configured(CalledBy[pc]) => Fails
         /\ ~ Configured(CalledBy[pc]) => Succeeds
<1> USE DEF GiveUp, Silent, Emit
<1>1. RunStatus' = "APP_ERROR" <=> Configured(CalledBy[pc])
  BY DEF InitCalls
<1>2. {"CreatePipeFailed", "SubscribeFailed", "RegisterFailed", "Initialized"} \subseteq Texts
  BY DEF Texts
<1>3. CASE EvsRegister
  BY <1>1, <1>3 DEF EvsRegister, Fails, Succeeds, Following, InitSteps
<1>4. CASE CreatePipe
  BY <1>1, <1>2, <1>4
  DEF CreatePipe, Fails, Succeeds, Following, InitSteps, OneEvent, InitIds
<1>5. CASE SubscribeAll
  BY <1>1, <1>2, <1>5
  DEF SubscribeAll, SubscribeTo, Fails, Succeeds, Following, InitSteps, OneEvent, InitIds
<1>6. CASE RegisterTable
  BY <1>1, <1>2, <1>6
  DEF RegisterTable, Fails, Succeeds, Following, InitSteps, TwoEvents, InitIds, InitInf
<1>7. CASE LoadTable
  BY <1>1, <1>2, <1>7
  DEF LoadTable, Fails, Succeeds, Following, InitSteps, OneEvent, InitIds, InitInf
<1>8. QED BY <1>3, <1>4, <1>5, <1>6, <1>7 DEF InitCalls, AppInit

\* What one call of Init adds: e events, l entries of the system log, and no
\* call of a stub that Init has nothing to do with.
Adds(e, l) ==
  /\ calls'["SendEvent"] = UpTo(calls["SendEvent"] + e)
  /\ calls'["WriteToSysLog"] = UpTo(calls["WriteToSysLog"] + l)
  /\ calls'["ExitApp"] = UpTo(calls["ExitApp"])
  /\ calls'["ReceiveBuffer"] = UpTo(calls["ReceiveBuffer"])
  /\ hook.id \notin InitIds => Matched(0)

Watched == {"SendEvent", "WriteToSysLog", "ExitApp", "ReceiveBuffer"}

LEMMA AddsWatched ==
  ASSUME UtTypeOK, NEW t \in InitStubs, NEW e \in Nat, NEW l \in Nat, NEW h \in Nat,
         \A s \in Watched : calls'[s] =
           UpTo(calls[s] + In(s, {t})
                  + (IF s = "SendEvent" THEN e ELSE IF s = "WriteToSysLog" THEN l ELSE 0)),
         Matched(h), hook.id \notin InitIds => h = 0
  PROVE  Adds(e, l)
<1>1. \A s \in Watched : calls[s] \in Nat /\ In(s, {t}) = 0
  BY MaxCallsAssumption DEF Watched, Stubs, InitStubs, In, UtTypeOK
<1>2. "SendEvent" \in Watched /\ "WriteToSysLog" \in Watched /\ "ExitApp" \in Watched
      /\ "ReceiveBuffer" \in Watched
  BY DEF Watched
<1>3. calls'["SendEvent"] = UpTo(calls["SendEvent"] + e)
  BY <1>1, <1>2
<1>4. calls'["WriteToSysLog"] = UpTo(calls["WriteToSysLog"] + l)
  BY <1>1, <1>2
<1>5. calls'["ExitApp"] = UpTo(calls["ExitApp"]) /\ calls'["ReceiveBuffer"] = UpTo(calls["ReceiveBuffer"])
  BY <1>1, <1>2
<1>6. QED BY <1>3, <1>4, <1>5 DEF Adds

LEMMA WatchedStubs == Watched \subseteq Stubs /\ InitIds \subseteq EventIds
  BY DEF Watched, Stubs, InitIds, EventIds

LEMMA InitAddsNone ==
  ASSUME UtTypeOK, NEW t \in InitStubs, CallStubs({t}), out' = <<>>
  PROVE  Stubbed({t}) /\ Adds(0, 0)
<1>1. Stubbed({t}) /\ Matched(0) /\ \A s \in Stubs : calls'[s] = UpTo(calls[s] + In(s, {t}))
  BY CallsWithNone
<1>2. \A s \in Stubs : calls[s] + In(s, {t}) = calls[s] + In(s, {t}) + 0
  BY MaxCallsAssumption DEF In, UtTypeOK
<1>3. \A s \in Watched : calls'[s] =
        UpTo(calls[s] + In(s, {t})
               + (IF s = "SendEvent" THEN 0 ELSE IF s = "WriteToSysLog" THEN 0 ELSE 0))
  BY <1>1, <1>2, WatchedStubs
<1>4. QED BY <1>1, <1>3, AddsWatched

LEMMA InitAddsOne ==
  ASSUME UtTypeOK, NEW t \in InitStubs, CallStubs({t}), OneEvent
  PROVE  Stubbed({t}) /\ Adds(1, 0)
<1>1. PICK eid \in InitIds, text \in Texts : out' = <<Event(eid, text, <<>>)>>
  BY DEF OneEvent
<1> DEFINE p == Event(eid, text, <<>>)
<1>2. /\ Hit(p) = IF eid = hook.id /\ hook.text \in {"any", text} THEN 1 ELSE 0
      /\ \A s \in Stubs : By(s, p) = IF s = "SendEvent" THEN 1 ELSE 0
  BY WatchedStubs, CountOfEvent
<1>3. out' = <<p>> BY <1>1
<1> HIDE DEF p
<1>4. /\ Stubbed({t}) /\ Matched(Hit(p))
      /\ \A s \in Stubs : calls'[s] = UpTo(calls[s] + In(s, {t}) + By(s, p))
  BY <1>3, CallsWithOne
<1>5. \A s \in Watched : calls'[s] =
        UpTo(calls[s] + In(s, {t})
               + (IF s = "SendEvent" THEN 1 ELSE IF s = "WriteToSysLog" THEN 0 ELSE 0))
  BY <1>2, <1>4, WatchedStubs
<1>6. Hit(p) \in Nat /\ (hook.id \notin InitIds => Hit(p) = 0)
  BY <1>2
<1>7. QED BY <1>4, <1>5, <1>6, AddsWatched

LEMMA InitAddsTwo ==
  ASSUME UtTypeOK, NEW t \in InitStubs, CallStubs({t}), TwoEvents
  PROVE  Stubbed({t}) /\ Adds(2, 0)
<1>1. PICK d \in InitIds, e \in InitIds, x \in Texts, y \in Texts :
             out' = <<Event(d, x, <<>>), Event(e, y, <<>>)>>
  BY DEF TwoEvents
<1> DEFINE p == Event(d, x, <<>>)
           q == Event(e, y, <<>>)
<1>2. /\ Hit(p) = IF d = hook.id /\ hook.text \in {"any", x} THEN 1 ELSE 0
      /\ Hit(q) = IF e = hook.id /\ hook.text \in {"any", y} THEN 1 ELSE 0
      /\ \A s \in Stubs : /\ By(s, p) = IF s = "SendEvent" THEN 1 ELSE 0
                          /\ By(s, q) = IF s = "SendEvent" THEN 1 ELSE 0
  BY WatchedStubs, CountOfEvent
<1>3. out' = <<p, q>> BY <1>1
<1> HIDE DEF p, q
<1>4. /\ Stubbed({t}) /\ Matched(Hit(p) + Hit(q))
      /\ \A s \in Stubs : calls'[s] = UpTo(calls[s] + In(s, {t}) + (By(s, p) + By(s, q)))
  BY <1>3, CallsWithTwo
<1>5. \A s \in Stubs : By(s, p) + By(s, q) = IF s = "SendEvent" THEN 2 ELSE 0
  BY <1>2
<1>6. \A s \in Watched : calls'[s] =
        UpTo(calls[s] + In(s, {t})
               + (IF s = "SendEvent" THEN 2 ELSE IF s = "WriteToSysLog" THEN 0 ELSE 0))
  BY <1>4, <1>5, WatchedStubs
<1>7. Hit(p) + Hit(q) \in Nat /\ (hook.id \notin InitIds => Hit(p) + Hit(q) = 0)
  BY <1>2
<1>8. QED BY <1>4, <1>6, <1>7, AddsWatched

LEMMA InitAddsLog ==
  ASSUME UtTypeOK, NEW t \in InitStubs, CallStubs({t}),
         out' = <<SysLog("EvsRegisterFailed", <<>>)>>
  PROVE  Stubbed({t}) /\ Adds(0, 1)
<1> DEFINE p == SysLog("EvsRegisterFailed", <<>>)
<1>1. \A s \in Stubs : By(s, p) = IF s = "WriteToSysLog" THEN 1 ELSE 0
  BY CountOfSysLog
<1>2. Hit(p) = 0
  BY CountOfSysLog
<1>3. out' = <<p>> OBVIOUS
<1> HIDE DEF p
<1>4. /\ Stubbed({t}) /\ Matched(Hit(p))
      /\ \A s \in Stubs : calls'[s] = UpTo(calls[s] + In(s, {t}) + By(s, p))
  BY <1>3, CallsWithOne
<1>5. \A s \in Watched : calls'[s] =
        UpTo(calls[s] + In(s, {t})
               + (IF s = "SendEvent" THEN 0 ELSE IF s = "WriteToSysLog" THEN 1 ELSE 0))
  BY <1>1, <1>4, WatchedStubs
<1>6. QED BY <1>2, <1>4, <1>5, AddsWatched

Failing == {"none", "Init", "CreatePipe", "SubscribeHk", "SubscribeCmd", "TblRegister"}

LEMMA InitDue ==
  ASSUME UtTypeOK, NEW f \in Failing, InitUnderWay(f), broken = {}, Stubbed({CalledBy[pc]}),
         NEW p, p = Following[pc]
  PROVE  /\ Configured(CalledBy[pc]) <=> pc = f
         /\ pc = f => NoneDue(InitStubs)'
         /\ pc # f /\ pc # "TblLoad" => DueFor(f, p)'
         /\ pc = "TblLoad" => f = "none" /\ NoneDue(InitStubs)'
<1> DEFINE t == CalledBy[pc]
<1>1. \A s \in InitStubs : /\ due[s] \in Nat
                           /\ due'[s] = IF s = t /\ due[s] > 0 THEN due[s] - 1 ELSE due[s]
  BY DEF Stubbed, InitStubs, Stubs, UtTypeOK
<1>2. Configured(t) <=> due[t] = 1
  BY DEF Configured
<1>3. DueFor(f, pc) /\ pc \in InitSteps /\ t \in InitStubs
  BY DEF InitUnderWay, InitSteps, CalledBy, InitStubs
<1>4. CASE f = "none"
  BY <1>1, <1>2, <1>3, <1>4 DEF DueFor, NoneDue, InitSteps
<1>5. CASE f \in {"Init", "CreatePipe"}
  BY <1>1, <1>2, <1>3, <1>5
  DEF DueFor, NoneDue, OnlyDue, InitSteps, InitStubs, CalledBy, Following
<1>6. CASE f \in {"SubscribeHk", "SubscribeCmd"}
  BY <1>1, <1>2, <1>3, <1>6
  DEF DueFor, NoneDue, OnlyDue, InitSteps, InitStubs, CalledBy, Following
<1>7. CASE f = "TblRegister"
  BY <1>1, <1>2, <1>3, <1>7
  DEF DueFor, NoneDue, OnlyDue, InitSteps, InitStubs, CalledBy, Following
<1>8. QED BY <1>4, <1>5, <1>6, <1>7 DEF Failing

LEMMA InitRuns ==
  ASSUME UtTypeOK, NEW f \in Failing, InitUnderWay(f), broken = {}, InitCalls
  PROVE  /\ Stubbed({CalledBy[pc]})
         /\ \/ InitUnderWay(f)' /\ Adds(0, 0)
            \/ pc' = "RunLoop" /\ InitOver(f)' /\ Adds(InitEvents(f), InitLogs(f))
<1> DEFINE t == CalledBy[pc]
<1>1. /\ pc \in InitSteps /\ t \in InitStubs /\ CallStubs({t})
      /\ Configured(t) => Fails
      /\ ~ Configured(t) => Succeeds
  BY InitOutcome DEF InitUnderWay, InitSteps, CalledBy, InitStubs, InitCalls
<1>2. CASE Configured(t)
  <2>1. Stubbed({t})
    BY <1>1, <1>2, InitAddsOne, InitAddsTwo, InitAddsLog DEF Fails
  <2>2. pc = f /\ NoneDue(InitStubs)'
    BY <1>2, <2>1, InitDue
  <2>3. Adds(InitEvents(f), InitLogs(f))
    BY <1>1, <1>2, <2>2, InitAddsOne, InitAddsTwo, InitAddsLog DEF Fails, InitEvents, InitLogs
  <2>4. InitOver(f)'
    BY <1>1, <1>2, <2>2 DEF InitOver, Fails, InitSteps
  <2>5. QED BY <1>1, <1>2, <2>1, <2>3, <2>4 DEF Fails
<1>3. CASE ~ Configured(t) /\ pc # "TblLoad"
  <2>1. Stubbed({t}) /\ Adds(0, 0)
    BY <1>1, <1>3, InitAddsNone DEF Succeeds
  <2>2. PICK p : p = Following[pc]
    OBVIOUS
  <2>3. DueFor(f, p)'
    BY <1>3, <2>1, <2>2, InitDue
  <2>4. pc' = p /\ p \in InitSteps \ {"Init"} /\ RunStatus' = "APP_RUN"
    BY <1>1, <1>3, <2>2 DEF Succeeds, InitSteps, Following
  <2>5. DueFor(f, pc)'
    BY <2>3, <2>4 DEF DueFor, OnlyDue, NoneDue
  <2>6. QED BY <2>1, <2>4, <2>5 DEF InitUnderWay
<1>4. CASE ~ Configured(t) /\ pc = "TblLoad"
  <2>1. Stubbed({t}) /\ Adds(1, 0)
    BY <1>1, <1>4, InitAddsOne DEF Succeeds
  <2>2. f = "none" /\ NoneDue(InitStubs)'
    BY <1>4, <2>1, InitDue
  <2>3. pc' = "RunLoop" /\ RunStatus' = "APP_RUN"
    BY <1>1, <1>4 DEF Succeeds, Following
  <2>4. QED BY <2>1, <2>2, <2>3 DEF InitOver, InitEvents, InitLogs
<1>5. QED BY <1>2, <1>3, <1>4

(***************************************************************************)
(* Main among its stubs.                                                   *)
(***************************************************************************)
\* The stubs S were called once each, as far as the test of Main looks.
MainCalls(S) ==
  \A s \in {"ExitApp", "ReceiveBuffer"} : calls'[s] = UpTo(calls[s] + In(s, S))

LEMMA LoopStep ==
  ASSUME UtTypeOK, broken = {}, RunLoopStub
  PROVE  /\ pc = "RunLoop" /\ pc' = (IF due["RunLoop"] = 1 THEN "Receive" ELSE "ExitApp")
         /\ Stubbed({"RunLoop"}) /\ MainCalls({"RunLoop"}) /\ Matched(0)
         /\ UNCHANGED RunStatus
  BY CallsWithNone DEF RunLoopStub, Configured, Silent, MainCalls, Stubs

LEMMA ReceiveStep ==
  ASSUME UtTypeOK, broken = {}, MainReceives
  PROVE  /\ pc = "Receive" /\ pc' = "RunLoop" /\ MainCalls({"ReceiveBuffer"})
         /\ Stubbed({"ReceiveBuffer"}) \/ Stubbed({"ReceiveBuffer", "TaskPipe"})
         /\ due["ReceiveBuffer"] = 1 => Matched(Hit(Event("PIPE_ERR", "PipeReadError", <<>>)))
<1> DEFINE p == Event("PIPE_ERR", "PipeReadError", <<>>)
<1>1. pc = "Receive" /\ pc' = "RunLoop"
  BY DEF MainReceives, ReceiveFails, GiveUp
<1>2. CASE Configured("ReceiveBuffer")
  <2>1. out' = <<p>> /\ CallStubs({"ReceiveBuffer"})
    BY <1>2 DEF MainReceives, ReceiveFails, GiveUp
  <2>2. \A s \in Stubs : By(s, p) = IF s = "SendEvent" THEN 1 ELSE 0
    BY CountOfEvent DEF EventIds
  <2> HIDE DEF p
  <2>3. /\ Stubbed({"ReceiveBuffer"}) /\ Matched(Hit(p))
        /\ \A s \in Stubs : calls'[s] = UpTo(calls[s] + In(s, {"ReceiveBuffer"}) + By(s, p))
    BY <2>1, CallsWithOne
  <2>4. MainCalls({"ReceiveBuffer"})
    BY <2>2, <2>3, MaxCallsAssumption DEF MainCalls, Stubs, UtTypeOK, In
  <2>5. QED BY <1>1, <2>3, <2>4 DEF p
<1>3. CASE ~ Configured("ReceiveBuffer")
  <2>1. out' = <<>> /\ CallStubs({"ReceiveBuffer", "TaskPipe"}) /\ due["ReceiveBuffer"] # 1
    BY <1>3 DEF MainReceives, Silent, Configured
  <2>2. /\ Stubbed({"ReceiveBuffer", "TaskPipe"})
        /\ \A s \in Stubs : calls'[s] = UpTo(calls[s] + In(s, {"ReceiveBuffer", "TaskPipe"}))
    BY <2>1, CallsWithNone
  <2>3. MainCalls({"ReceiveBuffer"})
    BY <2>2 DEF MainCalls, Stubs, In
  <2>4. QED BY <1>1, <2>1, <2>2, <2>3
<1>4. QED BY <1>2, <1>3

LEMMA ExitStep ==
  ASSUME UtTypeOK, MainExits
  PROVE  /\ pc = "ExitApp" /\ pc' = "Exited" /\ UNCHANGED RunStatus
         /\ Stubbed({"ExitApp"}) /\ MainCalls({"ExitApp"}) /\ Matched(0)
  BY CallsWithNone DEF MainExits, ExitApp, Silent, MainCalls, Stubs

LEMMA MainTestRuns ==
  ASSUME UtTypeOK, Running("blinker_app", 1), MainInv, UnitRuns
  PROVE  UtTypeOK' /\ Running("blinker_app", 1)' /\ MainInv'
<1>1. at > 1 /\ unit = "Main" /\ broken = {} /\ ~ Left
  BY UnitIsRunning DEF MainInv, Left, Returned
<1>2. InitCalls \/ RunLoopStub \/ MainReceives \/ MainExits
  BY <1>1
  DEF UnitRuns, LogsValues, LogsCrc, Dispatches, VerifiesLength, Handles
<1> USE DEF MainInv, Left, Calls
<1>3. CASE InitCalls
  <2>1. pc \in InitSteps
    BY <1>3 DEF InitCalls, AppInit, EvsRegister, CreatePipe, SubscribeAll, SubscribeTo,
                RegisterTable, LoadTable, InitSteps
  <2>2. PICK f \in {"none", "Init"} :
          /\ InitUnderWay(f)
          /\ IF f = "Init" THEN at = 5 /\ LoopDue(0, 0) /\ Calls("ReceiveBuffer", 0)
             ELSE \/ at = 2 /\ LoopDue(0, 0) /\ Calls("ExitApp", 0) /\ Calls("ReceiveBuffer", 0)
                  \/ at = 8 /\ LoopDue(1, 0) /\ Calls("ReceiveBuffer", 0)
                  \/ at = 13 /\ LoopDue(1, 1) /\ Seen("PIPE_ERR", "PipeReadError", 0)
    BY <1>1, <2>1 DEF Entering, Leaving, Waits, InitSteps
  <2>3. /\ Stubbed({CalledBy[pc]})
        /\ \/ InitUnderWay(f)' /\ Adds(0, 0)
           \/ pc' = "RunLoop" /\ InitOver(f)' /\ Adds(InitEvents(f), InitLogs(f))
    BY <1>1, <1>3, <2>2, InitRuns DEF Failing
  <2>4. /\ UNCHANGED <<suite, nth, at, unit, broken>> /\ UtTypeOK'
        /\ \A s \in {"RunLoop", "ReceiveBuffer"} : due'[s] = due[s]
    BY <2>1, <2>3 DEF Stubbed, Stubs, CalledBy, InitSteps
  <2>5. /\ Calls("ExitApp", 0) => Calls("ExitApp", 0)'
        /\ Calls("ReceiveBuffer", 0) => Calls("ReceiveBuffer", 0)'
    BY <2>3, UpToExact DEF Adds
  <2>6. Seen("PIPE_ERR", "PipeReadError", 0) => Seen("PIPE_ERR", "PipeReadError", 0)'
    BY <2>3, UpToExact DEF Adds, Seen, Matched, InitIds
  <2>7. InitUnderWay(f)' \/ (pc' = "RunLoop" /\ InitOver(f)')
    BY <2>3
  <2>8. LoopDue(0, 0)' = LoopDue(0, 0) /\ LoopDue(1, 0)' = LoopDue(1, 0)
        /\ LoopDue(1, 1)' = LoopDue(1, 1)
    BY <2>4 DEF LoopDue
  <2>9. MainInv'
    BY <1>1, <2>2, <2>4, <2>5, <2>6, <2>7, <2>8 DEF Waits, InitOver, Entering, Leaving, DueFor, InitUnderWay
  <2>10. QED BY <2>4, <2>9 DEF Running
<1>4. CASE RunLoopStub
  <2>1. /\ pc = "RunLoop" /\ pc' = (IF due["RunLoop"] = 1 THEN "Receive" ELSE "ExitApp")
        /\ Stubbed({"RunLoop"}) /\ MainCalls({"RunLoop"}) /\ Matched(0) /\ UNCHANGED RunStatus
    BY <1>1, <1>4, LoopStep
  <2>2. /\ Calls("ExitApp", 0) => Calls("ExitApp", 0)'
        /\ \A n \in 0 .. 1 : Calls("ReceiveBuffer", n) => Calls("ReceiveBuffer", n)'
    BY <2>1, UpToExact DEF MainCalls, In
  <2>3. \A n \in 0 .. 1 :
          Seen("PIPE_ERR", "PipeReadError", n) => Seen("PIPE_ERR", "PipeReadError", n)'
    BY <2>1, UpToExact DEF Seen, Matched
  <2>4. /\ UNCHANGED <<suite, nth, at, unit, broken>> /\ UtTypeOK'
        /\ \A s \in InitStubs \cup {"ReceiveBuffer"} : due'[s] = due[s]
        /\ due'["RunLoop"] = IF due["RunLoop"] > 0 THEN due["RunLoop"] - 1 ELSE due["RunLoop"]
    BY <2>1 DEF Stubbed, Stubs, InitStubs
  <2>5. MainInv'
    BY <1>1, <2>1, <2>2, <2>3, <2>4
    DEF Waits, LoopDue, NoneDue, InitOver, Entering, Leaving, InitUnderWay, InitSteps
  <2>6. QED BY <2>4, <2>5 DEF Running
<1>5. CASE MainReceives
  <2>1. /\ pc = "Receive" /\ pc' = "RunLoop" /\ MainCalls({"ReceiveBuffer"})
        /\ Stubbed({"ReceiveBuffer"}) \/ Stubbed({"ReceiveBuffer", "TaskPipe"})
        /\ due["ReceiveBuffer"] = 1 => Matched(Hit(Event("PIPE_ERR", "PipeReadError", <<>>)))
    BY <1>1, <1>5, ReceiveStep
  <2>2. Calls("ReceiveBuffer", 0) => Calls("ReceiveBuffer", 1)'
    BY <2>1, UpToExact DEF MainCalls, In
  <2>3. due["ReceiveBuffer"] = 1 /\ Seen("PIPE_ERR", "PipeReadError", 0) =>
          Seen("PIPE_ERR", "PipeReadError", 1)'
    BY <2>1, UpToExact, CountOfEvent DEF Seen, Matched, EventIds
  <2>4. /\ UNCHANGED <<suite, nth, at, unit, broken>> /\ UtTypeOK'
        /\ \A s \in InitStubs \cup {"RunLoop"} : due'[s] = due[s]
        /\ due["ReceiveBuffer"] \in 0 .. 1 => due'["ReceiveBuffer"] = 0
    BY <2>1 DEF Stubbed, Stubs, InitStubs
  <2>5. MainInv'
    BY <1>1, <2>1, <2>2, <2>3, <2>4
    DEF Waits, LoopDue, NoneDue, InitOver, Entering, Leaving, InitUnderWay, InitSteps
  <2>6. QED BY <2>4, <2>5 DEF Running
<1>6. CASE MainExits
  <2>1. /\ pc = "ExitApp" /\ pc' = "Exited" /\ UNCHANGED RunStatus
        /\ Stubbed({"ExitApp"}) /\ MainCalls({"ExitApp"}) /\ Matched(0)
    BY <1>6, ExitStep
  <2>2. /\ Calls("ExitApp", 0) => Calls("ExitApp", 1)'
        /\ \A n \in 0 .. 1 : Calls("ReceiveBuffer", n) => Calls("ReceiveBuffer", n)'
    BY <2>1, UpToExact DEF MainCalls, In
  <2>3. Seen("PIPE_ERR", "PipeReadError", 1) => Seen("PIPE_ERR", "PipeReadError", 1)'
    BY <2>1, UpToExact DEF Seen, Matched
  <2>4. /\ UNCHANGED <<suite, nth, at, unit, broken>> /\ UtTypeOK'
        /\ \A s \in InitStubs \cup {"RunLoop", "ReceiveBuffer"} : due'[s] = due[s]
    BY <2>1 DEF Stubbed, Stubs, InitStubs
  <2>5. MainInv'
    BY <1>1, <2>1, <2>2, <2>3, <2>4
    DEF Waits, LoopDue, NoneDue, InitOver, Entering, Leaving, InitUnderWay, InitSteps
  <2>6. QED BY <2>4, <2>5 DEF Running
<1>7. QED BY <1>2, <1>3, <1>4, <1>5, <1>6

(***************************************************************************)
(* The test of Init.                                                       *)
(***************************************************************************)
LEMMA InitScript ==
  ASSUME Running("blinker_app", 2)
  PROVE  /\ Script = InitTest /\ Len(InitTest) = 22
         /\ \A k \in {1, 4, 8, 12, 16, 20} : InitTest[k] = Call("Init")
         /\ InitTest[2] = Expect("status", "success")
         /\ InitTest[3] = Deferred("EvsRegister", 1)
         /\ \A k \in {5, 9, 13, 17, 21} : InitTest[k] = Expect("status", "error")
         /\ InitTest[6] = Expect("WriteToSysLog", 1) /\ InitTest[7] = Deferred("CreatePipe", 1)
         /\ InitTest[10] = Expect("SendEvent", 2) /\ InitTest[11] = Deferred("Subscribe", 1)
         /\ InitTest[14] = Expect("SendEvent", 3) /\ InitTest[15] = Deferred("Subscribe", 2)
         /\ InitTest[18] = Expect("SendEvent", 4) /\ InitTest[19] = Deferred("TblRegister", 1)
         /\ InitTest[22] = Expect("SendEvent", 6)
<1>1. Script = InitTest BY DEF Running, Script, Suites
<1>2. QED BY <1>1 DEF InitTest

\* The stub that the next call of Init shall find failing.
LEMMA InitArmed ==
  ASSUME UtTypeOK, NoneDue(InitStubs), NEW t \in InitStubs, NEW n \in 1 .. 2,
         due' = [due EXCEPT ![t] = n]
  PROVE  OnlyDue(t, n)'
  BY DEF NoneDue, OnlyDue, InitStubs, Stubs, UtTypeOK

LEMMA InitTestActs ==
  ASSUME UtTypeOK, Running("blinker_app", 2), InitInv, TestActs
  PROVE  UtTypeOK' /\ Running("blinker_app", 2)' /\ InitInv'
<1>1. /\ Returned /\ at <= 22 /\ at' = at + 1 /\ Step = InitTest[at]
      /\ UNCHANGED <<suite, nth, calls>> /\ broken = {}
  BY StepActs, InitScript DEF Step, InitInv
<1>2. Running("blinker_app", 2)' BY <1>1 DEF Running
<1> USE DEF InitInv, InitRound
<1>3. CASE at \in {1, 4, 8, 12, 16, 20}
  <2>1. Step.do = "call" /\ Step.unit = "Init" /\ StepOK(Step)
    BY <1>1, <1>3, InitScript DEF Call, StepOK
  <2>2. unit' = "Init" /\ pc' = "Init" /\ UNCHANGED <<due, broken, hook>>
    BY <2>1, StepActs DEF Entry
  <2>3. UtTypeOK' BY <2>1, StepTyped
  <2>4. \A e, l \in 0 .. 6 : Reported(e, l)' = Reported(e, l)
    BY <1>1 DEF Reported, Calls
  <2>5. \A f \in Failing : DueFor(f, "Init") => InitUnderWay(f)'
    BY <2>2 DEF InitUnderWay, InitSteps, DueFor, OnlyDue, NoneDue
  <2>6. InitInv'
    BY <1>1, <1>3, <2>2, <2>4, <2>5 DEF Failing
  <2>7. QED BY <1>2, <2>3, <2>6
<1>4. CASE at \in {2, 5, 6, 9, 10, 13, 14, 17, 18, 21, 22}
  <2>1. Step.do = "expect" /\ StepOK(Step)
    BY <1>1, <1>4, InitScript DEF Expect, StepOK
  <2>2. UNCHANGED <<unit, pc, RunStatus, due, broken, hook>>
    BY <2>1, StepActs
  <2>3. UtTypeOK' BY <2>1, StepTyped
  <2>4. \A e, l \in 0 .. 6 : Reported(e, l)' = Reported(e, l)
    BY <1>1 DEF Reported, Calls
  <2>5. \A f \in Failing : InitOver(f)' = InitOver(f)
    BY <2>2 DEF InitOver, NoneDue
  <2>6. /\ unit = "Init" /\ pc = "RunLoop"
        /\ \/ at = 2 /\ InitOver("none") /\ Reported(1, 0)
           \/ at \in 5 .. 6 /\ InitOver("Init") /\ Reported(1, 1)
           \/ at \in 9 .. 10 /\ InitOver("CreatePipe") /\ Reported(2, 1)
           \/ at \in 13 .. 14 /\ InitOver("SubscribeHk") /\ Reported(3, 1)
           \/ at \in 17 .. 18 /\ InitOver("SubscribeCmd") /\ Reported(4, 1)
           \/ at \in 21 .. 22 /\ InitOver("TblRegister") /\ Reported(6, 1)
    BY <1>1, <1>4 DEF InitEvents, InitLogs, Returned, InitUnderWay, InitSteps
  <2>7. InitInv'
    BY <1>1, <2>2, <2>4, <2>5, <2>6 DEF Failing, InitEvents, InitLogs
  <2>8. QED BY <1>2, <2>3, <2>7
<1>5. CASE at \in {3, 7, 11, 15, 19}
  <2>1. /\ Step.do = "deferred" /\ StepOK(Step)
        /\ Step.n = IF at = 15 THEN 2 ELSE 1
        /\ Step.stub = CASE at = 3 -> "EvsRegister" [] at = 7 -> "CreatePipe"
                         [] at = 19 -> "TblRegister" [] OTHER -> "Subscribe"
    BY <1>1, <1>5, InitScript DEF Deferred, StepOK, Stubs
  <2>2. UNCHANGED <<unit, pc, RunStatus, broken, hook>> /\ due' = [due EXCEPT ![Step.stub] = Step.n]
    BY <2>1, StepActs
  <2>3. UtTypeOK' BY <2>1, StepTyped
  <2>4. \A e, l \in 0 .. 6 : Reported(e, l)' = Reported(e, l)
    BY <1>1 DEF Reported, Calls
  <2>5. unit = "Init" /\ pc = "RunLoop" /\ NoneDue(InitStubs)
    BY <1>1, <1>5 DEF Returned, InitUnderWay, InitSteps, InitOver
  <2>6. \E t \in InitStubs, n \in 1 .. 2 : t = Step.stub /\ n = Step.n /\ OnlyDue(t, n)'
    <3>1. PICK t \in InitStubs, n \in 1 .. 2 : t = Step.stub /\ n = Step.n
      BY <1>5, <2>1 DEF InitStubs
    <3>2. OnlyDue(t, n)'
      BY <2>2, <2>5, <3>1, InitArmed
    <3>3. QED BY <3>1, <3>2
  <2>7. \/ at = 3 /\ Reported(1, 0)
        \/ at = 7 /\ Reported(1, 1)
        \/ at = 11 /\ Reported(2, 1)
        \/ at = 15 /\ Reported(3, 1)
        \/ at = 19 /\ Reported(4, 1)
    BY <1>1, <1>5, <2>5 DEF InitEvents, InitLogs, InitUnderWay, InitSteps
  <2>8. /\ UNCHANGED <<unit, pc, broken>>
        /\ CASE at = 3 -> DueFor("Init", "Init")' [] at = 7 -> DueFor("CreatePipe", "Init")'
             [] at = 11 -> DueFor("SubscribeHk", "Init")'
             [] at = 15 -> DueFor("SubscribeCmd", "Init")'
             [] OTHER -> DueFor("TblRegister", "Init")'
    BY <1>5, <2>1, <2>2, <2>6 DEF DueFor, InitSteps
  <2>9. InitInv'
    BY <1>1, <2>4, <2>5, <2>7, <2>8 DEF Returned
  <2>10. QED BY <1>2, <2>3, <2>9
<1>6. QED BY <1>1, <1>3, <1>4, <1>5

LEMMA InitTestRuns ==
  ASSUME UtTypeOK, Running("blinker_app", 2), InitInv, UnitRuns
  PROVE  UtTypeOK' /\ Running("blinker_app", 2)' /\ InitInv'
<1>1. ~ Returned BY UnitIsRunning
<1>2. PICK k \in {1, 4, 8, 12, 16, 20}, f \in Failing, e \in 0 .. 4, l \in 0 .. 1 :
        /\ at = k + 1 /\ unit = "Init" /\ broken = {} /\ InitUnderWay(f) /\ Reported(e, l)
        /\ <<k, f, e, l>> \in {<<1, "none", 0, 0>>, <<4, "Init", 1, 0>>, <<8, "CreatePipe", 1, 1>>,
             <<12, "SubscribeHk", 2, 1>>, <<16, "SubscribeCmd", 3, 1>>,
             <<20, "TblRegister", 4, 1>>}
  BY <1>1 DEF InitInv, InitRound, Returned, Failing
<1>3. InitCalls
  BY <1>2
  DEF UnitRuns, RunLoopStub, MainReceives, MainExits, LogsValues, LogsCrc, Dispatches,
      VerifiesLength, Handles
<1>4. /\ Stubbed({CalledBy[pc]})
      /\ \/ InitUnderWay(f)' /\ Adds(0, 0)
         \/ pc' = "RunLoop" /\ InitOver(f)' /\ Adds(InitEvents(f), InitLogs(f))
  BY <1>2, <1>3, InitRuns
<1>5. UtTypeOK' /\ UNCHANGED <<suite, nth, at, unit, broken>>
  BY <1>4 DEF Stubbed
<1>6. InitInv'
  <2>1. CASE InitUnderWay(f)' /\ Adds(0, 0)
    <3>1. Reported(e, l)'
      BY <1>2, <2>1, UpToExact DEF Adds, Reported, Calls
    <3>2. InitRound(k, f, e, l)'
      BY <1>2, <1>5, <2>1, <3>1 DEF InitRound
    <3>3. QED BY <1>2, <1>5, <3>2 DEF InitInv
  <2>2. CASE pc' = "RunLoop" /\ InitOver(f)' /\ Adds(InitEvents(f), InitLogs(f))
    <3>1. /\ e + InitEvents(f) \in 0 .. 6 /\ l + InitLogs(f) \in 0 .. 6
      BY <1>2 DEF InitEvents, InitLogs
    <3>2. Reported(e + InitEvents(f), l + InitLogs(f))'
      BY <1>2, <2>2, <3>1, UpToExact DEF Adds, Reported, Calls
    <3>3. InitRound(k, f, e, l)'
      BY <1>2, <1>5, <2>2, <3>2 DEF InitRound
    <3>4. QED BY <1>2, <1>5, <3>3 DEF InitInv
  <2>3. QED BY <1>4, <2>1, <2>2
<1>7. QED BY <1>5, <1>6 DEF Running

(***************************************************************************)
(* A function that takes its message in one step.                          *)
(***************************************************************************)
LEMMA CalledRuns ==
  ASSUME NEW u, NEW m, u # "Main", Called(u, m), UnitRuns
  PROVE  Dispatches(m) \/ VerifiesLength(m) \/ Handles(m)
<1>1. \E k \in DOMAIN pipe : Dispatches(pipe[k]) \/ VerifiesLength(pipe[k]) \/ Handles(pipe[k])
  <2>1. ~ InitCalls
    BY DEF Called, InitCalls, AppInit, EvsRegister, CreatePipe, SubscribeAll, SubscribeTo,
           RegisterTable, LoadTable
  <2>2. ~ RunLoopStub /\ ~ MainReceives /\ ~ MainExits /\ ~ LogsValues /\ ~ LogsCrc
    BY DEF Called, RunLoopStub, MainReceives, MainExits, LogsValues, LogsCrc, LogValues, LogCrc
  <2>3. QED BY <2>1, <2>2 DEF UnitRuns
<1>2. DOMAIN pipe = {1} /\ pipe[1] = m
  BY DEF Called
<1>3. QED BY <1>1, <1>2

\* The dispatcher calls the handler h once, and nothing is reported.
Passed(h) ==
  /\ Stubbed({h}) /\ Matched(0) /\ pc' = "RunLoop"
  /\ \A s \in Stubs : calls'[s] = UpTo(calls[s] + In(s, {h}))

\* The function under test reports one event, and calls no other stub.
Reports(eid, text) ==
  /\ Stubbed({}) /\ pc' = "RunLoop"
  /\ Matched(IF eid = hook.id /\ hook.text \in {"any", text} THEN 1 ELSE 0)
  /\ \A s \in Stubs \ {"SendEvent"} : calls'[s] = UpTo(calls[s])

LEMMA CallsOneEvent ==
  ASSUME UtTypeOK, NEW S \in SUBSET Stubs, CallStubs(S), NEW eid \in EventIds, NEW text, NEW args,
         out' = <<Event(eid, text, args)>>
  PROVE  /\ Stubbed(S)
         /\ Matched(IF eid = hook.id /\ hook.text \in {"any", text} THEN 1 ELSE 0)
         /\ \A s \in Stubs \ {"SendEvent"} : calls'[s] = UpTo(calls[s] + In(s, S))
<1> DEFINE p == Event(eid, text, args)
<1>1. /\ \A s \in Stubs : By(s, p) = IF s = "SendEvent" THEN 1 ELSE 0
      /\ Hit(p) = IF eid = hook.id /\ hook.text \in {"any", text} THEN 1 ELSE 0
  BY CountOfEvent
<1>2. out' = <<p>> OBVIOUS
<1> HIDE DEF p
<1>3. /\ Stubbed(S) /\ Matched(Hit(p))
      /\ \A s \in Stubs : calls'[s] = UpTo(calls[s] + In(s, S) + By(s, p))
  BY <1>2, CallsWithOne
<1>4. \A s \in Stubs : calls[s] + In(s, S) \in Nat
  BY MaxCallsAssumption DEF UtTypeOK, In
<1>5. \A s \in Stubs \ {"SendEvent"} : calls'[s] = UpTo(calls[s] + In(s, S))
  BY <1>1, <1>3, <1>4
<1>6. QED BY <1>1, <1>3, <1>5

LEMMA NothingTaken ==
  ASSUME UtTypeOK
  PROVE  \A s \in Stubs : calls[s] + In(s, {}) = calls[s]
  BY MaxCallsAssumption DEF UtTypeOK, In

LEMMA DispatchOutcome ==
  ASSUME UtTypeOK, NEW m, Dispatches(m)
  PROVE  \/ BadLength(m) /\ Reports("CMD_LEN_ERR", "BadLength")
         \/ ~ Dispatchable(m) /\ Reports(IF m.mid = "CMD" THEN "CC_ERR" ELSE "MID_ERR", "Invalid")
         \/ m.mid = "SEND_HK" /\ Passed("SendHkCmd")
         \/ Runs(m, m.cc) /\ m.cc \in DOMAIN Handlers /\ Passed(Handlers[m.cc])
<1>1. CASE BadLength(m) /\ CallStubs({})
  <2>1. out' = <<Event("CMD_LEN_ERR", "BadLength", <<>>)>> /\ pc' = "RunLoop"
    BY <1>1 DEF BadLength, Emit, Take
  <2>2. QED BY <1>1, <2>1, CallsOneEvent, NothingTaken DEF Reports, EventIds
<1>2. CASE RejectMessage(m) /\ CallStubs({})
  <2>1. /\ out' = <<Event(IF m.mid = "CMD" THEN "CC_ERR" ELSE "MID_ERR", "Invalid", <<>>)>>
        /\ pc' = "RunLoop" /\ ~ Dispatchable(m)
    BY <1>2 DEF RejectMessage, Emit, Take
  <2>2. QED BY <1>2, <2>1, CallsOneEvent, NothingTaken DEF Reports, EventIds
<1>3. ASSUME NEW h, Take(m, "RunLoop"), Silent, CallStubs({h})
      PROVE  Passed(h)
  BY <1>3, CallsWithNone DEF Passed, Silent, Take
<1>4. CASE /\ Take(m, "RunLoop") /\ Silent
           /\ \/ m.mid = "SEND_HK" /\ CallStubs({"SendHkCmd"})
              \/ /\ Runs(m, m.cc) /\ m.cc \in DOMAIN Handlers
                 /\ CallStubs({Handlers[m.cc]})
  BY <1>3, <1>4
<1>5. QED BY <1>1, <1>2, <1>4 DEF Dispatches

LEMMA CommandMade ==
  ASSUME NEW cc \in DOMAIN Handlers
  PROVE  /\ Cmd(cc).mid = "CMD" /\ Cmd(cc).cc = cc /\ Cmd(cc).size = CmdSize(cc)
         /\ Short(cc).mid = "CMD" /\ Short(cc).cc = cc /\ Short(cc).size # CmdSize(cc)
         /\ cc \in CommandCodes
  BY DEF Cmd, Short, CmdSize, Handlers, CommandCodes, NoArgCodes

LEMMA MessagesDispatched ==
  ASSUME UtTypeOK
  PROVE  /\ \A cc \in DOMAIN Handlers :
              /\ Dispatches(Cmd(cc)) => Passed(Handlers[cc])
              /\ Dispatches(Short(cc)) => Reports("CMD_LEN_ERR", "BadLength")
         /\ Dispatches(BadCode) => Reports("CC_ERR", "Invalid")
         /\ Dispatches(Tick("SEND_HK")) => Passed("SendHkCmd")
         /\ Dispatches(NoMessage) => Reports("MID_ERR", "Invalid")
<1>1. ASSUME NEW m, BadLength(m)
      PROVE  m.mid = "CMD" /\ m.cc \in CommandCodes /\ m.size # CmdSize(m.cc)
  BY <1>1 DEF BadLength, Selects
<1>2. ASSUME NEW m, NEW cc, Runs(m, cc)
      PROVE  m.mid = "CMD" /\ m.size = CmdSize(cc)
  BY <1>2 DEF Runs, Selects
<1>3. ASSUME NEW cc \in DOMAIN Handlers, Dispatches(Cmd(cc))
      PROVE  Passed(Handlers[cc])
  <2>1. /\ Cmd(cc).mid = "CMD" /\ Cmd(cc).cc = cc /\ Cmd(cc).size = CmdSize(cc)
        /\ cc \in CommandCodes
    BY CommandMade
  <2>2. Dispatchable(Cmd(cc))
    BY <2>1 DEF Dispatchable
  <2>3. QED BY <1>1, <1>3, <2>1, <2>2, DispatchOutcome
<1>4. ASSUME NEW cc \in DOMAIN Handlers, Dispatches(Short(cc))
      PROVE  Reports("CMD_LEN_ERR", "BadLength")
  <2>1. /\ Short(cc).mid = "CMD" /\ Short(cc).cc = cc /\ Short(cc).size # CmdSize(cc)
        /\ cc \in CommandCodes
    BY CommandMade
  <2>2. Dispatchable(Short(cc))
    BY <2>1 DEF Dispatchable
  <2>3. QED BY <1>2, <1>4, <2>1, <2>2, DispatchOutcome
<1>5. ASSUME Dispatches(BadCode)
      PROVE  Reports("CC_ERR", "Invalid")
  <2>1. BadCode.mid = "CMD" /\ BadCode.cc = "UNKNOWN"
    BY DEF BadCode, Cmd
  <2>2. "UNKNOWN" \notin CommandCodes /\ "UNKNOWN" \notin DOMAIN Handlers
    BY DEF CommandCodes, NoArgCodes, SpecCodes, Handlers
  <2>3. QED BY <1>1, <1>5, <2>1, <2>2, DispatchOutcome
<1>6. ASSUME Dispatches(Tick("SEND_HK"))
      PROVE  Passed("SendHkCmd")
  <2>1. Tick("SEND_HK").mid = "SEND_HK" /\ Dispatchable(Tick("SEND_HK"))
    BY DEF Tick, Dispatchable
  <2>2. QED BY <1>1, <1>2, <1>6, <2>1, DispatchOutcome
<1>7. ASSUME Dispatches(NoMessage)
      PROVE  Reports("MID_ERR", "Invalid")
  <2>1. NoMessage.mid = "STRAY"
    BY DEF NoMessage, Tick
  <2>2. QED BY <1>1, <1>2, <1>7, <2>1, DispatchOutcome
<1>8. QED BY <1>3, <1>4, <1>5, <1>6, <1>7

\* What the hook has seen after either.
LEMMA SeenAfter ==
  ASSUME NEW id, NEW text, NEW n \in 0 .. 5, Seen(id, text, n)
  PROVE  /\ Matched(0) => Seen(id, text, n)'
         /\ \A h : Passed(h) => Seen(id, text, n)'
         /\ Reports(id, text) => Seen(id, text, n + 1)'
  BY UpToExact DEF Passed, Reports, Seen, Matched

(***************************************************************************)
(* The test of TaskPipe.                                                   *)
(***************************************************************************)
LEMMA TaskPipeScript ==
  ASSUME Running("dispatch", 1)
  PROVE  /\ Script = TaskPipeTest /\ Len(TaskPipeTest) = 5
         /\ TaskPipeTest[1] = CheckEvent("MID_ERR", "Invalid")
         /\ TaskPipeTest[2] = CallWith("TaskPipe", Cmd("NOOP"))
         /\ TaskPipeTest[3] = CallWith("TaskPipe", Tick("SEND_HK"))
         /\ TaskPipeTest[4] = CallWith("TaskPipe", NoMessage)
         /\ TaskPipeTest[5] = Expect("matches", 1)
<1>1. Script = TaskPipeTest BY DEF Running, Script, Suites
<1>2. QED BY <1>1 DEF TaskPipeTest

LEMMA TaskPipeTestActs ==
  ASSUME UtTypeOK, Running("dispatch", 1), TaskPipeInv, TestActs
  PROVE  UtTypeOK' /\ Running("dispatch", 1)' /\ TaskPipeInv'
<1>1. /\ Returned /\ at <= 5 /\ at' = at + 1 /\ Step = TaskPipeTest[at]
      /\ UNCHANGED <<suite, nth>>
  BY StepActs, TaskPipeScript DEF Step
<1>2. Running("dispatch", 1)' BY <1>1 DEF Running
<1> USE DEF TaskPipeInv
<1>3. CASE at = 1
  <2>1. UtTypeOK' /\ Seen("MID_ERR", "Invalid", 0)' /\ Returned'
    BY <1>1, <1>3, TaskPipeScript, HookActs DEF EventIds, HookTexts, Texts
  <2>2. QED BY <1>1, <1>2, <1>3, <2>1
<1>4. CASE at \in 2 .. 4
  <2>1. PICK m : Step = CallWith("TaskPipe", m) /\ m = TaskPipeTest[at].msg
    BY <1>1, <1>4, TaskPipeScript DEF CallWith
  <2>2. UtTypeOK' /\ Called("TaskPipe", m)' /\ UNCHANGED hook
    BY <2>1, CallActs
  <2>3. Seen("MID_ERR", "Invalid", 0)'
    BY <1>1, <1>4, <2>2 DEF Called, Returned, Seen
  <2>4. TaskPipeTest[at' - 1].msg = m
    BY <1>1, <1>4, <2>1
  <2>5. Called("TaskPipe", TaskPipeTest[at - 1].msg)'
    BY <2>2, <2>4 DEF Called
  <2>6. QED BY <1>1, <1>2, <1>4, <2>2, <2>3, <2>5
<1>5. CASE at = 5
  <2>1. UtTypeOK' /\ Returned' /\ UNCHANGED hook
    BY <1>1, <1>5, TaskPipeScript, ExpectActs
  <2>2. Seen("MID_ERR", "Invalid", 1)'
    BY <1>1, <1>5, <2>1 DEF Called, Returned, Seen
  <2>3. QED BY <1>1, <1>2, <1>5, <2>1, <2>2
<1>6. QED BY <1>1, <1>3, <1>4, <1>5 DEF TaskPipeInv

LEMMA TaskPipeTestRuns ==
  ASSUME UtTypeOK, Running("dispatch", 1), TaskPipeInv, UnitRuns
  PROVE  UtTypeOK' /\ Running("dispatch", 1)' /\ TaskPipeInv'
<1>1. ~ Returned BY UnitIsRunning
<1>2. PICK m : /\ at \in 3 .. 5 /\ m = TaskPipeTest[at - 1].msg /\ Called("TaskPipe", m)
               /\ Seen("MID_ERR", "Invalid", 0)
  BY <1>1 DEF TaskPipeInv
<1>3. Dispatches(m)
  BY <1>2, CalledRuns DEF VerifiesLength, Handles, Called
<1>4. m = IF at = 3 THEN Cmd("NOOP") ELSE IF at = 4 THEN Tick("SEND_HK") ELSE NoMessage
  BY <1>2, TaskPipeScript DEF CallWith
<1>5. IF at = 5 THEN Reports("MID_ERR", "Invalid") ELSE \E h : Passed(h)
  BY <1>2, <1>3, <1>4, MessagesDispatched DEF Handlers
<1>6. /\ UNCHANGED <<suite, nth, at, unit>> /\ UtTypeOK' /\ pc' = "RunLoop"
  BY <1>5 DEF Reports, Passed, Stubbed
<1>7. Returned'
  BY <1>2, <1>6 DEF Called, Returned
<1>8. IF at = 5 THEN Seen("MID_ERR", "Invalid", 1)' ELSE Seen("MID_ERR", "Invalid", 0)'
  BY <1>2, <1>5, SeenAfter
<1>9. TaskPipeInv'
  BY <1>2, <1>6, <1>7, <1>8 DEF TaskPipeInv
<1>10. QED BY <1>6, <1>9 DEF Running

(***************************************************************************)
(* The test of VerifyCmdLength.                                            *)
(***************************************************************************)
LEMMA VerifyScript ==
  ASSUME Running("dispatch", 3)
  PROVE  /\ Script = VerifyCmdLengthTest /\ Len(VerifyCmdLengthTest) = 5
         /\ VerifyCmdLengthTest[1] = CheckEvent("CMD_LEN_ERR", "BadLength")
         /\ VerifyCmdLengthTest[2] = CallWith("VerifyCmdLength", Cmd("PROCESS"))
         /\ VerifyCmdLengthTest[3] = Expect("matches", 0)
         /\ VerifyCmdLengthTest[4] = CallWith("VerifyCmdLength", Short("PROCESS"))
         /\ VerifyCmdLengthTest[5] = Expect("matches", 1)
<1>1. Script = VerifyCmdLengthTest BY DEF Running, Script, Suites
<1>2. QED BY <1>1 DEF VerifyCmdLengthTest

LEMMA VerifyOutcome ==
  ASSUME UtTypeOK, NEW cc \in DOMAIN Handlers
  PROVE  /\ VerifiesLength(Cmd(cc)) => Stubbed({}) /\ pc' = "RunLoop" /\ Matched(0)
         /\ VerifiesLength(Short(cc)) => Reports("CMD_LEN_ERR", "BadLength")
<1>1. /\ Cmd(cc).cc = cc /\ Cmd(cc).size = CmdSize(cc)
      /\ Short(cc).cc = cc /\ Short(cc).size # CmdSize(cc)
  BY CommandMade
<1>2. ASSUME VerifiesLength(Cmd(cc))
      PROVE  Stubbed({}) /\ pc' = "RunLoop" /\ Matched(0)
  <2>1. ~ BadLength(Cmd(cc))
    BY <1>1 DEF BadLength, Selects
  <2>2. out' = <<>> /\ CallStubs({}) /\ pc' = "RunLoop"
    BY <1>2, <2>1 DEF VerifiesLength, Take, Silent
  <2>3. QED BY <2>2, CallsWithNone
<1>3. ASSUME VerifiesLength(Short(cc))
      PROVE  Reports("CMD_LEN_ERR", "BadLength")
  <2>1. BadLength(Short(cc)) /\ CallStubs({})
    BY <1>1, <1>3 DEF VerifiesLength, Runs
  <2>2. out' = <<Event("CMD_LEN_ERR", "BadLength", <<>>)>> /\ pc' = "RunLoop"
    BY <2>1 DEF BadLength, Emit, Take
  <2>3. QED BY <2>1, <2>2, CallsOneEvent, NothingTaken DEF Reports, EventIds
<1>4. QED BY <1>2, <1>3

LEMMA VerifyTestActs ==
  ASSUME UtTypeOK, Running("dispatch", 3), VerifyCmdLengthInv, TestActs
  PROVE  UtTypeOK' /\ Running("dispatch", 3)' /\ VerifyCmdLengthInv'
<1>1. /\ Returned /\ at <= 5 /\ at' = at + 1 /\ Step = VerifyCmdLengthTest[at]
      /\ UNCHANGED <<suite, nth>>
  BY StepActs, VerifyScript DEF Step
<1>2. Running("dispatch", 3)' BY <1>1 DEF Running
<1> USE DEF VerifyCmdLengthInv
<1>3. CASE at = 1
  <2>1. UtTypeOK' /\ Seen("CMD_LEN_ERR", "BadLength", 0)' /\ Returned'
    BY <1>1, <1>3, VerifyScript, HookActs DEF EventIds, HookTexts, Texts
  <2>2. QED BY <1>1, <1>2, <1>3, <2>1
<1>4. CASE at \in {2, 4}
  <2>1. PICK m : Step = CallWith("VerifyCmdLength", m) /\ m = VerifyCmdLengthTest[at].msg
    BY <1>1, <1>4, VerifyScript DEF CallWith
  <2>2. UtTypeOK' /\ Called("VerifyCmdLength", m)' /\ UNCHANGED hook
    BY <2>1, CallActs
  <2>3. Seen("CMD_LEN_ERR", "BadLength", 0)'
    BY <1>1, <1>4, <2>2 DEF Called, Returned, Seen
  <2>4. VerifyCmdLengthTest[at' - 1].msg = m
    BY <1>1, <1>4, <2>1
  <2>5. Called("VerifyCmdLength", VerifyCmdLengthTest[at - 1].msg)'
    BY <2>2, <2>4 DEF Called
  <2>6. QED BY <1>1, <1>2, <1>4, <2>2, <2>3, <2>5
<1>5. CASE at \in {3, 5}
  <2>1. UtTypeOK' /\ Returned' /\ UNCHANGED hook
    BY <1>1, <1>5, VerifyScript, ExpectActs
  <2>2. \A n \in 0 .. 1 : Seen("CMD_LEN_ERR", "BadLength", n) => Seen("CMD_LEN_ERR", "BadLength", n)'
    BY <2>1 DEF Seen
  <2>3. QED BY <1>1, <1>2, <1>5, <2>1, <2>2 DEF Called, Returned
<1>6. QED BY <1>1, <1>3, <1>4, <1>5

LEMMA VerifyTestRuns ==
  ASSUME UtTypeOK, Running("dispatch", 3), VerifyCmdLengthInv, UnitRuns
  PROVE  UtTypeOK' /\ Running("dispatch", 3)' /\ VerifyCmdLengthInv'
<1>1. ~ Returned BY UnitIsRunning
<1>2. PICK m : /\ at \in {3, 5} /\ m = VerifyCmdLengthTest[at - 1].msg
               /\ Called("VerifyCmdLength", m) /\ Seen("CMD_LEN_ERR", "BadLength", 0)
  BY <1>1 DEF VerifyCmdLengthInv
<1>3. VerifiesLength(m)
  BY <1>2, CalledRuns DEF Dispatches, Handles, Called
<1>4. m = IF at = 3 THEN Cmd("PROCESS") ELSE Short("PROCESS")
  BY <1>2, VerifyScript DEF CallWith
<1>5. IF at = 3 THEN Stubbed({}) /\ pc' = "RunLoop" /\ Matched(0)
      ELSE Reports("CMD_LEN_ERR", "BadLength")
  BY <1>2, <1>3, <1>4, VerifyOutcome DEF Handlers
<1>6. /\ UNCHANGED <<suite, nth, at, unit>> /\ UtTypeOK' /\ pc' = "RunLoop"
  BY <1>5 DEF Reports, Stubbed
<1>7. Returned'
  BY <1>2, <1>6 DEF Called, Returned
<1>8. IF at = 3 THEN Seen("CMD_LEN_ERR", "BadLength", 0)' ELSE Seen("CMD_LEN_ERR", "BadLength", 1)'
  BY <1>2, <1>5, SeenAfter
<1>9. VerifyCmdLengthInv'
  BY <1>2, <1>6, <1>7, <1>8 DEF VerifyCmdLengthInv
<1>10. QED BY <1>6, <1>9 DEF Running

(***************************************************************************)
(* The test of ProcessGroundCommand.                                       *)
(***************************************************************************)
\* The lines of DispatchOf, from step k of the test.
DispatchSteps(cc, n, k) ==
  /\ ProcessGroundCommandTest[k] = CallWith("ProcessGroundCommand", Cmd(cc))
  /\ ProcessGroundCommandTest[k + 1] = Expect(Handlers[cc], 1)
  /\ ProcessGroundCommandTest[k + 2] = CallWith("ProcessGroundCommand", Short(cc))
  /\ ProcessGroundCommandTest[k + 3] = Expect(Handlers[cc], 1)
  /\ ProcessGroundCommandTest[k + 4] = Expect("matches", n)

LEMMA DispatchScript ==
  ASSUME Running("dispatch", 2)
  PROVE  /\ Script = ProcessGroundCommandTest /\ Len(ProcessGroundCommandTest) = 24
         /\ ProcessGroundCommandTest[1] = CheckEvent("CMD_LEN_ERR", "BadLength")
         /\ DispatchSteps("NOOP", 1, 2) /\ DispatchSteps("RESET_COUNTERS", 2, 7)
         /\ DispatchSteps("PROCESS", 3, 12) /\ DispatchSteps("DISPLAY_PARAM", 4, 17)
         /\ ProcessGroundCommandTest[22] = CheckEvent("CC_ERR", "Invalid")
         /\ ProcessGroundCommandTest[23] = CallWith("ProcessGroundCommand", BadCode)
         /\ ProcessGroundCommandTest[24] = Expect("matches", 1)
<1>1. Script = ProcessGroundCommandTest BY DEF Running, Script, Suites
<1>2. Len(ProcessGroundCommandTest) = 24 BY DEF ProcessGroundCommandTest, DispatchOf
<1>3. ProcessGroundCommandTest[1] = CheckEvent("CMD_LEN_ERR", "BadLength")
  BY DEF ProcessGroundCommandTest, DispatchOf
<1>4. DispatchSteps("NOOP", 1, 2) BY DEF DispatchSteps, ProcessGroundCommandTest, DispatchOf
<1>5. DispatchSteps("RESET_COUNTERS", 2, 7)
  BY DEF DispatchSteps, ProcessGroundCommandTest, DispatchOf
<1>6. DispatchSteps("PROCESS", 3, 12)
  BY DEF DispatchSteps, ProcessGroundCommandTest, DispatchOf
<1>7. DispatchSteps("DISPLAY_PARAM", 4, 17)
  BY DEF DispatchSteps, ProcessGroundCommandTest, DispatchOf
<1>8. /\ ProcessGroundCommandTest[22] = CheckEvent("CC_ERR", "Invalid")
      /\ ProcessGroundCommandTest[23] = CallWith("ProcessGroundCommand", BadCode)
      /\ ProcessGroundCommandTest[24] = Expect("matches", 1)
  BY DEF ProcessGroundCommandTest, DispatchOf
<1>9. QED BY <1>1, <1>2, <1>3, <1>4, <1>5, <1>6, <1>7, <1>8

LEMMA DispatchCalls ==
  ASSUME Running("dispatch", 2), NEW j \in 1 .. 4
  PROVE  /\ ProcessGroundCommandTest[5 * j - 3] =
              CallWith("ProcessGroundCommand", Cmd(DispatchCodes[j]))
         /\ ProcessGroundCommandTest[5 * j - 1] =
              CallWith("ProcessGroundCommand", Short(DispatchCodes[j]))
         /\ DispatchCodes[j] \in DOMAIN Handlers
<1>1. j = 1 \/ j = 2 \/ j = 3 \/ j = 4 OBVIOUS
<1>2. QED BY <1>1, DispatchScript DEF DispatchSteps, DispatchCodes, Handlers

LEMMA DispatchExpects ==
  ASSUME Running("dispatch", 2), NEW k \in {3, 5, 6, 8, 10, 11, 13, 15, 16, 18, 20, 21}
  PROVE  \E what, value : ProcessGroundCommandTest[k] = Expect(what, value)
<1>1. CASE k \in {3, 5, 6} BY <1>1, DispatchScript DEF DispatchSteps
<1>2. CASE k \in {8, 10, 11} BY <1>2, DispatchScript DEF DispatchSteps
<1>3. CASE k \in {13, 15, 16} BY <1>3, DispatchScript DEF DispatchSteps
<1>4. CASE k \in {18, 20, 21} BY <1>4, DispatchScript DEF DispatchSteps
<1>5. QED BY <1>1, <1>2, <1>3, <1>4

\* What the hook and the four handlers' stubs have counted by step k.
LEMMA DispatchedCounts ==
  ASSUME NEW k \in 1 .. 22
  PROVE  /\ Dispatched(k) <=> /\ Seen("CMD_LEN_ERR", "BadLength", k \div 5)
                              /\ Calls("NoopCmd", IF k >= 3 THEN 1 ELSE 0)
                              /\ Calls("ResetCountersCmd", IF k >= 8 THEN 1 ELSE 0)
                              /\ Calls("ProcessCmd", IF k >= 13 THEN 1 ELSE 0)
                              /\ Calls("DisplayParamCmd", IF k >= 18 THEN 1 ELSE 0)
         /\ k \div 5 = IF k >= 20 THEN 4 ELSE IF k >= 15 THEN 3 ELSE IF k >= 10 THEN 2
                       ELSE IF k >= 5 THEN 1 ELSE 0
<1>1. /\ Handlers[DispatchCodes[1]] = "NoopCmd" /\ Handlers[DispatchCodes[2]] = "ResetCountersCmd"
      /\ Handlers[DispatchCodes[3]] = "ProcessCmd"
      /\ Handlers[DispatchCodes[4]] = "DisplayParamCmd"
  BY DEF Handlers, DispatchCodes
<1>2. \A j : j \in 1 .. 4 <=> j = 1 \/ j = 2 \/ j = 3 \/ j = 4
  OBVIOUS
<1>3. Dispatched(k) <=> /\ Seen("CMD_LEN_ERR", "BadLength", k \div 5)
                        /\ Calls("NoopCmd", IF k >= 3 THEN 1 ELSE 0)
                        /\ Calls("ResetCountersCmd", IF k >= 8 THEN 1 ELSE 0)
                        /\ Calls("ProcessCmd", IF k >= 13 THEN 1 ELSE 0)
                        /\ Calls("DisplayParamCmd", IF k >= 18 THEN 1 ELSE 0)
  BY <1>1, <1>2 DEF Dispatched, Calls
<1>4. k \div 5 = IF k >= 20 THEN 4 ELSE IF k >= 15 THEN 3 ELSE IF k >= 10 THEN 2
                 ELSE IF k >= 5 THEN 1 ELSE 0
  OBVIOUS
<1>5. QED BY <1>3, <1>4

LEMMA DispatchTestActs ==
  ASSUME UtTypeOK, Running("dispatch", 2), ProcessGroundCommandInv, TestActs
  PROVE  UtTypeOK' /\ Running("dispatch", 2)' /\ ProcessGroundCommandInv'
<1>1. /\ Returned /\ at <= 24 /\ at' = at + 1 /\ Step = ProcessGroundCommandTest[at]
      /\ UNCHANGED <<suite, nth, calls>>
  BY StepActs, DispatchScript DEF Step
<1>2. Running("dispatch", 2)' BY <1>1 DEF Running
<1>3. PICK k : k = at /\ at' = k + 1 BY <1>1
<1> USE DEF ProcessGroundCommandInv
<1>4. CASE k = 1
  <2>1. UtTypeOK' /\ Seen("CMD_LEN_ERR", "BadLength", 0)' /\ Returned'
    BY <1>1, <1>3, <1>4, DispatchScript, HookActs DEF EventIds, HookTexts, Texts
  <2>2. \A j \in 1 .. 4 : Calls(Handlers[DispatchCodes[j]], 0)'
    BY <1>1, <1>3, <1>4 DEF Called, Returned, Calls
  <2>3. Dispatched(2)'
    BY <2>1, <2>2 DEF Dispatched
  <2>4. QED BY <1>2, <1>3, <1>4, <2>1, <2>3 DEF Dispatched
<1>5. CASE k \in {3, 5, 6, 8, 10, 11, 13, 15, 16, 18, 20, 21}
  <2>1. UtTypeOK' /\ Returned' /\ UNCHANGED hook
    BY <1>1, <1>3, <1>5, DispatchExpects, ExpectActs
  <2>2. Dispatched(k)
    BY <1>1, <1>3, <1>5 DEF Called, Returned
  <2>3. Dispatched(k + 1)
    BY <1>5, <2>2, DispatchedCounts
  <2>4. Dispatched(k + 1)'
    BY <1>1, <2>1, <2>3 DEF Dispatched, Seen, Calls
  <2>5. QED BY <1>2, <1>3, <1>5, <2>1, <2>4 DEF Dispatched
<1>6. CASE k \in {5 * j - 3 : j \in 1 .. 4} \cup {5 * j - 1 : j \in 1 .. 4}
  <2>1. PICK m : Step = CallWith("ProcessGroundCommand", m) /\ m = ProcessGroundCommandTest[at].msg
    BY <1>1, <1>3, <1>6, DispatchCalls DEF CallWith
  <2>2. UtTypeOK' /\ Called("ProcessGroundCommand", m)' /\ UNCHANGED hook
    BY <2>1, CallActs
  <2>3. Dispatched(k)
    BY <1>1, <1>3, <1>6 DEF Called, Returned
  <2>4. Dispatched(k)'
    BY <1>1, <2>2, <2>3 DEF Dispatched, Seen, Calls
  <2>5. at' - 1 = k /\ ProcessGroundCommandTest[k].msg = m /\ k + 1 \in CallPositions
    BY <1>3, <1>6, <2>1 DEF CallPositions
  <2>6. Called("ProcessGroundCommand", ProcessGroundCommandTest[at - 1].msg)'
    BY <2>2, <2>5 DEF Called
  <2>7. Dispatched(at - 1)'
    BY <2>4, <2>5 DEF Dispatched, Calls, Seen
  <2>8. QED BY <1>2, <1>3, <2>2, <2>5, <2>6, <2>7 DEF CallPositions
<1>7. CASE k = 22
  <2>1. UtTypeOK' /\ Seen("CC_ERR", "Invalid", 0)' /\ Returned'
    BY <1>1, <1>3, <1>7, DispatchScript, HookActs DEF EventIds, HookTexts, Texts
  <2>2. QED BY <1>2, <1>3, <1>7, <2>1
<1>8. CASE k = 23
  <2>1. Step = CallWith("ProcessGroundCommand", BadCode)
    BY <1>1, <1>3, <1>8, DispatchScript
  <2>2. UtTypeOK' /\ Called("ProcessGroundCommand", BadCode)' /\ UNCHANGED hook
    BY <2>1, CallActs
  <2>3. Seen("CC_ERR", "Invalid", 0)'
    BY <1>3, <1>8, <2>2 DEF CallPositions, Seen
  <2>4. QED BY <1>2, <1>3, <1>8, <2>2, <2>3
<1>9. CASE k = 24
  <2>1. UtTypeOK' /\ Returned' /\ UNCHANGED hook
    BY <1>1, <1>3, <1>9, DispatchScript, ExpectActs
  <2>2. Seen("CC_ERR", "Invalid", 1)'
    BY <1>1, <1>3, <1>9, <2>1 DEF CallPositions, Seen, Called, Returned
  <2>3. QED BY <1>2, <1>3, <1>9, <2>1, <2>2
<1>10. k \in 1 .. 24
  BY <1>1, <1>3 DEF CallPositions
<1>11. QED BY <1>4, <1>5, <1>6, <1>7, <1>8, <1>9, <1>10

LEMMA DispatchTestRuns ==
  ASSUME UtTypeOK, Running("dispatch", 2), ProcessGroundCommandInv, UnitRuns
  PROVE  UtTypeOK' /\ Running("dispatch", 2)' /\ ProcessGroundCommandInv'
<1>1. ~ Returned BY UnitIsRunning
<1>2. CASE at \in CallPositions /\ Dispatched(at - 1)
           /\ Called("ProcessGroundCommand", ProcessGroundCommandTest[at - 1].msg)
  <2>1. PICK m : m = ProcessGroundCommandTest[at - 1].msg /\ Called("ProcessGroundCommand", m)
    BY <1>2
  <2>2. Dispatches(m)
    BY <2>1, CalledRuns DEF VerifiesLength, Handles, Called
  <2>3. PICK j \in 1 .. 4 : at = 5 * j - 2 \/ at = 5 * j
    BY <1>2 DEF CallPositions
  <2> DEFINE cc == DispatchCodes[j]
  <2>4. cc \in DOMAIN Handlers /\ m = IF at = 5 * j - 2 THEN Cmd(cc) ELSE Short(cc)
    BY <2>1, <2>3, DispatchCalls DEF CallWith
  <2>5. IF at = 5 * j - 2 THEN Passed(Handlers[cc]) ELSE Reports("CMD_LEN_ERR", "BadLength")
    BY <2>2, <2>4, MessagesDispatched
  <2>6. /\ UNCHANGED <<suite, nth, at, unit>> /\ UtTypeOK' /\ pc' = "RunLoop"
    BY <2>5 DEF Reports, Passed, Stubbed
  <2>7. Returned'
    BY <2>1, <2>6 DEF Called, Returned
  <2>8. PICK k : k = at /\ k = at' /\ k \in 3 .. 20
    BY <2>3, <2>6
  <2>9. Seen("CMD_LEN_ERR", "BadLength", k \div 5)'
    <3>1. j \in {1, 2, 3, 4} OBVIOUS
    <3>2. (k - 1) \div 5 = j - 1 /\ k \div 5 = (IF k = 5 * j - 2 THEN j - 1 ELSE j)
      BY <2>3, <2>8, <3>1
    <3>3. Seen("CMD_LEN_ERR", "BadLength", j - 1)
      BY <1>2, <2>8, <3>2 DEF Dispatched
    <3>4. j - 1 \in 0 .. 5 /\ (j - 1) + 1 = j OBVIOUS
    <3>5. QED BY <2>3, <2>5, <2>8, <3>2, <3>3, <3>4, SeenAfter
  <2>10. ASSUME NEW i \in 1 .. 4
         PROVE  Calls(Handlers[DispatchCodes[i]], IF k >= 5 * i - 2 THEN 1 ELSE 0)'
    <3> DEFINE h == Handlers[DispatchCodes[i]]
    <3>1. Calls(h, IF k - 1 >= 5 * i - 2 THEN 1 ELSE 0)
      BY <1>2, <2>8 DEF Dispatched
    <3>2. h \in Stubs \ {"SendEvent"} /\ (h = Handlers[cc] <=> i = j)
      <4>1. i \in {1, 2, 3, 4} /\ j \in {1, 2, 3, 4} OBVIOUS
      <4>2. QED BY <4>1 DEF Handlers, DispatchCodes, Stubs
    <3>3. CASE k = 5 * j - 2
      <4>1. calls'[h] = UpTo(calls[h] + (IF i = j THEN 1 ELSE 0))
        BY <2>5, <2>8, <3>2, <3>3 DEF Passed, In
      <4>2. calls[h] + (IF i = j THEN 1 ELSE 0) = IF k >= 5 * i - 2 THEN 1 ELSE 0
        BY <3>1, <3>3 DEF Calls
      <4>3. QED BY <4>1, <4>2, UpToExact DEF Calls
    <3>4. CASE k = 5 * j
      <4>1. calls'[h] = UpTo(calls[h])
        BY <2>5, <2>8, <3>2, <3>4 DEF Reports
      <4>2. calls[h] = IF k >= 5 * i - 2 THEN 1 ELSE 0
        BY <3>1, <3>4 DEF Calls
      <4>3. QED BY <4>1, <4>2, UpToExact DEF Calls
    <3>5. QED BY <2>3, <2>8, <3>3, <3>4
  <2>11. Dispatched(k)'
    BY <2>9, <2>10 DEF Dispatched
  <2>12. QED BY <2>6, <2>7, <2>8, <2>11 DEF Running, ProcessGroundCommandInv, Dispatched
<1>3. CASE /\ at = 24 /\ Called("ProcessGroundCommand", BadCode)
           /\ Seen("CC_ERR", "Invalid", 0)
  <2>1. Dispatches(BadCode)
    BY <1>3, CalledRuns DEF VerifiesLength, Handles, Called
  <2>2. Reports("CC_ERR", "Invalid")
    BY <2>1, MessagesDispatched
  <2>3. /\ UNCHANGED <<suite, nth, at, unit>> /\ UtTypeOK' /\ pc' = "RunLoop"
    BY <2>2 DEF Reports, Stubbed
  <2>4. Returned'
    BY <1>3, <2>3 DEF Called, Returned
  <2>5. Seen("CC_ERR", "Invalid", 1)'
    BY <1>3, <2>2, SeenAfter
  <2>6. QED BY <1>3, <2>3, <2>4, <2>5 DEF Running, ProcessGroundCommandInv
<1>4. QED BY <1>1, <1>2, <1>3 DEF ProcessGroundCommandInv

(***************************************************************************)
(* The tests of the three handlers that report one event.                  *)
(***************************************************************************)
\* What each of them reports.
CommandEvents ==
  [NoopCmd |-> [id |-> "NOOP_INF", text |-> "Noop"],
   ResetCountersCmd |-> [id |-> "RESET_INF", text |-> "ResetCounters"],
   DisplayParamCmd |-> [id |-> "VALUE_INF", text |-> "Value"]]

LEMMA CommandReports ==
  ASSUME UtTypeOK, NEW m, Handles(m), unit \in DOMAIN CommandEvents
  PROVE  Reports(CommandEvents[unit].id, CommandEvents[unit].text)
<1>1. \E args : out' = <<Event(CommandEvents[unit].id, CommandEvents[unit].text, args)>>
  BY DEF Handles, NoopCmd, ResetCountersCmd, DisplayParamCmd, Emit, CommandEvents
<1>2. CallStubs({}) /\ pc' = "RunLoop"
  BY DEF Handles, NoopCmd, ResetCountersCmd, DisplayParamCmd, Take, CommandEvents
<1>3. CommandEvents[unit].id \in EventIds
  BY DEF CommandEvents, EventIds
<1>4. QED BY <1>1, <1>2, <1>3, CallsOneEvent, NothingTaken DEF Reports

\* The four steps of such a test.
CommandTest(u, m, id, text) ==
  /\ Len(Script) = 4
  /\ Script[1] = CheckEvent(id, text) /\ Script[2] = CallWith(u, m)
  /\ Script[3] = Expect("status", "success") /\ Script[4] = Expect("matches", 1)

LEMMA CommandScripts ==
  /\ Running("cmds", 2) => CommandTest("NoopCmd", Cmd("NOOP"), "NOOP_INF", "any")
  /\ Running("cmds", 3) =>
       CommandTest("ResetCountersCmd", Cmd("RESET_COUNTERS"), "RESET_INF", "ResetCounters")
  /\ Running("cmds", 5) =>
       CommandTest("DisplayParamCmd", Cmd("DISPLAY_PARAM"), "VALUE_INF", "Value")
<1>1. /\ Running("cmds", 2) => Script = NoopCmdTest
      /\ Running("cmds", 3) => Script = ResetCountersCmdTest
      /\ Running("cmds", 5) => Script = DisplayParamCmdTest
  BY DEF Running, Script, Suites
<1>2. QED
  BY <1>1 DEF CommandTest, NoopCmdTest, ResetCountersCmdTest, DisplayParamCmdTest

LEMMA CommandTestActs ==
  ASSUME UtTypeOK, TestActs, NEW s, NEW n, Running(s, n),
         NEW u \in DOMAIN CommandEvents, NEW m, NEW id \in EventIds, NEW text \in HookTexts,
         CommandTest(u, m, id, text), CommandInv(u, m, id, text)
  PROVE  UtTypeOK' /\ Running(s, n)' /\ CommandInv(u, m, id, text)'
<1>1. /\ Returned /\ at <= 4 /\ at' = at + 1 /\ Step = Script[at]
      /\ UNCHANGED <<suite, nth>>
  BY StepActs DEF Step, CommandTest
<1>2. Running(s, n)' BY <1>1 DEF Running
<1> USE DEF CommandInv
<1>3. CASE at = 1
  <2>1. UtTypeOK' /\ Seen(id, text, 0)' /\ Returned'
    BY <1>1, <1>3, HookActs DEF CommandTest
  <2>2. QED BY <1>1, <1>2, <1>3, <2>1
<1>4. CASE at = 2
  <2>1. UtTypeOK' /\ Called(u, m)' /\ UNCHANGED hook
    BY <1>1, <1>4, CallActs DEF CommandTest, CommandEvents
  <2>2. Seen(id, text, 0)'
    BY <1>1, <1>4, <2>1 DEF Seen
  <2>3. QED BY <1>1, <1>2, <1>4, <2>1, <2>2
<1>5. CASE at \in 3 .. 4
  <2>1. UtTypeOK' /\ Returned' /\ UNCHANGED <<unit, hook>>
    BY <1>1, <1>5, ExpectActs DEF CommandTest
  <2>2. unit = u /\ Seen(id, text, 1)
    BY <1>1, <1>5 DEF Called, Returned
  <2>3. QED BY <1>1, <1>2, <1>5, <2>1, <2>2 DEF Seen
<1>6. QED BY <1>1, <1>3, <1>4, <1>5

LEMMA CommandTestRuns ==
  ASSUME UtTypeOK, UnitRuns, NEW s, NEW n, Running(s, n),
         NEW u \in DOMAIN CommandEvents, NEW m, NEW id, NEW text,
         id = CommandEvents[u].id, text \in {"any", CommandEvents[u].text},
         CommandInv(u, m, id, text)
  PROVE  UtTypeOK' /\ Running(s, n)' /\ CommandInv(u, m, id, text)'
<1>1. ~ Returned BY UnitIsRunning
<1>2. at = 3 /\ Called(u, m) /\ Seen(id, text, 0)
  BY <1>1 DEF CommandInv
<1>3. unit = u /\ Handles(m)
  BY <1>2, CalledRuns DEF Dispatches, VerifiesLength, Called, CommandEvents
<1>4. Reports(CommandEvents[u].id, CommandEvents[u].text)
  BY <1>3, CommandReports
<1>5. UNCHANGED <<suite, nth, at, unit>> /\ UtTypeOK' /\ pc' = "RunLoop"
  BY <1>4 DEF Reports, Stubbed
<1>6. Returned'
  BY <1>3, <1>5 DEF Returned, CommandEvents
<1>7. Seen(id, text, 1)'
  <2>1. hook.id = id /\ hook.text = text /\ hook.matches = 0
    BY <1>2 DEF Seen
  <2>2. Matched(1)
    BY <1>4, <2>1 DEF Reports
  <2>3. QED BY <2>1, <2>2, UpToExact DEF Matched, Seen
<1>8. QED BY <1>2, <1>3, <1>5, <1>6, <1>7 DEF CommandInv, Running

(***************************************************************************)
(* The test of SendHkCmd.                                                  *)
(***************************************************************************)
HkStubs == {"TransmitMsg", "TimeStampMsg", "TblManage"}

LEMMA HousekeepingScript ==
  ASSUME Running("cmds", 1)
  PROVE  /\ Len(Script) = 4 /\ Script[1] = CallWith("SendHkCmd", Tick("SEND_HK"))
         /\ \A k \in 2 .. 4 : \E what, value : Script[k] = Expect(what, value)
         /\ Script[2] = Expect("TransmitMsg", 1) /\ Script[3] = Expect("TimeStampMsg", 1)
         /\ Script[4] = Expect("TblManage", 1)
<1>1. Script = ReportHousekeepingTest BY DEF Running, Script, Suites
<1>2. /\ Len(Script) = 4 /\ Script[1] = CallWith("SendHkCmd", Tick("SEND_HK"))
      /\ Script[2] = Expect("TransmitMsg", 1) /\ Script[3] = Expect("TimeStampMsg", 1)
      /\ Script[4] = Expect("TblManage", 1)
  BY <1>1 DEF ReportHousekeepingTest
<1>3. \A k : k \in 2 .. 4 <=> k = 2 \/ k = 3 \/ k = 4 OBVIOUS
<1>4. QED BY <1>2, <1>3

LEMMA HousekeepingTestActs ==
  ASSUME UtTypeOK, Running("cmds", 1), ReportHousekeepingInv, TestActs
  PROVE  UtTypeOK' /\ Running("cmds", 1)' /\ ReportHousekeepingInv'
<1>1. /\ Returned /\ at <= 4 /\ at' = at + 1 /\ Step = Script[at]
      /\ UNCHANGED <<suite, nth, calls>>
  BY StepActs, HousekeepingScript DEF Step
<1>2. Running("cmds", 1)' BY <1>1 DEF Running
<1> USE DEF ReportHousekeepingInv
<1>3. CASE at = 1
  <2>1. UtTypeOK' /\ Called("SendHkCmd", Tick("SEND_HK"))'
    BY <1>1, <1>3, HousekeepingScript, CallActs
  <2>2. QED BY <1>1, <1>2, <1>3, <2>1 DEF Calls
<1>4. CASE at \in 2 .. 4
  <2>1. UtTypeOK' /\ Returned'
    BY <1>1, <1>4, HousekeepingScript, ExpectActs
  <2>2. \A s \in HkStubs : Calls(s, 1)
    BY <1>1, <1>4 DEF Called, Returned, HkStubs
  <2>3. QED BY <1>1, <1>2, <1>4, <2>1, <2>2 DEF Calls, HkStubs
<1>5. QED BY <1>1, <1>3, <1>4

LEMMA HousekeepingSent ==
  ASSUME UtTypeOK, NEW m, Handles(m), unit = "SendHkCmd"
  PROVE  /\ Stubbed({"TimeStampMsg", "TblManage"}) /\ pc' = "RunLoop"
         /\ \A s \in HkStubs : calls'[s] = UpTo(calls[s] + 1)
<1> DEFINE S == {"TimeStampMsg", "TblManage"}
           p == [id |-> "HK_TLM", text |-> "HkTlm", args |-> <<ErrCounter, CmdCounter>>]
<1>1. SendHkCmd(m) /\ CallStubs(S)
  BY DEF Handles
<1>2. out' = <<p>>
  BY <1>1 DEF SendHkCmd, Emit
<1>3. \A s : By(s, p) = IF s = "TransmitMsg" THEN 1 ELSE 0
  BY DEF By, Carrier
<1> HIDE DEF p
<1>4. Stubbed(S) /\ \A s \in Stubs : calls'[s] = UpTo(calls[s] + In(s, S) + By(s, p))
  BY <1>1, <1>2, CallsWithOne
<1>5. pc' = "RunLoop"
  BY <1>1 DEF SendHkCmd, Take
<1>6. \A s \in HkStubs : s \in Stubs /\ calls[s] \in Nat /\ In(s, S) + By(s, p) = 1
  BY <1>3, MaxCallsAssumption DEF HkStubs, Stubs, In, UtTypeOK
<1>7. \A s \in HkStubs : In(s, S) \in Nat /\ By(s, p) \in Nat
  BY DEF In, By
<1>8. \A s \in HkStubs : calls[s] + In(s, S) + By(s, p) = calls[s] + 1
  BY <1>6, <1>7
<1>9. \A s \in HkStubs : calls'[s] = UpTo(calls[s] + 1)
  BY <1>4, <1>6, <1>8
<1>10. QED BY <1>4, <1>5, <1>9

LEMMA HousekeepingTestRuns ==
  ASSUME UtTypeOK, Running("cmds", 1), ReportHousekeepingInv, UnitRuns
  PROVE  UtTypeOK' /\ Running("cmds", 1)' /\ ReportHousekeepingInv'
<1>1. ~ Returned BY UnitIsRunning
<1>2. at = 2 /\ Called("SendHkCmd", Tick("SEND_HK")) /\ \A s \in HkStubs : Calls(s, 0)
  BY <1>1 DEF ReportHousekeepingInv, HkStubs
<1>3. unit = "SendHkCmd" /\ Handles(Tick("SEND_HK"))
  BY <1>2, CalledRuns DEF Dispatches, VerifiesLength, Called
<1>4. /\ UNCHANGED <<suite, nth, at, unit>> /\ UtTypeOK' /\ pc' = "RunLoop"
      /\ \A s \in HkStubs : calls'[s] = UpTo(calls[s] + 1)
  BY <1>3, HousekeepingSent DEF Stubbed
<1>5. Returned'
  BY <1>3, <1>4 DEF Returned
<1>6. \A s \in HkStubs : Calls(s, 1)'
  BY <1>2, <1>4, UpToExact DEF Calls
<1>7. QED BY <1>2, <1>4, <1>5, <1>6 DEF ReportHousekeepingInv, Running, HkStubs

(***************************************************************************)
(* The test of TblValidationFunc: the function returns in the same step.   *)
(***************************************************************************)
LEMMA ValidationScript ==
  ASSUME Running("utils", 1)
  PROVE  /\ Len(Script) = 6
         /\ Script[1] = Table([Int1 |-> 0, Int2 |-> 0])
         /\ Script[2] = Call("TblValidationFunc") /\ Script[3] = Expect("status", "success")
         /\ Script[4] = Table([Int1 |-> 1 + TblElement1Max, Int2 |-> 0])
         /\ Script[5] = Call("TblValidationFunc") /\ Script[6] = Expect("status", "error")
<1>1. Script = TblValidationFuncTest BY DEF Running, Script, Suites
<1>2. QED BY <1>1 DEF TblValidationFuncTest

LEMMA ValidationTestActs ==
  ASSUME UtTypeOK, Running("utils", 1), TblValidationInv, TestActs
  PROVE  UtTypeOK' /\ Running("utils", 1)' /\ TblValidationInv'
<1>1. /\ Returned /\ at \in 1 .. 6 /\ at' = at + 1 /\ Step = Script[at]
      /\ UNCHANGED <<suite, nth>>
  <2>1. Returned /\ at <= 6 /\ at' = at + 1 /\ UNCHANGED <<suite, nth>>
    BY StepActs, ValidationScript
  <2>2. at \in 1 .. 7
    BY DEF TblValidationInv
  <2>3. QED BY <2>1, <2>2 DEF Step
<1>2. Running("utils", 1)' BY <1>1 DEF Running
<1> USE DEF TblValidationInv
<1>3. CASE at \in {1, 4}
  <2>1. UtTypeOK' /\ Returned' /\ active' = Step.img
    BY <1>1, <1>3, ValidationScript, TableActs DEF Table
  <2>2. Step.img = [Int1 |-> IF at = 1 THEN 0 ELSE 1 + TblElement1Max, Int2 |-> 0]
    BY <1>1, <1>3, ValidationScript DEF Table
  <2>3. QED BY <1>1, <1>2, <1>3, <2>1, <2>2
<1>4. CASE at \in {2, 5}
  <2>1. UtTypeOK' /\ unit' = "TblValidationFunc" /\ pc' = "RunLoop" /\ UNCHANGED active
    BY <1>1, <1>4, ValidationScript, EntryActs DEF Entry
  <2>2. Returned' BY <2>1 DEF Returned
  <2>3. QED BY <1>1, <1>2, <1>4, <2>1, <2>2
<1>5. CASE at \in {3, 6}
  <2>1. UtTypeOK' /\ Returned' /\ UNCHANGED active
    BY <1>1, <1>5, ValidationScript, ExpectActs
  <2>2. QED BY <1>1, <1>2, <1>5, <2>1
<1>6. QED BY <1>1, <1>3, <1>4, <1>5

LEMMA ValidationTestRuns ==
  ASSUME UtTypeOK, Running("utils", 1), TblValidationInv, UnitRuns
  PROVE  UtTypeOK' /\ Running("utils", 1)' /\ TblValidationInv'
  BY UnitIsRunning DEF TblValidationInv

(***************************************************************************)
(* The test of GetCrc.                                                     *)
(***************************************************************************)
LEMMA CallsOneLog ==
  ASSUME UtTypeOK, NEW S \in SUBSET (Stubs \ {"WriteToSysLog"}), CallStubs(S),
         NEW text, NEW args, out' = <<SysLog(text, args)>>, suite # "cmds" \/ text # "Crc"
  PROVE  /\ Stubbed(S)
         /\ calls'["WriteToSysLog"] = UpTo(calls["WriteToSysLog"] + 1)
         /\ \A s \in Stubs \ {"WriteToSysLog"} : calls'[s] = UpTo(calls[s] + In(s, S))
<1> DEFINE p == SysLog(text, args)
<1>1. \A s \in Stubs : By(s, p) = IF s = "WriteToSysLog" THEN 1 ELSE 0
  BY CountOfSysLog
<1>2. out' = <<p>> OBVIOUS
<1> HIDE DEF p
<1>3. Stubbed(S) /\ \A s \in Stubs : calls'[s] = UpTo(calls[s] + In(s, S) + By(s, p))
  BY <1>2, CallsWithOne
<1>4. \A s \in Stubs : calls[s] \in Nat /\ In(s, S) \in Nat
  BY MaxCallsAssumption DEF UtTypeOK, In
<1>5. "WriteToSysLog" \in Stubs /\ In("WriteToSysLog", S) = 0
  BY DEF Stubs, In
<1>6. calls'["WriteToSysLog"] = UpTo(calls["WriteToSysLog"] + 1)
  BY <1>1, <1>3, <1>4, <1>5
<1>7. \A s \in Stubs \ {"WriteToSysLog"} : calls'[s] = UpTo(calls[s] + In(s, S))
  BY <1>1, <1>3, <1>4
<1>8. QED BY <1>3, <1>6, <1>7

LEMMA GetCrcScript ==
  ASSUME Running("utils", 2)
  PROVE  /\ Len(Script) = 6
         /\ Script[1] = Default("GetInfo") /\ Script[2] = Call("GetCrc")
         /\ Script[3] = Expect("WriteToSysLog", 1)
         /\ Script[4] = ClearDefault("GetInfo") /\ Script[5] = Call("GetCrc")
         /\ Script[6] = Expect("WriteToSysLog", 2)
<1>1. Script = GetCrcTest BY DEF Running, Script, Suites
<1>2. QED BY <1>1 DEF GetCrcTest

LEMMA GetCrcTestActs ==
  ASSUME UtTypeOK, Running("utils", 2), GetCrcInv, TestActs
  PROVE  UtTypeOK' /\ Running("utils", 2)' /\ GetCrcInv'
<1>1. /\ Returned /\ at <= 6 /\ at' = at + 1 /\ Step = Script[at]
      /\ UNCHANGED <<suite, nth, calls>>
  BY StepActs, GetCrcScript DEF Step
<1>2. Running("utils", 2)' BY <1>1 DEF Running
<1>3. ~ (unit = "GetCrc" /\ pc = "LogCrc")
  BY <1>1 DEF Returned
<1> USE DEF GetCrcInv, Calls
<1>4. CASE at \in {1, 4}
  <2>1. UtTypeOK' /\ Returned'
    BY <1>1, <1>4, GetCrcScript, StubActs DEF Stubs
  <2>2. QED BY <1>1, <1>2, <1>3, <1>4, <2>1
<1>5. CASE at \in {2, 5}
  <2>1. UtTypeOK' /\ unit' = "GetCrc" /\ pc' = "LogCrc"
    BY <1>1, <1>5, GetCrcScript, EntryActs DEF Entry
  <2>2. QED BY <1>1, <1>2, <1>3, <1>5, <2>1
<1>6. CASE at \in {3, 6}
  <2>1. UtTypeOK' /\ Returned'
    BY <1>1, <1>6, GetCrcScript, ExpectActs
  <2>2. QED BY <1>1, <1>2, <1>3, <1>6, <2>1
<1>7. QED BY <1>1, <1>4, <1>5, <1>6

LEMMA GetCrcTestRuns ==
  ASSUME UtTypeOK, Running("utils", 2), GetCrcInv, UnitRuns
  PROVE  UtTypeOK' /\ Running("utils", 2)' /\ GetCrcInv'
<1>1. ~ Returned BY UnitIsRunning
<1>2. /\ unit = "GetCrc" /\ pc = "LogCrc"
      /\ \/ at = 3 /\ Calls("WriteToSysLog", 0)
         \/ at = 6 /\ Calls("WriteToSysLog", 1)
  BY <1>1 DEF GetCrcInv
<1>3. LogsCrc
  BY <1>2
  DEF UnitRuns, InitCalls, RunLoopStub, MainReceives, MainExits, LogsValues, Dispatches,
      VerifiesLength, Handles
<1>4. /\ LogCrc /\ CallStubs({"GetInfo"}) /\ ~ Said("ReleaseFailed")'
  BY <1>2, <1>3 DEF LogsCrc
<1>5. PICK text, args : out' = <<SysLog(text, args)>>
  <2>1. PICK crc : /\ \E text, args : crc = SysLog(text, args)
                   /\ out' \in {<<crc>>, <<crc, SysLog("ReleaseFailed", <<>>)>>}
    BY <1>4 DEF LogCrc
  <2>2. out' # <<crc, SysLog("ReleaseFailed", <<>>)>>
    BY <1>4, SaidOfTwo DEF SysLog
  <2>3. QED BY <2>1, <2>2
<1>6. Stubbed({"GetInfo"}) /\ calls'["WriteToSysLog"] = UpTo(calls["WriteToSysLog"] + 1)
  BY <1>4, <1>5, CallsOneLog DEF Running, Stubs
<1>7. UNCHANGED <<suite, nth, at, unit>> /\ UtTypeOK' /\ pc' = "RunLoop"
  BY <1>4, <1>6 DEF Stubbed, LogCrc
<1>8. Returned'
  BY <1>2, <1>7 DEF Returned
<1>9. calls'["WriteToSysLog"] = IF at = 3 THEN 1 ELSE 2
  BY <1>2, <1>6, UpToExact DEF Calls
<1>10. QED BY <1>2, <1>7, <1>8, <1>9 DEF GetCrcInv, Running, Calls

(***************************************************************************)
(* The test of ProcessCmd, which takes three steps.                        *)
(***************************************************************************)
LEMMA ProcessScript ==
  ASSUME Running("cmds", 4)
  PROVE  /\ Len(Script) = 14
         /\ Script[1] = Table([Int1 |-> 40, Int2 |-> 50])
         /\ Script[2] = CallWith("ProcessCmd", Cmd("PROCESS"))
         /\ Script[3] = Expect("status", "success")
         /\ Script[4] = Expect("WriteToSysLog", 1) /\ Script[5] = Expect("GetAddress", 1)
         /\ Script[6] = Default("GetAddress")
         /\ Script[7] = CallWith("ProcessCmd", Cmd("PROCESS"))
         /\ Script[8] = Expect("status", "error") /\ Script[9] = Expect("WriteToSysLog", 2)
         /\ Script[10] = ClearDefault("GetAddress") /\ Script[11] = Default("ReleaseAddress")
         /\ Script[12] = CallWith("ProcessCmd", Cmd("PROCESS"))
         /\ Script[13] = Expect("status", "error") /\ Script[14] = Expect("WriteToSysLog", 4)
<1>1. Script = ProcessCmdTest BY DEF Running, Script, Suites
<1>2. QED BY <1>1 DEF ProcessCmdTest

\* Where the test is in control, and what holds there.
ProcessControls ==
  /\ Returned
  /\ at \in 1 .. 15
  /\ at \in 1 .. 2 => Logged(0, 0)
  /\ at \in 3 .. 6 => Processing /\ Logged(1, 1) /\ ~ Said("GetAddressFailed")
                      /\ ~ Said("ReleaseFailed")
  /\ at = 7 => Calls("WriteToSysLog", 1)
  /\ at \in 8 .. 10 => Processing /\ Calls("WriteToSysLog", 2) /\ Said("GetAddressFailed")
  /\ at \in 11 .. 12 => Calls("WriteToSysLog", 2)
  /\ at \in 13 .. 15 => Processing /\ Calls("WriteToSysLog", 4) /\ Said("ReleaseFailed")

\* What is configured at step k.
ProcessConfigured(k) ==
  /\ NoneDue({"GetAddress", "ReleaseAddress"})
  /\ broken = IF k \in 7 .. 10 THEN {"GetAddress"}
              ELSE IF k \in 12 .. 15 THEN {"ReleaseAddress"} ELSE {}

LEMMA ProcessInControl ==
  /\ ProcessCmdInv => ProcessConfigured(at)
  /\ ProcessCmdInv /\ Returned => ProcessControls
  /\ ProcessConfigured(at) /\ ProcessControls => ProcessCmdInv
<1>1. ProcessCmdInv => ProcessConfigured(at)
  BY DEF ProcessCmdInv, ProcessConfigured
<1>2. ASSUME NEW u, NEW m, Called(u, m) PROVE u \in {"ProcessCmd"} => ~ Returned
  BY <1>2 DEF Called, Returned
<1>3. pc \in {"LogValues", "LogCrc"} => ~ Returned
  BY DEF Returned
<1>4. ASSUME ProcessCmdInv, Returned PROVE ProcessControls
  BY <1>2, <1>3, <1>4 DEF ProcessCmdInv, ProcessControls
<1>5. ASSUME ProcessConfigured(at), ProcessControls PROVE ProcessCmdInv
  BY <1>5 DEF ProcessCmdInv, ProcessConfigured, ProcessControls
<1>6. QED BY <1>1, <1>4, <1>5

LEMMA ProcessTestActs ==
  ASSUME UtTypeOK, Running("cmds", 4), ProcessCmdInv, TestActs
  PROVE  UtTypeOK' /\ Running("cmds", 4)' /\ ProcessCmdInv'
<1>1. /\ Returned /\ at <= 14 /\ at' = at + 1 /\ Step = Script[at]
      /\ UNCHANGED <<suite, nth, calls, due>>
  <2>1. Step.do # "deferred"
    <3>1. at \in 1 .. 14
      <4>1. Returned /\ at <= 14 BY StepActs, ProcessScript
      <4>2. ProcessControls BY <4>1, ProcessInControl
      <4>3. QED BY <4>1, <4>2 DEF ProcessControls
    <3>2. CASE at \in {1, 2, 7, 12}
      BY <3>2, ProcessScript DEF Step, Table, CallWith
    <3>3. CASE at \in {3, 4, 5, 8, 9, 13, 14}
      BY <3>3, ProcessScript DEF Step, Expect
    <3>4. CASE at \in {6, 10, 11}
      BY <3>4, ProcessScript DEF Step, Default, ClearDefault
    <3>5. QED BY <3>1, <3>2, <3>3, <3>4
  <2>2. QED BY <2>1, StepActs, ProcessScript DEF Step
<1>2. Running("cmds", 4)' BY <1>1 DEF Running
<1>3. ProcessControls /\ ProcessConfigured(at)
  BY <1>1, ProcessInControl
<1>4. NoneDue({"GetAddress", "ReleaseAddress"})'
  BY <1>1, <1>3 DEF ProcessConfigured, NoneDue
<1>5. at \in 1 .. 14
  BY <1>1, <1>3 DEF ProcessControls
<1>6. CASE at = 1
  <2>1. UtTypeOK' /\ Returned' /\ UNCHANGED broken
    BY <1>1, <1>6, ProcessScript, TableActs
  <2>2. QED BY <1>1, <1>2, <1>3, <1>4, <1>6, <2>1 DEF ProcessCmdInv, ProcessControls,
      ProcessConfigured, Logged, Calls
<1>7. CASE at \in {2, 7, 12}
  <2>1. UtTypeOK' /\ Called("ProcessCmd", Cmd("PROCESS"))' /\ UNCHANGED broken
    BY <1>1, <1>7, ProcessScript, CallActs
  <2>2. QED BY <1>1, <1>2, <1>3, <1>4, <1>7, <2>1 DEF ProcessCmdInv, ProcessControls,
      ProcessConfigured, Logged, Calls
<1>8. CASE at \in {3, 4, 5, 8, 9, 13, 14}
  <2>1. UtTypeOK' /\ Returned' /\ UNCHANGED <<unit, out, broken>>
    BY <1>1, <1>8, ProcessScript, ExpectActs
  <2>2. \A text : Said(text)' <=> Said(text)
    BY <2>1 DEF Said
  <2>3. ProcessControls'
    BY <1>1, <1>3, <1>8, <2>1, <2>2 DEF ProcessControls, Processing, Logged, Calls
  <2>4. ProcessConfigured(at)'
    BY <1>1, <1>3, <1>4, <1>8, <2>1 DEF ProcessConfigured
  <2>5. QED BY <1>2, <2>1, <2>3, <2>4, ProcessInControl, PTL
<1>9. CASE at \in {6, 10, 11}
  <2>1. UtTypeOK' /\ Returned'
        /\ broken' = IF at = 6 THEN broken \cup {"GetAddress"}
                     ELSE IF at = 10 THEN broken \ {"GetAddress"}
                     ELSE broken \cup {"ReleaseAddress"}
    <3>1. "GetAddress" \in Stubs /\ "ReleaseAddress" \in Stubs BY DEF Stubs
    <3>2. CASE at = 6 BY <1>1, <3>1, <3>2, ProcessScript, StubActs
    <3>3. CASE at = 10 BY <1>1, <3>1, <3>3, ProcessScript, StubActs
    <3>4. CASE at = 11 BY <1>1, <3>1, <3>4, ProcessScript, StubActs
    <3>5. QED BY <1>9, <3>2, <3>3, <3>4
  <2>2. QED BY <1>1, <1>2, <1>3, <1>4, <1>9, <2>1 DEF ProcessCmdInv, ProcessControls,
      ProcessConfigured, Logged, Calls
<1>10. QED BY <1>5, <1>6, <1>7, <1>8, <1>9

LEMMA ProcessRuns ==
  ASSUME unit = "ProcessCmd", UnitRuns
  PROVE  \/ pc = "Receive" /\ \E k \in DOMAIN pipe : Handles(pipe[k])
         \/ pc = "LogValues" /\ LogsValues
         \/ pc = "LogCrc" /\ LogsCrc
<1>1. ~ InitCalls /\ ~ RunLoopStub /\ ~ MainReceives /\ ~ MainExits
  BY DEF InitCalls, RunLoopStub, MainReceives, MainExits
<1>2. ASSUME NEW m PROVE ~ Dispatches(m) /\ ~ VerifiesLength(m)
  BY DEF Dispatches, VerifiesLength
<1>3. ASSUME NEW m, Handles(m) PROVE pc = "Receive"
  BY <1>3 DEF Handles, ProcessCmd, Take
<1>4. QED BY <1>1, <1>2, <1>3 DEF UnitRuns, LogsValues, LogsCrc, LogValues, LogCrc

\* GetAddress succeeds, or its failure is logged and returned.
LEMMA AddressTaken ==
  ASSUME UtTypeOK, Called("ProcessCmd", Cmd("PROCESS")), UnitRuns
  PROVE  /\ Stubbed({"GetAddress"})
         /\ calls'["GetAddress"] = UpTo(calls["GetAddress"] + 1)
         /\ Configured("GetAddress") =>
              /\ pc' = "RunLoop" /\ Said("GetAddressFailed")'
              /\ calls'["WriteToSysLog"] = UpTo(calls["WriteToSysLog"] + 1)
         /\ ~ Configured("GetAddress") =>
              pc' = "LogValues" /\ calls'["WriteToSysLog"] = UpTo(calls["WriteToSysLog"])
<1> DEFINE m == Cmd("PROCESS")
<1>1. Handles(m)
  BY CalledRuns DEF Dispatches, VerifiesLength, Called
<1>2. /\ CallStubs({"GetAddress"}) /\ ProcessCmd(m)
      /\ Said("GetAddressFailed")' <=> Configured("GetAddress")
  BY <1>1 DEF Handles, Called
<1>3. \/ pc' = "LogValues" /\ out' = <<>>
      \/ pc' = "RunLoop" /\ out' = <<SysLog("GetAddressFailed", <<>>)>>
  BY <1>2 DEF ProcessCmd, Take, Silent, Emit
<1>4. /\ {"GetAddress"} \in SUBSET (Stubs \ {"WriteToSysLog"})
      /\ "GetAddress" \in Stubs \ {"WriteToSysLog"} /\ "WriteToSysLog" \in Stubs
      /\ In("GetAddress", {"GetAddress"}) = 1 /\ In("WriteToSysLog", {"GetAddress"}) = 0
  BY DEF Stubs, In
<1>5. calls["GetAddress"] \in Nat /\ calls["WriteToSysLog"] \in Nat
  BY <1>4, MaxCallsAssumption DEF UtTypeOK
<1>6. CASE pc' = "LogValues" /\ out' = <<>>
  <2>1. ~ Said("GetAddressFailed")'
    BY <1>6 DEF Said
  <2>2. /\ Stubbed({"GetAddress"})
        /\ \A s \in Stubs : calls'[s] = UpTo(calls[s] + In(s, {"GetAddress"}))
    BY <1>2, <1>6, CallsWithNone
  <2>3. calls'["WriteToSysLog"] = UpTo(calls["WriteToSysLog"])
    BY <1>4, <1>5, <2>2
  <2>4. QED BY <1>2, <1>4, <1>6, <2>1, <2>2, <2>3
<1>7. CASE pc' = "RunLoop" /\ out' = <<SysLog("GetAddressFailed", <<>>)>>
  <2>1. Said("GetAddressFailed")'
    BY <1>7, SaidOfOne DEF SysLog
  <2>2. /\ Stubbed({"GetAddress"})
        /\ calls'["WriteToSysLog"] = UpTo(calls["WriteToSysLog"] + 1)
        /\ \A s \in Stubs \ {"WriteToSysLog"} : calls'[s] = UpTo(calls[s] + In(s, {"GetAddress"}))
    BY <1>2, <1>4, <1>7, CallsOneLog
  <2>3. QED BY <1>2, <1>4, <1>7, <2>1, <2>2
<1>8. QED BY <1>3, <1>6, <1>7

LEMMA ValuesLogged ==
  ASSUME UtTypeOK, unit = "ProcessCmd", pc = "LogValues", UnitRuns
  PROVE  /\ Stubbed({}) /\ pc' = "LogCrc"
         /\ calls'["GetAddress"] = UpTo(calls["GetAddress"])
         /\ calls'["WriteToSysLog"] = UpTo(calls["WriteToSysLog"] + 1)
<1>1. CallStubs({}) /\ LogValues
  BY ProcessRuns DEF LogsValues
<1>2. pc' = "LogCrc" /\ out' = <<SysLog("Values", <<active.Int1, active.Int2>>)>>
  BY <1>1 DEF LogValues, Emit
<1>3. /\ Stubbed({})
      /\ calls'["WriteToSysLog"] = UpTo(calls["WriteToSysLog"] + 1)
      /\ \A s \in Stubs \ {"WriteToSysLog"} : calls'[s] = UpTo(calls[s] + In(s, {}))
  BY <1>1, <1>2, CallsOneLog
<1>4. "GetAddress" \in Stubs \ {"WriteToSysLog"}
  BY DEF Stubs
<1>5. QED BY <1>2, <1>3, <1>4, NothingTaken

\* The log of the CRC is the stub of GetCrc's; a failing release is logged.
LEMMA CrcLogged ==
  ASSUME UtTypeOK, suite = "cmds", unit = "ProcessCmd", pc = "LogCrc", UnitRuns
  PROVE  /\ Stubbed({"ReleaseAddress"}) /\ pc' = "RunLoop" /\ ~ Said("GetAddressFailed")'
         /\ calls'["GetAddress"] = UpTo(calls["GetAddress"])
         /\ Configured("ReleaseAddress") =>
              /\ Said("ReleaseFailed")'
              /\ calls'["WriteToSysLog"] = UpTo(calls["WriteToSysLog"] + 1)
         /\ ~ Configured("ReleaseAddress") =>
              /\ ~ Said("ReleaseFailed")'
              /\ calls'["WriteToSysLog"] = UpTo(calls["WriteToSysLog"])
<1> DEFINE S == {"ReleaseAddress"}
           p == SysLog("Crc", <<active.Int1, active.Int2>>)
           q == SysLog("ReleaseFailed", <<>>)
<1>1. /\ LogCrc /\ CallStubs(S) /\ Said("Crc")'
      /\ Said("ReleaseFailed")' <=> Configured("ReleaseAddress")
  BY ProcessRuns DEF LogsCrc
<1>2. pc' = "RunLoop" /\ out' \in {<<p>>, <<p, q>>}
  <2>1. PICK crc \in {p, SysLog("GetInfoFailed", <<>>)} : out' \in {<<crc>>, <<crc, q>>}
    BY <1>1 DEF LogCrc
  <2>2. crc.text = "Crc"
    BY <1>1, <2>1, SaidOfOne, SaidOfTwo DEF SysLog
  <2>3. QED BY <1>1, <2>1, <2>2 DEF LogCrc, SysLog
<1>3. p.text = "Crc" /\ q.text = "ReleaseFailed"
  BY DEF SysLog
<1>4. /\ "GetAddress" \in Stubs /\ "WriteToSysLog" \in Stubs
      /\ In("GetAddress", S) = 0 /\ In("WriteToSysLog", S) = 0
  BY DEF Stubs, In
<1>5. calls["GetAddress"] \in Nat /\ calls["WriteToSysLog"] \in Nat
  BY <1>4, MaxCallsAssumption DEF UtTypeOK
<1>6. /\ \A s \in Stubs : By(s, p) = IF s = "GetCrc" THEN 1 ELSE 0
      /\ \A s \in Stubs : By(s, q) = IF s = "WriteToSysLog" THEN 1 ELSE 0
  BY CountOfSysLog
<1> HIDE DEF p, q
<1>7. CASE out' = <<p>>
  <2>1. ~ Said("GetAddressFailed")' /\ ~ Said("ReleaseFailed")'
    BY <1>3, <1>7, SaidOfOne
  <2>2. Stubbed(S) /\ \A s \in Stubs : calls'[s] = UpTo(calls[s] + In(s, S) + By(s, p))
    BY <1>1, <1>7, CallsWithOne
  <2>3. /\ calls'["GetAddress"] = UpTo(calls["GetAddress"])
        /\ calls'["WriteToSysLog"] = UpTo(calls["WriteToSysLog"])
    BY <1>4, <1>5, <1>6, <2>2
  <2>4. QED BY <1>1, <1>2, <2>1, <2>2, <2>3
<1>8. CASE out' = <<p, q>>
  <2>1. ~ Said("GetAddressFailed")' /\ Said("ReleaseFailed")'
    BY <1>3, <1>8, SaidOfTwo
  <2>2. /\ Stubbed(S)
        /\ \A s \in Stubs : calls'[s] = UpTo(calls[s] + In(s, S) + (By(s, p) + By(s, q)))
    BY <1>1, <1>8, CallsWithTwo
  <2>3. /\ calls'["GetAddress"] = UpTo(calls["GetAddress"])
        /\ calls'["WriteToSysLog"] = UpTo(calls["WriteToSysLog"] + 1)
    BY <1>4, <1>5, <1>6, <2>2
  <2>4. QED BY <1>1, <1>2, <2>1, <2>2, <2>3
<1>9. QED BY <1>2, <1>7, <1>8

LEMMA ProcessTestRuns ==
  ASSUME UtTypeOK, Running("cmds", 4), ProcessCmdInv, UnitRuns
  PROVE  UtTypeOK' /\ Running("cmds", 4)' /\ ProcessCmdInv'
<1> DEFINE P == {"GetAddress", "ReleaseAddress"}
<1>1. ~ Returned BY UnitIsRunning
<1>2. \/ at = 3 /\ Called("ProcessCmd", Cmd("PROCESS")) /\ Logged(0, 0)
      \/ at = 3 /\ Processing /\ pc = "LogValues" /\ Logged(0, 1)
      \/ at = 3 /\ Processing /\ pc = "LogCrc" /\ Logged(1, 1)
      \/ at = 8 /\ Called("ProcessCmd", Cmd("PROCESS")) /\ Calls("WriteToSysLog", 1)
      \/ at = 13 /\ Called("ProcessCmd", Cmd("PROCESS")) /\ Calls("WriteToSysLog", 2)
      \/ at = 13 /\ Processing /\ pc = "LogValues" /\ Calls("WriteToSysLog", 2)
      \/ at = 13 /\ Processing /\ pc = "LogCrc" /\ Calls("WriteToSysLog", 3)
  BY <1>1 DEF ProcessCmdInv
<1>3. NoneDue(P) /\ broken = (IF at = 8 THEN {"GetAddress"} ELSE IF at = 13 THEN {"ReleaseAddress"} ELSE {})
  BY <1>2, ProcessInControl DEF ProcessConfigured
<1>4. /\ Configured("GetAddress") <=> at = 8
      /\ Configured("ReleaseAddress") <=> at = 13
  BY <1>2, <1>3 DEF Configured, NoneDue
<1>5. ASSUME NEW S, Stubbed(S)
      PROVE  /\ UtTypeOK' /\ Running("cmds", 4)' /\ ProcessConfigured(at)'
             /\ UNCHANGED <<at, unit>>
  <2>1. P \subseteq Stubs BY DEF Stubs
  <2>2. NoneDue(P)' BY <1>3, <1>5, <2>1 DEF Stubbed, NoneDue
  <2>3. QED BY <1>2, <1>3, <1>5, <2>2 DEF Stubbed, Running, ProcessConfigured
<1>6. ASSUME ProcessConfigured(at)', UNCHANGED <<at, unit>>,
             \/ /\ Processing /\ ~ Returned' /\ pc' = "LogValues"
                /\ (at = 3 /\ Logged(0, 1)') \/ (at = 13 /\ Calls("WriteToSysLog", 2)')
             \/ /\ Processing /\ ~ Returned' /\ pc' = "LogCrc"
                /\ (at = 3 /\ Logged(1, 1)') \/ (at = 13 /\ Calls("WriteToSysLog", 3)')
             \/ ProcessControls'
      PROVE  ProcessCmdInv'
  <2>1. CASE ProcessControls' BY <1>6, <2>1, ProcessInControl, PTL
  <2>2. QED BY <1>6, <2>1 DEF ProcessCmdInv, ProcessConfigured, Processing
<1>7. CASE Called("ProcessCmd", Cmd("PROCESS")) /\ at # 8
  <2>1. /\ Stubbed({"GetAddress"}) /\ pc' = "LogValues"
        /\ calls'["GetAddress"] = UpTo(calls["GetAddress"] + 1)
        /\ calls'["WriteToSysLog"] = UpTo(calls["WriteToSysLog"])
    BY <1>4, <1>7, AddressTaken
  <2>2. ~ Returned' BY <2>1 DEF Returned
  <2>3. Processing BY <1>7 DEF Called, Processing
  <2>4. (at = 3 /\ Logged(0, 1)') \/ (at = 13 /\ Calls("WriteToSysLog", 2)')
    BY <1>2, <1>7, <2>1, UpToExact DEF Called, Logged, Calls
  <2>5. QED BY <1>5, <1>6, <2>1, <2>2, <2>3, <2>4
<1>8. CASE Called("ProcessCmd", Cmd("PROCESS")) /\ at = 8
  <2>1. /\ Stubbed({"GetAddress"}) /\ pc' = "RunLoop" /\ Said("GetAddressFailed")'
        /\ calls'["WriteToSysLog"] = UpTo(calls["WriteToSysLog"] + 1)
    BY <1>4, <1>8, AddressTaken
  <2>2. Returned' /\ Processing' BY <1>5, <1>8, <2>1 DEF Called, Returned, Processing
  <2>3. Calls("WriteToSysLog", 2)'
    BY <1>2, <1>8, <2>1, UpToExact DEF Called, Calls
  <2>4. ProcessControls'
    BY <1>5, <1>8, <2>1, <2>2, <2>3 DEF ProcessControls
  <2>5. QED BY <1>5, <1>6, <2>1, <2>4
<1>9. CASE Processing /\ pc = "LogValues"
  <2>1. /\ Stubbed({}) /\ pc' = "LogCrc"
        /\ calls'["GetAddress"] = UpTo(calls["GetAddress"])
        /\ calls'["WriteToSysLog"] = UpTo(calls["WriteToSysLog"] + 1)
    BY <1>9, ValuesLogged DEF Processing
  <2>2. ~ Returned' BY <2>1 DEF Returned
  <2>3. (at = 3 /\ Logged(1, 1)') \/ (at = 13 /\ Calls("WriteToSysLog", 3)')
    BY <1>2, <1>9, <2>1, UpToExact DEF Called, Logged, Calls
  <2>4. QED BY <1>5, <1>6, <1>9, <2>1, <2>2, <2>3
<1>10. CASE Processing /\ pc = "LogCrc"
  <2>1. /\ Stubbed({"ReleaseAddress"}) /\ pc' = "RunLoop" /\ ~ Said("GetAddressFailed")'
        /\ calls'["GetAddress"] = UpTo(calls["GetAddress"])
        /\ at = 13 => /\ Said("ReleaseFailed")'
                      /\ calls'["WriteToSysLog"] = UpTo(calls["WriteToSysLog"] + 1)
        /\ at # 13 => /\ ~ Said("ReleaseFailed")'
                      /\ calls'["WriteToSysLog"] = UpTo(calls["WriteToSysLog"])
    BY <1>4, <1>10, CrcLogged DEF Processing, Running
  <2>2. Returned' /\ Processing' BY <1>5, <1>10, <2>1 DEF Returned, Processing
  <2>3. /\ at = 3 => Logged(1, 1)'
        /\ at = 13 => Calls("WriteToSysLog", 4)'
    BY <1>2, <1>10, <2>1, UpToExact DEF Called, Logged, Calls
  <2>4. at = 3 \/ at = 13
    BY <1>2, <1>10 DEF Called
  <2>5. ProcessControls'
    BY <1>5, <2>1, <2>2, <2>3, <2>4 DEF ProcessControls
  <2>6. QED BY <1>5, <1>6, <2>1, <2>5
<1>11. QED BY <1>2, <1>7, <1>8, <1>9, <1>10

(***************************************************************************)
(* A test begins with everything about the stubs forgotten.                *)
(***************************************************************************)
Fresh ==
  /\ Returned /\ at = 1
  /\ calls = [s \in Stubs |-> 0] /\ due = [s \in Stubs |-> 0]
  /\ broken = {} /\ hook = NoHook

LEMMA FreshTyped == Fresh => UtTypeOK
<1>1. NoHook \in [id : HookIds, text : HookTexts, matches : 0 .. MaxCalls]
  BY MaxCallsAssumption DEF NoHook, HookIds, HookTexts
<1>2. QED BY <1>1, MaxCallsAssumption DEF Fresh, UtTypeOK

LEMMA FreshTest ==
  Fresh => /\ Left => MainInv
           /\ InitInv
           /\ TaskPipeInv /\ ProcessGroundCommandInv /\ VerifyCmdLengthInv
           /\ ReportHousekeepingInv /\ NoopCmdInv /\ ResetCountersCmdInv /\ ProcessCmdInv
           /\ DisplayParamCmdInv
           /\ TblValidationInv /\ GetCrcInv
<1> SUFFICES ASSUME Fresh
             PROVE  /\ Left => MainInv
                    /\ InitInv
                    /\ TaskPipeInv /\ ProcessGroundCommandInv /\ VerifyCmdLengthInv
                    /\ ReportHousekeepingInv /\ NoopCmdInv /\ ResetCountersCmdInv /\ ProcessCmdInv
                    /\ DisplayParamCmdInv
                    /\ TblValidationInv /\ GetCrcInv
  OBVIOUS
<1>1. Returned /\ at = 1 /\ broken = {} /\ \A s \in Stubs : calls[s] = 0 /\ due[s] = 0
  BY DEF Fresh
<1>2. InitStubs \subseteq Stubs
  BY DEF InitStubs, Stubs
<1>3. Left => MainInv
  BY <1>1, <1>2 DEF MainInv, Waits, LoopDue, NoneDue, Calls, Stubs
<1>4. InitInv
  <2>1. DueFor("none", "Init") /\ Reported(0, 0)
    BY <1>1, <1>2 DEF DueFor, NoneDue, Reported, Calls, Stubs
  <2>2. QED BY <1>1, <2>1 DEF InitInv, InitRound
<1>5. TaskPipeInv /\ VerifyCmdLengthInv
  BY <1>1 DEF TaskPipeInv, VerifyCmdLengthInv
<1>6. ProcessGroundCommandInv
  <2>1. \A j \in 1 .. 4 : Handlers[DispatchCodes[j]] \in Stubs
    <3>1. \A j : j \in 1 .. 4 <=> j = 1 \/ j = 2 \/ j = 3 \/ j = 4 OBVIOUS
    <3>2. QED BY <3>1 DEF Handlers, DispatchCodes, Stubs
  <2>2. QED BY <1>1, <2>1 DEF ProcessGroundCommandInv, Calls
<1>7. ReportHousekeepingInv /\ NoopCmdInv /\ ResetCountersCmdInv /\ DisplayParamCmdInv
  BY <1>1
  DEF ReportHousekeepingInv, Calls, Stubs, NoopCmdInv, ResetCountersCmdInv, DisplayParamCmdInv,
      CommandInv
<1>8. ProcessCmdInv
  BY <1>1 DEF ProcessCmdInv, NoneDue, Logged, Calls, Stubs
<1>9. TblValidationInv /\ GetCrcInv
  BY <1>1 DEF TblValidationInv, GetCrcInv, Calls, Stubs
<1>10. QED BY <1>3, <1>4, <1>5, <1>6, <1>7, <1>8, <1>9

LEMMA SuiteLengths ==
  /\ DOMAIN Suites = {"blinker_app", "dispatch", "cmds", "utils"}
  /\ Len(Suites["blinker_app"]) = 2 /\ Len(Suites["dispatch"]) = 3
  /\ Len(Suites["cmds"]) = 5 /\ Len(Suites["utils"]) = 2
  BY DEF Suites

LEMMA UInvInit == UtInit => UInv
<1> SUFFICES ASSUME UtInit PROVE UInv
  OBVIOUS
<1>1. Fresh /\ Left /\ nth = 1 /\ suite \in DOMAIN Suites
  BY DEF UtInit, Fresh, Returned, Left
<1>2. UtTypeOK
  BY <1>1, FreshTyped
<1>3. MainInv /\ TaskPipeInv /\ ReportHousekeepingInv /\ TblValidationInv
  BY <1>1, FreshTest
<1>4. TestInv
  BY <1>1, <1>3, SuiteLengths DEF TestInv, Running
<1>5. QED BY <1>2, <1>4 DEF UInv

LEMMA UInvNextTest ==
  ASSUME UInv, NextTest
  PROVE  UInv'
<1>1. Fresh'
  BY DEF NextTest, Blinker_UT_Setup, Fresh, Returned, vars
<1>2. UtTypeOK'
  BY <1>1, FreshTyped, PTL
<1>3. (/\ InitInv
       /\ ProcessGroundCommandInv /\ VerifyCmdLengthInv
       /\ NoopCmdInv /\ ResetCountersCmdInv /\ ProcessCmdInv /\ DisplayParamCmdInv
       /\ GetCrcInv)'
  BY <1>1, FreshTest, PTL
<1>4. suite' = suite /\ nth' = nth + 1 /\ nth < Len(Suites[suite])
  BY DEF NextTest
<1>5. \/ Running("blinker_app", 2)'
      \/ Running("dispatch", 2)' \/ Running("dispatch", 3)'
      \/ Running("cmds", 2)' \/ Running("cmds", 3)' \/ Running("cmds", 4)' \/ Running("cmds", 5)'
      \/ Running("utils", 2)'
  <2>1. \/ suite = "blinker_app" /\ nth \in 1 .. 2
        \/ suite = "dispatch" /\ nth \in 1 .. 3
        \/ suite = "cmds" /\ nth \in 1 .. 5
        \/ suite = "utils" /\ nth \in 1 .. 2
    BY DEF UInv, TestInv, Running
  <2>2. CASE suite = "blinker_app" BY <1>4, <2>1, <2>2, SuiteLengths DEF Running
  <2>3. CASE suite = "dispatch" BY <1>4, <2>1, <2>3, SuiteLengths DEF Running
  <2>4. CASE suite = "cmds"
    <3>1. nth < 5 /\ nth \in 1 .. 5 BY <1>4, <2>1, <2>4, SuiteLengths
    <3>2. nth' \in 2 .. 5 /\ suite' = "cmds" BY <1>4, <2>4, <3>1
    <3>3. QED BY <3>2 DEF Running
  <2>5. CASE suite = "utils" BY <1>4, <2>1, <2>5, SuiteLengths DEF Running
  <2>6. QED BY <2>1, <2>2, <2>3, <2>4, <2>5
<1>6. TestInv'
  BY <1>3, <1>5 DEF TestInv
<1>7. QED BY <1>2, <1>6 DEF UInv

\* Every step of a test or of a function under test keeps the invariant.
LEMMA UInvActs ==
  ASSUME UInv, TestActs \/ UnitRuns
  PROVE  UInv'
<1>1. UtTypeOK /\ TestInv BY DEF UInv
<1>2. CASE Running("blinker_app", 1) /\ MainInv
  BY <1>1, <1>2, MainTestActs, MainTestRuns DEF UInv, TestInv
<1>3. CASE Running("blinker_app", 2) /\ InitInv
  BY <1>1, <1>3, InitTestActs, InitTestRuns DEF UInv, TestInv
<1>4. CASE Running("dispatch", 1) /\ TaskPipeInv
  BY <1>1, <1>4, TaskPipeTestActs, TaskPipeTestRuns DEF UInv, TestInv
<1>5. CASE Running("dispatch", 2) /\ ProcessGroundCommandInv
  BY <1>1, <1>5, DispatchTestActs, DispatchTestRuns DEF UInv, TestInv
<1>6. CASE Running("dispatch", 3) /\ VerifyCmdLengthInv
  BY <1>1, <1>6, VerifyTestActs, VerifyTestRuns DEF UInv, TestInv
<1>7. CASE Running("cmds", 1) /\ ReportHousekeepingInv
  BY <1>1, <1>7, HousekeepingTestActs, HousekeepingTestRuns DEF UInv, TestInv
<1>8. /\ {"NOOP_INF", "RESET_INF", "VALUE_INF"} \subseteq EventIds
      /\ {"any", "ResetCounters", "Value"} \subseteq HookTexts
      /\ {"NoopCmd", "ResetCountersCmd", "DisplayParamCmd"} \subseteq DOMAIN CommandEvents
      /\ CommandEvents["NoopCmd"].id = "NOOP_INF"
      /\ CommandEvents["ResetCountersCmd"] = [id |-> "RESET_INF", text |-> "ResetCounters"]
      /\ CommandEvents["DisplayParamCmd"] = [id |-> "VALUE_INF", text |-> "Value"]
  BY DEF EventIds, HookTexts, Texts, CommandEvents
<1>9. CASE Running("cmds", 2) /\ NoopCmdInv
  <2>1. UtTypeOK' /\ Running("cmds", 2)' /\ NoopCmdInv'
    BY <1>1, <1>8, <1>9, CommandScripts, CommandTestActs, CommandTestRuns DEF NoopCmdInv
  <2>2. QED BY <2>1 DEF UInv, TestInv
<1>10. CASE Running("cmds", 3) /\ ResetCountersCmdInv
  <2>1. UtTypeOK' /\ Running("cmds", 3)' /\ ResetCountersCmdInv'
    BY <1>1, <1>8, <1>10, CommandScripts, CommandTestActs, CommandTestRuns
    DEF ResetCountersCmdInv
  <2>2. QED BY <2>1 DEF UInv, TestInv
<1>11. CASE Running("cmds", 4) /\ ProcessCmdInv
  BY <1>1, <1>11, ProcessTestActs, ProcessTestRuns DEF UInv, TestInv
<1>12. CASE Running("cmds", 5) /\ DisplayParamCmdInv
  <2>1. UtTypeOK' /\ Running("cmds", 5)' /\ DisplayParamCmdInv'
    BY <1>1, <1>8, <1>12, CommandScripts, CommandTestActs, CommandTestRuns
    DEF DisplayParamCmdInv
  <2>2. QED BY <2>1 DEF UInv, TestInv
<1>13. CASE Running("utils", 1) /\ TblValidationInv
  BY <1>1, <1>13, ValidationTestActs, ValidationTestRuns DEF UInv, TestInv
<1>14. CASE Running("utils", 2) /\ GetCrcInv
  BY <1>1, <1>14, GetCrcTestActs, GetCrcTestRuns DEF UInv, TestInv
<1>15. QED
  BY <1>1, <1>2, <1>3, <1>4, <1>5, <1>6, <1>7, <1>9, <1>10, <1>11, <1>12, <1>13, <1>14
  DEF TestInv

\* A step that changes none of these variables keeps it as well.
LEMMA UInvStutters ==
  ASSUME UInv, UNCHANGED <<vars, utVars>>
  PROVE  UInv'
<1>1. UNCHANGED <<pc, RunStatus, pipe, active, out, suite, nth, at, unit, calls, due, broken, hook>>
  BY DEF vars, tblVars, busVars, utVars, runVars, stubVars
<1>2. UtTypeOK'
  BY <1>1 DEF UInv, UtTypeOK
<1> USE DEF Running, Returned, Calls, Seen, Called
<1>3. MainInv => MainInv'
  BY <1>1
  DEF MainInv, Left, Entering, Leaving, InitUnderWay, InitOver, DueFor, OnlyDue, NoneDue, Waits,
      LoopDue
<1>4. InitInv => InitInv'
  BY <1>1
  DEF InitInv, InitRound, InitUnderWay, InitOver, DueFor, OnlyDue, NoneDue, Reported
<1>5. (TaskPipeInv => TaskPipeInv') /\ (VerifyCmdLengthInv => VerifyCmdLengthInv')
  BY <1>1 DEF TaskPipeInv, VerifyCmdLengthInv
<1>6. ProcessGroundCommandInv => ProcessGroundCommandInv'
  BY <1>1 DEF ProcessGroundCommandInv, Dispatched
<1>7. ReportHousekeepingInv => ReportHousekeepingInv'
  BY <1>1 DEF ReportHousekeepingInv
<1>8. /\ NoopCmdInv => NoopCmdInv'
      /\ ResetCountersCmdInv => ResetCountersCmdInv'
      /\ DisplayParamCmdInv => DisplayParamCmdInv'
  BY <1>1 DEF NoopCmdInv, ResetCountersCmdInv, DisplayParamCmdInv, CommandInv
<1>9. ProcessCmdInv => ProcessCmdInv'
  BY <1>1 DEF ProcessCmdInv, NoneDue, Logged, Processing, Said
<1>10. (TblValidationInv => TblValidationInv') /\ (GetCrcInv => GetCrcInv')
  BY <1>1 DEF TblValidationInv, GetCrcInv
<1>11. TestInv'
  BY <1>1, <1>3, <1>4, <1>5, <1>6, <1>7, <1>8, <1>9, <1>10 DEF UInv, TestInv
<1>12. QED BY <1>2, <1>11 DEF UInv

\* The invariant that goes through the twelve tests: at each of their steps
\* it says what the stubs have counted and what they are set to return.
THEOREM TestsInvariant == UtSpec => []UInv
<1>1. UtInit => UInv
  BY UInvInit
<1>2. UInv /\ [UtNext]_<<vars, utVars>> => UInv'
  BY UInvNextTest, UInvActs, UInvStutters DEF UtNext, TestActs
<1>3. QED BY <1>1, <1>2, PTL DEF UtSpec

(***************************************************************************)
(* What the tests assert.                                                  *)
(***************************************************************************)
LEMMA ObservedValues ==
  /\ Observed("RunStatus") = RunStatus /\ Observed("status") = Status
  /\ Observed("matches") = hook.matches
  /\ \A s \in Stubs : Observed(s) = calls[s]
<1>1. \A s \in Stubs : s # "RunStatus" /\ s # "status" /\ s # "matches"
  BY DEF Stubs
<1>2. QED BY <1>1 DEF Observed

LEMMA ExpectedOf ==
  ASSUME NEW what, NEW value, Step = Expect(what, value)
  PROVE  Step.what = what /\ Step.value = value
  BY DEF Expect

LEMMA MainAsserts ==
  ASSUME Running("blinker_app", 1), MainInv, Asserting
  PROVE  Observed(Step.what) = Step.value
<1>1. Returned /\ Step = MainTest[at] /\ Step.do = "expect" /\ at <= 13
  BY MainScript DEF Asserting, Step
<1>2. Left
  BY <1>1 DEF MainInv, Returned, Left
<1>3. at \in {2, 5, 8, 13}
  BY <1>1, MainScript DEF MainInv, Call, Deferred, CheckEvent
<1>4. /\ at = 2 => Calls("ExitApp", 1)
      /\ at = 5 => RunStatus = "APP_ERROR"
      /\ at = 8 => Calls("ReceiveBuffer", 1)
      /\ at = 13 => hook.matches = 1
  BY <1>2, <1>3
  DEF MainInv, Left, Entering, Leaving, InitUnderWay, InitSteps, InitOver, Seen
<1>5. CASE at = 2 BY <1>1, <1>4, <1>5, MainScript, ExpectedOf, ObservedValues DEF Stubs, Calls
<1>6. CASE at = 5 BY <1>1, <1>4, <1>6, MainScript, ExpectedOf, ObservedValues
<1>7. CASE at = 8 BY <1>1, <1>4, <1>7, MainScript, ExpectedOf, ObservedValues DEF Stubs, Calls
<1>8. CASE at = 13 BY <1>1, <1>4, <1>8, MainScript, ExpectedOf, ObservedValues
<1>9. QED BY <1>3, <1>5, <1>6, <1>7, <1>8

LEMMA InitAsserts ==
  ASSUME Running("blinker_app", 2), InitInv, Asserting
  PROVE  Observed(Step.what) = Step.value
<1>1. Returned /\ Step = InitTest[at] /\ Step.do = "expect" /\ at <= 22
  BY InitScript DEF Asserting, Step
<1>2. at \in {2, 5, 6, 9, 10, 13, 14, 17, 18, 21, 22}
  BY <1>1, InitScript DEF InitInv, InitRound, Call, Deferred
<1>3. /\ unit = "Init" /\ RunStatus = (IF at = 2 THEN "APP_RUN" ELSE "APP_ERROR")
      /\ at = 6 => Calls("WriteToSysLog", 1)
      /\ at = 10 => Calls("SendEvent", 2)
      /\ at = 14 => Calls("SendEvent", 3)
      /\ at = 18 => Calls("SendEvent", 4)
      /\ at = 22 => Calls("SendEvent", 6)
  BY <1>1, <1>2
  DEF InitInv, InitRound, Returned, InitUnderWay, InitSteps, InitOver, InitEvents, InitLogs,
      Reported
<1>4. CASE at \in {2, 5, 9, 13, 17, 21}
  <2>1. Step = Expect("status", IF at = 2 THEN "success" ELSE "error")
    BY <1>1, <1>4, InitScript
  <2>2. Status = IF at = 2 THEN "success" ELSE "error"
    BY <1>3 DEF Status
  <2>3. QED BY <2>1, <2>2, ExpectedOf, ObservedValues
<1>5. CASE at = 6 BY <1>1, <1>3, <1>5, InitScript, ExpectedOf, ObservedValues DEF Stubs, Calls
<1>6. CASE at \in {10, 14, 18, 22}
  <2>1. Step = Expect("SendEvent", calls["SendEvent"])
    BY <1>1, <1>3, <1>6, InitScript DEF Calls
  <2>2. QED BY <2>1, ObservedValues DEF Stubs, Expect
<1>7. QED BY <1>2, <1>4, <1>5, <1>6

LEMMA TaskPipeAsserts ==
  ASSUME Running("dispatch", 1), TaskPipeInv, Asserting
  PROVE  Observed(Step.what) = Step.value
<1>1. Returned /\ Step = TaskPipeTest[at] /\ Step.do = "expect" /\ at <= 5
  BY TaskPipeScript DEF Asserting, Step
<1>2. at = 5
  BY <1>1, TaskPipeScript DEF TaskPipeInv, CallWith, CheckEvent
<1>3. hook.matches = 1
  BY <1>1, <1>2 DEF TaskPipeInv, Called, Returned, Seen
<1>4. QED BY <1>1, <1>2, <1>3, TaskPipeScript, ExpectedOf, ObservedValues

LEMMA VerifyAsserts ==
  ASSUME Running("dispatch", 3), VerifyCmdLengthInv, Asserting
  PROVE  Observed(Step.what) = Step.value
<1>1. Returned /\ Step = VerifyCmdLengthTest[at] /\ Step.do = "expect" /\ at <= 5
  BY VerifyScript DEF Asserting, Step
<1>2. at \in {3, 5}
  BY <1>1, VerifyScript DEF VerifyCmdLengthInv, CallWith, CheckEvent
<1>3. hook.matches = IF at = 3 THEN 0 ELSE 1
  BY <1>1, <1>2 DEF VerifyCmdLengthInv, Called, Returned, Seen
<1>4. QED BY <1>1, <1>2, <1>3, VerifyScript, ExpectedOf, ObservedValues

LEMMA DispatchAsserts ==
  ASSUME Running("dispatch", 2), ProcessGroundCommandInv, Asserting
  PROVE  Observed(Step.what) = Step.value
<1>1. Returned /\ Step = ProcessGroundCommandTest[at] /\ Step.do = "expect" /\ at <= 24
  BY DispatchScript DEF Asserting, Step
<1>2. at \in 1 .. 24
  BY <1>1 DEF ProcessGroundCommandInv, CallPositions
<1>3. PICK k \in 1 .. 24 : k = at
  BY <1>2
<1>4. k \notin {1, 22, 23}
  BY <1>1, <1>3, DispatchScript DEF CheckEvent, CallWith
<1>5. \A j \in 1 .. 4 : k # 5 * j - 3 /\ k # 5 * j - 1
  BY <1>1, <1>3, DispatchCalls DEF CallWith
<1>6. k \in {3, 5, 6, 8, 10, 11, 13, 15, 16, 18, 20, 21, 24}
  <2>1. /\ k # 5 * 1 - 3 /\ k # 5 * 1 - 1 /\ k # 5 * 2 - 3 /\ k # 5 * 2 - 1
        /\ k # 5 * 3 - 3 /\ k # 5 * 3 - 1 /\ k # 5 * 4 - 3 /\ k # 5 * 4 - 1
    BY <1>5
  <2>2. QED BY <1>4, <2>1
<1>7. CASE k = 24
  <2>1. hook.matches = 1
    BY <1>1, <1>3, <1>7 DEF ProcessGroundCommandInv, CallPositions, Called, Returned, Seen
  <2>2. QED BY <1>1, <1>3, <1>7, <2>1, DispatchScript, ExpectedOf, ObservedValues
<1>8. CASE k # 24
  <2>1. k \in 2 .. 22 /\ Dispatched(k)
    BY <1>1, <1>3, <1>6, <1>8 DEF ProcessGroundCommandInv, Called, Returned
  <2>2. /\ hook.matches = k \div 5
        /\ k \in {3, 5} => calls["NoopCmd"] = 1
        /\ k \in {8, 10} => calls["ResetCountersCmd"] = 1
        /\ k \in {13, 15} => calls["ProcessCmd"] = 1
        /\ k \in {18, 20} => calls["DisplayParamCmd"] = 1
    BY <2>1, DispatchedCounts DEF Seen, Calls
  <2>3. CASE k \in {6, 11, 16, 21}
    <3>1. Step = Expect("matches", k \div 5)
      BY <1>1, <1>3, <2>1, <2>3, DispatchScript, DispatchedCounts DEF DispatchSteps
    <3>2. QED BY <2>2, <3>1, ExpectedOf, ObservedValues
  <2>4. CASE k \in {3, 5, 8, 10, 13, 15, 18, 20}
    <3>1. \E s \in Stubs : Step = Expect(s, 1) /\ calls[s] = 1
      <4>1. CASE k \in {3, 5}
        BY <1>1, <1>3, <2>2, <4>1, DispatchScript DEF DispatchSteps, Handlers, Stubs
      <4>2. CASE k \in {8, 10}
        BY <1>1, <1>3, <2>2, <4>2, DispatchScript DEF DispatchSteps, Handlers, Stubs
      <4>3. CASE k \in {13, 15}
        BY <1>1, <1>3, <2>2, <4>3, DispatchScript DEF DispatchSteps, Handlers, Stubs
      <4>4. CASE k \in {18, 20}
        BY <1>1, <1>3, <2>2, <4>4, DispatchScript DEF DispatchSteps, Handlers, Stubs
      <4>5. QED BY <2>4, <4>1, <4>2, <4>3, <4>4
    <3>2. QED BY <3>1, ExpectedOf, ObservedValues
  <2>5. QED BY <1>6, <1>8, <2>3, <2>4
<1>9. QED BY <1>7, <1>8

LEMMA HousekeepingAsserts ==
  ASSUME Running("cmds", 1), ReportHousekeepingInv, Asserting
  PROVE  Observed(Step.what) = Step.value
<1>1. Returned /\ Step = Script[at] /\ Step.do = "expect" /\ at <= 4
  BY HousekeepingScript DEF Asserting, Step
<1>2. at \in 2 .. 4
  BY <1>1, HousekeepingScript DEF ReportHousekeepingInv, CallWith
<1>3. \A s \in HkStubs : calls[s] = 1
  BY <1>1, <1>2 DEF ReportHousekeepingInv, HkStubs, Called, Returned, Calls
<1>4. \E s \in HkStubs : Step = Expect(s, 1)
  BY <1>1, <1>2, HousekeepingScript DEF HkStubs
<1>5. QED BY <1>3, <1>4, ExpectedOf, ObservedValues DEF HkStubs, Stubs

LEMMA CommandAsserts ==
  ASSUME NEW u \in DOMAIN CommandEvents, NEW m, NEW id, NEW text,
         CommandTest(u, m, id, text), CommandInv(u, m, id, text), Asserting
  PROVE  Observed(Step.what) = Step.value
<1>1. Returned /\ Step = Script[at] /\ Step.do = "expect" /\ at <= 4
  BY DEF Asserting, Step, CommandTest
<1>2. at \in 3 .. 4
  BY <1>1 DEF CommandInv, CommandTest, CallWith, CheckEvent
<1>3. unit = u /\ hook.matches = 1
  BY <1>1, <1>2 DEF CommandInv, Called, Returned, Seen
<1>4. Status = "success"
  BY <1>3 DEF Status, CommandEvents
<1>5. QED BY <1>1, <1>2, <1>3, <1>4, ExpectedOf, ObservedValues DEF CommandTest

LEMMA ProcessAsserts ==
  ASSUME Running("cmds", 4), ProcessCmdInv, Asserting
  PROVE  Observed(Step.what) = Step.value
<1>1. Returned /\ Step = Script[at] /\ Step.do = "expect" /\ at <= 14
  BY ProcessScript DEF Asserting, Step
<1>2. ProcessControls
  BY <1>1, ProcessInControl
<1>3. at \in {3, 4, 5, 8, 9, 13, 14}
  BY <1>1, <1>2, ProcessScript DEF ProcessControls, Table, CallWith, Default, ClearDefault
<1>4. CASE at \in {3, 8, 13}
  <2>1. Status = IF at = 3 THEN "success" ELSE "error"
    BY <1>2, <1>4 DEF ProcessControls, Processing, Status
  <2>2. Step = Expect("status", IF at = 3 THEN "success" ELSE "error")
    BY <1>1, <1>4, ProcessScript
  <2>3. QED BY <2>1, <2>2, ExpectedOf, ObservedValues
<1>5. CASE at \in {4, 9, 14}
  <2>1. Step = Expect("WriteToSysLog", calls["WriteToSysLog"])
    BY <1>1, <1>2, <1>5, ProcessScript DEF ProcessControls, Logged, Calls
  <2>2. QED BY <2>1, ExpectedOf, ObservedValues DEF Stubs
<1>6. CASE at = 5
  <2>1. Step = Expect("GetAddress", calls["GetAddress"])
    BY <1>1, <1>2, <1>6, ProcessScript DEF ProcessControls, Logged, Calls
  <2>2. QED BY <2>1, ExpectedOf, ObservedValues DEF Stubs
<1>7. QED BY <1>3, <1>4, <1>5, <1>6

LEMMA ValidationAsserts ==
  ASSUME Running("utils", 1), TblValidationInv, Asserting
  PROVE  Observed(Step.what) = Step.value
<1>1. Step = Script[at] /\ Step.do = "expect" /\ at <= 6
  BY ValidationScript DEF Asserting, Step
<1>2. at \in {3, 6}
  BY <1>1, ValidationScript DEF TblValidationInv, Table, Call
<1>3. /\ unit = "TblValidationFunc"
      /\ active = [Int1 |-> IF at = 3 THEN 0 ELSE 1 + TblElement1Max, Int2 |-> 0]
  BY <1>2 DEF TblValidationInv
<1>4. TblValidationFunc(active) <=> at = 3
  BY <1>2, <1>3, TblElement1MaxAssumption DEF TblValidationFunc
<1>5. Status = IF at = 3 THEN "success" ELSE "error"
  BY <1>3, <1>4 DEF Status
<1>6. Step = Expect("status", IF at = 3 THEN "success" ELSE "error")
  BY <1>1, <1>2, ValidationScript
<1>7. QED BY <1>5, <1>6, ExpectedOf, ObservedValues

LEMMA GetCrcAsserts ==
  ASSUME Running("utils", 2), GetCrcInv, Asserting
  PROVE  Observed(Step.what) = Step.value
<1>1. Returned /\ Step = Script[at] /\ Step.do = "expect" /\ at <= 6
  BY GetCrcScript DEF Asserting, Step
<1>2. at \in {3, 6}
  BY <1>1, GetCrcScript DEF GetCrcInv, Call, Default, ClearDefault
<1>3. calls["WriteToSysLog"] = IF at = 3 THEN 1 ELSE 2
  BY <1>1, <1>2 DEF GetCrcInv, Returned, Calls
<1>4. Step = Expect("WriteToSysLog", IF at = 3 THEN 1 ELSE 2)
  BY <1>1, <1>2, GetCrcScript
<1>5. QED BY <1>3, <1>4, ExpectedOf, ObservedValues DEF Stubs

LEMMA UInvAsserts == UInv => AssertionsHold
<1> SUFFICES ASSUME UInv, Asserting PROVE Observed(Step.what) = Step.value
  BY DEF AssertionsHold
<1>1. {"NoopCmd", "ResetCountersCmd", "DisplayParamCmd"} \subseteq DOMAIN CommandEvents
  BY DEF CommandEvents
<1>2. CASE \/ Running("cmds", 2) /\ NoopCmdInv
           \/ Running("cmds", 3) /\ ResetCountersCmdInv
           \/ Running("cmds", 5) /\ DisplayParamCmdInv
  BY <1>1, <1>2, CommandScripts, CommandAsserts
  DEF NoopCmdInv, ResetCountersCmdInv, DisplayParamCmdInv
<1>3. CASE ~ (\/ Running("cmds", 2) /\ NoopCmdInv
              \/ Running("cmds", 3) /\ ResetCountersCmdInv
              \/ Running("cmds", 5) /\ DisplayParamCmdInv)
  BY <1>3, MainAsserts, InitAsserts, TaskPipeAsserts, DispatchAsserts, VerifyAsserts,
     HousekeepingAsserts, ProcessAsserts, ValidationAsserts, GetCrcAsserts
  DEF UInv, TestInv
<1>4. QED BY <1>2, <1>3

\* Every UtAssert_* of the coverage tests holds (coveragetest_blinker_app*.c):
\* the statuses, the stub counts that accumulate over the error paths, and
\* the number of events the hook has matched.
THEOREM TestsPass == UtSpec => []AssertionsHold
  BY TestsInvariant, UInvAsserts, PTL

================================================================================
