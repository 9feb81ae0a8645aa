# Blinker app: TLA+ models and proofs

This directory models `apps/blinker_app`, a cFS application in C that keeps a
bank of eight blinkers. A blinker is a 16-bit count and a status; every blink
message of the scheduler increments the counts of the enabled ones, and ground
commands enable, disable, reset, report and swap them. The app also has the
usual parts of a cFS app: initialization, a command pipe, command counters,
housekeeping telemetry and a table.

Paths below are relative to `src/apps/blinker_app` unless they begin with
`scripts`.

## 1. The system

One task runs `BLINKER_APP_Main`. It shares nothing with other tasks of its own
making; concurrency comes from the services around it, which act between any
two of its calls.

| Component | State | Operations | Correct when |
|---|---|---|---|
| Lifecycle (`fsw/src/blinker_app.c`) | `RunStatus`, what cFE has given it (events, pipe, subscriptions, table) | `Init` (seven cFE calls, any may fail), the run loop, the pipe read error, `ExitApp`, restart by ES | the loop is entered only with everything acquired; after an error nothing is handled and the app exits; a restart starts from zero; an exit request is honoured |
| Dispatch (`fsw/src/blinker_app_dispatch.c`) | `ErrCounter` | `TaskPipe`, `ProcessGroundCommand`, `VerifyCmdLength`, `Blink` | every subscribed message id has a case; what is rejected changes nothing but the error counter |
| Counters and telemetry (`fsw/src/blinker_app_cmds.c`) | `CmdCounter`, `ErrCounter`, `HkTlm` | NOOP, RESET, DISPLAY_PARAM, SEND_HK | a packet tells how many events there were, modulo the width |
| Bank (`fsw/src/blinker_app_cmds.c`) | `BlinkerCounts`, `BlinkerStatuses` | eight commands and `Blink` | reports agree with what was acknowledged and how often it blinked |
| Example table (`fsw/src/blinker_app_utils.c`) | active and inactive buffer, load status (in the table service) | registration, load, validation callback, management by SEND_HK, PROCESS | only valid images become active; requests are served; PROCESS sees one table |
| Software bus, events, tables, ES (cFE) | pipe, subscriptions, load status, exit request | external | modelled from the calls the app makes |
| EDS interface (`fsw/src/blinker_app_eds_dispatch.c`, `eds/`) | `ErrCounter` | an alternative `TaskPipe` around a generated dispatcher | it keeps the same contract, and counts what it rejects |
| Ground session (`scripts/test_blinker.sh`) | the operator's position in the script | thirteen commands and the sleeps between them | what its reports say is what happened, or the operator can see that a command is missing |
| Unit tests (`unit-test/`) | stub counters, configured return codes, the event hook | four programs that call the app's functions and assert | they come to an end, and every assertion holds of the app as it is |

The components interact through the pipe (messages of the ground and the
scheduler, lost when the pipe is full), through the table service (which calls
the validation function back, and waits for the app to manage its table), and
through ES (`CFE_ES_RunLoop` returns false when ES wants the app to stop).

What is hard here: seven calls that may fail one after the other; a task that
pends for ever and notices requests only between messages; table requests that
only a housekeeping message carries out; a table address used over several
calls while another task runs; one- and two-byte counters that wrap; long
sequences of enables, disables, resets and swaps; stale data across a restart;
commands and blinks that are lost on the way or refused by a full pipe, without
anyone being told.
`PROJECT.json` lists each of these hazards at its line.

## 2. The modules

| Module | Models |
|---|---|
| `CfeOutputs` | what the app hands to cFE for the outside: `out`, the events, log lines and packets of the last step |
| `SoftwareBus` | the bounded command pipe and its subscriptions (external) |
| `BlinkerBank` | counts and statuses, the eight bank commands, `Blink` |
| `ExampleTable` | the validation function, and the table service's buffers and status (external) |
| `BlinkerApp` | the task: extends the three above with initialization, run loop, dispatch, counters, telemetry, PROCESS and the environment; the properties of the app |
| `GroundView` | history variables: what an operator counts from the outputs |
| `BankLedger` | history variables: a bookkeeping of the bank from acknowledgements |
| `BlinkerContract` | the abstract specification: what the app promises its users, without pipe, calls and table buffers |
| `AppContract` | the refinement mapping from `BlinkerApp` to `BlinkerContract` |
| `BlinkerEds` | the build with `blinker_app_eds_dispatch.c`, extending `AppContract` |
| `BlinkerScript` | the session of `scripts/test_blinker.sh` composed with `BlinkerApp`, the scheduler, and a link that loses commands |
| `UnitTests` | the four test programs, their stubs and the event hook, composed with the actions of `BlinkerApp` |
| `DocClaims` | four statements of comments, texts and tests that the code does not keep |
| `BlinkerApp_proofs`, `AppContract_proofs`, `GroundView_proofs`, `BankLedger_proofs`, `BlinkerEds_proofs`, `BlinkerScript_proofs`, `UnitTests_proofs` | theorems, proved with TLAPS |
| `Modulo_proofs` | the arithmetic of counters that wrap |
| `MC...` | for each of these, small sets of packets and images for TLC |

How the state corresponds to the code: the fields of `BLINKER_APP_Data` keep
their names. `pc` is the cFE call the task is at (`"Init"` stands for the memset
and `CFE_EVS_Register`, `"RunLoop"` for `CFE_ES_RunLoop`, `"Receive"` for
`CFE_SB_ReceiveBuffer`). `held`, `subs`, `active` are what cFE has granted.
`controlReq` is ES's control request. `starts` only bounds the number of starts.

How the actions correspond: each call of `BLINKER_APP_Init` is one action with a
succeeding and a failing branch; `GiveUp` is the failing one, which leaves Init
and sets `RunStatus` as `BLINKER_APP_Main` does. Taking a message and handling it
is one action per handler, because no handler but PROCESS looks at anything
another task can change; `ProcessCmd`, `LogValues` and `LogCrc` are the three
steps of PROCESS. `Environment` is the rest of the system.

What is abstracted: a message is its id, code, the structure its length belongs
to, and the numbers of its payload; an event is its id, a tag for its text and
the numbers printed. `SpecBlinker_t` is padded to the length of
`SwapBlinkers_t`, so the two share a length here as well. The CRC of an image is
represented by the image's values. When ES starts the app anew the model leaves
the old data in place: a fresh load would make `Init`'s memset unobservable,
and nothing in the repository says which of the two ES does.

A message that finds the pipe full, or is not subscribed to, is lost; that is a
step that changes nothing, which every TLA+ specification allows.

**The contract.** `BlinkerContract` knows a life (`down`, `starting`, `running`,
`stopping`), a bank, two counters, the table in use and the numbers the last step
has answered. Its operations are what a user may rely on: start from zero, blink,
switch or reset a group, report, exchange, count, keep house, give up, stop. The
mapping of `AppContract` is not the identity: `Life` depends on what `RunStatus`
will make of the next call of `CFE_ES_RunLoop`, the enabled blinkers are a set,
the three steps of PROCESS and all of the bus vanish, and an answer is compared
with the data at the moment of the step that gives it. Answers are the numbers of a
report, a swap and a housekeeping packet; other outputs (the parameters of
DISPLAY_PARAM, the log of PROCESS) are left to other properties or to none, and the
contract does not say which packet asks for which operation: that a command does
what its name says is the business of `BankLedger`, `GroundView` and the session.

**The EDS build.** Only `TaskPipe` differs. The generated dispatcher is not in
the repository and is external: it holds a packet against the data sheet and the
dispatch table, which have NOOP, RESET, PROCESS, DISPLAY_PARAM and SEND_HK, and
neither the blinker commands nor the blink message. (The data sheet does not
define the blinker commands' types at all, so the handlers of the other files
would not find them in the headers generated from it; the dispatcher is modelled
as it is written.) Whether the generated code hands a handler's error status on
to `TaskPipe`, which would then report and count it, is left open by the
repository: `HandlerFails` allows both.

**The session.** `cmdUtil` sends datagrams and waits for nothing, so `Lose` may
happen instead of `Submit`; a blink that finds the pipe full is refused in
`SchedulerBlinks`. The script's sleeps are time in which the scheduler may send
any number of blinks, up to the bound, between any two commands. The session
begins in a running app whose bank earlier commands have left in any uniform
state. `open`, `sent` and `dropped` record the blinks between an enable and the
next disable in the order of the pipe; `heard` and `inOrder` are what an operator
sees.

**The tests.** A test function is a sequence of steps: configure a stub, set the
hook, call a unit, assert. A call runs the actions of `BlinkerApp` with the stubs
deciding which branch is taken: one action of the model is one cFE call, so
counting the stub's calls is counting the actions. In the programs that replace
the handlers or `GetCrc` by stubs, so does the model.

## 3. What TLC checks

| Run | Instance | Shows |
|---|---|---|
| `lifecycle` | `MCLifecycle.cfg`: 2 blinkers, counts and counters of 2 values, pipe of 1, 2 starts, images at and beyond the bound; NOOP, RESET, DISPLAY_PARAM, PROCESS, ENABLE_ALL, the commands for blinker 1, a swap, a bad length, an unknown code, a foreign message id | `TypeOK`; `RunLoopHasResources`; `NoMessageIdError`; `ActiveImageValid`; `FreshAfterRestart`; `ErrorIsFinal`; `ContractSafety`: the app implements the abstract specification |
| `progress` | `MCProgress.cfg`: pipe of 2 that NOOP and PROCESS may flood, 2 starts | `ErrorLeadsToExit`; `ExitRequestHonoured`; `TableRequestServed`; `ContractProgress`: the contract's fairness |
| `ground_view` | `MCGroundView.cfg`: counters of 2 values and up to 3 events counted, 2 starts, two valid images and an invalid one | `TelemetryMatchesEvents`; `ProcessLogsOneTable` |
| `bank_ledger` | `MCBankLedger.cfg`: 2 blinkers, counts of 3 values, up to 3 blinks, every bank command on every number from 0 to one beyond the bank, swaps of any two of them | `ReportsMatchLedger`; `SwapsMatchLedger` |
| `eds` | `MCEds.cfg`: 1 blinker, counters of 2 values, up to 3 errors, 2 starts, 3 images | `EdsTelemetryCountsErrors`; `ContractSafety` of this build, too |
| `session` | `MCSession.cfg`: the whole script on 8 blinkers, pipe of 2, counts of 3 values, any three commands lost, one blink | `AcknowledgedReportsTrue`; `CommandsAnswered`; `SessionAnswered` |
| `unit_tests` | `MCUnitTests.cfg`: the four programs as they are, each on its own | `AssertionsHold`; `SuiteEnds` |
| `all_commands`, `telemetry_bank`, `command_counter`, `init_event`, `every_sub_call` | one cfg each | a claim that the code does not keep (section 6) |

The bounds are small because the cases are: a counter of two or three values
wraps within the bound on what is counted (`MaxSeen`, `MaxTicks`); one blinker
that the commands for all blinkers reach and one that they do not (the last)
show every way a bank command can treat a blinker, and a swap needs two; a pipe
of one message already loses messages, one of two lets an answer wait behind
another command; two starts let the data of one life meet the next. `MaxStarts`
bounds starts, `MaxSeen` the events counted by `GroundView`, `MaxTicks` the
blinks of `BankLedger`, `MaxErrors` the errors counted by `BlinkerEds`, `MaxLost`
and `MaxBlinks` the commands lost and the blinks sent in a session, `MaxCalls`
the calls of a stub (they saturate above what any assertion looks at). A run of
`eds` needs one blinker only, because no command of that build reaches the bank
while it runs. Three commands lost are what it takes for the session to look
intact when it is not: without the first report, and the enable and the disable
after it, the second report arrives as the first would. One blink at any moment
tells a count from its neighbour in a swap, and finds the pipe full when two
commands wait. The same session has been explored with two blinks, and with four
and any number of commands lost up to the first acknowledgement out of order,
after which the property on reports says nothing. Deadlock is not checked: the
app may exit, and after `MaxStarts` nothing starts it again.

`ErrorLeadsToExit` and `ErrorIsFinal` leave out `"Init"`: a restarted app's
`RunStatus` still holds what the last life left there, until `BLINKER_APP_Main`
sets it. `ProcessLogsOneTable` rests on how the table service is modelled from its
use: once loaded by Init, the active buffer changes in the app's own calls of
`CFE_TBL_Manage` and nowhere else, whatever the ground asks for in the meantime; the app's part is to call it in
SEND_HK only. `AcknowledgedReportsTrue` speaks of the blinks that the pipe had room
for; that counts fall behind those that were refused is how the app is built.

`GroundView` and `BankLedger` are kept from the outputs alone. The ledger settles
counts by subtracting blink numbers when an interval ends, whereas the code
increments them one by one; it never reads a count. For the three commands for
all blinkers it follows the code, which leaves the last blinker out.

Every property has a mutated definition that TLC finds violating it: a
subscription whose status is dropped, a loop condition that forgets one of its
two parts, a validation off by one, counters reset instead of memset, a
housekeeping handler that does not manage the table, a swap without its
temporary, a dispatcher that counts a rejected packet as an executed one, and so on. The mutated operators stand before the ones they replace.

## 4. Fairness

`Fairness == WF_vars(AppStep) /\ SF_vars(RequestHk)`.

- `AppStep`, weak: the task is scheduled by the operating system. It does not
  contain `ReceiveFails`: a task that pends on an empty pipe may pend for ever.
- `RequestHk`, strong: the scheduler repeats its housekeeping request for ever,
  and not every request meets a full pipe. Weak fairness is enough for
  `ErrorLeadsToExit` and `ExitRequestHonoured`, but not for
  `TableRequestServed`: commands may fill the pipe whenever it has room, so that
  sending is never continuously possible.

Nothing is assumed of the ground, the table service or ES.

`BlinkerContract` asks for `WF(Stop)` alone: an app that is stopping goes down.
`AppStep`'s fairness implements it. (An app that ES has asked to exit still counts
as running until `CFE_ES_RunLoop` has told it; that it gets there is
`ExitRequestHonoured`.) `SessionSpec` adds weak fairness of the
script (it is a shell script that waits for nothing, and its next command is
submitted or lost) to that of the task. `UtSpec` has weak fairness of the test
program as a whole, which is one sequential process.

## 5. What is proved

All theorems hold for every number of blinkers, width of the counters, depth of
the pipe, set of packets, set of images and number of starts. The assumptions are
those named next to the constants: sizes are positive naturals, counters have at
least two values, `Commands` are messages, `Images` are images and `NoImage` is
none. The session adds `SessionBlinkersAssumption`, that there are more than six
blinkers: the script works on 3 and 5, and begins with commands for all blinkers,
which reach them only then (the app is built with eight). The tests add
`MaxCallsAssumption`: calls of a stub are counted beyond 6, the largest number a
test expects.

| Theorem | Establishes |
|---|---|
| `TypeCorrect`, `ResourcesAcquired`, `NoUnknownMessageId`, `ActiveIsValid`, `RestartIsFresh`, `ErrorStopsHandling` (`BlinkerApp_proofs`) | `Spec` implies the six safety properties of the run `lifecycle` |
| `AppKeepsContract` (`AppContract_proofs`) | `Spec => ContractSafety`: the refinement |
| `TelemetryIsTrue`, `ProcessSeesOneTable` (`GroundView_proofs`) | the two invariants of the run `ground_view` |
| `ReportsAreBalances`, `SwapsAreBalances` (`BankLedger_proofs`) | the two invariants of the run `bank_ledger` |
| `EdsKeepsContract`, `EdsErrorsCounted` (`BlinkerEds_proofs`) | the two properties of the run `eds`: the refinement by the other build, and its error counter |
| `SessionReportsTrue`, `SessionCommandsAnswered` (`BlinkerScript_proofs`) | the two invariants of the run `session` |
| `TestsPass` (`UnitTests_proofs`) | the invariant of the run `unit_tests` |

**The app.** All six follow from one inductive invariant, `IInv`. None of the
properties is inductive alone. Even the types are not: the log of PROCESS prints
numbers only if there is an active table. So `Acquired` records, call by call,
what Init has obtained so far, and that it is all still there when the loop is
entered or about to be (`RunStatus` still APP_RUN). `Validated` says that an
image in the stages `valid` and `pending` has passed the validation, which is why
it may become active later. `PipeHandled` carries the message ids from the
subscriptions through the pipe to the dispatcher. `ErrorOutside` keeps a task
with RunStatus APP_ERROR out of the loop. TLC has confirmed the conjunction on
the instance of `lifecycle`.

The two builds share all of `IInv` but `NoMessageIdError`, which is false of the
EDS build (it does send MID_ERR). The rest is `Core`, and its proof does not look
at the handlers: `FrameNext` says what any dispatcher may do to the task, the bus
and the table, and every part of `Core` but the types follows from that frame.
Each build then shows that its steps keep the frame and the types.

**The refinement.** `Core` and the missing link of the mapping, `StatusRuns`, make
`CInv`, which every step of either build keeps. Under it each action of the app
is one operation of the contract or its `Quiet` step. There is one lemma per group
of actions.

**The EDS build.** Its own dispatcher, and a PROCESS whose failures may be counted,
are shown to be operations of the same contract; everything else is cited from the
proof for the other build. `ErrorsCounted` adds that outside `"Init"` the error
counter is the number of error events modulo its width: a step that sends one
error event among others counts one (`OneCounted`), all others none.

**The telemetry.** `GInv` adds to `IInv` that outside `"Init"` each counter of the
app is the ground's count modulo its width (`CountsAgree`; inside it the ground's
counts are zero and the app's are about to be), and that PROCESS, between its two
logs, still holds the table whose values it has logged (`ValuesAgree`).
`WrapAfterIncrement` of `Modulo_proofs` is the arithmetic: incrementing a counter
that wraps is counting and wrapping afterwards.

**The ledger.** `LInv` adds to `IInv` that each count is the ledger's balance
modulo its width and that the ledger runs for exactly the enabled blinkers
(`LedgerAgrees`). What settling, enabling and disabling do to all balances are
lemmas of their own (`SettleBalances`, `EnableBalances`, `DisableBalances`); what
the ledger books for an acknowledgement are `BookReset` and its kin; a step either
is a blink, a start, a bank command, or `Quiet`.

**The session's reports.** What a report will show is decided by what waits in
front of it, which no statement about the present bank captures. The invariant
`SInv` therefore replays the pipe: there is a history `H`, from the present state
(`Now`) through what handling each waiting message would make of it (`After`), and
of every state in it `Lasting` holds. That says what the acknowledgements up to
there imply for good: which of the two blinkers is still, which count is zero, and
whose count is whose window, before and after the swap. At the end of the pipe
`Latest` holds as well, which is what the script's next command or blink builds
on. A command or a blink lengthens the replay (`ReplayGrows`), handling a message
takes its first state away (`ReplayShifts`), everything else leaves it
(`ReplayStays`); a handler changes the bank as the replay said (`CommandEffect`,
`BlinkEffect`). Once an acknowledgement is missed `inOrder` stays false and nothing
is left to show. The invariant was model-checked before it was proved, on the
session with a pipe of three, four blinks and three lost commands (15 million
states).

**The session's answers.** `SessionCommandsAnswered` is the safety half of
`SessionAnswered`, and needs no replay: `Accounts` counts the commands in the pipe,
and every handler takes one and answers once (`OneAnswer`).

**The tests.** An assertion compares one number with what a stub has counted, so
it is far from inductive: it depends on every call since the test began, on which
of them was configured to fail, and on where in its function the unit now is.
`UInv` says, for each of the twelve tests and each of its steps, what the stubs
have counted and what they are still set to return, both while the test is in
control and while the unit runs (`MainInv`, `InitInv` and so on; in `InitInv` one
formula, `InitRound`, covers the six calls of Init that differ only in the call
that fails). Its proof has three layers. `CallsWithNone`, `CallsWithOne` and
`CallsWithTwo` turn the outputs of a step into what the stubs and the event hook
count. Lemmas about the units, one for each kind, say what a run makes of them:
`InitOutcome`, `LoopStep`, `DispatchOutcome`, `VerifyOutcome`, `CommandReports`,
`AddressTaken`, `ValuesLogged`, `CrcLogged`. Then, test by test, `...TestActs` is
about the steps of the test function and `...TestRuns` about those of the unit;
`UnitIsRunning` and `TestIsInControl` keep the two apart. A new test begins with
everything forgotten (`FreshTest`), and `...Asserts` reads the assertions off the
invariant. The run `unit_tests` has the constants the app is built with; the
theorem shows that no assertion depends on them: it holds for any number of
blinkers, limit of the table's first element, table image that the load's stub
pretends to load, and width of the counters. TLC has confirmed `UInv` on that run.

Only model-checked are the liveness properties, `ErrorLeadsToExit`,
`ExitRequestHonoured`, `TableRequestServed`, `SessionAnswered` and `SuiteEnds`, and
with them `ContractProgress`: fairness and ENABLED are out of the prover's reach.
Every invariant and every action property of the passing runs is proved.

## 6. Where the code and its words disagree

1. `AllCommandsCoverAll`: the loops of the commands for all blinkers end at
   `BLINKER_APP_TOTAL_BLINKERS-1` exclusive, so the last blinker is neither
   reset, enabled nor disabled, while the event says "All blinkers ...". The run
   enables two blinkers and finds the second still disabled.
2. `TelemetryGathersBank`: the packet's `BlinkerStatus` and `BlinkerCount` are
   never assigned.
3. `CommandCounterCountsCommands`: only NOOP counts as an executed command.
4. `InitEventMeansInitialized`: "Blinker App Initialized." also follows a failed
   registration or load of the table.
5. `EverySubCallFails`: the unit test that means to fail each sub-call of Init
   never fails the third subscription nor the table load.

Visible in the models, without a run of their own: an unknown command code is
reported and not counted as an error (`RejectMessage`); the dispatcher of the EDS
build answers every blink message, to which Init subscribes, with an error event
(`EdsStatus`); the unit test of the dispatcher sends four of the twelve command
codes (`ProcessGroundCommandTest`).

## 7. The order of the work

Each step was checked before the next began; all are done.

1. `SoftwareBus`, `BlinkerBank`, `ExampleTable`, `BlinkerApp`; run `lifecycle`.
2. Fairness and run `progress`.
3. Observers `GroundView` and `BankLedger` with their runs; `DocClaims`.
4. `BlinkerApp_proofs`: the safety properties of the app.
5. `BlinkerContract` and `AppContract`: the abstract specification, the refinement
   checked, then proved in `AppContract_proofs`.
6. `BlinkerEds`, the alternative dispatcher, against the same contract.
7. `BlinkerScript`: the session with lost commands, refused blinks and its reports.
8. `UnitTests`: the test programs against the model of the code they test.
9. `GroundView_proofs` and `BankLedger_proofs`, with the lemmas on `%` they need.
10. `BlinkerEds_proofs`: `IInv` split into what the two builds share and what not,
    the contract and the error counter of the EDS build.
11. `BlinkerScript_proofs`: the session's reports and answers.
12. `UnitTests_proofs`: the assertions of the test programs.

## 8. Not modelled

- cFE, OSAL, PSP and the other apps: submodules that are not checked out. What
  the app sees of them is modelled from its calls and marked external.
- The code generated from the data sheet, likewise; of the data sheet, the layout
  of the telemetry and the ranges of the parameters.
- The script's look at `CFS_TOPDIR`, before it sends anything, and the text it
  prints.
- The test program of the EDS dispatcher, which is empty, and the generated stubs
  beyond what the tests ask of them (call counters and return codes).
- Topic ids, performance ids and log entries, version strings and the wording of
  events; build files and workflows, which do nothing in flight.
- ES may also kill an app that does not react; that is ES's doing, and the model
  shows that it need not.
