----------------------------- MODULE BlinkerScript -----------------------------
(***************************************************************************)
(* The ground session scripts/test_blinker.sh against the running app and  *)
(* the scheduler's blinks.  cmdUtil sends each command as a datagram and   *)
(* waits for nothing: a command may be lost on the way or find the pipe    *)
(* full, and so may a blink.  The sleeps of the script only give the       *)
(* scheduler time, which it may take here between any two commands.        *)
(***************************************************************************)
EXTENDS BlinkerApp, FiniteSets

CONSTANTS
  MaxLost,    \* bound: how many commands are lost
  MaxBlinks   \* bound: how many blinks the scheduler sends

\* The script's blinkers are among those the All commands reach; the app is
\* built with eight.
ASSUME SessionBlinkersAssumption == TotalBlinkers > 6

VARIABLES
  line,           \* the next command of the session
  lost,           \* how many commands were lost
  blinks,         \* how many blinks the scheduler has sent
  open,           \* the blinkers enabled, and not disabled again, in the pipe's order
  sent, dropped,  \* for each blinker, the blinks of its window, and those not delivered
  heard,          \* how many events the ground has seen
  inOrder         \* these acknowledge the first commands of the session, one by one

windowVars == <<blinks, open, sent, dropped>>
earVars == <<heard, inOrder>>
sessionVars == <<line, lost, windowVars, earVars>>

(***************************************************************************)
(* The script.                                                             *)
(***************************************************************************)
send_blink_noargs(cc) == [mid |-> "CMD", cc |-> cc, size |-> "NoArgs", n1 |-> 0, n2 |-> 0]
send_blink_specblinker(cc, n) == [mid |-> "CMD", cc |-> cc, size |-> "TwoU16", n1 |-> n, n2 |-> 99]
send_blink_swapblinkers(a, b) == [mid |-> "CMD", cc |-> "SWAP", size |-> "TwoU16", n1 |-> a, n2 |-> b]

Session ==
  << send_blink_noargs("NOOP"), send_blink_noargs("DISABLE_ALL"), send_blink_noargs("RESET_ALL"),
     send_blink_specblinker("REPORT_SPEC", 5),
     send_blink_specblinker("ENABLE_SPEC", 5), send_blink_specblinker("DISABLE_SPEC", 5),
     send_blink_specblinker("REPORT_SPEC", 5),
     send_blink_specblinker("ENABLE_SPEC", 3), send_blink_specblinker("DISABLE_SPEC", 3),
     send_blink_specblinker("REPORT_SPEC", 3),
     send_blink_swapblinkers(5, 3),
     send_blink_specblinker("REPORT_SPEC", 5), send_blink_specblinker("REPORT_SPEC", 3) >>

SessionCommands == {Session[k] : k \in DOMAIN Session}

\* The event that acknowledges a command of the session.
Acks == [NOOP |-> "Noop", DISABLE_ALL |-> "AllDisabled", RESET_ALL |-> "AllReset",
         REPORT_SPEC |-> "Report", ENABLE_SPEC |-> "Enabled", DISABLE_SPEC |-> "Disabled",
         SWAP |-> "Swapped"]

Acknowledges(o, m) ==
  /\ o.text = Acks[m.cc]
  /\ m.cc \in SpecCodes => o.args[1] = m.n1

\* The app is in its run loop; earlier commands have left any bank behind.
SessionInit ==
  /\ pc = "RunLoop" /\ RunStatus = "APP_RUN"
  /\ CmdCounter = 0 /\ ErrCounter = 0 /\ HkTlm = ZeroTlm
  /\ \E c \in 0 .. CountWrap - 1, s \in {0, 1} :
       BlinkerCounts = [i \in Blinkers |-> c] /\ BlinkerStatuses = [i \in Blinkers |-> s]
  /\ active \in Images /\ TblValidationFunc(active) /\ working = NoImage /\ stage = "empty"
  /\ pipe = <<>> /\ subs = {"SEND_HK", "CMD", "BLINK"}
  /\ held = {"EVS", "PIPE"} /\ controlReq = "APP_RUN" /\ starts = 1 /\ out = <<>>
  /\ line = 1 /\ lost = 0
  /\ blinks = 0 /\ open = {} /\ sent = AllZero /\ dropped = AllZero
  /\ heard = 0 /\ inOrder = TRUE

(***************************************************************************)
(* The script's next command is delivered to the pipe, or lost.            *)
(***************************************************************************)
Submit ==
  /\ line <= Len(Session) /\ line' = line + 1
  /\ LET m == Session[line] IN
     /\ Send(m)
     /\ open' = CASE m.cc = "ENABLE_SPEC" -> open \cup {m.n1}
                  [] m.cc = "DISABLE_SPEC" -> open \ {m.n1}
                  [] OTHER -> open
  /\ UNCHANGED <<lost, blinks, sent, dropped, earVars>>

Lose ==
  /\ line <= Len(Session) /\ line' = line + 1
  /\ lost < MaxLost /\ lost' = lost + 1
  /\ Silent
  /\ UNCHANGED <<pc, RunStatus, dataVars, taskVars, tblVars, busVars, windowVars, earVars>>

(***************************************************************************)
(* A blink of the scheduler.  The pipe refuses it when it is full.         *)
(***************************************************************************)
Add(f) == [i \in Blinkers |-> f[i] + (IF i \in open THEN 1 ELSE 0)]

SchedulerBlinks ==
  /\ blinks < MaxBlinks /\ blinks' = blinks + 1
  /\ sent' = Add(sent)
  /\ \/ RequestBlink /\ UNCHANGED dropped
     \/ /\ Len(pipe) >= PipeDepth /\ dropped' = Add(dropped)
        /\ Silent /\ UNCHANGED <<pc, RunStatus, dataVars, taskVars, tblVars, busVars>>
  /\ UNCHANGED <<line, lost, open, earVars>>

(***************************************************************************)
(* The app's task, whose events reach the ground in order.                 *)
(***************************************************************************)
AppRuns ==
  /\ AppStep \/ ReceiveFails
  /\ heard' = heard + Len(out')
  /\ inOrder' = (inOrder /\ \A k \in DOMAIN out' :
                   heard + k <= Len(Session) /\ Acknowledges(out'[k], Session[heard + k]))
  /\ UNCHANGED <<line, lost, windowVars>>

SessionNext == Submit \/ Lose \/ SchedulerBlinks \/ AppRuns

\* The script does not stop in the middle, and the task is scheduled.
SessionSpec ==
  /\ SessionInit /\ [][SessionNext]_<<vars, sessionVars>>
  /\ WF_<<vars, sessionVars>>(Submit \/ Lose) /\ WF_<<vars, sessionVars>>(AppStep /\ AppRuns)

(***************************************************************************)
(* Properties.                                                             *)
(***************************************************************************)
\* What blinker n must have counted: the blinks sent between its enable and
\* its disable command, but for those the pipe had no room for.
Window(n) == (sent[n] - dropped[n]) % CountWrap

\* The number the k-th command of the session, a report, must show.
Expected(k) ==
  LET n == Session[k].n1
      other == IF n = 5 THEN 3 ELSE 5
      swapped == \E j \in 1 .. k : Session[j].cc = "SWAP"
      enabled == \E j \in 1 .. k : Session[j].cc = "ENABLE_SPEC" /\ Session[j].n1 = n
  IN  IF swapped THEN Window(other) ELSE IF enabled THEN Window(n) ELSE 0

\* An operator who has seen the acknowledgements of all commands so far, in
\* the script's order, may trust the report that has just come: it shows the
\* blinks of the blinker's window, before and after the swap.  No lost
\* command, late blink or count left from before goes unnoticed, because
\* every handler sends one event and the pipe keeps commands and blinks in
\* order (test_blinker.sh, and the handlers it reaches).
AcknowledgedReportsTrue ==
  inOrder /\ Said("Report") => out[1].args[2] = Expected(heard)

\* The commands that wait in the pipe.
Queued == Cardinality({k \in DOMAIN pipe : pipe[k].mid = "CMD"})

\* Each command the script has come to was lost, waits in the pipe, or has been
\* answered by exactly one event, until the pipe fails the app: no handler the
\* script reaches keeps silent or answers twice (BLINKER_APP_TaskPipe and the
\* handlers of test_blinker.sh's commands).
CommandsAnswered == RunStatus = "APP_RUN" => line - 1 = lost + Queued + heard

\* The session comes to its end, and every command that was not lost has been
\* answered by exactly one event, unless the pipe has failed the app.
SessionAnswered ==
  <>[](\/ pc = "Exited"
       \/ line > Len(Session) /\ pipe = <<>> /\ heard = Len(Session) - lost)
================================================================================
