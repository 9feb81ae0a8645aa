------------------------------ MODULE DocClaims ------------------------------
(***************************************************************************)
(* What comments, event texts and tests of the repository say of the app   *)
(* and the code does not do.  Each claim is checked by a run of its own,   *)
(* which finds a behaviour of the app that violates it.                    *)
(***************************************************************************)
EXTENDS BlinkerApp

\* "All blinkers reset", "enabled", "disabled" (the event texts at
\* blinker_app_cmds.c:169, 181 and 193) are true of every blinker.
AllCommandsCoverAll ==
  /\ Said("AllReset") => \A i \in Blinkers : BlinkerCounts[i] = 0
  /\ Said("AllEnabled") => \A i \in Blinkers : BlinkerStatuses[i] = 1
  /\ Said("AllDisabled") => \A i \in Blinkers : BlinkerStatuses[i] = 0

\* SendHkCmd "will gather the Apps telemetry" (blinker_app_cmds.c:43): the
\* packet sent holds the blinkers' statuses and counts, as its payload type
\* at default_blinker_app_msgstruct.h:97-98 declares.
TelemetryGathersBank ==
  Sent("HK_TLM") => /\ HkTlm.BlinkerStatus = BlinkerStatuses
                    /\ HkTlm.BlinkerCount = BlinkerCounts

\* CmdCounter is one of the "command execution counters" (blinker_app_cmds.c:52):
\* it counts every command that is executed and acknowledged.
CommandCounterCountsCommands ==
  [][(\E e \in {"NOOP_INF", "VALUE_INF", "REPORT_SPEC_BLINKER_INF"} : Sent(e)')
       => CmdCounter' = (CmdCounter + 1) % CmdWrap]_vars

\* The event "Blinker App Initialized." (blinker_app.c:214), the "successful
\* init event" of coveragetest_blinker_app.c:175, means that Init succeeded.
InitEventMeansInitialized == Sent("INIT_INF") => RunStatus # "APP_ERROR"
================================================================================
