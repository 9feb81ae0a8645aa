----------------------------- MODULE BlinkerBank -----------------------------
(***************************************************************************)
(* The bank of blinkers (BLINKER_APP_Data.BlinkerCounts and                *)
(* .BlinkerStatuses), the command handlers of blinker_app_cmds.c that      *)
(* change or report it, and BLINKER_APP_Blink.  Every handler is one       *)
(* action and sends exactly one event; Blink sends none.                   *)
(***************************************************************************)
EXTENDS CfeOutputs

CONSTANTS
  TotalBlinkers,   \* BLINKER_APP_TOTAL_BLINKERS
  CountWrap        \* number of values of a uint16, 2^16 in the code

ASSUME TotalBlinkersAssumption == TotalBlinkers \in Nat \ {0}
ASSUME CountWrapAssumption == CountWrap \in Nat \ {0, 1}

VARIABLES BlinkerCounts, BlinkerStatuses
bankVars == <<BlinkerCounts, BlinkerStatuses>>

Blinkers == 0 .. TotalBlinkers - 1

\* The indices the loops "i < BLINKER_APP_TOTAL_BLINKERS-1" of the three
\* All commands visit: the last blinker is not among them.
Swept == 0 .. TotalBlinkers - 2

AllZero == [i \in Blinkers |-> 0]

BankTypeOK ==
  /\ BlinkerCounts \in [Blinkers -> 0 .. CountWrap - 1]
  /\ BlinkerStatuses \in [Blinkers -> {0, 1}]

BankInit == BlinkerCounts = AllZero /\ BlinkerStatuses = AllZero

\* The part of BLINKER_APP_Init's memset that concerns the bank.
ClearBank == BlinkerCounts' = AllZero /\ BlinkerStatuses' = AllZero

(***************************************************************************)
(* The blink message of the scheduler: every enabled blinker counts one.   *)
(***************************************************************************)
\* Mutated: the count does not wrap at the width of its type.
BlinkWithoutWrap ==
  /\ BlinkerCounts' =
       [i \in Blinkers |-> IF BlinkerStatuses[i] # 0 THEN BlinkerCounts[i] + 1
                                                      ELSE BlinkerCounts[i]]
  /\ UNCHANGED BlinkerStatuses
  /\ Silent

Blink ==
  /\ BlinkerCounts' =
       [i \in Blinkers |-> IF BlinkerStatuses[i] # 0
                             THEN (BlinkerCounts[i] + 1) % CountWrap
                             ELSE BlinkerCounts[i]]
  /\ UNCHANGED BlinkerStatuses
  /\ Silent

(***************************************************************************)
(* Commands for all blinkers.                                              *)
(***************************************************************************)
Fill(f, v) == [i \in Blinkers |-> IF i \in Swept THEN v ELSE f[i]]

\* Every acknowledgement goes out under this one event id.
Acknowledge(text, args) == Emit(Event("REPORT_SPEC_BLINKER_INF", text, args))

ResetAllBlinkersCmd ==
  /\ BlinkerCounts' = Fill(BlinkerCounts, 0)
  /\ UNCHANGED BlinkerStatuses
  /\ Acknowledge("AllReset", <<>>)

EnableAllBlinkersCmd ==
  /\ BlinkerStatuses' = Fill(BlinkerStatuses, 1)
  /\ UNCHANGED BlinkerCounts
  /\ Acknowledge("AllEnabled", <<>>)

DisableAllBlinkersCmd ==
  /\ BlinkerStatuses' = Fill(BlinkerStatuses, 0)
  /\ UNCHANGED BlinkerCounts
  /\ Acknowledge("AllDisabled", <<>>)

(***************************************************************************)
(* Commands for given blinkers.  A number beyond the bank is refused with  *)
(* an error event and the status -1, which the dispatcher ignores.         *)
(***************************************************************************)
Tracked(n) == ~ (n > TotalBlinkers - 1)

RefuseBlinker(args) ==
  /\ Emit(Event("CC_ERR", "Untracked", args))
  /\ UNCHANGED bankVars

ResetSpecBlinkersCmd(n) ==
  IF Tracked(n)
    THEN /\ BlinkerCounts' = [BlinkerCounts EXCEPT ![n] = 0]
         /\ UNCHANGED BlinkerStatuses
         /\ Acknowledge("Reset", <<n>>)
    ELSE RefuseBlinker(<<n>>)

ReportSpecBlinkersCmd(n) ==
  IF Tracked(n)
    THEN /\ UNCHANGED bankVars
         /\ Acknowledge("Report", <<n, BlinkerCounts[n]>>)
    ELSE RefuseBlinker(<<n>>)

\* Mutated: enabling a blinker starts its count anew.
EnableSpecRestarts(n) ==
  IF Tracked(n)
    THEN /\ BlinkerStatuses' = [BlinkerStatuses EXCEPT ![n] = 1]
         /\ BlinkerCounts' = [BlinkerCounts EXCEPT ![n] = 0]
         /\ Acknowledge("Enabled", <<n>>)
    ELSE RefuseBlinker(<<n>>)

\* Mutated: nothing is done, nor said, for a blinker that is enabled already.
EnableSpecOnce(n) ==
  IF Tracked(n)
    THEN /\ BlinkerStatuses' = [BlinkerStatuses EXCEPT ![n] = 1]
         /\ UNCHANGED BlinkerCounts
         /\ IF BlinkerStatuses[n] = 1 THEN Silent ELSE Acknowledge("Enabled", <<n>>)
    ELSE RefuseBlinker(<<n>>)

EnableSpecBlinkersCmd(n) ==
  IF Tracked(n)
    THEN /\ BlinkerStatuses' = [BlinkerStatuses EXCEPT ![n] = 1]
         /\ UNCHANGED BlinkerCounts
         /\ Acknowledge("Enabled", <<n>>)
    ELSE RefuseBlinker(<<n>>)

DisableSpecBlinkersCmd(n) ==
  IF Tracked(n)
    THEN /\ BlinkerStatuses' = [BlinkerStatuses EXCEPT ![n] = 0]
         /\ UNCHANGED BlinkerCounts
         /\ Acknowledge("Disabled", <<n>>)
    ELSE RefuseBlinker(<<n>>)

\* Mutated: the second count is overwritten before it is saved.
SwapWithoutTemp(n1, n2) ==
  IF Tracked(n1) /\ Tracked(n2)
    THEN /\ BlinkerCounts' = [BlinkerCounts EXCEPT ![n1] = BlinkerCounts[n2]]
         /\ UNCHANGED BlinkerStatuses
         /\ Acknowledge("Swapped", <<n1, n2, BlinkerCounts[n2], BlinkerCounts[n2]>>)
    ELSE RefuseBlinker(<<n1, n2>>)

SwapBlinkerCountsCmd(n1, n2) ==
  IF Tracked(n1) /\ Tracked(n2)
    THEN /\ BlinkerCounts' = [BlinkerCounts EXCEPT ![n1] = BlinkerCounts[n2],
                                                   ![n2] = BlinkerCounts[n1]]
         /\ UNCHANGED BlinkerStatuses
         /\ Acknowledge("Swapped", <<n1, n2, BlinkerCounts[n2], BlinkerCounts[n1]>>)
    ELSE RefuseBlinker(<<n1, n2>>)
================================================================================
