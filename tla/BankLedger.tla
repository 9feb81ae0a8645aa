------------------------------ MODULE BankLedger ------------------------------
(***************************************************************************)
(* A second bookkeeping of the blinkers, kept from the outside: for each   *)
(* blinker the blink message from which it has been counting and what it   *)
(* had counted before.  It is updated only from the app's acknowledgements *)
(* and never looks at the counts: where BLINKER_APP_Blink increments       *)
(* counts one by one, the ledger settles them by subtraction, when a       *)
(* command ends an interval.                                               *)
(***************************************************************************)
EXTENDS BlinkerApp

CONSTANT MaxTicks   \* bound: how many blink messages the app handles
ASSUME MaxTicksAssumption == MaxTicks \in Nat

VARIABLES
  ticks,     \* the blink messages handled so far
  settled,   \* what each blinker counted in its finished intervals
  since      \* the value of ticks when it was enabled, or Off

ledgerVars == <<ticks, settled, since>>

Off == MaxTicks + 1

\* What blinker i has counted, by the ledger.
Balance(i) == settled[i] + IF since[i] = Off THEN 0 ELSE ticks - since[i]

LedgerInit == Init /\ ticks = 0 /\ settled = AllZero /\ since = [i \in Blinkers |-> Off]

Covered == IF Said("AllReset") \/ Said("AllEnabled") \/ Said("AllDisabled")
             THEN Swept ELSE {out[1].args[1]}

\* A blink message has just been handled.
Ticked == /\ pc = "Receive" /\ Len(pipe') < Len(pipe)
          /\ Head(pipe).mid = "BLINK"

Running(i) == since[i] # Off
Restarted(i) == IF Running(i) THEN ticks ELSE Off

\* The entries of the ledger when its blinkers f[i] have the balance b[i].
Settle(S, b) ==
  /\ settled' = [i \in Blinkers |-> IF i \in S THEN b[i] ELSE settled[i]]
  /\ since' = [i \in Blinkers |-> IF i \in S THEN Restarted(i) ELSE since[i]]

Book ==
  LET says(texts) == \E t \in texts : Said(t)'
      nothing == ~ says({"AllReset", "Reset", "AllEnabled", "Enabled",
                         "AllDisabled", "Disabled", "Swapped"})
  IN
  \/ /\ says({"AllReset", "Reset"})
     /\ Settle(Covered', AllZero)
  \/ /\ says({"AllEnabled", "Enabled"})
     /\ since' = [i \in Blinkers |-> IF i \in Covered' /\ ~ Running(i) THEN ticks ELSE since[i]]
     /\ UNCHANGED settled
  \/ /\ says({"AllDisabled", "Disabled"})
     /\ settled' = [i \in Blinkers |-> IF i \in Covered' THEN Balance(i) ELSE settled[i]]
     /\ since' = [i \in Blinkers |-> IF i \in Covered' THEN Off ELSE since[i]]
  \/ /\ says({"Swapped"})
     /\ LET a == out'[1].args[1]
            b == out'[1].args[2]
        IN  Settle({a, b}, [i \in Blinkers |-> IF i = a THEN Balance(b) ELSE Balance(a)])
  \/ /\ pc = "Init" /\ pc' # "Init"
     /\ settled' = AllZero /\ since' = [i \in Blinkers |-> Off]
  \/ /\ nothing /\ ~ (pc = "Init" /\ pc' # "Init")
     /\ UNCHANGED <<settled, since>>

LedgerNext ==
  /\ Next
  /\ Book
  /\ ticks' = IF Ticked THEN ticks + 1 ELSE ticks
  /\ ticks' <= MaxTicks

LedgerSpec == LedgerInit /\ [][LedgerNext]_<<vars, ledgerVars>>

\* Every count the app reports is the one the operator can work out from the
\* acknowledgements and the number of blinks: no blink is counted twice or
\* missed, whatever enables, disables, resets and swaps come in between, in
\* any order and repeated (the bank commands of blinker_app_cmds.c, Blink).
ReportsMatchLedger ==
  Said("Report") => out[1].args[2] = Balance(out[1].args[1]) % CountWrap

\* The same for the two counts printed in the acknowledgement of a swap.
SwapsMatchLedger ==
  Said("Swapped") => /\ out[1].args[3] = Balance(out[1].args[1]) % CountWrap
                     /\ out[1].args[4] = Balance(out[1].args[2]) % CountWrap
================================================================================
