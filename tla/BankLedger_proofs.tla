-------------------------- MODULE BankLedger_proofs --------------------------
(***************************************************************************)
(* Proofs that the counts of the bank are the operator's ledger modulo the *)
(* width of a count, for every number of blinkers, width and set of        *)
(* commands: incrementing at every blink and settling by subtraction at    *)
(* every acknowledgement come to the same.                                 *)
(***************************************************************************)
EXTENDS BankLedger, BlinkerApp_proofs, Modulo_proofs

LedgerTypeOK ==
  /\ ticks \in 0 .. MaxTicks
  /\ settled \in [Blinkers -> Nat]
  /\ since \in [Blinkers -> 0 .. Off]
  /\ \A i \in Blinkers : Running(i) => since[i] <= ticks

\* The ledger runs for the blinkers that are enabled and has their counts.
LedgerAgrees ==
  \A i \in Blinkers : /\ BlinkerCounts[i] = Balance(i) % CountWrap
                      /\ BlinkerStatuses[i] # 0 <=> Running(i)

LInv == IInv /\ LedgerTypeOK /\ LedgerAgrees /\ ReportsMatchLedger /\ SwapsMatchLedger

\* What a step must keep, besides IInv.
LedgerKept == LedgerTypeOK' /\ LedgerAgrees' /\ ReportsMatchLedger' /\ SwapsMatchLedger'

LEMMA ZeroAgrees ==
  ASSUME ticks \in 0 .. MaxTicks, settled = AllZero, since = [i \in Blinkers |-> Off],
         BlinkerCounts = AllZero, BlinkerStatuses = AllZero
  PROVE  LedgerTypeOK /\ LedgerAgrees
<1>1. LedgerTypeOK
  BY MaxTicksAssumption DEF LedgerTypeOK, AllZero, Off, Running
<1>2. 0 % CountWrap = 0
  BY ZeroRemainder, CountWrapAssumption
<1>3. ASSUME NEW i \in Blinkers
      PROVE  Balance(i) = 0 /\ ~ Running(i) /\ BlinkerCounts[i] = 0 /\ BlinkerStatuses[i] = 0
  BY DEF Balance, AllZero, Running
<1>4. QED BY <1>1, <1>2, <1>3 DEF LedgerAgrees

LEMMA LedgerInvInit == LedgerInit => LInv
<1> SUFFICES ASSUME LedgerInit PROVE LInv
  OBVIOUS
<1>1. IInv
  BY InvInit DEF LedgerInit
<1>2. LedgerTypeOK /\ LedgerAgrees
  BY ZeroAgrees, MaxTicksAssumption DEF LedgerInit, Init, BankInit
<1>3. ReportsMatchLedger /\ SwapsMatchLedger
  BY DEF LedgerInit, Init, ReportsMatchLedger, SwapsMatchLedger, Said
<1>4. QED BY <1>1, <1>2, <1>3 DEF LInv

(***************************************************************************)
(* The ledger.                                                             *)
(***************************************************************************)
LEMMA BalanceTyped ==
  ASSUME LedgerTypeOK, NEW i \in Blinkers
  PROVE  Balance(i) \in Nat
<1>1. ticks \in Nat /\ settled[i] \in Nat /\ since[i] \in Nat
  BY MaxTicksAssumption DEF LedgerTypeOK, Off
<1>2. since[i] # Off => since[i] <= ticks
  BY DEF LedgerTypeOK, Running
<1>3. QED BY <1>1, <1>2 DEF Balance

LEMMA TicksAreNotOff == ASSUME LedgerTypeOK PROVE ticks \in 0 .. Off /\ ticks # Off /\ Off \in 0 .. Off
  BY MaxTicksAssumption DEF LedgerTypeOK, Off

\* Settling changes the balances to the given ones and nothing else.
LEMMA SettleBalances ==
  ASSUME LedgerTypeOK, ticks' = ticks,
         NEW S, NEW b, \A i \in S \cap Blinkers : b[i] \in Nat, Settle(S, b)
  PROVE  /\ LedgerTypeOK'
         /\ \A i \in Blinkers : /\ Balance(i)' = IF i \in S THEN b[i] ELSE Balance(i)
                                /\ Running(i)' <=> Running(i)
<1>1. ASSUME NEW i \in Blinkers
      PROVE  /\ settled'[i] = IF i \in S THEN b[i] ELSE settled[i]
             /\ since'[i] = IF i \in S THEN Restarted(i) ELSE since[i]
             /\ Restarted(i) = IF since[i] # Off THEN ticks ELSE Off
             /\ settled'[i] \in Nat /\ since'[i] \in 0 .. Off
  BY TicksAreNotOff DEF Settle, Restarted, Running, LedgerTypeOK
<1>2. ASSUME NEW i \in Blinkers
      PROVE  /\ Running(i)' <=> Running(i)
             /\ Running(i)' => since'[i] <= ticks
  BY <1>1, TicksAreNotOff, MaxTicksAssumption DEF Running, LedgerTypeOK
<1>3. LedgerTypeOK'
  BY <1>1, <1>2 DEF LedgerTypeOK, Settle
<1>4. ASSUME NEW i \in Blinkers
      PROVE  Balance(i)' = IF i \in S THEN b[i] ELSE Balance(i)
  <2>1. b[i] \in Nat \/ i \notin S
    OBVIOUS
  <2>2. ticks - ticks = 0 /\ ticks \in Nat /\ ticks # Off
    BY TicksAreNotOff DEF LedgerTypeOK
  <2>3. CASE i \notin S
    BY <1>1, <2>3 DEF Balance
  <2>4. CASE i \in S
    BY <1>1, <2>1, <2>2, <2>4 DEF Balance
  <2>5. QED BY <2>3, <2>4
<1>5. QED BY <1>2, <1>3, <1>4

LEMMA EnableBalances ==
  ASSUME LedgerTypeOK, ticks' = ticks, NEW S, UNCHANGED settled,
         since' = [i \in Blinkers |-> IF i \in S /\ ~ Running(i) THEN ticks ELSE since[i]]
  PROVE  /\ LedgerTypeOK'
         /\ \A i \in Blinkers : /\ Balance(i)' = Balance(i)
                                /\ Running(i)' <=> (i \in S \/ Running(i))
<1>1. ticks \in Nat /\ ticks # Off /\ ticks \in 0 .. Off
  BY TicksAreNotOff DEF LedgerTypeOK
<1>2. ASSUME NEW i \in Blinkers
      PROVE  /\ since'[i] = IF i \in S /\ since[i] = Off THEN ticks ELSE since[i]
             /\ settled'[i] = settled[i] /\ settled[i] \in Nat
             /\ since[i] \in 0 .. Off
             /\ since[i] # Off => since[i] <= ticks
  BY DEF Running, LedgerTypeOK
<1>3. ASSUME NEW i \in Blinkers
      PROVE  /\ Running(i)' <=> (i \in S \/ Running(i))
             /\ Running(i)' => since'[i] <= ticks
  BY <1>1, <1>2 DEF Running
<1>4. LedgerTypeOK'
  BY <1>1, <1>2, <1>3 DEF LedgerTypeOK
<1>5. ASSUME NEW i \in Blinkers
      PROVE  Balance(i)' = Balance(i)
  <2>1. CASE i \in S /\ since[i] = Off
    BY <1>1, <1>2, <2>1 DEF Balance
  <2>2. CASE ~ (i \in S /\ since[i] = Off)
    BY <1>2, <2>2 DEF Balance
  <2>3. QED BY <2>1, <2>2
<1>6. QED BY <1>3, <1>4, <1>5

LEMMA DisableBalances ==
  ASSUME LedgerTypeOK, ticks' = ticks, NEW S,
         settled' = [i \in Blinkers |-> IF i \in S THEN Balance(i) ELSE settled[i]],
         since' = [i \in Blinkers |-> IF i \in S THEN Off ELSE since[i]]
  PROVE  /\ LedgerTypeOK'
         /\ \A i \in Blinkers : /\ Balance(i)' = Balance(i)
                                /\ Running(i)' <=> (i \notin S /\ Running(i))
<1>1. ASSUME NEW i \in Blinkers
      PROVE  /\ since'[i] = IF i \in S THEN Off ELSE since[i]
             /\ settled'[i] = IF i \in S THEN Balance(i) ELSE settled[i]
             /\ settled'[i] \in Nat /\ since'[i] \in 0 .. Off
             /\ Balance(i) \in Nat
  BY BalanceTyped, TicksAreNotOff DEF LedgerTypeOK
<1>2. ASSUME NEW i \in Blinkers
      PROVE  Running(i)' <=> (i \notin S /\ Running(i))
  BY <1>1 DEF Running
<1>3. LedgerTypeOK'
  BY <1>1, <1>2 DEF LedgerTypeOK, Running
<1>4. ASSUME NEW i \in Blinkers
      PROVE  Balance(i)' = Balance(i)
  <2>1. CASE i \in S
    BY <1>1, <2>1 DEF Balance
  <2>2. CASE i \notin S
    BY <1>1, <2>2 DEF Balance
  <2>3. QED BY <2>1, <2>2
<1>5. QED BY <1>2, <1>3, <1>4
(***************************************************************************)
(* Steps the ledger does not notice.                                       *)
(***************************************************************************)
LedgerTexts == {"AllReset", "Reset", "AllEnabled", "Enabled", "AllDisabled", "Disabled", "Swapped"}

\* The book's part of a step, and the clock's.
Booked == Book /\ ticks' = (IF Ticked THEN ticks + 1 ELSE ticks) /\ ticks' <= MaxTicks

Unbooked == \A text \in LedgerTexts : ~ Said(text)'

NotStarted == ~ (pc = "Init" /\ pc' # "Init")

Quiet == UNCHANGED bankVars /\ ~ Ticked /\ NotStarted /\ Unbooked /\ ~ Said("Report")'

LEMMA UnbookedKeepsLedger ==
  ASSUME Book, Unbooked, NotStarted
  PROVE  UNCHANGED <<settled, since>>
  BY DEF Book, Unbooked, NotStarted, LedgerTexts

LEMMA SameLedger ==
  ASSUME LedgerTypeOK, LedgerAgrees, UNCHANGED <<bankVars, settled, since, ticks>>
  PROVE  /\ LedgerTypeOK' /\ LedgerAgrees'
         /\ \A i \in Blinkers : Balance(i)' = Balance(i)
  BY DEF LedgerTypeOK, LedgerAgrees, Balance, Running, bankVars

LEMMA QuietKeeps ==
  ASSUME LInv, Booked, Quiet
  PROVE  LedgerKept
<1>1. UNCHANGED <<bankVars, settled, since, ticks>>
  BY UnbookedKeepsLedger DEF Booked, Quiet
<1>2. LedgerTypeOK' /\ LedgerAgrees'
  BY <1>1, SameLedger DEF LInv
<1>3. ReportsMatchLedger' /\ SwapsMatchLedger'
  BY DEF Quiet, Unbooked, LedgerTexts, ReportsMatchLedger, SwapsMatchLedger
<1>4. QED BY <1>2, <1>3 DEF LedgerKept

\* An output the ledger does not notice.
Plain(o) == o.text \notin LedgerTexts \cup {"Report"}

LEMMA PlainOutputs ==
  ASSUME \/ out' = <<>>
         \/ \E o : out' = <<o>> /\ Plain(o)
         \/ \E o, p : out' = <<o, p>> /\ Plain(o) /\ Plain(p)
  PROVE  Unbooked /\ ~ Said("Report")'
<1>1. CASE out' = <<>>
  BY <1>1, NoOutput DEF Unbooked
<1>2. ASSUME NEW o, out' = <<o>>, Plain(o) PROVE Unbooked /\ ~ Said("Report")'
  BY <1>2, OneOutput DEF Unbooked, Plain
<1>3. ASSUME NEW o, NEW p, out' = <<o, p>>, Plain(o), Plain(p)
      PROVE  Unbooked /\ ~ Said("Report")'
  <2>1. ASSUME NEW x PROVE Said(x)' <=> (o.text = x \/ p.text = x)
    BY <1>3, TwoOutputs
  <2>2. QED BY <1>3, <2>1 DEF Unbooked, Plain
<1>4. QED BY <1>1, <1>2, <1>3

LEMMA NotTicked ==
  ASSUME \/ pc # "Receive" \/ pipe' = pipe
         \/ pipe \in Seq(Packets) /\ \E m : Deliver(m)
         \/ \E m : ReceiveBuffer(m) /\ m.mid # "BLINK"
  PROVE  ~ Ticked
  BY DEF Ticked, Deliver, ReceiveBuffer

LEMMA QuietInit ==
  ASSUME CreatePipe \/ SubscribeAll \/ RegisterTable \/ LoadTable
  PROVE  Quiet
<1>1. Unbooked /\ ~ Said("Report")'
  BY PlainOutputs
  DEF CreatePipe, SubscribeAll, SubscribeTo, RegisterTable, LoadTable, GiveUp, InitInf, Silent,
      Emit, Event, Plain, LedgerTexts
<1>2. UNCHANGED bankVars /\ pc \notin {"Init", "Receive"}
  BY DEF CreatePipe, SubscribeAll, SubscribeTo, RegisterTable, LoadTable, dataVars, bankVars
<1>3. QED BY <1>1, <1>2 DEF Quiet, NotStarted, Ticked

LEMMA QuietLoop ==
  ASSUME EnterLoop \/ LeaveLoop \/ ExitApp \/ ReceiveFails \/ LogValues
  PROVE  Quiet
<1>1. Unbooked /\ ~ Said("Report")'
  BY PlainOutputs
  DEF EnterLoop, LeaveLoop, ExitApp, ReceiveFails, LogValues, GiveUp, Silent, Emit, Event, SysLog,
      Plain, LedgerTexts
<1>2. UNCHANGED bankVars /\ pc # "Init" /\ (pc # "Receive" \/ pipe' = pipe)
  BY DEF EnterLoop, LeaveLoop, ExitApp, ReceiveFails, LogValues, dataVars, bankVars, busVars
<1>3. QED BY <1>1, <1>2, NotTicked DEF Quiet, NotStarted

LEMMA QuietLogCrc == ASSUME LogCrc PROVE Quiet
<1>1. PICK crc \in {SysLog("Crc", <<active.Int1, active.Int2>>), SysLog("GetInfoFailed", <<>>)} :
        out' \in {<<crc>>, <<crc, SysLog("ReleaseFailed", <<>>)>>}
  BY DEF LogCrc
<1>2. Plain(crc) /\ Plain(SysLog("ReleaseFailed", <<>>))
  BY <1>1 DEF SysLog, Plain, LedgerTexts
<1>3. Unbooked /\ ~ Said("Report")'
  BY <1>1, <1>2, PlainOutputs
<1>4. QED BY <1>3 DEF LogCrc, Quiet, NotStarted, Ticked, dataVars, bankVars

LEMMA QuietEnvironment ==
  ASSUME TypeOK, Environment
  PROVE  Quiet
<1>1. Unbooked /\ ~ Said("Report")'
  BY PlainOutputs
  DEF Environment, GroundSends, RequestHk, RequestBlink, Send, TableCommand, RequestExit, Restart,
      Silent
<1>2. UNCHANGED bankVars /\ (pc' = pc \/ pc = "Exited")
  BY
  DEF Environment, GroundSends, RequestHk, RequestBlink, Send, TableCommand, RequestExit, Restart,
      dataVars, bankVars
<1>3. ~ Ticked
  <2>1. pipe' = pipe \/ \E m : Deliver(m)
    BY DEF Environment, GroundSends, RequestHk, RequestBlink, Send, TableCommand, RequestExit,
           Restart, busVars
  <2>2. QED BY <2>1, NotTicked DEF TypeOK
<1>4. QED BY <1>1, <1>2, <1>3 DEF Quiet, NotStarted

LEMMA QuietHandler ==
  ASSUME NEW m,
         \/ BadLength(m) \/ RejectMessage(m) \/ NoopCmd(m) \/ ResetCountersCmd(m)
         \/ DisplayParamCmd(m) \/ ProcessCmd(m) \/ SendHkCmd(m)
  PROVE  Quiet
<1>1. Unbooked /\ ~ Said("Report")'
  <2>1. CASE BadLength(m) \/ RejectMessage(m) \/ NoopCmd(m) \/ ResetCountersCmd(m)
    BY <2>1, PlainOutputs
    DEF BadLength, RejectMessage, NoopCmd, ResetCountersCmd, Emit, Event, Plain, LedgerTexts
  <2>2. CASE DisplayParamCmd(m) \/ ProcessCmd(m) \/ SendHkCmd(m)
    BY <2>2, PlainOutputs
    DEF DisplayParamCmd, ProcessCmd, SendHkCmd, Silent, Emit, Event, SysLog, Plain, LedgerTexts
  <2>3. QED BY <2>1, <2>2
<1>2. UNCHANGED bankVars
  BY DEF BadLength, RejectMessage, NoopCmd, ResetCountersCmd, DisplayParamCmd, ProcessCmd, SendHkCmd,
         dataVars, bankVars
<1>3. pc = "Receive" /\ ReceiveBuffer(m) /\ m.mid # "BLINK"
  BY DEF BadLength, RejectMessage, NoopCmd, ResetCountersCmd, DisplayParamCmd, ProcessCmd, SendHkCmd,
         Take, Runs, Selects, Dispatchable
<1>4. QED BY <1>1, <1>2, <1>3, NotTicked DEF Quiet, NotStarted

(***************************************************************************)
(* The start of the app, and the blink message.                            *)
(***************************************************************************)
LEMMA LedgerStarts ==
  ASSUME LInv, Booked, EvsRegister
  PROVE  LedgerKept
<1>1. Unbooked /\ ~ Said("Report")'
  BY PlainOutputs DEF EvsRegister, GiveUp, Silent, SysLog, Plain, LedgerTexts
<1>2. /\ pc = "Init" /\ pc' # "Init"
      /\ BlinkerCounts' = AllZero /\ BlinkerStatuses' = AllZero
  BY DEF EvsRegister, GiveUp, ClearData, ClearBank
<1>3. settled' = AllZero /\ since' = [i \in Blinkers |-> Off]
  BY <1>1, <1>2 DEF Booked, Book, Unbooked, LedgerTexts
<1>4. ticks' \in 0 .. MaxTicks
  BY <1>2 DEF Booked, Ticked, LInv, LedgerTypeOK
<1>5. LedgerTypeOK' /\ LedgerAgrees'
  <2>1. LedgerTypeOK'
    BY <1>3, <1>4, MaxTicksAssumption DEF LedgerTypeOK, AllZero, Off, Running
  <2>2. 0 % CountWrap = 0
    BY ZeroRemainder, CountWrapAssumption
  <2>3. ASSUME NEW i \in Blinkers
        PROVE  Balance(i)' = 0 /\ ~ Running(i)' /\ BlinkerCounts'[i] = 0 /\ BlinkerStatuses'[i] = 0
    BY <1>2, <1>3 DEF Balance, AllZero, Running
  <2>4. QED BY <2>1, <2>2, <2>3 DEF LedgerAgrees
<1>6. ReportsMatchLedger' /\ SwapsMatchLedger'
  BY <1>1 DEF Unbooked, LedgerTexts, ReportsMatchLedger, SwapsMatchLedger
<1>7. QED BY <1>5, <1>6 DEF LedgerKept

LEMMA LedgerBlinks ==
  ASSUME LInv, Booked, NEW m, BlinkTick(m)
  PROVE  LedgerKept
<1>1. out' = <<>> /\ pc = "Receive" /\ m = Head(pipe) /\ pipe' = Tail(pipe) /\ m.mid = "BLINK"
  BY DEF BlinkTick, Blink, Silent, Take, ReceiveBuffer
<1>2. Unbooked /\ ~ Said("Report")'
  BY <1>1, PlainOutputs
<1>3. UNCHANGED <<settled, since>>
  BY <1>1, <1>2, UnbookedKeepsLedger DEF Booked, NotStarted
<1>4. ticks' = ticks + 1 /\ ticks' <= MaxTicks
  <2>1. pipe \in Seq(Packets) /\ pipe # <<>>
    BY DEF LInv, IInv, Core, TypeOK, BlinkTick, Take, ReceiveBuffer
  <2>2. Len(pipe') < Len(pipe)
    BY <1>1, <2>1
  <2>3. QED BY <1>1, <2>2 DEF Booked, Ticked
<1>5. LedgerTypeOK'
  BY <1>3, <1>4, MaxTicksAssumption DEF LInv, LedgerTypeOK, Running, Off
<1>6. ASSUME NEW i \in Blinkers
      PROVE  /\ BlinkerCounts'[i] = Balance(i)' % CountWrap
             /\ BlinkerStatuses'[i] # 0 <=> Running(i)'
  <2>1. /\ BlinkerCounts[i] = Balance(i) % CountWrap
        /\ BlinkerStatuses[i] # 0 <=> Running(i)
        /\ Running(i)' <=> Running(i)
        /\ BlinkerStatuses' = BlinkerStatuses
        /\ Balance(i) \in Nat
    BY <1>3, BalanceTyped DEF LInv, LedgerAgrees, Running, BlinkTick, Blink
  <2>2. BlinkerCounts'[i] = IF Running(i) THEN (BlinkerCounts[i] + 1) % CountWrap ELSE BlinkerCounts[i]
    BY <2>1 DEF BlinkTick, Blink
  <2>3. Balance(i)' = IF Running(i) THEN Balance(i) + 1 ELSE Balance(i)
    <3>1. ticks \in Nat /\ settled[i] \in Nat /\ since[i] \in Nat
      BY MaxTicksAssumption DEF LInv, LedgerTypeOK, Off
    <3>2. QED BY <1>3, <1>4, <3>1 DEF Balance, Running
  <2>4. ((Balance(i) % CountWrap) + 1) % CountWrap = (Balance(i) + 1) % CountWrap
    BY <2>1, WrapAfterIncrement, CountWrapAssumption
  <2>5. QED BY <2>1, <2>2, <2>3, <2>4
<1>7. LedgerAgrees'
  BY <1>6 DEF LedgerAgrees
<1>8. ReportsMatchLedger' /\ SwapsMatchLedger'
  BY <1>2 DEF Unbooked, LedgerTexts, ReportsMatchLedger, SwapsMatchLedger
<1>9. QED BY <1>5, <1>7, <1>8 DEF LedgerKept

(***************************************************************************)
(* The commands: what the book makes of an acknowledgement o.              *)
(***************************************************************************)
CoveredBy(o) ==
  IF o.text \in {"AllReset", "AllEnabled", "AllDisabled"} THEN Swept ELSE {o.args[1]}

LEMMA CoveredByOutput ==
  ASSUME NEW o, out' = <<o>>
  PROVE  Covered' = CoveredBy(o)
<1>1. /\ out'[1] = o
      /\ Said("AllReset")' <=> o.text = "AllReset"
      /\ Said("AllEnabled")' <=> o.text = "AllEnabled"
      /\ Said("AllDisabled")' <=> o.text = "AllDisabled"
  BY OneOutput
<1>2. QED BY <1>1 DEF Covered, CoveredBy

LEMMA BookReset ==
  ASSUME Book, pc # "Init", NEW o, out' = <<o>>, o.text \in {"AllReset", "Reset"}
  PROVE  Settle(CoveredBy(o), AllZero)
<1>1. /\ Said("AllReset")' \/ Said("Reset")'
      /\ \A text \in {"AllEnabled", "Enabled", "AllDisabled", "Disabled", "Swapped"} : ~ Said(text)'
      /\ Covered' = CoveredBy(o)
  BY OneOutput, CoveredByOutput
<1>2. QED BY <1>1 DEF Book

LEMMA BookEnable ==
  ASSUME Book, pc # "Init", NEW o, out' = <<o>>, o.text \in {"AllEnabled", "Enabled"}
  PROVE  /\ UNCHANGED settled
         /\ since' = [i \in Blinkers |-> IF i \in CoveredBy(o) /\ ~ Running(i) THEN ticks ELSE since[i]]
<1>1. /\ Said("AllEnabled")' \/ Said("Enabled")'
      /\ \A text \in {"AllReset", "Reset", "AllDisabled", "Disabled", "Swapped"} : ~ Said(text)'
      /\ Covered' = CoveredBy(o)
  BY OneOutput, CoveredByOutput
<1>2. QED BY <1>1 DEF Book

LEMMA BookDisable ==
  ASSUME Book, pc # "Init", NEW o, out' = <<o>>, o.text \in {"AllDisabled", "Disabled"}
  PROVE  /\ settled' = [i \in Blinkers |-> IF i \in CoveredBy(o) THEN Balance(i) ELSE settled[i]]
         /\ since' = [i \in Blinkers |-> IF i \in CoveredBy(o) THEN Off ELSE since[i]]
<1>1. /\ Said("AllDisabled")' \/ Said("Disabled")'
      /\ \A text \in {"AllReset", "Reset", "AllEnabled", "Enabled", "Swapped"} : ~ Said(text)'
      /\ Covered' = CoveredBy(o)
  BY OneOutput, CoveredByOutput
<1>2. QED BY <1>1 DEF Book

Exchanged(a, b) == [i \in Blinkers |-> IF i = a THEN Balance(b) ELSE Balance(a)]

LEMMA BookSwap ==
  ASSUME Book, pc # "Init", NEW o, out' = <<o>>, o.text = "Swapped"
  PROVE  Settle({o.args[1], o.args[2]}, Exchanged(o.args[1], o.args[2]))
<1>1. /\ Said("Swapped")' /\ out'[1] = o
      /\ \A text \in {"AllReset", "Reset", "AllEnabled", "Enabled", "AllDisabled", "Disabled"} :
           ~ Said(text)'
  BY OneOutput
<1>2. QED BY <1>1 DEF Book, Exchanged

\* An acknowledgement in which no count is printed.
LEMMA NothingPrinted ==
  ASSUME NEW o, out' = <<o>>, o.text \notin {"Report", "Swapped"}
  PROVE  ReportsMatchLedger' /\ SwapsMatchLedger'
<1>1. ~ Said("Report")' /\ ~ Said("Swapped")'
  BY OneOutput
<1>2. QED BY <1>1 DEF ReportsMatchLedger, SwapsMatchLedger

\* In the lemmas below a command is handled, and booked.
Booking == LInv /\ Book /\ ticks' = ticks /\ pc = "Receive"

\* The reset of the counts of S, with acknowledgement o.
LEMMA ResetKeeps ==
  ASSUME Booking, NEW o, out' = <<o>>, o.text \in {"AllReset", "Reset"},
         \A i \in Blinkers : BlinkerCounts'[i] = IF i \in CoveredBy(o) THEN 0 ELSE BlinkerCounts[i],
         UNCHANGED BlinkerStatuses
  PROVE  LedgerKept
<1>1. Settle(CoveredBy(o), AllZero) /\ (\A i \in Blinkers : AllZero[i] = 0)
  BY BookReset DEF Booking, AllZero
<1>2. /\ LedgerTypeOK'
      /\ \A i \in Blinkers : /\ Balance(i)' = IF i \in CoveredBy(o) THEN AllZero[i] ELSE Balance(i)
                             /\ Running(i)' <=> Running(i)
  BY <1>1, SettleBalances DEF Booking, LInv
<1>3. 0 % CountWrap = 0
  BY ZeroRemainder, CountWrapAssumption
<1>4. LedgerAgrees'
  BY <1>1, <1>2, <1>3 DEF LedgerAgrees, Booking, LInv
<1>5. QED BY <1>2, <1>4, NothingPrinted DEF LedgerKept

\* Enabling or disabling the blinkers of S, with acknowledgement o.
LEMMA EnableKeeps ==
  ASSUME Booking, NEW o, out' = <<o>>, o.text \in {"AllEnabled", "Enabled"},
         \A i \in Blinkers : BlinkerStatuses'[i] = IF i \in CoveredBy(o) THEN 1 ELSE BlinkerStatuses[i],
         UNCHANGED BlinkerCounts
  PROVE  LedgerKept
<1>1. /\ LedgerTypeOK'
      /\ \A i \in Blinkers : /\ Balance(i)' = Balance(i)
                             /\ Running(i)' <=> (i \in CoveredBy(o) \/ Running(i))
  BY BookEnable, EnableBalances DEF Booking, LInv
<1>2. LedgerAgrees'
  BY <1>1 DEF LedgerAgrees, Booking, LInv
<1>3. QED BY <1>1, <1>2, NothingPrinted DEF LedgerKept

LEMMA DisableKeeps ==
  ASSUME Booking, NEW o, out' = <<o>>, o.text \in {"AllDisabled", "Disabled"},
         \A i \in Blinkers : BlinkerStatuses'[i] = IF i \in CoveredBy(o) THEN 0 ELSE BlinkerStatuses[i],
         UNCHANGED BlinkerCounts
  PROVE  LedgerKept
<1>1. /\ LedgerTypeOK'
      /\ \A i \in Blinkers : /\ Balance(i)' = Balance(i)
                             /\ Running(i)' <=> (i \notin CoveredBy(o) /\ Running(i))
  BY BookDisable, DisableBalances DEF Booking, LInv
<1>2. LedgerAgrees'
  BY <1>1 DEF LedgerAgrees, Booking, LInv
<1>3. QED BY <1>1, <1>2, NothingPrinted DEF LedgerKept

\* Commands for all blinkers.
LEMMA LedgerSweeps ==
  ASSUME Booking, ResetAllBlinkersCmd \/ EnableAllBlinkersCmd \/ DisableAllBlinkersCmd
  PROVE  LedgerKept
<1>1. BankTypeOK
  BY DEF Booking, LInv, IInv, Core, TypeOK
<1>2. CASE ResetAllBlinkersCmd
  <2>1. PICK o : out' = <<o>> /\ o.text = "AllReset" /\ CoveredBy(o) = Swept
    BY <1>2 DEF ResetAllBlinkersCmd, Acknowledge, Emit, Event, CoveredBy
  <2>2. QED BY <1>1, <1>2, <2>1, ResetKeeps DEF ResetAllBlinkersCmd, Fill
<1>3. CASE EnableAllBlinkersCmd
  <2>1. PICK o : out' = <<o>> /\ o.text = "AllEnabled" /\ CoveredBy(o) = Swept
    BY <1>3 DEF EnableAllBlinkersCmd, Acknowledge, Emit, Event, CoveredBy
  <2>2. QED BY <1>1, <1>3, <2>1, EnableKeeps DEF EnableAllBlinkersCmd, Fill
<1>4. CASE DisableAllBlinkersCmd
  <2>1. PICK o : out' = <<o>> /\ o.text = "AllDisabled" /\ CoveredBy(o) = Swept
    BY <1>4 DEF DisableAllBlinkersCmd, Acknowledge, Emit, Event, CoveredBy
  <2>2. QED BY <1>1, <1>4, <2>1, DisableKeeps DEF DisableAllBlinkersCmd, Fill
<1>5. QED BY <1>2, <1>3, <1>4

\* A command that is refused, or that only reports.
LEMMA LedgerRefuses ==
  ASSUME Booking, NEW args, RefuseBlinker(args)
  PROVE  LedgerKept
<1>1. PICK o : out' = <<o>> /\ o.text = "Untracked"
  BY DEF RefuseBlinker, Emit, Event
<1>2. Plain(o)
  BY <1>1 DEF Plain, LedgerTexts
<1>3. Unbooked
  BY <1>1, <1>2, PlainOutputs
<1>4. UNCHANGED <<settled, since>>
  BY <1>3, UnbookedKeepsLedger DEF Booking, NotStarted
<1>5. LedgerTypeOK' /\ LedgerAgrees'
  BY <1>4, SameLedger DEF Booking, LInv, RefuseBlinker
<1>6. QED BY <1>1, <1>5, NothingPrinted DEF LedgerKept

LEMMA LedgerReports ==
  ASSUME Booking, NEW n \in Nat, ReportSpecBlinkersCmd(n), Tracked(n)
  PROVE  LedgerKept
<1>1. n \in Blinkers
  BY TrackedIsBlinker
<1>2. PICK o : out' = <<o>> /\ o.text = "Report" /\ o.args = <<n, BlinkerCounts[n]>>
  BY DEF ReportSpecBlinkersCmd, Acknowledge, Emit, Event
<1>3. out'[1] = o /\ Unbooked
  BY <1>2, OneOutput DEF Unbooked, LedgerTexts
<1>4. UNCHANGED <<bankVars, settled, since, ticks>>
  BY <1>3, UnbookedKeepsLedger DEF Booking, NotStarted, ReportSpecBlinkersCmd
<1>5. /\ LedgerTypeOK' /\ LedgerAgrees'
      /\ \A i \in Blinkers : Balance(i)' = Balance(i)
  BY <1>4, SameLedger DEF Booking, LInv
<1>6. ReportsMatchLedger'
  <2>1. out'[1].args[1] = n /\ out'[1].args[2] = BlinkerCounts[n]
    BY <1>2, <1>3
  <2>2. Balance(out[1].args[1])' = Balance(n)'
    BY <2>1 DEF Balance
  <2>3. Balance(n)' = Balance(n) /\ BlinkerCounts[n] = Balance(n) % CountWrap
    BY <1>1, <1>5 DEF Booking, LInv, LedgerAgrees
  <2>4. QED BY <2>1, <2>2, <2>3 DEF ReportsMatchLedger
<1>7. SwapsMatchLedger'
  BY <1>3 DEF Unbooked, LedgerTexts, SwapsMatchLedger
<1>8. QED BY <1>5, <1>6, <1>7 DEF LedgerKept

\* Commands for one blinker.
LEMMA LedgerSpecs ==
  ASSUME Booking, NEW n \in Nat,
         \/ ResetSpecBlinkersCmd(n) \/ EnableSpecBlinkersCmd(n) \/ DisableSpecBlinkersCmd(n)
  PROVE  LedgerKept
<1>1. BankTypeOK /\ (Tracked(n) => n \in Blinkers)
  BY TrackedIsBlinker DEF Booking, LInv, IInv, Core, TypeOK
<1>2. CASE ~ Tracked(n)
  BY <1>2, LedgerRefuses DEF ResetSpecBlinkersCmd, EnableSpecBlinkersCmd, DisableSpecBlinkersCmd
<1>3. CASE Tracked(n) /\ ResetSpecBlinkersCmd(n)
  <2>1. PICK o : out' = <<o>> /\ o.text = "Reset" /\ o.args = <<n>>
    BY <1>3 DEF ResetSpecBlinkersCmd, Acknowledge, Emit, Event
  <2>2. CoveredBy(o) = {n}
    BY <2>1 DEF CoveredBy
  <2>3. /\ BlinkerCounts' = [BlinkerCounts EXCEPT ![n] = 0]
        /\ UNCHANGED BlinkerStatuses
    BY <1>3 DEF ResetSpecBlinkersCmd
  <2>4. \A i \in Blinkers : BlinkerCounts'[i] = IF i \in CoveredBy(o) THEN 0 ELSE BlinkerCounts[i]
    BY <1>1, <2>2, <2>3 DEF BankTypeOK
  <2>5. QED BY <2>1, <2>3, <2>4, ResetKeeps
<1>4. CASE Tracked(n) /\ EnableSpecBlinkersCmd(n)
  <2>1. PICK o : out' = <<o>> /\ o.text = "Enabled" /\ o.args = <<n>>
    BY <1>4 DEF EnableSpecBlinkersCmd, Acknowledge, Emit, Event
  <2>2. CoveredBy(o) = {n}
    BY <2>1 DEF CoveredBy
  <2>3. /\ BlinkerStatuses' = [BlinkerStatuses EXCEPT ![n] = 1]
        /\ UNCHANGED BlinkerCounts
    BY <1>4 DEF EnableSpecBlinkersCmd
  <2>4. \A i \in Blinkers : BlinkerStatuses'[i] = IF i \in CoveredBy(o) THEN 1 ELSE BlinkerStatuses[i]
    BY <1>1, <2>2, <2>3 DEF BankTypeOK
  <2>5. QED BY <2>1, <2>3, <2>4, EnableKeeps
<1>5. CASE Tracked(n) /\ DisableSpecBlinkersCmd(n)
  <2>1. PICK o : out' = <<o>> /\ o.text = "Disabled" /\ o.args = <<n>>
    BY <1>5 DEF DisableSpecBlinkersCmd, Acknowledge, Emit, Event
  <2>2. CoveredBy(o) = {n}
    BY <2>1 DEF CoveredBy
  <2>3. /\ BlinkerStatuses' = [BlinkerStatuses EXCEPT ![n] = 0]
        /\ UNCHANGED BlinkerCounts
    BY <1>5 DEF DisableSpecBlinkersCmd
  <2>4. \A i \in Blinkers : BlinkerStatuses'[i] = IF i \in CoveredBy(o) THEN 0 ELSE BlinkerStatuses[i]
    BY <1>1, <2>2, <2>3 DEF BankTypeOK
  <2>5. QED BY <2>1, <2>3, <2>4, DisableKeeps
<1>6. QED BY <1>2, <1>3, <1>4, <1>5

\* The swap exchanges two balances; the intervals go on where they are.
LEMMA LedgerSwaps ==
  ASSUME Booking, NEW a \in Nat, NEW b \in Nat, SwapBlinkerCountsCmd(a, b)
  PROVE  LedgerKept
<1>1. CASE ~ (Tracked(a) /\ Tracked(b))
  BY <1>1, LedgerRefuses DEF SwapBlinkerCountsCmd
<1>2. CASE Tracked(a) /\ Tracked(b)
  <2>1. /\ a \in Blinkers /\ b \in Blinkers /\ BankTypeOK
        /\ Balance(a) \in Nat /\ Balance(b) \in Nat
        /\ BlinkerCounts[a] = Balance(a) % CountWrap /\ BlinkerCounts[b] = Balance(b) % CountWrap
    BY <1>2, TrackedIsBlinker, BalanceTyped DEF Booking, LInv, IInv, Core, TypeOK, LedgerAgrees
  <2>2. PICK o : /\ out' = <<o>> /\ o.text = "Swapped"
                 /\ o.args = <<a, b, BlinkerCounts[b], BlinkerCounts[a]>>
    BY <1>2 DEF SwapBlinkerCountsCmd, Acknowledge, Emit, Event
  <2>3. /\ o.args[1] = a /\ o.args[2] = b
        /\ o.args[3] = BlinkerCounts[b] /\ o.args[4] = BlinkerCounts[a]
    BY <2>2
  <2>4. Settle({a, b}, Exchanged(a, b))
    BY <2>2, <2>3, BookSwap DEF Booking
  <2>5. \A i \in {a, b} : Exchanged(a, b)[i] = IF i = a THEN Balance(b) ELSE Balance(a)
    BY <2>1 DEF Exchanged
  <2>6. /\ LedgerTypeOK'
        /\ \A i \in Blinkers : /\ Balance(i)' = IF i \in {a, b} THEN Exchanged(a, b)[i] ELSE Balance(i)
                               /\ Running(i)' <=> Running(i)
    BY <2>1, <2>4, <2>5, SettleBalances DEF Booking, LInv
  <2>7. Balance(a)' = Balance(b) /\ Balance(b)' = Balance(a)
    BY <2>1, <2>5, <2>6
  <2>8. LedgerAgrees'
    <3>1. BlinkerCounts' = [BlinkerCounts EXCEPT ![a] = BlinkerCounts[b], ![b] = BlinkerCounts[a]]
          /\ BlinkerStatuses' = BlinkerStatuses
      BY <1>2 DEF SwapBlinkerCountsCmd
    <3>2. ASSUME NEW i \in Blinkers
          PROVE  /\ BlinkerCounts'[i] = Balance(i)' % CountWrap
                 /\ BlinkerStatuses'[i] # 0 <=> Running(i)'
      <4>1. /\ BlinkerCounts[i] = Balance(i) % CountWrap
            /\ BlinkerStatuses[i] # 0 <=> Running(i)
            /\ Running(i)' <=> Running(i)
        BY <2>6 DEF Booking, LInv, LedgerAgrees
      <4>2. CASE i = b
        BY <2>1, <2>7, <3>1, <4>1, <4>2 DEF BankTypeOK
      <4>3. CASE i = a /\ i # b
        BY <2>1, <2>7, <3>1, <4>1, <4>3 DEF BankTypeOK
      <4>4. CASE i \notin {a, b}
        BY <2>1, <2>6, <3>1, <4>1, <4>4 DEF BankTypeOK
      <4>5. QED BY <4>2, <4>3, <4>4
    <3>3. QED BY <3>2 DEF LedgerAgrees
  <2>9. SwapsMatchLedger'
    <3>1. /\ out'[1].args[1] = a /\ out'[1].args[2] = b
          /\ out'[1].args[3] = BlinkerCounts[b] /\ out'[1].args[4] = BlinkerCounts[a]
      BY <2>2, <2>3, OneOutput
    <3>2. /\ Balance(out[1].args[1])' = Balance(a)'
          /\ Balance(out[1].args[2])' = Balance(b)'
      BY <3>1 DEF Balance
    <3>3. QED BY <2>1, <2>7, <3>1, <3>2 DEF SwapsMatchLedger
  <2>10. ReportsMatchLedger'
    <3>1. ~ Said("Report")'
      BY <2>2, OneOutput
    <3>2. QED BY <3>1 DEF ReportsMatchLedger
  <2>11. QED BY <2>6, <2>8, <2>9, <2>10 DEF LedgerKept
<1>3. QED BY <1>1, <1>2

LEMMA LedgerCommands ==
  ASSUME LInv, Booked, NEW m \in Packets, BankCommand(m)
  PROVE  LedgerKept
<1>1. m.n1 \in Nat /\ m.n2 \in Nat
  BY PacketsAreMessages DEF Message
<1>2. pc = "Receive" /\ ReceiveBuffer(m) /\ m.mid # "BLINK"
  BY DEF BankCommand, Take, Runs, Selects
<1>3. Booking
  BY <1>2, NotTicked DEF Booking, Booked
<1>4. CASE ResetAllBlinkersCmd \/ EnableAllBlinkersCmd \/ DisableAllBlinkersCmd
  BY <1>3, <1>4, LedgerSweeps
<1>5. CASE \/ ResetSpecBlinkersCmd(m.n1) \/ EnableSpecBlinkersCmd(m.n1)
           \/ DisableSpecBlinkersCmd(m.n1)
  BY <1>1, <1>3, <1>5, LedgerSpecs
<1>6. CASE ReportSpecBlinkersCmd(m.n1)
  BY <1>1, <1>3, <1>6, LedgerReports, LedgerRefuses DEF ReportSpecBlinkersCmd
<1>7. CASE SwapBlinkerCountsCmd(m.n1, m.n2)
  BY <1>1, <1>3, <1>7, LedgerSwaps
<1>8. QED BY <1>4, <1>5, <1>6, <1>7 DEF BankCommand

(***************************************************************************)
(* Every step.                                                             *)
(***************************************************************************)
LEMMA LedgerInvStep == ASSUME LInv, [LedgerNext]_<<vars, ledgerVars>> PROVE LInv'
<1>1. CASE LedgerNext
  <2>1. Next /\ Booked
    BY <1>1 DEF LedgerNext, Booked
  <2>2. IInv'
    BY <2>1, IInvStep DEF LInv
  <2>3. LedgerKept
    <3>1. CASE TaskPipe
      BY <3>1, <2>1, QuietHandler, QuietKeeps, LedgerCommands, LedgerBlinks DEF TaskPipe
    <3>2. CASE AppInit
      BY <3>2, <2>1, QuietInit, QuietKeeps, LedgerStarts DEF AppInit
    <3>3. CASE Environment
      BY <3>3, <2>1, QuietEnvironment, QuietKeeps DEF LInv, IInv, Core
    <3>4. CASE EnterLoop \/ LeaveLoop \/ ExitApp \/ ReceiveFails \/ LogValues \/ LogCrc
      BY <3>4, <2>1, QuietLoop, QuietLogCrc, QuietKeeps
    <3>5. QED BY <2>1, <3>1, <3>2, <3>3, <3>4 DEF Next, AppStep
  <2>4. QED BY <2>2, <2>3 DEF LInv, LedgerKept
<1>2. CASE UNCHANGED <<vars, ledgerVars>>
  <2>1. IInv'
    BY <1>2, IInvStep DEF LInv
  <2>2. UNCHANGED <<bankVars, settled, since, ticks>> /\ out' = out
    BY <1>2 DEF vars, ledgerVars, dataVars, bankVars
  <2>3. LedgerTypeOK' /\ LedgerAgrees'
    BY <2>2, SameLedger DEF LInv
  <2>4. ReportsMatchLedger' /\ SwapsMatchLedger'
    BY <2>2 DEF LInv, ReportsMatchLedger, SwapsMatchLedger, Said, Balance
  <2>5. QED BY <2>1, <2>3, <2>4 DEF LInv
<1>3. QED BY <1>1, <1>2

(***************************************************************************)
(* Theorems.                                                               *)
(***************************************************************************)

\* The app's counts are the ledger's balances modulo their width in every
\* behaviour of the app.
THEOREM LedgerInvariance == LedgerSpec => []LInv
<1>1. LedgerInit => LInv
  BY LedgerInvInit
<1>2. LInv /\ [LedgerNext]_<<vars, ledgerVars>> => LInv'
  BY LedgerInvStep
<1>3. QED BY <1>1, <1>2, PTL DEF LedgerSpec

\* A report prints the balance of the blinker, for every number of blinkers,
\* width of the counts and set of commands (ReportSpecBlinkersCmd, Blink).
THEOREM ReportsAreBalances == LedgerSpec => []ReportsMatchLedger
<1>1. LInv => ReportsMatchLedger
  BY DEF LInv
<1>2. QED BY <1>1, LedgerInvariance, PTL

\* The acknowledgement of a swap prints the two balances after the exchange
\* (SwapBlinkerCountsCmd).
THEOREM SwapsAreBalances == LedgerSpec => []SwapsMatchLedger
<1>1. LInv => SwapsMatchLedger
  BY DEF LInv
<1>2. QED BY <1>1, LedgerInvariance, PTL
================================================================================
