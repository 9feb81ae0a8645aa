--------------------------- MODULE BlinkerScript_proofs ---------------------------
(***************************************************************************)
(* The ground session: whoever has seen the acknowledgements of the script *)
(* in their order may trust the reports, for any number of lost commands,  *)
(* any timing of the blinks, depth of the pipe and width of the counts.    *)
(*                                                                         *)
(* What a report will show is decided by what already waits in the pipe in *)
(* front of it.  The invariant therefore replays the pipe: it speaks of    *)
(* every state that the bank of blinkers and the ground will be in when    *)
(* the first k messages of the pipe have been handled.                     *)
(***************************************************************************)
EXTENDS BlinkerScript, BlinkerApp_proofs, Modulo_proofs, FiniteSetTheorems

\* The messages of a session.
Script == SessionCommands \cup {Tick("BLINK")}

\* The bank, how many commands were acknowledged, and whether these were the
\* first of the session.
States == [counts : [Blinkers -> 0 .. CountWrap - 1], statuses : [Blinkers -> {0, 1}],
           heard : Nat, ok : BOOLEAN]

Now == [counts |-> BlinkerCounts, statuses |-> BlinkerStatuses, heard |-> heard, ok |-> TRUE]

\* What handling a message makes of it.
CountsAfter(m, s) ==
  IF m.mid = "BLINK"
    THEN [i \in Blinkers |-> IF s.statuses[i] # 0 THEN (s.counts[i] + 1) % CountWrap ELSE s.counts[i]]
  ELSE IF m.cc = "RESET_ALL" THEN Fill(s.counts, 0)
  ELSE IF m.cc = "SWAP" THEN [s.counts EXCEPT ![5] = s.counts[3], ![3] = s.counts[5]]
  ELSE s.counts

StatusesAfter(m, s) ==
  CASE m.cc = "DISABLE_ALL" -> Fill(s.statuses, 0)
    [] m.cc = "ENABLE_SPEC" -> [s.statuses EXCEPT ![m.n1] = 1]
    [] m.cc = "DISABLE_SPEC" -> [s.statuses EXCEPT ![m.n1] = 0]
    [] OTHER -> s.statuses

After(m, s) ==
  [counts |-> CountsAfter(m, s), statuses |-> StatusesAfter(m, s),
   heard |-> IF m.mid = "BLINK" THEN s.heard ELSE s.heard + 1,
   ok |-> s.ok /\ (m.mid = "BLINK" \/ (s.heard < Len(Session) /\ m = Session[s.heard + 1]))]

(***************************************************************************)
(* The two blinkers of the session, and the commands that open and, right  *)
(* afterwards, close their windows.                                        *)
(***************************************************************************)
Windowed == {3, 5}
Opening(n) == IF n = 5 THEN 5 ELSE 8
Swapping == 11

\* The blinker that holds the count of n's window.
Place(n, h) == IF h < Swapping THEN n ELSE IF n = 5 THEN 3 ELSE 5

\* What the acknowledgements seen up to a state say of it for good.
Told(s, n) ==
  /\ s.heard \in 3 .. Opening(n) - 1 => s.counts[n] = 0
  /\ s.heard >= 2 /\ s.heard # Opening(n) => s.statuses[n] = 0
  /\ s.heard > Opening(n) => /\ n \notin open /\ line > Opening(n) + 1
                             /\ s.counts[Place(n, s.heard)] = Window(n)

Lasting(s) == s.ok => s.heard < line /\ \A n \in Windowed : Told(s, n)

\* And what they say as long as nothing else is sent.
Ahead(s, n) ==
  /\ s.heard < Opening(n) => n \notin open /\ sent[n] = 0 /\ dropped[n] = 0
  /\ s.heard = Opening(n) => n \in open /\ s.statuses[n] = 1 /\ s.counts[n] = Window(n)

Latest(s) == s.ok => \A n \in Windowed : Ahead(s, n)

Replays(H) ==
  /\ H \in [0 .. Len(pipe) -> States]
  /\ H[0] = Now
  /\ \A k \in 1 .. Len(pipe) : H[k] = After(pipe[k], H[k - 1])

Foreseen ==
  \E H : /\ Replays(H)
         /\ \A k \in 0 .. Len(pipe) : Lasting(H[k])
         /\ Latest(H[Len(pipe)])

\* As long as the acknowledgements are in order, the task is at its loop.
Looping == pc \in {"RunLoop", "Receive"} /\ RunStatus = "APP_RUN" /\ controlReq = "APP_RUN"

WindowsOK ==
  /\ line \in 1 .. Len(Session) + 1
  /\ sent \in [Blinkers -> Nat] /\ dropped \in [Blinkers -> Nat]
  /\ \A n \in Windowed : dropped[n] <= sent[n]

SessionOK ==
  /\ Looping
  /\ WindowsOK
  /\ pipe \in Seq(Script)
  /\ Foreseen
  /\ AcknowledgedReportsTrue

\* Once an acknowledgement is missed, or the pipe has failed, nothing is
\* promised any more.
SInv == inOrder => SessionOK

(***************************************************************************)
(* The script.                                                             *)
(***************************************************************************)
LEMMA SessionLines ==
  /\ Len(Session) = 13 /\ DOMAIN Session = 1 .. 13
  /\ Session[1] = send_blink_noargs("NOOP")
  /\ Session[2] = send_blink_noargs("DISABLE_ALL")
  /\ Session[3] = send_blink_noargs("RESET_ALL")
  /\ Session[4] = send_blink_specblinker("REPORT_SPEC", 5)
  /\ Session[5] = send_blink_specblinker("ENABLE_SPEC", 5)
  /\ Session[6] = send_blink_specblinker("DISABLE_SPEC", 5)
  /\ Session[7] = send_blink_specblinker("REPORT_SPEC", 5)
  /\ Session[8] = send_blink_specblinker("ENABLE_SPEC", 3)
  /\ Session[9] = send_blink_specblinker("DISABLE_SPEC", 3)
  /\ Session[10] = send_blink_specblinker("REPORT_SPEC", 3)
  /\ Session[11] = send_blink_swapblinkers(5, 3)
  /\ Session[12] = send_blink_specblinker("REPORT_SPEC", 5)
  /\ Session[13] = send_blink_specblinker("REPORT_SPEC", 3)
  BY DEF Session

LEMMA LineNumbers ==
  \A k \in 1 .. 13 : \/ k = 1 \/ k = 2 \/ k = 3 \/ k = 4 \/ k = 5 \/ k = 6 \/ k = 7
                     \/ k = 8 \/ k = 9 \/ k = 10 \/ k = 11 \/ k = 12 \/ k = 13
  OBVIOUS

\* Which commands stand where.
LEMMA SessionCodes ==
  \A k \in 1 .. 13 :
    /\ Session[k].mid = "CMD"
    /\ Session[k].cc = "DISABLE_ALL" <=> k = 2
    /\ Session[k].cc = "RESET_ALL" <=> k = 3
    /\ Session[k].cc = "SWAP" <=> k = 11
    /\ Session[k].cc = "ENABLE_SPEC" <=> k \in {5, 8}
    /\ Session[k].cc = "DISABLE_SPEC" <=> k \in {6, 9}
    /\ Session[k].cc = "REPORT_SPEC" <=> k \in {4, 7, 10, 12, 13}
    /\ k \in {4, 5, 6, 7, 12} => Session[k].n1 = 5
    /\ k \in {8, 9, 10, 13} => Session[k].n1 = 3
    /\ k = 11 => Session[k].n1 = 5 /\ Session[k].n2 = 3
    /\ Session[k].cc \in {"NOOP", "DISABLE_ALL", "RESET_ALL", "SWAP", "ENABLE_SPEC",
                           "DISABLE_SPEC", "REPORT_SPEC"}
<1> SUFFICES ASSUME NEW k \in 1 .. 13
             PROVE  /\ Session[k].mid = "CMD"
                    /\ Session[k].cc = "DISABLE_ALL" <=> k = 2
                    /\ Session[k].cc = "RESET_ALL" <=> k = 3
                    /\ Session[k].cc = "SWAP" <=> k = 11
                    /\ Session[k].cc = "ENABLE_SPEC" <=> k \in {5, 8}
                    /\ Session[k].cc = "DISABLE_SPEC" <=> k \in {6, 9}
                    /\ Session[k].cc = "REPORT_SPEC" <=> k \in {4, 7, 10, 12, 13}
                    /\ k \in {4, 5, 6, 7, 12} => Session[k].n1 = 5
                    /\ k \in {8, 9, 10, 13} => Session[k].n1 = 3
                    /\ k = 11 => Session[k].n1 = 5 /\ Session[k].n2 = 3
                    /\ Session[k].cc \in {"NOOP", "DISABLE_ALL", "RESET_ALL", "SWAP",
                                          "ENABLE_SPEC", "DISABLE_SPEC", "REPORT_SPEC"}
  OBVIOUS
<1>1. CASE k \in {1, 2, 3}
  BY <1>1, SessionLines DEF send_blink_noargs
<1>2. CASE k \in {4, 5, 6, 7, 12}
  BY <1>2, SessionLines DEF send_blink_specblinker
<1>3. CASE k \in {8, 9, 10, 13}
  BY <1>3, SessionLines DEF send_blink_specblinker
<1>4. CASE k = 11
  BY <1>4, SessionLines DEF send_blink_swapblinkers
<1>5. QED BY <1>1, <1>2, <1>3, <1>4, LineNumbers

\* A command of the session is determined by its code and its blinker.
LEMMA SessionShape ==
  ASSUME NEW m \in SessionCommands
  PROVE  \/ m.cc \in {"NOOP", "DISABLE_ALL", "RESET_ALL"} /\ m = send_blink_noargs(m.cc)
         \/ /\ m.cc \in {"REPORT_SPEC", "ENABLE_SPEC", "DISABLE_SPEC"} /\ m.n1 \in {3, 5}
            /\ m = send_blink_specblinker(m.cc, m.n1)
         \/ m.cc = "SWAP" /\ m = send_blink_swapblinkers(5, 3)
<1>1. PICK k \in 1 .. 13 : m = Session[k]
  BY SessionLines DEF SessionCommands
<1>2. CASE k \in {1, 2, 3}
  BY <1>1, <1>2, SessionLines DEF send_blink_noargs
<1>3. CASE k \in {4, 5, 6, 7, 8, 9, 10, 12, 13}
  BY <1>1, <1>3, SessionLines DEF send_blink_specblinker
<1>4. CASE k = 11
  BY <1>1, <1>4, SessionLines DEF send_blink_swapblinkers
<1>5. QED BY <1>2, <1>3, <1>4, LineNumbers

LEMMA SessionMembers == \A k \in 1 .. 13 : Session[k] \in SessionCommands
  BY SessionLines DEF SessionCommands

\* Its acknowledgement tells it from the others.
LEMMA AcksTell ==
  ASSUME NEW m \in SessionCommands, NEW k \in 1 .. 13, Acks[m.cc] = Acks[Session[k].cc],
         Session[k].cc \in SpecCodes => m.n1 = Session[k].n1
  PROVE  m = Session[k]
<1>1. m.cc = Session[k].cc
  BY SessionShape, SessionCodes DEF Acks
<1>2. Session[k] \in SessionCommands
  BY SessionMembers
<1>3. QED BY <1>1, <1>2, SessionShape DEF SpecCodes

LEMMA Bank == {3, 5} \subseteq Blinkers /\ {3, 5} \subseteq Swept
  BY TotalBlinkersAssumption, SessionBlinkersAssumption DEF Blinkers, Swept

(***************************************************************************)
(* The replay: what a message adds to it.                                  *)
(***************************************************************************)
LEMMA ScriptCases ==
  ASSUME NEW m \in Script
  PROVE  \/ m = Tick("BLINK") /\ m.mid = "BLINK" /\ m.cc = "UNKNOWN"
         \/ m \in SessionCommands /\ m.mid = "CMD"
  BY SessionShape
  DEF Script, Tick, send_blink_noargs, send_blink_specblinker, send_blink_swapblinkers

LEMMA AfterTyped ==
  ASSUME NEW m \in Script, NEW s \in States
  PROVE  After(m, s) \in States
<1>1. CountsAfter(m, s) \in [Blinkers -> 0 .. CountWrap - 1]
  <2>1. CASE m.mid = "BLINK"
    <3>1. \A i \in Blinkers : (s.counts[i] + 1) % CountWrap \in 0 .. CountWrap - 1
      <4> SUFFICES ASSUME NEW i \in Blinkers
                   PROVE  (s.counts[i] + 1) % CountWrap \in 0 .. CountWrap - 1
        OBVIOUS
      <4>1. s.counts[i] \in 0 .. CountWrap - 1
        BY DEF States
      <4>2. s.counts[i] + 1 \in Nat /\ CountWrap \in Nat \ {0}
        BY <4>1, CountWrapAssumption
      <4>3. QED BY <4>2, WrapTyped
    <3>2. CountsAfter(m, s) = [i \in Blinkers |-> IF s.statuses[i] # 0 THEN (s.counts[i] + 1) % CountWrap
                                                                       ELSE s.counts[i]]
      BY <2>1 DEF CountsAfter
    <3>3. s.counts \in [Blinkers -> 0 .. CountWrap - 1]
      BY DEF States
    <3>4. QED BY <3>1, <3>2, <3>3
  <2>2. CASE m.mid # "BLINK" /\ m.cc = "RESET_ALL"
    BY <2>2, CountWrapAssumption DEF CountsAfter, Fill, States
  <2>3. CASE m.mid # "BLINK" /\ m.cc = "SWAP"
    BY <2>3, Bank DEF CountsAfter, States
  <2>4. CASE m.mid # "BLINK" /\ m.cc \notin {"RESET_ALL", "SWAP"}
    BY <2>4 DEF CountsAfter, States
  <2>5. QED BY <2>1, <2>2, <2>3, <2>4
<1>2. StatusesAfter(m, s) \in [Blinkers -> {0, 1}]
  <2>1. CASE m.cc = "DISABLE_ALL"
    BY <2>1 DEF StatusesAfter, Fill, States
  <2>2. CASE m.cc # "DISABLE_ALL"
    BY <2>2 DEF StatusesAfter, States
  <2>3. QED BY <2>1, <2>2
<1>3. QED BY <1>1, <1>2 DEF After, States

LEMMA WindowTyped ==
  ASSUME WindowsOK, NEW n \in Windowed
  PROVE  /\ sent[n] \in Nat /\ dropped[n] \in Nat /\ sent[n] - dropped[n] \in Nat
         /\ n \in Blinkers /\ n \in Swept
         /\ sent[n] = 0 /\ dropped[n] = 0 => Window(n) = 0
<1>1. sent[n] \in Nat /\ dropped[n] \in Nat /\ sent[n] - dropped[n] \in Nat /\ n \in Blinkers
  BY Bank DEF WindowsOK, Windowed
<1>2. sent[n] = 0 /\ dropped[n] = 0 => Window(n) = 0
  BY <1>1, ZeroRemainder, CountWrapAssumption DEF Window
<1>3. QED BY <1>1, <1>2, Bank DEF Windowed

\* The command that was sent, appended to what was foreseen.  A command that
\* is the one expected next stands at that line of the script.
LEMMA SentTells ==
  ASSUME NEW k \in 1 .. 13, NEW j \in 1 .. 13, Session[k] = Session[j],
         k \in {1, 2, 3, 5, 6, 8, 9, 11} \/ j \in {1, 2, 3, 5, 6, 8, 9, 11}
  PROVE  k = j
<1>1. k \in {1, 2, 3, 5, 6, 8, 9, 11} => k = j
  <2>1. Session[1].cc = "NOOP"
    BY SessionLines DEF send_blink_noargs
  <2>2. CASE k = 1
    BY <2>1, <2>2, LineNumbers, SessionLines
    DEF send_blink_noargs, send_blink_specblinker, send_blink_swapblinkers
  <2>3. CASE k # 1
    BY <2>3, SessionCodes
  <2>4. QED BY <2>2, <2>3
<1>2. j \in {1, 2, 3, 5, 6, 8, 9, 11} => k = j
  <2>1. CASE j = 1
    BY <2>1, LineNumbers, SessionLines
    DEF send_blink_noargs, send_blink_specblinker, send_blink_swapblinkers
  <2>2. CASE j # 1
    BY <2>2, SessionCodes
  <2>3. QED BY <2>1, <2>2
<1>3. QED BY <1>1, <1>2

\* Submitting the next command: what it changes for the ground.
Submitting(m) ==
  /\ line \in 1 .. 13 /\ m = Session[line] /\ line' = line + 1
  /\ open' = CASE m.cc = "ENABLE_SPEC" -> open \cup {m.n1}
              [] m.cc = "DISABLE_SPEC" -> open \ {m.n1}
              [] OTHER -> open
  /\ sent' = sent /\ dropped' = dropped

LEMMA OpenAfter ==
  ASSUME NEW m, Submitting(m), NEW n \in Windowed
  PROVE  /\ line = Opening(n) => n \in open'
         /\ line = Opening(n) + 1 => n \notin open'
         /\ line \notin {Opening(n), Opening(n) + 1} => (n \in open' <=> n \in open)
<1>1. /\ m.cc = "ENABLE_SPEC" <=> line \in {5, 8}
      /\ m.cc = "DISABLE_SPEC" <=> line \in {6, 9}
      /\ line \in {5, 6} => m.n1 = 5
      /\ line \in {8, 9} => m.n1 = 3
  BY SessionCodes DEF Submitting
<1>2. CASE line \in {5, 8}
  <2>1. open' = open \cup {m.n1}
    BY <1>1, <1>2 DEF Submitting
  <2>2. QED BY <1>1, <1>2, <2>1 DEF Windowed, Opening
<1>3. CASE line \in {6, 9}
  <2>1. open' = open \ {m.n1}
    BY <1>1, <1>3 DEF Submitting
  <2>2. QED BY <1>1, <1>3, <2>1 DEF Windowed, Opening
<1>4. CASE line \notin {5, 6, 8, 9}
  <2>1. open' = open
    BY <1>1, <1>4 DEF Submitting
  <2>2. QED BY <1>4, <2>1 DEF Windowed, Opening
<1>5. QED BY <1>2, <1>3, <1>4

LEMMA SubmitLasts ==
  ASSUME NEW m, Submitting(m), NEW s \in States, Lasting(s)
  PROVE  Lasting(s)'
<1> SUFFICES ASSUME s.ok, NEW n \in Windowed
             PROVE  s.heard < line' /\ Told(s, n)'
  BY DEF Lasting, Windowed
<1>1. Told(s, n) /\ s.heard < line /\ s.heard \in Nat
  BY DEF Lasting, States
<1>2. s.heard < line'
  BY <1>1 DEF Submitting
<1>3. ASSUME s.heard > Opening(n)
      PROVE  n \notin open' /\ line' > Opening(n) + 1 /\ s.counts[Place(n, s.heard)] = Window(n)'
  <2>1. n \notin open /\ line > Opening(n) + 1 /\ s.counts[Place(n, s.heard)] = Window(n)
    BY <1>1, <1>3 DEF Told
  <2>2. line' > Opening(n) + 1 /\ Opening(n) \in Nat
    BY <2>1 DEF Submitting, Opening
  <2>3. n \notin open'
    <3>1. line \notin {Opening(n), Opening(n) + 1}
      BY <2>1, <2>2 DEF Submitting
    <3>2. QED BY <2>1, <3>1, OpenAfter
  <2>4. Window(n)' = Window(n)
    BY DEF Submitting, Window
  <2>5. QED BY <2>1, <2>2, <2>3, <2>4
<1>4. QED BY <1>1, <1>2, <1>3 DEF Told

\* What the commands of the script do to the two blinkers.
LEMMA CountsOfCommand ==
  ASSUME NEW h \in 1 .. 13, NEW s \in States, NEW n \in Windowed
  PROVE  /\ h = 3 => CountsAfter(Session[h], s)[n] = 0
         /\ h = 11 => /\ CountsAfter(Session[h], s)[5] = s.counts[3]
                      /\ CountsAfter(Session[h], s)[3] = s.counts[5]
         /\ h \notin {3, 11} => CountsAfter(Session[h], s) = s.counts
<1>1. Session[h].mid # "BLINK"
  BY SessionCodes
<1>2. CASE h = 3
  <2>1. CountsAfter(Session[h], s) = Fill(s.counts, 0)
    BY <1>1, <1>2, SessionCodes DEF CountsAfter
  <2>2. QED BY <1>2, <2>1, Bank DEF Fill, Windowed
<1>3. CASE h = 11
  <2>1. CountsAfter(Session[h], s) = [s.counts EXCEPT ![5] = s.counts[3], ![3] = s.counts[5]]
    BY <1>1, <1>3, SessionCodes DEF CountsAfter
  <2>2. s.counts \in [Blinkers -> 0 .. CountWrap - 1] /\ 5 \in Blinkers /\ 3 \in Blinkers
    BY Bank DEF States
  <2>3. QED BY <1>3, <2>1, <2>2
<1>4. CASE h \notin {3, 11}
  BY <1>1, <1>4, SessionCodes DEF CountsAfter
<1>5. QED BY <1>2, <1>3, <1>4

LEMMA StatusesOfCommand ==
  ASSUME NEW h \in 1 .. 13, NEW s \in States, NEW n \in Windowed
  PROVE  /\ h = 2 => StatusesAfter(Session[h], s)[n] = 0
         /\ h = Opening(n) => StatusesAfter(Session[h], s)[n] = 1
         /\ h = Opening(n) + 1 => StatusesAfter(Session[h], s)[n] = 0
         /\ h \notin {2, Opening(n), Opening(n) + 1} =>
              StatusesAfter(Session[h], s)[n] = s.statuses[n]
<1>1. s.statuses \in [Blinkers -> {0, 1}] /\ 5 \in Blinkers /\ 3 \in Blinkers /\ n \in Swept
  BY Bank DEF States, Windowed
<1>2. CASE h = 2
  <2>1. StatusesAfter(Session[h], s) = Fill(s.statuses, 0)
    BY <1>2, SessionCodes DEF StatusesAfter
  <2>2. QED BY <1>1, <1>2, <2>1 DEF Fill, Windowed, Opening
<1>3. CASE h \in {5, 8}
  <2>1. StatusesAfter(Session[h], s) = [s.statuses EXCEPT ![Session[h].n1] = 1]
    BY <1>3, SessionCodes DEF StatusesAfter
  <2>2. Session[h].n1 = IF h = 5 THEN 5 ELSE 3
    BY <1>3, SessionCodes
  <2>3. QED BY <1>1, <1>3, <2>1, <2>2 DEF Windowed, Opening
<1>4. CASE h \in {6, 9}
  <2>1. StatusesAfter(Session[h], s) = [s.statuses EXCEPT ![Session[h].n1] = 0]
    BY <1>4, SessionCodes DEF StatusesAfter
  <2>2. Session[h].n1 = IF h = 6 THEN 5 ELSE 3
    BY <1>4, SessionCodes
  <2>3. QED BY <1>1, <1>4, <2>1, <2>2 DEF Windowed, Opening
<1>5. CASE h \notin {2, 5, 6, 8, 9}
  <2>1. StatusesAfter(Session[h], s) = s.statuses
    BY <1>5, SessionCodes DEF StatusesAfter
  <2>2. QED BY <1>5, <2>1 DEF Windowed, Opening
<1>6. QED BY <1>2, <1>3, <1>4, <1>5

\* The command sent is, if the acknowledgements stay in order, the next one;
\* what its handler will have done is what the ground may then trust.
LEMMA SubmitTells ==
  ASSUME WindowsOK, NEW m, Submitting(m), NEW s \in States, Lasting(s), Latest(s),
         After(m, s).ok, NEW n \in Windowed
  PROVE  /\ After(m, s).heard < line'
         /\ Told(After(m, s), n)' /\ Ahead(After(m, s), n)'
<1> DEFINE h == s.heard + 1
           t == After(m, s)
<1>1. m.mid = "CMD"
  BY SessionCodes DEF Submitting
<1>2. /\ s.ok /\ s.heard < 13 /\ m = Session[h] /\ t.heard = h
      /\ t.counts = CountsAfter(Session[h], s) /\ t.statuses = StatusesAfter(Session[h], s)
  BY <1>1, SessionLines DEF After
<1>3. h \in 1 .. 13 /\ s.heard \in Nat /\ h - 1 = s.heard
  BY <1>2 DEF States
<1>4. Told(s, n) /\ Ahead(s, n) /\ s.heard < line
  BY <1>2 DEF Lasting, Latest
<1>5. /\ line \in 1 .. 13 /\ line' = line + 1
      /\ h \in {1, 2, 3, 5, 6, 8, 9, 11} \/ line \in {1, 2, 3, 5, 6, 8, 9, 11} => h = line
  BY <1>2, <1>3, SentTells DEF Submitting
<1>6. Window(n)' = Window(n)
  BY DEF Submitting, Window
<1>7. Opening(n) \in {5, 8} /\ n \in {3, 5}
  BY DEF Opening, Windowed
<1> HIDE DEF h, t
<1>8. t.heard < line'
  BY <1>2, <1>3, <1>4, <1>5
<1>9. h \in 3 .. Opening(n) - 1 => t.counts[n] = 0
  BY <1>2, <1>3, <1>4, <1>7, CountsOfCommand DEF Told
<1>10. h >= 2 /\ h # Opening(n) => t.statuses[n] = 0
  BY <1>2, <1>3, <1>4, <1>7, StatusesOfCommand DEF Told
<1>11. ASSUME h > Opening(n)
       PROVE  n \notin open' /\ line' > Opening(n) + 1 /\ t.counts[Place(n, h)] = Window(n)'
  <2>1. CASE h = Opening(n) + 1
    <3>1. h = line
      BY <1>5, <1>7, <2>1
    <3>2. n \notin open'
      BY <2>1, <3>1, OpenAfter
    <3>3. s.counts[n] = Window(n) /\ t.counts = s.counts /\ Place(n, h) = n
      BY <1>2, <1>3, <1>4, <1>7, <2>1, CountsOfCommand DEF Ahead, Place, Swapping
    <3>4. QED BY <1>5, <1>6, <1>7, <2>1, <3>1, <3>2, <3>3
  <2>2. CASE h > Opening(n) + 1
    <3>1. s.heard > Opening(n)
      BY <1>3, <1>7, <2>2
    <3>2. n \notin open /\ line > Opening(n) + 1 /\ s.counts[Place(n, s.heard)] = Window(n)
      BY <1>4, <3>1 DEF Told
    <3>3. n \notin open'
      BY <3>2, <1>5, <1>7, OpenAfter
    <3>4. CASE h = 11
      <4>1. s.counts[n] = Window(n)
        BY <1>3, <3>2, <3>4 DEF Place, Swapping
      <4>2. t.counts[5] = s.counts[3] /\ t.counts[3] = s.counts[5]
        BY <1>2, <1>3, <3>4, CountsOfCommand
      <4>3. t.counts[Place(n, h)] = s.counts[n]
        BY <1>7, <3>4, <4>2 DEF Place, Swapping
      <4>4. QED BY <1>5, <1>6, <1>7, <3>2, <3>3, <4>1, <4>3
    <3>5. CASE h # 11
      <4>1. t.counts = s.counts
        BY <1>2, <1>3, <1>7, <2>2, <3>5, CountsOfCommand
      <4>2. Place(n, h) = Place(n, s.heard)
        BY <1>3, <3>5 DEF Place, Swapping
      <4>3. QED BY <1>5, <1>6, <1>7, <3>2, <3>3, <4>1, <4>2
    <3>6. QED BY <3>4, <3>5
  <2>3. QED BY <1>3, <1>7, <1>11, <2>1, <2>2
<1>12. ASSUME h < Opening(n)
       PROVE  n \notin open' /\ sent'[n] = 0 /\ dropped'[n] = 0
  <2>1. n \notin open /\ sent[n] = 0 /\ dropped[n] = 0
    BY <1>3, <1>4, <1>7, <1>12 DEF Ahead
  <2>2. line # Opening(n)
    BY <1>5, <1>7, <1>12
  <2>3. n \notin open'
    BY <2>1, <2>2, OpenAfter
  <2>4. QED BY <2>1, <2>3 DEF Submitting
<1>13. ASSUME h = Opening(n)
       PROVE  n \in open' /\ t.statuses[n] = 1 /\ t.counts[n] = Window(n)'
  <2>1. h = line
    BY <1>5, <1>7, <1>13
  <2>2. n \in open'
    BY <1>13, <2>1, OpenAfter
  <2>3. t.statuses[n] = 1
    BY <1>2, <1>3, <1>13, StatusesOfCommand
  <2>4. s.counts[n] = 0 /\ sent[n] = 0 /\ dropped[n] = 0
    BY <1>3, <1>4, <1>7, <1>13 DEF Told, Ahead
  <2>5. t.counts[n] = 0
    BY <1>2, <1>3, <1>7, <1>13, <2>4, CountsOfCommand
  <2>6. QED BY <1>6, <2>2, <2>3, <2>4, <2>5, WindowTyped
<1>14. Told(t, n)'
  BY <1>2, <1>9, <1>10, <1>11 DEF Told
<1>15. Ahead(t, n)'
  BY <1>2, <1>12, <1>13 DEF Ahead
<1>16. QED BY <1>8, <1>14, <1>15 DEF t

LEMMA SubmitLatest ==
  ASSUME WindowsOK, NEW m, Submitting(m), NEW s \in States, Lasting(s), Latest(s)
  PROVE  Lasting(After(m, s))' /\ Latest(After(m, s))'
  BY SubmitTells DEF Lasting, Latest, Windowed

(***************************************************************************)
(* A blink of the scheduler, delivered or not.                             *)
(***************************************************************************)
Blinking == line' = line /\ open' = open /\ sent' = Add(sent)

LEMMA AddCounts ==
  ASSUME WindowsOK, NEW n \in Windowed
  PROVE  /\ n \in open => Add(sent)[n] = sent[n] + 1 /\ Add(dropped)[n] = dropped[n] + 1
         /\ n \notin open => Add(sent)[n] = sent[n] /\ Add(dropped)[n] = dropped[n]
  BY WindowTyped DEF Add

LEMMA BlinkWindows ==
  ASSUME WindowsOK, Blinking, dropped' = dropped \/ dropped' = Add(dropped)
  PROVE  WindowsOK'
<1>1. sent' \in [Blinkers -> Nat] /\ dropped' \in [Blinkers -> Nat]
  BY DEF WindowsOK, Blinking, Add
<1>2. ASSUME NEW n \in Windowed
      PROVE  dropped'[n] <= sent'[n]
  <2>1. sent[n] \in Nat /\ dropped[n] \in Nat /\ dropped[n] <= sent[n]
    BY WindowTyped DEF WindowsOK
  <2>2. \/ sent'[n] = sent[n] + 1 /\ (dropped'[n] = dropped[n] \/ dropped'[n] = dropped[n] + 1)
        \/ sent'[n] = sent[n] /\ dropped'[n] = dropped[n]
    BY AddCounts DEF Blinking
  <2>3. QED BY <2>1, <2>2
<1>3. QED BY <1>1, <1>2 DEF WindowsOK, Blinking

LEMMA BlinkLasts ==
  ASSUME WindowsOK, Blinking, dropped' = dropped \/ dropped' = Add(dropped),
         NEW s \in States, Lasting(s)
  PROVE  Lasting(s)'
<1> SUFFICES ASSUME s.ok, NEW n \in Windowed
             PROVE  s.heard < line' /\ Told(s, n)'
  BY DEF Lasting, Windowed
<1>1. Told(s, n) /\ s.heard < line
  BY DEF Lasting
<1>2. n \notin open => Window(n)' = Window(n)
  BY AddCounts DEF Window, Blinking
<1>3. QED BY <1>1, <1>2 DEF Told, Blinking

LEMMA DropLatest ==
  ASSUME WindowsOK, Blinking, dropped' = Add(dropped), NEW s \in States, Lasting(s), Latest(s)
  PROVE  Latest(s)'
<1> SUFFICES ASSUME s.ok, NEW n \in Windowed
             PROVE  Ahead(s, n)'
  BY DEF Latest
<1>1. Ahead(s, n)
  BY DEF Latest
<1>2. s.heard < Opening(n) => sent'[n] = 0 /\ dropped'[n] = 0
  BY <1>1, AddCounts DEF Ahead, Blinking
<1>3. s.heard = Opening(n) => Window(n)' = Window(n)
  <2> SUFFICES ASSUME s.heard = Opening(n)
               PROVE  Window(n)' = Window(n)
    OBVIOUS
  <2>1. sent'[n] = sent[n] + 1 /\ dropped'[n] = dropped[n] + 1
    BY <1>1, AddCounts DEF Ahead, Blinking
  <2>2. sent'[n] - dropped'[n] = sent[n] - dropped[n]
    BY <2>1, WindowTyped
  <2>3. QED BY <2>2 DEF Window
<1>4. QED BY <1>1, <1>2, <1>3 DEF Ahead, Blinking

\* A blink in the pipe will count in the one window that is open, and in no
\* other that a report still depends on.
LEMMA BlinkTells ==
  ASSUME WindowsOK, Blinking, dropped' = dropped, NEW s \in States, Lasting(s), Latest(s),
         s.ok, NEW n \in Windowed
  PROVE  Told(After(Tick("BLINK"), s), n)' /\ Ahead(After(Tick("BLINK"), s), n)'
<1> DEFINE t == After(Tick("BLINK"), s)
<1>1. /\ t.heard = s.heard /\ t.statuses = s.statuses
      /\ t.counts = [i \in Blinkers |-> IF s.statuses[i] # 0 THEN (s.counts[i] + 1) % CountWrap
                                                              ELSE s.counts[i]]
  BY DEF After, Tick, CountsAfter, StatusesAfter
<1>2. /\ \A i \in Windowed : Told(s, i)
      /\ Ahead(s, n) /\ s.heard \in Nat
  BY DEF Lasting, Latest, States
<1>3. \A i \in Windowed : s.statuses[i] = 0 => t.counts[i] = s.counts[i]
  BY <1>1, WindowTyped
<1>4. Opening(n) \in {5, 8} /\ n \in {3, 5} /\ \A h \in Nat : Place(n, h) \in Windowed
  BY DEF Opening, Windowed, Place
<1> HIDE DEF t
<1>5. s.heard \in 3 .. Opening(n) - 1 => t.counts[n] = 0
  BY <1>2, <1>3, <1>4 DEF Told
<1>6. ASSUME s.heard > Opening(n)
      PROVE  n \notin open' /\ line' > Opening(n) + 1 /\ t.counts[Place(n, s.heard)] = Window(n)'
  <2>1. n \notin open /\ line > Opening(n) + 1 /\ s.counts[Place(n, s.heard)] = Window(n)
    BY <1>2, <1>6 DEF Told
  <2>2. s.statuses[Place(n, s.heard)] = 0
    <3>1. CASE s.heard < 11
      BY <1>2, <1>4, <1>6, <3>1 DEF Told, Place, Swapping
    <3>2. CASE s.heard >= 11
      <4>1. PICK p \in Windowed : p = Place(n, s.heard)
        BY <1>2, <1>4
      <4>2. Told(s, p) /\ Opening(p) \in {5, 8}
        BY <1>2 DEF Opening
      <4>3. s.statuses[p] = 0
        BY <1>2, <3>2, <4>2 DEF Told
      <4>4. QED BY <4>1, <4>3
    <3>3. QED BY <1>2, <3>1, <3>2
  <2>3. Window(n)' = Window(n)
    BY <2>1, AddCounts DEF Window, Blinking
  <2>4. QED BY <1>2, <1>3, <1>4, <2>1, <2>2, <2>3 DEF Blinking
<1>7. s.heard < Opening(n) => n \notin open' /\ sent'[n] = 0 /\ dropped'[n] = 0
  BY <1>2, AddCounts DEF Ahead, Blinking
<1>8. ASSUME s.heard = Opening(n)
      PROVE  n \in open' /\ t.statuses[n] = 1 /\ t.counts[n] = Window(n)'
  <2>1. n \in open /\ s.statuses[n] = 1 /\ s.counts[n] = Window(n)
    BY <1>2, <1>8 DEF Ahead
  <2>2. t.counts[n] = (Window(n) + 1) % CountWrap
    BY <1>1, <2>1, WindowTyped
  <2>3. sent'[n] - dropped'[n] = (sent[n] - dropped[n]) + 1 /\ sent[n] - dropped[n] \in Nat
    BY <2>1, AddCounts, WindowTyped DEF Blinking
  <2>4. Window(n)' = (Window(n) + 1) % CountWrap
    BY <2>3, WrapAfterIncrement, CountWrapAssumption DEF Window
  <2>5. QED BY <1>1, <2>1, <2>2, <2>4 DEF Blinking
<1>9. Told(t, n)'
  BY <1>1, <1>2, <1>5, <1>6 DEF Told
<1>10. Ahead(t, n)'
  BY <1>1, <1>7, <1>8 DEF Ahead
<1>11. QED BY <1>9, <1>10 DEF t

LEMMA BlinkLatest ==
  ASSUME WindowsOK, Blinking, dropped' = dropped, NEW s \in States, Lasting(s), Latest(s)
  PROVE  Lasting(After(Tick("BLINK"), s))' /\ Latest(After(Tick("BLINK"), s))'
<1>1. After(Tick("BLINK"), s).ok => s.ok
  BY DEF After
<1>2. After(Tick("BLINK"), s).heard = s.heard
  BY DEF After, Tick
<1>3. s.ok => s.heard < line'
  BY DEF Lasting, Blinking
<1>4. QED BY <1>1, <1>2, <1>3, BlinkTells DEF Lasting, Latest

(***************************************************************************)
(* The replay, as the pipe is filled and emptied.                          *)
(***************************************************************************)
\* A message enters the pipe: the replay has one more state.
LEMMA ReplayGrows ==
  ASSUME Foreseen, pipe \in Seq(Script), NEW m \in Script, pipe' = Append(pipe, m), Now' = Now,
         \A s \in States : Lasting(s) => Lasting(s)',
         \A s \in States : Lasting(s) /\ Latest(s) =>
                             Lasting(After(m, s))' /\ Latest(After(m, s))'
  PROVE  Foreseen'
<1>1. PICK H : /\ Replays(H)
               /\ \A k \in 0 .. Len(pipe) : Lasting(H[k])
               /\ Latest(H[Len(pipe)])
  BY DEF Foreseen
<1> PICK last \in Nat : last = Len(pipe)
  OBVIOUS
<1> PICK G : G = [k \in 0 .. last + 1 |-> IF k <= last THEN H[k] ELSE After(m, H[last])]
  OBVIOUS
<1>2. last \in Nat /\ Len(pipe) = last /\ Len(pipe') = last + 1 /\ last \in 0 .. last
  OBVIOUS
<1>3. /\ \A k \in 1 .. last : pipe'[k] = pipe[k]
      /\ pipe'[last + 1] = m
  OBVIOUS
<1>4. /\ H \in [0 .. last -> States] /\ H[0] = Now
      /\ \A k \in 1 .. last : H[k] = After(pipe[k], H[k - 1])
  BY <1>1 DEF Replays
<1>5. After(m, H[last]) \in States
  BY <1>2, <1>4, AfterTyped
<1>6. G \in [0 .. last + 1 -> States] /\ G[0] = Now'
  BY <1>2, <1>4, <1>5
<1>7. \A k \in 1 .. last + 1 : G[k] = After(pipe'[k], G[k - 1])
  <2> SUFFICES ASSUME NEW k \in 1 .. last + 1
               PROVE  G[k] = After(pipe'[k], G[k - 1])
    OBVIOUS
  <2>1. G[k - 1] = H[k - 1]
    BY <1>2
  <2>2. CASE k <= last
    <3>1. G[k] = H[k] /\ H[k] = After(pipe[k], H[k - 1]) /\ pipe'[k] = pipe[k]
      BY <1>2, <1>3, <1>4, <2>2
    <3>2. QED BY <2>1, <3>1
  <2>3. CASE k = last + 1
    <3>1. G[k] = After(m, H[last]) /\ k - 1 = last
      BY <1>2, <2>3
    <3>2. QED BY <1>3, <2>1, <2>3, <3>1
  <2>4. QED BY <1>2, <2>2, <2>3
<1>8. Replays(G)'
  BY <1>2, <1>6, <1>7 DEF Replays
<1>9. \A k \in 0 .. last + 1 : Lasting(G[k])'
  <2> SUFFICES ASSUME NEW k \in 0 .. last + 1
               PROVE  Lasting(G[k])'
    OBVIOUS
  <2>1. CASE k <= last
    <3>1. G[k] = H[k] /\ H[k] \in States /\ Lasting(H[k])
      BY <1>1, <1>2, <1>4, <2>1
    <3>2. QED BY <3>1
  <2>2. CASE k = last + 1
    <3>1. G[k] = After(m, H[last]) /\ H[last] \in States /\ Lasting(H[last]) /\ Latest(H[last])
      BY <1>1, <1>2, <1>4, <2>2
    <3>2. QED BY <3>1
  <2>3. QED BY <1>2, <2>1, <2>2
<1>10. Latest(G[last + 1])'
  <2>1. G[last + 1] = After(m, H[last]) /\ H[last] \in States /\ Lasting(H[last]) /\ Latest(H[last])
    BY <1>1, <1>2, <1>4
  <2>2. QED BY <2>1
<1>11. QED BY <1>2, <1>8, <1>9, <1>10 DEF Foreseen

\* Nothing enters or leaves the pipe.
LEMMA ReplayStays ==
  ASSUME Foreseen, pipe \in Seq(Script), pipe' = pipe, Now' = Now,
         \A s \in States : Lasting(s) => Lasting(s)',
         \A s \in States : Lasting(s) /\ Latest(s) => Latest(s)'
  PROVE  Foreseen'
<1>1. PICK H : /\ Replays(H)
               /\ \A k \in 0 .. Len(pipe) : Lasting(H[k])
               /\ Latest(H[Len(pipe)])
  BY DEF Foreseen
<1> PICK last \in Nat : last = Len(pipe)
  OBVIOUS
<1>2. H \in [0 .. last -> States] /\ Len(pipe) = last /\ Len(pipe') = last
  BY <1>1 DEF Replays
<1>3. Replays(H)'
  BY <1>1 DEF Replays
<1>4. \A k \in 0 .. last : Lasting(H[k])'
  BY <1>1, <1>2
<1>5. Latest(H[last])'
  <2>1. H[last] \in States /\ Lasting(H[last]) /\ Latest(H[last])
    BY <1>1, <1>2
  <2>2. QED BY <2>1
<1>6. QED BY <1>2, <1>3, <1>4, <1>5 DEF Foreseen

\* The first message is handled: the replay starts one message later.
LEMMA ReplayShifts ==
  ASSUME Foreseen, pipe \in Seq(Script), pipe # <<>>, pipe' = Tail(pipe),
         Now' = After(pipe[1], Now),
         UNCHANGED <<line, open, sent, dropped>>
  PROVE  Foreseen'
<1>1. PICK H : /\ Replays(H)
               /\ \A k \in 0 .. Len(pipe) : Lasting(H[k])
               /\ Latest(H[Len(pipe)])
  BY DEF Foreseen
<1> PICK last \in Nat : last = Len(pipe)
  OBVIOUS
<1> PICK G : G = [k \in 0 .. last - 1 |-> H[k + 1]]
  OBVIOUS
<1>2. /\ last \in Nat \ {0} /\ Len(pipe) = last /\ Len(pipe') = last - 1
      /\ \A k \in 1 .. last - 1 : pipe'[k] = pipe[k + 1]
  OBVIOUS
<1>3. /\ H \in [0 .. last -> States] /\ H[0] = Now
      /\ \A k \in 1 .. last : H[k] = After(pipe[k], H[k - 1])
  BY <1>1, <1>2 DEF Replays
<1>4. G \in [0 .. last - 1 -> States]
  BY <1>2, <1>3
<1>5. G[0] = Now'
  <2>1. G[0] = H[1] /\ H[1] = After(pipe[1], H[1 - 1]) /\ 1 - 1 = 0
    BY <1>2, <1>3
  <2>2. QED BY <1>3, <2>1
<1>6. \A k \in 1 .. last - 1 : G[k] = After(pipe'[k], G[k - 1])
  <2> SUFFICES ASSUME NEW k \in 1 .. last - 1
               PROVE  G[k] = After(pipe'[k], G[k - 1])
    OBVIOUS
  <2>1. G[k] = H[k + 1] /\ G[k - 1] = H[k] /\ k + 1 \in 1 .. last /\ (k + 1) - 1 = k
    BY <1>2
  <2>2. H[k + 1] = After(pipe[k + 1], H[k])
    BY <1>3, <2>1
  <2>3. QED BY <1>2, <2>1, <2>2
<1>7. Replays(G)'
  BY <1>2, <1>4, <1>5, <1>6 DEF Replays
<1>8. /\ \A s \in States : Lasting(s) => Lasting(s)'
      /\ \A s \in States : Latest(s) => Latest(s)'
  BY DEF Lasting, Latest, Told, Ahead, Window
<1>9. \A k \in 0 .. last - 1 : Lasting(G[k])'
  <2> SUFFICES ASSUME NEW k \in 0 .. last - 1
               PROVE  Lasting(G[k])'
    OBVIOUS
  <2>1. PICK j \in 0 .. last : j = k + 1
    BY <1>2
  <2>2. G[k] = H[j]
    BY <2>1
  <2>3. H[j] \in States /\ Lasting(H[j])
    BY <1>1, <1>2, <1>3
  <2>4. QED BY <1>8, <2>2, <2>3
<1>10. Latest(G[last - 1])'
  <2>1. G[last - 1] = H[last] /\ H[last] \in States /\ Latest(H[last])
    BY <1>1, <1>2, <1>3
  <2>2. QED BY <1>8, <2>1
<1>11. QED BY <1>2, <1>7, <1>9, <1>10 DEF Foreseen

(***************************************************************************)
(* The handlers of the script's messages.                                  *)
(***************************************************************************)
\* Every command is handled, by the one handler of its code, and by no other.
LEMMA SessionWellFormed ==
  ASSUME NEW m \in SessionCommands
  PROVE  /\ m.mid = "CMD" /\ m.cc \in CommandCodes /\ m.size = CmdSize(m.cc)
         /\ m.cc \in SpecCodes => m.n1 \in {3, 5}
         /\ m.cc = "SWAP" => m.n1 = 5 /\ m.n2 = 3
<1>1. CASE m.cc \in {"NOOP", "DISABLE_ALL", "RESET_ALL"} /\ m = send_blink_noargs(m.cc)
  BY <1>1 DEF send_blink_noargs, CommandCodes, NoArgCodes, SpecCodes, CmdSize
<1>2. CASE /\ m.cc \in {"REPORT_SPEC", "ENABLE_SPEC", "DISABLE_SPEC"} /\ m.n1 \in {3, 5}
           /\ m = send_blink_specblinker(m.cc, m.n1)
  BY <1>2 DEF send_blink_specblinker, CommandCodes, NoArgCodes, SpecCodes, CmdSize
<1>3. CASE m.cc = "SWAP" /\ m = send_blink_swapblinkers(5, 3)
  BY <1>3 DEF send_blink_swapblinkers, CommandCodes, NoArgCodes, SpecCodes, CmdSize
<1>4. QED BY <1>1, <1>2, <1>3, SessionShape

LEMMA TwoTracked == Tracked(3) /\ Tracked(5)
  BY TotalBlinkersAssumption, SessionBlinkersAssumption DEF Tracked

LEMMA CommandHandler ==
  ASSUME NEW m \in SessionCommands, Handler(m)
  PROVE  (m.cc = "NOOP" /\ NoopCmd(m)) \/ (m.cc # "NOOP" /\ BankCommand(m))
<1>1. ~ BadLength(m)
  BY SessionWellFormed DEF BadLength, Selects
<1>2. ~ RejectMessage(m)
  BY SessionWellFormed DEF RejectMessage, Dispatchable
<1>3. ~ BlinkTick(m) /\ ~ SendHkCmd(m)
  BY SessionWellFormed DEF BlinkTick, SendHkCmd
<1>4. m.cc \in {"NOOP", "DISABLE_ALL", "RESET_ALL", "REPORT_SPEC", "ENABLE_SPEC", "DISABLE_SPEC", "SWAP"}
  BY SessionShape
<1>5. ~ ResetCountersCmd(m) /\ ~ DisplayParamCmd(m) /\ ~ ProcessCmd(m)
  BY <1>4 DEF ResetCountersCmd, DisplayParamCmd, ProcessCmd, Runs, Selects
<1>6. NoopCmd(m) => m.cc = "NOOP"
  BY DEF NoopCmd, Runs, Selects
<1>7. BankCommand(m) => m.cc # "NOOP"
  BY DEF BankCommand, Runs, Selects
<1>8. QED BY <1>1, <1>2, <1>3, <1>5, <1>6, <1>7 DEF Handler

LEMMA BlinkHandler ==
  ASSUME Handler(Tick("BLINK"))
  PROVE  BlinkTick(Tick("BLINK"))
<1>1. Tick("BLINK").mid = "BLINK"
  BY DEF Tick
<1>2. ~ BadLength(Tick("BLINK")) /\ ~ RejectMessage(Tick("BLINK")) /\ ~ SendHkCmd(Tick("BLINK"))
  BY <1>1 DEF BadLength, RejectMessage, SendHkCmd, Selects, Dispatchable
<1>3. /\ ~ NoopCmd(Tick("BLINK")) /\ ~ ResetCountersCmd(Tick("BLINK"))
      /\ ~ DisplayParamCmd(Tick("BLINK")) /\ ~ ProcessCmd(Tick("BLINK"))
      /\ ~ BankCommand(Tick("BLINK"))
  BY <1>1 DEF NoopCmd, ResetCountersCmd, DisplayParamCmd, ProcessCmd, BankCommand, Runs, Selects
<1>4. QED BY <1>2, <1>3 DEF Handler

\* What the handlers do is what the replay says.
LEMMA CommandEffect ==
  ASSUME NEW m \in SessionCommands, Handler(m)
  PROVE  /\ BlinkerCounts' = CountsAfter(m, Now) /\ BlinkerStatuses' = StatusesAfter(m, Now)
         /\ \E o : /\ out' = <<o>> /\ o.text = Acks[m.cc]
                   /\ m.cc \in SpecCodes => o.args[1] = m.n1
                   /\ m.cc = "REPORT_SPEC" => o.args[2] = BlinkerCounts[m.n1]
<1>1. m.mid # "BLINK" /\ Now.counts = BlinkerCounts /\ Now.statuses = BlinkerStatuses
  BY SessionWellFormed DEF Now
<1>2. m.cc \in {"NOOP", "DISABLE_ALL", "RESET_ALL", "REPORT_SPEC", "ENABLE_SPEC", "DISABLE_SPEC", "SWAP"}
  BY SessionShape
<1>3. CASE m.cc = "NOOP"
  <2>1. NoopCmd(m)
    BY <1>3, CommandHandler
  <2>2. BlinkerCounts' = BlinkerCounts /\ BlinkerStatuses' = BlinkerStatuses
    BY <2>1 DEF NoopCmd, bankVars
  <2>3. out' = <<Event("NOOP_INF", "Noop", <<>>)>>
    BY <2>1 DEF NoopCmd, Emit
  <2>4. QED
    BY <1>1, <1>3, <2>2, <2>3 DEF CountsAfter, StatusesAfter, Event, Acks, SpecCodes
<1>4. m.cc # "NOOP" => BankCommand(m)
  BY CommandHandler
<1>5. CASE m.cc = "DISABLE_ALL"
  <2>1. DisableAllBlinkersCmd
    BY <1>4, <1>5 DEF BankCommand, Runs, Selects
  <2>2. BlinkerCounts' = BlinkerCounts /\ BlinkerStatuses' = Fill(BlinkerStatuses, 0)
    BY <2>1 DEF DisableAllBlinkersCmd
  <2>3. out' = <<Event("REPORT_SPEC_BLINKER_INF", "AllDisabled", <<>>)>>
    BY <2>1 DEF DisableAllBlinkersCmd, Acknowledge, Emit
  <2>4. QED
    BY <1>1, <1>5, <2>2, <2>3 DEF CountsAfter, StatusesAfter, Event, Acks, SpecCodes
<1>6. CASE m.cc = "RESET_ALL"
  <2>1. ResetAllBlinkersCmd
    BY <1>4, <1>6 DEF BankCommand, Runs, Selects
  <2>2. BlinkerCounts' = Fill(BlinkerCounts, 0) /\ BlinkerStatuses' = BlinkerStatuses
    BY <2>1 DEF ResetAllBlinkersCmd
  <2>3. out' = <<Event("REPORT_SPEC_BLINKER_INF", "AllReset", <<>>)>>
    BY <2>1 DEF ResetAllBlinkersCmd, Acknowledge, Emit
  <2>4. QED
    BY <1>1, <1>6, <2>2, <2>3 DEF CountsAfter, StatusesAfter, Event, Acks, SpecCodes
<1>7. m.cc \in SpecCodes => Tracked(m.n1)
  BY SessionWellFormed, TwoTracked
<1>8. CASE m.cc = "REPORT_SPEC"
  <2>1. Tracked(m.n1) /\ ReportSpecBlinkersCmd(m.n1)
    BY <1>4, <1>7, <1>8 DEF BankCommand, Runs, Selects, SpecCodes
  <2>2. BlinkerCounts' = BlinkerCounts /\ BlinkerStatuses' = BlinkerStatuses
    BY <2>1 DEF ReportSpecBlinkersCmd, bankVars
  <2>3. out' = <<Event("REPORT_SPEC_BLINKER_INF", "Report", <<m.n1, BlinkerCounts[m.n1]>>)>>
    BY <2>1 DEF ReportSpecBlinkersCmd, Acknowledge, Emit
  <2>4. QED
    BY <1>1, <1>8, <2>2, <2>3 DEF CountsAfter, StatusesAfter, Event, Acks, SpecCodes
<1>9. CASE m.cc = "ENABLE_SPEC"
  <2>1. Tracked(m.n1) /\ EnableSpecBlinkersCmd(m.n1)
    BY <1>4, <1>7, <1>9 DEF BankCommand, Runs, Selects, SpecCodes
  <2>2. /\ BlinkerCounts' = BlinkerCounts
        /\ BlinkerStatuses' = [BlinkerStatuses EXCEPT ![m.n1] = 1]
    BY <2>1 DEF EnableSpecBlinkersCmd
  <2>3. out' = <<Event("REPORT_SPEC_BLINKER_INF", "Enabled", <<m.n1>>)>>
    BY <2>1 DEF EnableSpecBlinkersCmd, Acknowledge, Emit
  <2>4. QED
    BY <1>1, <1>9, <2>2, <2>3 DEF CountsAfter, StatusesAfter, Event, Acks, SpecCodes
<1>10. CASE m.cc = "DISABLE_SPEC"
  <2>1. Tracked(m.n1) /\ DisableSpecBlinkersCmd(m.n1)
    BY <1>4, <1>7, <1>10 DEF BankCommand, Runs, Selects, SpecCodes
  <2>2. /\ BlinkerCounts' = BlinkerCounts
        /\ BlinkerStatuses' = [BlinkerStatuses EXCEPT ![m.n1] = 0]
    BY <2>1 DEF DisableSpecBlinkersCmd
  <2>3. out' = <<Event("REPORT_SPEC_BLINKER_INF", "Disabled", <<m.n1>>)>>
    BY <2>1 DEF DisableSpecBlinkersCmd, Acknowledge, Emit
  <2>4. QED
    BY <1>1, <1>10, <2>2, <2>3 DEF CountsAfter, StatusesAfter, Event, Acks, SpecCodes
<1>11. CASE m.cc = "SWAP"
  <2>1. Tracked(5) /\ Tracked(3) /\ SwapBlinkerCountsCmd(5, 3)
    BY <1>4, <1>11, TwoTracked, SessionWellFormed DEF BankCommand, Runs, Selects
  <2>2. /\ BlinkerCounts' = [BlinkerCounts EXCEPT ![5] = BlinkerCounts[3], ![3] = BlinkerCounts[5]]
        /\ BlinkerStatuses' = BlinkerStatuses
    BY <2>1 DEF SwapBlinkerCountsCmd
  <2>3. \E args : out' = <<Event("REPORT_SPEC_BLINKER_INF", "Swapped", args)>>
    BY <2>1 DEF SwapBlinkerCountsCmd, Acknowledge, Emit
  <2>4. QED
    BY <1>1, <1>11, <2>2, <2>3 DEF CountsAfter, StatusesAfter, Event, Acks, SpecCodes
<1>12. QED BY <1>2, <1>3, <1>5, <1>6, <1>8, <1>9, <1>10, <1>11

LEMMA BlinkEffect ==
  ASSUME Handler(Tick("BLINK"))
  PROVE  /\ BlinkerCounts' = CountsAfter(Tick("BLINK"), Now)
         /\ BlinkerStatuses' = StatusesAfter(Tick("BLINK"), Now)
         /\ out' = <<>>
<1>1. Tick("BLINK").mid = "BLINK" /\ Tick("BLINK").cc = "UNKNOWN"
  BY DEF Tick
<1>2. Blink
  BY BlinkHandler DEF BlinkTick
<1>3. QED BY <1>1, <1>2 DEF Blink, Silent, CountsAfter, StatusesAfter, Now

\* The replay starts from the present state.
LEMMA ForeseenNow ==
  ASSUME Foreseen, pipe \in Seq(Script)
  PROVE  /\ Now \in States
         /\ pipe # <<>> => Lasting(After(pipe[1], Now))
<1>1. PICK H : /\ Replays(H)
               /\ \A k \in 0 .. Len(pipe) : Lasting(H[k])
  BY DEF Foreseen
<1>2. Len(pipe) \in Nat /\ (pipe # <<>> => Len(pipe) >= 1)
  OBVIOUS
<1>3. 0 \in 0 .. Len(pipe) /\ H[0] \in States /\ H[0] = Now
  BY <1>1, <1>2 DEF Replays
<1>4. ASSUME pipe # <<>>
      PROVE  Lasting(After(pipe[1], Now))
  <2>1. 1 \in 0 .. Len(pipe) /\ 1 \in 1 .. Len(pipe) /\ 1 - 1 = 0
    BY <1>2, <1>4
  <2>2. H[1] = After(pipe[1], H[1 - 1])
    BY <1>1, <2>1 DEF Replays
  <2>3. Lasting(H[1])
    BY <1>1, <2>1
  <2>4. QED BY <1>3, <2>1, <2>2, <2>3
<1>5. QED BY <1>3, <1>4

(***************************************************************************)
(* The steps of the session.                                               *)
(***************************************************************************)
\* The app's variables that the invariant speaks of, left alone.
Idle ==
  /\ UNCHANGED <<pc, RunStatus, controlReq, BlinkerCounts, BlinkerStatuses, heard>>
  /\ out' = <<>>

LEMMA IdleKeeps ==
  ASSUME Looping, Idle
  PROVE  Looping' /\ Now' = Now /\ AcknowledgedReportsTrue'
<1>1. Looping' /\ Now' = Now
  BY DEF Looping, Idle, Now
<1>2. ~ Said("Report")'
  BY NoOutput DEF Idle
<1>3. QED BY <1>1, <1>2 DEF AcknowledgedReportsTrue

LEMMA SubmitStep ==
  ASSUME SessionOK, Submit
  PROVE  SessionOK'
<1>1. PICK m : m = Session[line]
  OBVIOUS
<1>2. line \in 1 .. 13
  BY SessionLines DEF Submit, SessionOK, WindowsOK
<1>3. Submitting(m)
  BY <1>1, <1>2 DEF Submit, Submitting
<1>4. Idle /\ pipe' = Append(pipe, m)
  BY <1>1 DEF Submit, Send, Deliver, Silent, Idle, dataVars, taskVars, earVars
<1>5. m \in Script
  BY <1>1, <1>2, SessionMembers DEF Script
<1>6. Looping' /\ Now' = Now /\ AcknowledgedReportsTrue'
  BY <1>4, IdleKeeps DEF SessionOK
<1>7. WindowsOK /\ Foreseen /\ pipe \in Seq(Script)
  BY DEF SessionOK
<1>8. WindowsOK'
  BY <1>3, <1>7, SessionLines DEF WindowsOK, Submitting
<1>9. pipe' \in Seq(Script)
  BY <1>4, <1>5, <1>7
<1>10. Foreseen'
  BY <1>3, <1>4, <1>5, <1>6, <1>7, SubmitLasts, SubmitLatest, ReplayGrows
<1>11. QED BY <1>6, <1>8, <1>9, <1>10 DEF SessionOK

LEMMA LoseStep ==
  ASSUME SessionOK, Lose
  PROVE  SessionOK'
<1>1. Idle /\ pipe' = pipe
  BY DEF Lose, Silent, Idle, dataVars, taskVars, earVars, busVars
<1>2. line' = line + 1 /\ line <= Len(Session) /\ open' = open /\ sent' = sent /\ dropped' = dropped
  BY DEF Lose, windowVars
<1>3. WindowsOK /\ Foreseen /\ pipe \in Seq(Script) /\ line \in Nat
  BY SessionLines DEF SessionOK, WindowsOK
<1>4. WindowsOK'
  BY <1>2, <1>3, SessionLines DEF WindowsOK
<1>5. ASSUME NEW s \in States, Lasting(s)
      PROVE  Lasting(s)' /\ (Latest(s) => Latest(s)')
  <2>1. \A n \in Windowed : Opening(n) \in Nat /\ s.heard \in Nat
    BY DEF Opening, States
  <2>2. Lasting(s)'
    BY <1>2, <1>3, <1>5, <2>1 DEF Lasting, Told, Window, Windowed
  <2>3. Latest(s) => Latest(s)'
    BY <1>2 DEF Latest, Ahead, Window
  <2>4. QED BY <2>2, <2>3
<1>6. Looping' /\ Now' = Now /\ AcknowledgedReportsTrue'
  BY <1>1, IdleKeeps DEF SessionOK
<1>7. Foreseen'
  BY <1>1, <1>3, <1>5, <1>6, ReplayStays
<1>8. QED BY <1>1, <1>3, <1>4, <1>6, <1>7 DEF SessionOK

LEMMA BlinkStep ==
  ASSUME SessionOK, SchedulerBlinks
  PROVE  SessionOK'
<1>1. WindowsOK /\ Foreseen /\ pipe \in Seq(Script)
  BY DEF SessionOK
<1>2. Blinking
  BY DEF SchedulerBlinks, Blinking
<1>3. Idle
  BY DEF SchedulerBlinks, RequestBlink, Send, Silent, Idle, dataVars, taskVars, earVars
<1>4. Looping' /\ Now' = Now /\ AcknowledgedReportsTrue'
  BY <1>3, IdleKeeps DEF SessionOK
<1>5. CASE pipe' = Append(pipe, Tick("BLINK")) /\ dropped' = dropped
  <2>1. Tick("BLINK") \in Script /\ pipe' \in Seq(Script)
    BY <1>1, <1>5 DEF Script
  <2>2. WindowsOK'
    BY <1>1, <1>2, <1>5, BlinkWindows
  <2>3. Foreseen'
    BY <1>1, <1>2, <1>4, <1>5, <2>1, BlinkLasts, BlinkLatest, ReplayGrows
  <2>4. QED BY <1>4, <2>1, <2>2, <2>3 DEF SessionOK
<1>6. CASE pipe' = pipe /\ dropped' = Add(dropped)
  <2>1. WindowsOK'
    BY <1>1, <1>2, <1>6, BlinkWindows
  <2>2. Foreseen'
    BY <1>1, <1>2, <1>4, <1>6, BlinkLasts, DropLatest, ReplayStays
  <2>3. QED BY <1>1, <1>4, <1>6, <2>1, <2>2 DEF SessionOK
<1>7. QED BY <1>5, <1>6 DEF SchedulerBlinks, RequestBlink, Send, Deliver, busVars

\* While the task is at its loop, it enters it, loses its pipe, or handles the
\* next message.
LEMMA TaskChoices ==
  ASSUME Looping, AppStep \/ ReceiveFails
  PROVE  EnterLoop \/ ReceiveFails \/ TaskPipe
  BY
  DEF Looping, AppStep, AppInit, EvsRegister, CreatePipe, SubscribeAll, SubscribeTo, RegisterTable,
      LoadTable, LeaveLoop, Continue, ExitApp, LogValues, LogCrc

\* An event that is the only one of its step is, if the order is kept, the
\* acknowledgement of the next command.
LEMMA EarTells ==
  ASSUME AppRuns, inOrder', heard \in Nat, NEW o, out' = <<o>>
  PROVE  /\ heard' = heard + 1 /\ heard + 1 \in 1 .. 13
         /\ Acknowledges(o, Session[heard + 1])
<1>1. Len(out') = 1 /\ 1 \in DOMAIN out' /\ out'[1] = o
  OBVIOUS
<1>2. heard' = heard + 1
  BY <1>1 DEF AppRuns
<1>3. \A k \in DOMAIN out' : heard + k <= Len(Session) /\ Acknowledges(out'[k], Session[heard + k])
  BY DEF AppRuns
<1>4. QED BY <1>1, <1>2, <1>3, SessionLines

\* What the session's reports must show.
LEMMA ExpectedReports ==
  /\ Expected(4) = 0 /\ Expected(7) = Window(5) /\ Expected(10) = Window(3)
  /\ Expected(12) = Window(3) /\ Expected(13) = Window(5)
<1>1. /\ Session[4].n1 = 5 /\ Session[7].n1 = 5 /\ Session[10].n1 = 3
      /\ Session[12].n1 = 5 /\ Session[13].n1 = 3
  BY SessionCodes
<1>2. /\ \A k \in 1 .. 10 : Session[k].cc # "SWAP"
      /\ Session[11].cc = "SWAP"
      /\ \A k \in 1 .. 4 : Session[k].cc # "ENABLE_SPEC"
      /\ Session[5].cc = "ENABLE_SPEC" /\ Session[5].n1 = 5
      /\ Session[8].cc = "ENABLE_SPEC" /\ Session[8].n1 = 3
  BY SessionCodes
<1>3. Expected(4) = 0
  BY <1>1, <1>2 DEF Expected
<1>4. Expected(7) = Window(5)
  BY <1>1, <1>2 DEF Expected
<1>5. Expected(10) = Window(3)
  BY <1>1, <1>2 DEF Expected
<1>6. Expected(12) = Window(3) /\ Expected(13) = Window(5)
  BY <1>1, <1>2 DEF Expected
<1>7. QED BY <1>3, <1>4, <1>5, <1>6

\* The report handled next shows what it must.
LEMMA ReportTrue ==
  ASSUME SessionOK, NEW m \in SessionCommands, m.cc = "REPORT_SPEC",
         heard + 1 \in 1 .. 13, m = Session[heard + 1], pipe # <<>>, m = pipe[1]
  PROVE  BlinkerCounts[m.n1] = Expected(heard + 1)
<1> PICK k \in 1 .. 13 : k = heard + 1
  OBVIOUS
<1> PICK t : t = After(m, Now)
  OBVIOUS
<1>1. Now \in States /\ Lasting(t)
  BY ForeseenNow DEF SessionOK
<1>2. heard \in Nat
  BY <1>1 DEF Now, States
<1>3. t.ok /\ t.heard = k /\ m = Session[k]
  <2>1. Now.heard = heard /\ Now.ok = TRUE /\ heard < Len(Session) /\ m.mid = "CMD"
    BY <1>2, SessionWellFormed, SessionLines DEF Now
  <2>2. QED BY <2>1 DEF After
<1>4. t.counts = BlinkerCounts
  BY SessionWellFormed DEF After, CountsAfter, Now
<1>5. Told(t, 3) /\ Told(t, 5)
  BY <1>1, <1>3 DEF Lasting, Windowed
<1>6. k \in {4, 7, 10, 12, 13}
  BY <1>3, SessionCodes
<1>7. k \in {4, 7, 12} => m.n1 = 5
  BY <1>3, SessionCodes
<1>8. k \in {10, 13} => m.n1 = 3
  BY <1>3, SessionCodes
<1>9. CASE k = 4
  BY <1>3, <1>4, <1>5, <1>7, <1>9, ExpectedReports DEF Told, Opening
<1>10. CASE k = 7
  BY <1>3, <1>4, <1>5, <1>7, <1>10, ExpectedReports DEF Told, Opening, Place, Swapping
<1>11. CASE k = 10
  BY <1>3, <1>4, <1>5, <1>8, <1>11, ExpectedReports DEF Told, Opening, Place, Swapping
<1>12. CASE k = 12
  BY <1>3, <1>4, <1>5, <1>7, <1>12, ExpectedReports DEF Told, Opening, Place, Swapping
<1>13. CASE k = 13
  BY <1>3, <1>4, <1>5, <1>8, <1>13, ExpectedReports DEF Told, Opening, Place, Swapping
<1>14. QED BY <1>6, <1>9, <1>10, <1>11, <1>12, <1>13

\* What the app does leaves the windows as they are.
LEMMA AppLeavesWindows ==
  ASSUME AppRuns
  PROVE  /\ line' = line /\ open' = open /\ sent' = sent /\ dropped' = dropped
         /\ WindowsOK => WindowsOK'
         /\ \A k : Expected(k)' = Expected(k)
  BY DEF AppRuns, windowVars, WindowsOK, Expected, Window

\* Every handler takes the oldest message from the pipe.
LEMMA HandlerReceives ==
  ASSUME NEW m, Handler(m), pipe \in Seq(Script)
  PROVE  /\ pc = "Receive"
         /\ pipe # <<>> /\ m = pipe[1] /\ m \in Script
         /\ pipe' = Tail(pipe) /\ pipe' \in Seq(Script)
         /\ pc' \in {"RunLoop", "LogValues"} /\ RunStatus' = RunStatus /\ controlReq' = controlReq
<1>1. Take(m, "RunLoop") \/ Take(m, "LogValues")
  BY HandlerTakes
<1>2. pipe # <<>> /\ m = Head(pipe) /\ pipe' = Tail(pipe)
  BY <1>1 DEF Take, ReceiveBuffer
<1>3. /\ pc = "Receive" /\ pc' \in {"RunLoop", "LogValues"}
      /\ RunStatus' = RunStatus /\ controlReq' = controlReq
  BY <1>1 DEF Take, taskVars
<1>4. QED BY <1>2, <1>3

\* None of the script's messages holds the task up.
LEMMA HandlerReturns ==
  ASSUME NEW m \in Script, Handler(m)
  PROVE  pc' = "RunLoop"
<1>1. CASE m = Tick("BLINK")
  BY <1>1, BlinkHandler DEF BlinkTick, Take
<1>2. CASE m \in SessionCommands
  BY <1>2, CommandHandler DEF NoopCmd, BankCommand, Take
<1>3. QED BY <1>1, <1>2 DEF Script

LEMMA HandledStep ==
  ASSUME SessionOK, AppRuns, inOrder', NEW m \in Packets, Handler(m)
  PROVE  SessionOK'
<1>1. /\ pipe # <<>> /\ pipe' = Tail(pipe) /\ m = pipe[1]
      /\ RunStatus' = RunStatus /\ controlReq' = controlReq
      /\ m \in Script /\ pipe' \in Seq(Script)
  BY HandlerReceives DEF SessionOK
<1>2. WindowsOK /\ Foreseen /\ pipe \in Seq(Script) /\ Now \in States
  BY ForeseenNow DEF SessionOK
<1>3. pc' = "RunLoop"
  BY <1>1, HandlerReturns
<1>4. heard \in Nat
  BY <1>2 DEF Now, States
<1>5. /\ Now' = After(m, Now)
      /\ AcknowledgedReportsTrue'
  <2>1. CASE m = Tick("BLINK")
    <3>1. /\ BlinkerCounts' = CountsAfter(m, Now) /\ BlinkerStatuses' = StatusesAfter(m, Now)
          /\ out' = <<>>
      BY <2>1, BlinkEffect
    <3>2. Len(out') = 0 /\ heard' = heard
      BY <1>4, <3>1 DEF AppRuns
    <3>3. Now' = After(m, Now)
      BY <2>1, <3>1, <3>2 DEF Now, After, Tick
    <3>4. ~ Said("Report")'
      BY <3>1, NoOutput
    <3>5. QED BY <3>3, <3>4 DEF AcknowledgedReportsTrue
  <2>2. CASE m \in SessionCommands
    <3>1. BlinkerCounts' = CountsAfter(m, Now) /\ BlinkerStatuses' = StatusesAfter(m, Now)
      BY <1>2, <2>2, CommandEffect
    <3>2. PICK o : /\ out' = <<o>> /\ o.text = Acks[m.cc]
                   /\ m.cc \in SpecCodes => o.args[1] = m.n1
                   /\ m.cc = "REPORT_SPEC" => o.args[2] = BlinkerCounts[m.n1]
      BY <1>2, <2>2, CommandEffect
    <3>3. /\ heard' = heard + 1 /\ heard + 1 \in 1 .. 13
          /\ Acknowledges(o, Session[heard + 1])
      BY <1>4, <3>2, EarTells
    <3>4. m = Session[heard + 1]
      <4>1. PICK k \in 1 .. 13 : k = heard + 1
        BY <3>3
      <4>2. Acks[m.cc] = Acks[Session[k].cc] /\ (Session[k].cc \in SpecCodes => o.args[1] = Session[k].n1)
        BY <3>2, <3>3, <4>1 DEF Acknowledges
      <4>3. m.cc = Session[k].cc
        BY <2>2, <4>2, SessionShape, SessionCodes DEF Acks
      <4>4. Session[k].cc \in SpecCodes => m.n1 = Session[k].n1
        BY <3>2, <4>2, <4>3
      <4>5. QED BY <2>2, <4>1, <4>2, <4>4, AcksTell
    <3>5. Now' = After(m, Now)
      <4>1. Now.heard = heard /\ Now.ok = TRUE /\ heard < Len(Session) /\ m.mid = "CMD"
        BY <1>4, <2>2, <3>3, SessionWellFormed, SessionLines DEF Now
      <4>2. After(m, Now) = [counts |-> CountsAfter(m, Now), statuses |-> StatusesAfter(m, Now),
                             heard |-> heard + 1, ok |-> TRUE]
        BY <3>4, <4>1 DEF After
      <4>3. QED BY <3>1, <3>3, <4>2 DEF Now
    <3>6. Said("Report")' => m.cc = "REPORT_SPEC"
      <4>1. Said("Report")' => o.text = "Report"
        BY <3>2, OneOutput
      <4>2. QED BY <2>2, <3>2, <4>1, SessionShape DEF Acks
    <3>7. Said("Report")' => out'[1].args[2] = Expected(heard)'
      <4> SUFFICES ASSUME m.cc = "REPORT_SPEC"
                   PROVE  out'[1].args[2] = Expected(heard)'
        BY <3>6
      <4>1. BlinkerCounts[m.n1] = Expected(heard + 1)
        BY <1>1, <2>2, <3>3, <3>4, ReportTrue
      <4>2. out'[1].args[2] = BlinkerCounts[m.n1]
        BY <3>2
      <4>3. PICK k : k = heard + 1
        OBVIOUS
      <4>4. Expected(k)' = Expected(k)
        BY AppLeavesWindows
      <4>5. Expected(heard)' = Expected(k)'
        BY <3>3, <4>3 DEF Expected
      <4>6. QED BY <4>1, <4>2, <4>3, <4>4, <4>5
    <3>8. QED BY <3>5, <3>7 DEF AcknowledgedReportsTrue
  <2>3. QED BY <1>1, <2>1, <2>2 DEF Script
<1>6. Looping'
  BY <1>1, <1>3 DEF SessionOK, Looping
<1>7. WindowsOK'
  BY <1>2, AppLeavesWindows
<1>8. Foreseen'
  BY <1>1, <1>2, <1>5, AppLeavesWindows, ReplayShifts
<1>9. QED BY <1>1, <1>5, <1>6, <1>7, <1>8 DEF SessionOK

\* The task enters its loop: nothing that the invariant speaks of changes.
LEMMA EnterLoopStep ==
  ASSUME SessionOK, AppRuns, EnterLoop
  PROVE  SessionOK'
<1>1. WindowsOK /\ Foreseen /\ pipe \in Seq(Script) /\ Now \in States
  BY ForeseenNow DEF SessionOK
<1>2. /\ pc' = "Receive" /\ out' = <<>> /\ pipe' = pipe
      /\ UNCHANGED <<RunStatus, controlReq, BlinkerCounts, BlinkerStatuses>>
  BY DEF EnterLoop, Silent, dataVars, taskVars, busVars
<1>3. heard' = heard
  <2>1. heard \in Nat /\ Len(out') = 0
    BY <1>1, <1>2 DEF Now, States
  <2>2. QED BY <2>1 DEF AppRuns
<1>4. Looping' /\ Now' = Now
  BY <1>2, <1>3 DEF SessionOK, Looping, Now
<1>5. AcknowledgedReportsTrue'
  BY <1>2, NoOutput DEF AcknowledgedReportsTrue
<1>6. line' = line /\ open' = open /\ sent' = sent /\ dropped' = dropped /\ WindowsOK'
  BY <1>1, AppLeavesWindows
<1>7. \A s \in States : /\ Lasting(s) => Lasting(s)'
                        /\ Latest(s) => Latest(s)'
  BY <1>6 DEF Lasting, Latest, Told, Ahead, Window
<1>8. Foreseen'
  BY <1>1, <1>2, <1>4, <1>7, ReplayStays
<1>9. QED BY <1>1, <1>2, <1>4, <1>5, <1>6, <1>8 DEF SessionOK

\* The pipe's failure acknowledges no command.
LEMMA ReceiveFailsTells ==
  ASSUME SessionOK, AppRuns, ReceiveFails
  PROVE  ~ inOrder'
<1> SUFFICES ASSUME inOrder'
             PROVE  FALSE
  OBVIOUS
<1>1. PICK o : o = Event("PIPE_ERR", "PipeReadError", <<>>)
  OBVIOUS
<1>2. out' = <<o>> /\ o.text = "PipeReadError"
  BY <1>1 DEF ReceiveFails, GiveUp, Event
<1>3. heard \in Nat
  BY ForeseenNow DEF SessionOK, Now, States
<1>4. PICK k \in 1 .. 13 : k = heard + 1
  BY <1>2, <1>3, EarTells
<1>5. Acknowledges(o, Session[k])
  BY <1>2, <1>3, <1>4, EarTells
<1>6. o.text = Acks[Session[k].cc]
  BY <1>5 DEF Acknowledges
<1>7. QED BY <1>2, <1>6, SessionCodes DEF Acks

LEMMA AppRunsStep ==
  ASSUME SessionOK, AppRuns, inOrder'
  PROVE  SessionOK'
<1>1. EnterLoop \/ ReceiveFails \/ TaskPipe
  BY TaskChoices DEF SessionOK, AppRuns
<1>2. CASE EnterLoop
  BY <1>2, EnterLoopStep
<1>3. CASE ReceiveFails
  BY <1>3, ReceiveFailsTells
<1>4. CASE TaskPipe
  <2>1. PICK m \in Packets : Handler(m)
    BY <1>4, TaskPipeHandles
  <2>2. QED BY <2>1, HandledStep
<1>5. QED BY <1>1, <1>2, <1>3, <1>4

LEMMA SessionStutters ==
  ASSUME SInv, UNCHANGED <<vars, sessionVars>>
  PROVE  SInv'
<1>1. /\ UNCHANGED <<pc, RunStatus, controlReq, BlinkerCounts, BlinkerStatuses, pipe, out>>
      /\ UNCHANGED <<line, open, sent, dropped, heard, inOrder>>
  BY DEF vars, sessionVars, windowVars, earVars, dataVars, taskVars, busVars
<1> SUFFICES ASSUME SessionOK
             PROVE  SessionOK'
  BY <1>1 DEF SInv
<1>2. Looping' /\ Now' = Now /\ WindowsOK' /\ pipe' \in Seq(Script)
  BY <1>1 DEF SessionOK, Looping, Now, WindowsOK
<1>3. AcknowledgedReportsTrue'
  BY <1>1 DEF SessionOK, AcknowledgedReportsTrue, Said, Expected, Window
<1>4. \A s \in States : /\ Lasting(s) => Lasting(s)'
                        /\ Latest(s) => Latest(s)'
  BY <1>1 DEF Lasting, Latest, Told, Ahead, Window
<1>5. Foreseen'
  BY <1>1, <1>2, <1>4, ReplayStays DEF SessionOK
<1>6. QED BY <1>2, <1>3, <1>5 DEF SessionOK

\* One step of the session per line: an acknowledgement once missed stays
\* missed, so that only the steps in order need to be looked at.
LEMMA SessionStep ==
  ASSUME SInv, [SessionNext]_<<vars, sessionVars>>
  PROVE  SInv'
<1>1. CASE UNCHANGED <<vars, sessionVars>>
  BY <1>1, SessionStutters
<1>2. CASE Submit
  BY <1>2, SubmitStep DEF SInv, Submit, earVars
<1>3. CASE Lose
  BY <1>3, LoseStep DEF SInv, Lose, earVars
<1>4. CASE SchedulerBlinks
  BY <1>4, BlinkStep DEF SInv, SchedulerBlinks, earVars
<1>5. CASE AppRuns
  <2>1. inOrder' => inOrder
    BY <1>5 DEF AppRuns
  <2>2. QED BY <1>5, <2>1, AppRunsStep DEF SInv
<1>6. QED BY <1>1, <1>2, <1>3, <1>4, <1>5 DEF SessionNext

LEMMA SessionStarts ==
  ASSUME SessionInit
  PROVE  SInv
<1>1. Now \in States
  <2>1. PICK c \in 0 .. CountWrap - 1, t \in {0, 1} :
          BlinkerCounts = [i \in Blinkers |-> c] /\ BlinkerStatuses = [i \in Blinkers |-> t]
    BY DEF SessionInit
  <2>2. heard \in Nat
    BY DEF SessionInit
  <2>3. QED BY <2>1, <2>2 DEF Now, States
<1>2. Looping /\ pipe = <<>> /\ pipe \in Seq(Script)
  BY DEF SessionInit, Looping
<1>3. /\ line = 1 /\ heard = 0 /\ open = {}
      /\ \A n \in Blinkers : sent[n] = 0 /\ dropped[n] = 0
      /\ sent \in [Blinkers -> Nat] /\ dropped \in [Blinkers -> Nat]
  BY DEF SessionInit, AllZero
<1>4. WindowsOK
  BY <1>3, Bank, SessionLines DEF WindowsOK, Windowed
<1>5. AcknowledgedReportsTrue
  BY DEF SessionInit, AcknowledgedReportsTrue, Said
<1>6. Lasting(Now) /\ Latest(Now)
  BY <1>3, Bank DEF Now, Lasting, Latest, Told, Ahead, Windowed, Opening
<1>7. Foreseen
  <2>1. PICK H : H = [k \in 0 .. 0 |-> Now]
    OBVIOUS
  <2>2. Len(pipe) = 0
    BY <1>2
  <2>3. Replays(H)
    BY <1>1, <2>1, <2>2 DEF Replays
  <2>4. \A k \in 0 .. Len(pipe) : Lasting(H[k])
    BY <1>6, <2>1, <2>2
  <2>5. Latest(H[Len(pipe)])
    BY <1>6, <2>1, <2>2
  <2>6. QED BY <2>3, <2>4, <2>5 DEF Foreseen
<1>8. QED BY <1>2, <1>4, <1>5, <1>7 DEF SInv, SessionOK

\* As long as every acknowledgement has come in the script's order, what
\* waits in the pipe will make every report that is acknowledged in its turn
\* a true one (test_blinker.sh, and the handlers its commands reach).
THEOREM SessionInvariance == SessionSpec => []SInv
<1>1. SessionInit => SInv
  BY SessionStarts
<1>2. SInv /\ [SessionNext]_<<vars, sessionVars>> => SInv'
  BY SessionStep
<1>3. QED BY <1>1, <1>2, PTL DEF SessionSpec

\* An operator who has seen the acknowledgements of all commands so far, in
\* the script's order, may trust the report that has just come: it shows the
\* blinks that reached the blinker between its enable and its disable
\* command, also after the swap, however many commands were lost, whenever
\* the blinks came and whatever was in the bank before (test_blinker.sh,
\* ReportSpecBlinkersCmd and the handlers before it).
THEOREM SessionReportsTrue == SessionSpec => []AcknowledgedReportsTrue
<1>1. SInv => AcknowledgedReportsTrue
  BY DEF SInv, SessionOK, AcknowledgedReportsTrue
<1>2. QED BY <1>1, SessionInvariance, PTL

(***************************************************************************)
(* The commands answered.  This part needs no replay: it counts.           *)
(***************************************************************************)
Waiting(q) == {k \in DOMAIN q : q[k].mid = "CMD"}

LEMMA QueuedWaits ==
  Queued = Cardinality(Waiting(pipe)) /\ Queued' = Cardinality(Waiting(pipe'))
  BY DEF Queued, Waiting

LEMMA WaitingCounted ==
  ASSUME NEW q \in Seq(Script)
  PROVE  IsFiniteSet(Waiting(q)) /\ Cardinality(Waiting(q)) \in Nat
<1>1. IsFiniteSet(1 .. Len(q)) /\ DOMAIN q = 1 .. Len(q)
  BY FS_Interval
<1>2. Waiting(q) \in SUBSET (1 .. Len(q))
  BY <1>1 DEF Waiting
<1>3. QED BY <1>1, <1>2, FS_Subset, FS_CardinalityType

LEMMA WaitingAppended ==
  ASSUME NEW q \in Seq(Script), NEW m \in Script
  PROVE  Cardinality(Waiting(Append(q, m))) =
           Cardinality(Waiting(q)) + (IF m.mid = "CMD" THEN 1 ELSE 0)
<1> PICK n \in Nat : n = Len(q)
  OBVIOUS
<1>1. /\ DOMAIN q = 1 .. n /\ DOMAIN Append(q, m) = 1 .. n + 1
      /\ \A k \in 1 .. n : Append(q, m)[k] = q[k]
      /\ Append(q, m)[n + 1] = m
  OBVIOUS
<1>2. n + 1 \notin Waiting(q)
  BY <1>1 DEF Waiting
<1>3. CASE m.mid = "CMD"
  <2>1. Waiting(Append(q, m)) = Waiting(q) \cup {n + 1}
    BY <1>1, <1>3 DEF Waiting
  <2>2. QED BY <1>2, <1>3, <2>1, WaitingCounted, FS_AddElement
<1>4. CASE m.mid # "CMD"
  <2>1. Waiting(Append(q, m)) = Waiting(q)
    BY <1>1, <1>4 DEF Waiting
  <2>2. QED BY <1>4, <2>1, WaitingCounted
<1>5. QED BY <1>3, <1>4

LEMMA WaitingTaken ==
  ASSUME NEW q \in Seq(Script), q # <<>>
  PROVE  Cardinality(Waiting(Tail(q))) =
           Cardinality(Waiting(q)) - (IF q[1].mid = "CMD" THEN 1 ELSE 0)
<1> PICK n \in Nat : n = Len(q) /\ n >= 1
  OBVIOUS
<1>1. /\ DOMAIN q = 1 .. n /\ DOMAIN Tail(q) = 1 .. n - 1
      /\ \A k \in 1 .. n - 1 : Tail(q)[k] = q[k + 1]
  OBVIOUS
<1> PICK rest : rest = Waiting(q) \ {1}
  OBVIOUS
<1>2. IsFiniteSet(rest) /\ Cardinality(rest) = Cardinality(Waiting(q)) - (IF q[1].mid = "CMD" THEN 1 ELSE 0)
  <2>1. 1 \in Waiting(q) <=> q[1].mid = "CMD"
    BY <1>1 DEF Waiting
  <2>2. QED BY <2>1, WaitingCounted, FS_RemoveElement
<1>3. ExistsBijection(rest, Waiting(Tail(q)))
  <2>1. PICK f : f = [k \in rest |-> k - 1]
    OBVIOUS
  <2>2. \A k \in rest : k \in 2 .. n /\ q[k].mid = "CMD"
    BY <1>1 DEF Waiting
  <2>3. f \in [rest -> Waiting(Tail(q))]
    BY <1>1, <2>1, <2>2 DEF Waiting
  <2>4. \A j, k \in rest : f[j] = f[k] => j = k
    BY <2>1, <2>2
  <2>5. \A k \in Waiting(Tail(q)) : k + 1 \in rest /\ f[k + 1] = k
    BY <1>1, <2>1 DEF Waiting
  <2>6. f \in Bijection(rest, Waiting(Tail(q)))
    BY <2>3, <2>4, <2>5 DEF Bijection, Injection, Surjection, IsInjective
  <2>7. QED BY <2>6 DEF ExistsBijection
<1>4. QED BY <1>2, <1>3, FS_Bijection

\* The app either serves its loop or is on its way out and never comes back.
Serving == RunStatus = "APP_RUN"

Accounts ==
  /\ RunStatus \in {"APP_RUN", "APP_ERROR"}
  /\ pc \in (IF Serving THEN {"RunLoop", "Receive"} ELSE {"RunLoop", "ExitApp", "Exited"})
  /\ controlReq = "APP_RUN"
  /\ pipe \in Seq(Script)
  /\ line \in 1 .. Len(Session) + 1 /\ lost \in Nat /\ heard \in Nat
  /\ CommandsAnswered

LEMMA SubmitAccounts ==
  ASSUME Accounts, Submit
  PROVE  Accounts'
<1>1. line \in 1 .. 13 /\ line' = line + 1 /\ line' \in 1 .. Len(Session) + 1
  BY SessionLines DEF Submit, Accounts
<1>2. PICK m : m = Session[line]
  OBVIOUS
<1>3. m \in Script /\ m.mid = "CMD"
  BY <1>1, <1>2, SessionMembers, SessionCodes DEF Script
<1>4. /\ pipe' = Append(pipe, m)
      /\ UNCHANGED <<pc, RunStatus, controlReq, lost, heard>>
  BY <1>2 DEF Submit, Send, Deliver, dataVars, taskVars, earVars
<1>5. pipe \in Seq(Script) /\ pipe' \in Seq(Script)
  BY <1>3, <1>4 DEF Accounts
<1>6. Queued \in Nat /\ Queued' = Queued + 1
  BY <1>3, <1>4, <1>5, WaitingAppended, WaitingCounted, QueuedWaits
<1>7. CommandsAnswered'
  BY <1>1, <1>4, <1>6 DEF Accounts, CommandsAnswered
<1>8. QED BY <1>1, <1>4, <1>5, <1>7 DEF Accounts, Serving

LEMMA LoseAccounts ==
  ASSUME Accounts, Lose
  PROVE  Accounts'
<1>1. /\ line' = line + 1 /\ lost' = lost + 1 /\ line' \in 1 .. Len(Session) + 1
      /\ UNCHANGED <<pc, RunStatus, controlReq, pipe, heard>>
  BY SessionLines DEF Lose, Accounts, taskVars, busVars, earVars
<1>2. Queued \in Nat /\ Queued' = Queued
  BY <1>1, WaitingCounted, QueuedWaits DEF Accounts
<1>3. CommandsAnswered'
  BY <1>1, <1>2, SessionLines DEF Accounts, CommandsAnswered
<1>4. QED BY <1>1, <1>3 DEF Accounts, Serving

LEMMA BlinkAccounts ==
  ASSUME Accounts, SchedulerBlinks
  PROVE  Accounts'
<1>1. UNCHANGED <<pc, RunStatus, controlReq, line, lost, heard>>
  BY DEF SchedulerBlinks, RequestBlink, Send, taskVars, dataVars, earVars
<1>2. pipe' = pipe \/ pipe' = Append(pipe, Tick("BLINK"))
  BY DEF SchedulerBlinks, RequestBlink, Send, Deliver, busVars
<1>3. Tick("BLINK") \in Script /\ Tick("BLINK").mid # "CMD"
  BY DEF Script, Tick
<1>4. pipe' \in Seq(Script) /\ Queued' = Queued
  <2>1. pipe \in Seq(Script) /\ Queued \in Nat
    BY WaitingCounted, QueuedWaits DEF Accounts
  <2>2. CASE pipe' = pipe
    BY <2>1, <2>2, QueuedWaits
  <2>3. CASE pipe' = Append(pipe, Tick("BLINK"))
    BY <1>3, <2>1, <2>3, WaitingAppended, QueuedWaits
  <2>4. QED BY <1>2, <2>2, <2>3
<1>5. CommandsAnswered'
  BY <1>1, <1>4 DEF Accounts, CommandsAnswered
<1>6. QED BY <1>1, <1>4, <1>5 DEF Accounts, Serving

\* A command is answered by one event, and a blink by none.
LEMMA OneAnswer ==
  ASSUME NEW m \in Script, Handler(m)
  PROVE  Len(out') = IF m.mid = "CMD" THEN 1 ELSE 0
<1>1. CASE m = Tick("BLINK")
  BY <1>1, BlinkEffect DEF Tick
<1>2. CASE m \in SessionCommands
  <2>1. \E o : out' = <<o>>
    BY <1>2, CommandEffect
  <2>2. m.mid = "CMD"
    BY <1>2, SessionWellFormed
  <2>3. QED BY <2>1, <2>2
<1>3. QED BY <1>1, <1>2 DEF Script

LEMMA HandledAccounts ==
  ASSUME Accounts, Serving, AppRuns, NEW m, Handler(m)
  PROVE  Accounts'
<1>1. /\ pipe # <<>> /\ m = pipe[1] /\ m \in Script
      /\ pipe' = Tail(pipe) /\ pipe' \in Seq(Script)
      /\ pc' = "RunLoop" /\ RunStatus' = RunStatus /\ controlReq' = controlReq
  BY HandlerReceives, HandlerReturns DEF Accounts
<1>2. pipe \in Seq(Script) /\ Queued \in Nat
  BY WaitingCounted, QueuedWaits DEF Accounts
<1>3. Queued' = Queued - (IF m.mid = "CMD" THEN 1 ELSE 0)
  BY <1>1, <1>2, WaitingTaken, QueuedWaits
<1>4. heard' = heard + (IF m.mid = "CMD" THEN 1 ELSE 0) /\ line' = line /\ lost' = lost
  BY <1>1, OneAnswer DEF AppRuns
<1>5. CommandsAnswered'
  BY <1>1, <1>2, <1>3, <1>4 DEF Accounts, Serving, CommandsAnswered
<1>6. QED BY <1>1, <1>4, <1>5 DEF Accounts, Serving

\* The other steps of the task: entering the loop, and the way out of it.
LEMMA LoopAccounts ==
  ASSUME Accounts, AppRuns, EnterLoop \/ ReceiveFails \/ LeaveLoop \/ ExitApp,
         EnterLoop => Serving, LeaveLoop => ~ Serving, ExitApp => ~ Serving
  PROVE  Accounts'
<1>1. line' = line /\ lost' = lost
  BY DEF AppRuns
<1>2. CASE EnterLoop
  <2>1. /\ pc' = "Receive" /\ pipe' = pipe /\ out' = <<>>
        /\ RunStatus' = RunStatus /\ controlReq' = controlReq
    BY <1>2 DEF EnterLoop, Silent, taskVars, busVars
  <2>2. heard' = heard
    BY <2>1 DEF AppRuns, Accounts
  <2>3. Queued' = Queued
    BY <2>1, QueuedWaits
  <2>4. QED BY <1>1, <1>2, <2>1, <2>2, <2>3 DEF Accounts, Serving, CommandsAnswered
<1>3. CASE ReceiveFails
  <2>1. /\ pc' = "RunLoop" /\ pipe' = pipe /\ Len(out') = 1
        /\ RunStatus' = "APP_ERROR" /\ controlReq' = controlReq
    BY <1>3 DEF ReceiveFails, GiveUp, taskVars, busVars
  <2>2. heard' \in Nat
    BY <2>1 DEF AppRuns, Accounts
  <2>3. QED BY <1>1, <2>1, <2>2 DEF Accounts, Serving, CommandsAnswered
<1>4. CASE LeaveLoop \/ ExitApp
  <2>1. RunStatus # "APP_RUN"
    BY <1>4 DEF Serving
  <2>2. /\ pc' \in {"ExitApp", "Exited"} /\ out' = <<>>
        /\ RunStatus' = RunStatus /\ controlReq' = controlReq
    BY <1>4, <2>1 DEF LeaveLoop, ExitApp, Silent, taskVars
  <2>3. pipe' = pipe \/ pipe' = <<>>
    BY <1>4 DEF LeaveLoop, ExitApp, DeletePipe, busVars
  <2>4. pipe' \in Seq(Script)
    <3>1. pipe \in Seq(Script) /\ <<>> \in Seq(Script)
      BY DEF Accounts
    <3>2. QED BY <2>3, <3>1
  <2>5. heard' = heard
    BY <2>2 DEF AppRuns, Accounts
  <2>6. QED BY <1>1, <2>1, <2>2, <2>4, <2>5 DEF Accounts, Serving, CommandsAnswered
<1>5. QED BY <1>2, <1>3, <1>4

LEMMA AppAccounts ==
  ASSUME Accounts, AppRuns
  PROVE  Accounts'
<1>1. AppStep \/ ReceiveFails
  BY DEF AppRuns
<1>2. CASE Serving
  <2>1. EnterLoop \/ ReceiveFails \/ TaskPipe
    BY <1>1, <1>2, TaskChoices DEF Accounts, Serving, Looping
  <2>2. ~ LeaveLoop /\ ~ ExitApp
    BY <1>2 DEF Accounts, Serving, LeaveLoop, ExitApp, Continue
  <2>3. CASE EnterLoop \/ ReceiveFails
    BY <1>2, <2>2, <2>3, LoopAccounts
  <2>4. CASE TaskPipe
    BY <1>2, <2>4, TaskPipeHandles, HandledAccounts
  <2>5. QED BY <2>1, <2>3, <2>4
<1>3. CASE ~ Serving
  <2>1. pc \in {"RunLoop", "ExitApp", "Exited"} /\ RunStatus # "APP_RUN"
    BY <1>3 DEF Accounts, Serving
  <2>2. ~ TaskPipe
    BY <2>1, TaskPipeHandles, HandlerReceives DEF Accounts
  <2>3. ~ AppInit
    BY <2>1
    DEF AppInit, EvsRegister, CreatePipe, SubscribeAll, SubscribeTo, RegisterTable, LoadTable
  <2>4. ~ EnterLoop /\ ~ ReceiveFails /\ ~ LogValues /\ ~ LogCrc
    BY <2>1 DEF EnterLoop, Continue, ReceiveFails, LogValues, LogCrc
  <2>5. LeaveLoop \/ ExitApp
    BY <1>1, <2>2, <2>3, <2>4 DEF AppStep
  <2>6. QED BY <1>3, <2>4, <2>5, LoopAccounts
<1>4. QED BY <1>2, <1>3

LEMMA AccountsStep ==
  ASSUME Accounts, [SessionNext]_<<vars, sessionVars>>
  PROVE  Accounts'
<1>1. CASE UNCHANGED <<vars, sessionVars>>
  <2>1. UNCHANGED <<pc, RunStatus, controlReq, pipe, line, lost, heard>>
    BY <1>1 DEF vars, sessionVars, earVars, taskVars, busVars
  <2>2. Queued' = Queued
    BY <2>1, QueuedWaits
  <2>3. QED BY <2>1, <2>2 DEF Accounts, Serving, CommandsAnswered
<1>2. CASE SessionNext
  BY <1>2, SubmitAccounts, LoseAccounts, BlinkAccounts, AppAccounts DEF SessionNext
<1>3. QED BY <1>1, <1>2

\* Each command the script has come to was lost, waits in the pipe, or has been
\* answered by exactly one event, until the pipe fails the app, for every
\* number of lost commands and blinks and every depth of the pipe
\* (BLINKER_APP_TaskPipe and the handlers of test_blinker.sh's commands).
THEOREM SessionCommandsAnswered == SessionSpec => []CommandsAnswered
<1>1. SessionInit => Accounts
  <2> SUFFICES ASSUME SessionInit
               PROVE  Accounts
    OBVIOUS
  <2>1. /\ pc = "RunLoop" /\ RunStatus = "APP_RUN" /\ controlReq = "APP_RUN"
        /\ pipe = <<>> /\ line = 1 /\ lost = 0 /\ heard = 0
    BY DEF SessionInit
  <2>2. Waiting(pipe) = {}
    BY <2>1 DEF Waiting
  <2>3. Queued = 0
    BY <2>2, QueuedWaits, FS_EmptySet
  <2>4. pipe \in Seq(Script)
    BY <2>1
  <2>5. QED BY <2>1, <2>3, <2>4, SessionLines DEF Accounts, Serving, CommandsAnswered
<1>2. Accounts /\ [SessionNext]_<<vars, sessionVars>> => Accounts'
  BY AccountsStep
<1>3. Accounts => CommandsAnswered
  BY DEF Accounts
<1>4. QED BY <1>1, <1>2, <1>3, PTL DEF SessionSpec
================================================================================
