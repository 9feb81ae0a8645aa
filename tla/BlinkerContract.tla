---------------------------- MODULE BlinkerContract ----------------------------
(***************************************************************************)
(* What the blinker app promises to those who use it, without its pipe,    *)
(* its cFE calls and its table buffers: a bank of blinkers, two counters   *)
(* and a table that exist while the app runs, changed by one operation at  *)
(* a time, and answers that are true when they are given.                  *)
(***************************************************************************)
EXTENDS Naturals

CONSTANTS
  Total,      \* number of blinkers
  CountWrap,  \* number of values of a blinker's count
  CmdWrap,    \* number of values of a counter
  Good,       \* the tables the app may use
  NoTable

VARIABLES
  life,       \* "down", "starting", "running" or "stopping"
  counts,     \* the count of each blinker
  on,         \* the set of blinkers that count
  executed,   \* the command counter
  rejected,   \* the error counter
  table,      \* the table in use
  answer      \* the numbers the last step told the user, if it told any

bank == <<counts, on>>
counters == <<executed, rejected>>
vars == <<life, bank, counters, table, answer>>

Numbers == 0 .. Total - 1

\* A command concerns one blinker, or all but the last.
Groups == {{i} : i \in Numbers} \cup {Numbers \ {Total - 1}}

Zero == /\ counts' = [i \in Numbers |-> 0] /\ on' = {}
        /\ executed' = 0 /\ rejected' = 0

Init ==
  /\ life = "down" /\ table = NoTable /\ answer = <<>>
  /\ counts = [i \in Numbers |-> 0] /\ on = {}
  /\ executed = 0 /\ rejected = 0

(***************************************************************************)
(* The life of the app.                                                    *)
(***************************************************************************)
\* Starting clears everything, even if it goes no further.
Start ==
  /\ life = "down" /\ life' \in {"starting", "stopping"}
  /\ Zero
  /\ answer' = <<>> /\ UNCHANGED table

Ready ==
  /\ life = "starting" /\ life' = "running"
  /\ table' \in Good
  /\ answer' = <<>> /\ UNCHANGED <<bank, counters>>

GiveUp ==
  /\ life \in {"starting", "running"} /\ life' = "stopping"
  /\ answer' = <<>> /\ UNCHANGED <<bank, counters, table>>

Stop ==
  /\ life = "stopping" /\ life' = "down"
  /\ table' = NoTable
  /\ answer' = <<>> /\ UNCHANGED <<bank, counters>>

(***************************************************************************)
(* What happens while it runs.                                             *)
(***************************************************************************)
Blink ==
  /\ counts' = [i \in Numbers |-> IF i \in on THEN (counts[i] + 1) % CountWrap ELSE counts[i]]
  /\ answer' = <<>> /\ UNCHANGED <<on, counters, table>>

Switch(G) ==
  /\ on' \in {on \cup G, on \ G}
  /\ answer' = <<>> /\ UNCHANGED <<counts, counters, table>>

ResetCounts(G) ==
  /\ counts' = [i \in Numbers |-> IF i \in G THEN 0 ELSE counts[i]]
  /\ answer' = <<>> /\ UNCHANGED <<on, counters, table>>

Report(i) ==
  /\ answer' = <<i, counts[i]>> /\ UNCHANGED <<bank, counters, table>>

\* The counts change places, and the answer says where they are now.
Exchange(i, j) ==
  /\ counts' = [k \in Numbers |-> IF k = i THEN counts[j] ELSE IF k = j THEN counts[i] ELSE counts[k]]
  /\ answer' = <<i, j, counts[j], counts[i]>> /\ UNCHANGED <<on, counters, table>>

Count ==
  /\ \/ executed' = (executed + 1) % CmdWrap /\ UNCHANGED rejected
     \/ rejected' = (rejected + 1) % CmdWrap /\ UNCHANGED executed
     \/ executed' = 0 /\ rejected' = 0
  /\ answer' = <<>> /\ UNCHANGED <<bank, table>>

\* Housekeeping: the counters are told, and a waiting table comes into use.
HouseKeep ==
  /\ answer' = <<rejected, executed>>
  /\ table' \in Good \cup {table}
  /\ UNCHANGED <<bank, counters>>

Operate ==
  /\ life = "running" /\ UNCHANGED life
  /\ \/ Blink \/ Count \/ HouseKeep
     \/ \E G \in Groups : Switch(G) \/ ResetCounts(G)
     \/ \E i \in Numbers : Report(i)
     \/ \E i, j \in Numbers : Exchange(i, j)

\* A step the user sees nothing of.
Quiet == answer' = <<>> /\ UNCHANGED <<life, bank, counters, table>>

Next == Start \/ Ready \/ GiveUp \/ Stop \/ Operate \/ Quiet

Safety == Init /\ [][Next]_vars

\* An app that has to stop does stop.
Progress == WF_vars(Stop)

Spec == Safety /\ Progress
================================================================================
