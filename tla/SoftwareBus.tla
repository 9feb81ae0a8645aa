----------------------------- MODULE SoftwareBus -----------------------------
(***************************************************************************)
(* The cFE software bus as the app uses it: one bounded FIFO command pipe  *)
(* and the message ids routed to it.  The bus is external to the           *)
(* repository; PipeDepth is BLINKER_APP_PIPE_DEPTH.                        *)
(*                                                                         *)
(* A message that is not subscribed to, or that finds the pipe full, is    *)
(* lost and changes nothing here: losing a message is a stuttering step.   *)
(***************************************************************************)
EXTENDS Naturals, Sequences

CONSTANT PipeDepth
ASSUME PipeDepthAssumption == PipeDepth \in Nat \ {0}

VARIABLES
  pipe,    \* the messages waiting in the command pipe, oldest first
  subs     \* the message ids subscribed to the pipe

busVars == <<pipe, subs>>

BusInit == pipe = <<>> /\ subs = {}

Subscribe(mid) == subs' = subs \cup {mid} /\ UNCHANGED pipe

Deliver(m) ==
  /\ m.mid \in subs
  /\ Len(pipe) < PipeDepth
  /\ pipe' = Append(pipe, m)
  /\ UNCHANGED subs

ReceiveBuffer(m) ==
  /\ pipe # <<>>
  /\ m = Head(pipe)
  /\ pipe' = Tail(pipe)
  /\ UNCHANGED subs

\* When the app exits, cFE deletes its pipe with everything still in it.
DeletePipe == pipe' = <<>> /\ subs' = {}
================================================================================
