------------------------------ MODULE AppContract ------------------------------
(***************************************************************************)
(* How the app implements BlinkerContract: the state of the contract seen  *)
(* in the state of the app.                                                *)
(***************************************************************************)
EXTENDS BlinkerApp

\* The stage of the app's life, from the call the task is at.  In front of
\* CFE_ES_RunLoop it depends on what RunStatus will make of the loop.
Life ==
  IF pc \in {"Init", "Exited"} THEN "down"
  ELSE IF pc \in InitSteps THEN "starting"
  ELSE IF pc \in LoopSteps \/ (pc = "RunLoop" /\ RunStatus = "APP_RUN") THEN "running"
  ELSE "stopping"

Enabled == {i \in Blinkers : BlinkerStatuses[i] # 0}

\* The outputs whose numbers are a report on the app's data.
Answer == IF Said("Report") \/ Said("Swapped") \/ Said("HkTlm") THEN out[1].args ELSE <<>>

Valid == {img \in Image : TblValidationFunc(img)}

Contract == INSTANCE BlinkerContract WITH
  Total <- TotalBlinkers, Good <- Valid, NoTable <- NoImage,
  life <- Life, counts <- BlinkerCounts, on <- Enabled,
  executed <- CmdCounter, rejected <- ErrCounter, table <- active, answer <- Answer

\* The app keeps its contract: every step of every call, handler, table
\* command, failure and restart is one operation of the contract or invisible
\* to the user, and the numbers that a report, a swap or a housekeeping packet
\* tells are true when they are told (BLINKER_APP_Main and all handlers of
\* blinker_app_cmds.c).  The contract does not say which packet asks for which
\* operation, nor does it look at the other outputs.
ContractSafety == Contract!Safety

\* The contract's promise of progress: an app that is stopping reaches
\* CFE_ES_ExitApp and is down.  After an error it is stopping at once; asked to
\* exit by ES it still counts as running until CFE_ES_RunLoop has told it so.
\* That it gets so far is ExitRequestHonoured.
ContractProgress == Contract!Progress
================================================================================
