\* The bank of blinkers against the operator's own bookkeeping.
SPECIFICATION LedgerSpec
CONSTANTS
  TotalBlinkers = 2
  CountWrap = 3
  CmdWrap = 2
  PipeDepth = 1
  MaxStarts = 1
  MaxTicks = 3
  TblElement1Max = 1
  NoImage = NoImage
  Images <- MCImages
  Commands <- MCCommands
INVARIANTS
  ReportsMatchLedger
  SwapsMatchLedger
CHECK_DEADLOCK FALSE
