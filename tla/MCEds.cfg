\* The build with the generated dispatcher.
SPECIFICATION EdsSpec
CONSTANTS
  TotalBlinkers = 1
  CountWrap = 2
  CmdWrap = 2
  PipeDepth = 1
  MaxStarts = 2
  MaxErrors = 3
  TblElement1Max = 1
  NoImage = NoImage
  Images <- MCImages
  Commands <- MCCommands
INVARIANT EdsTelemetryCountsErrors
PROPERTY ContractSafety
CHECK_DEADLOCK FALSE
