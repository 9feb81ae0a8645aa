\* What the operator concludes from the outputs: counters and table logs.
SPECIFICATION GroundSpec
CONSTANTS
  TotalBlinkers = 1
  CountWrap = 2
  CmdWrap = 2
  PipeDepth = 1
  MaxStarts = 2
  MaxSeen = 3
  TblElement1Max = 1
  NoImage = NoImage
  Images <- MCImages
  Commands <- MCCommands
INVARIANTS
  TelemetryMatchesEvents
  ProcessLogsOneTable
CHECK_DEADLOCK FALSE
