\* Does the command counter count executed commands?
SPECIFICATION Spec
CONSTANTS
  TotalBlinkers = 2
  CountWrap = 3
  CmdWrap = 3
  PipeDepth = 1
  MaxStarts = 1
  TblElement1Max = 1
  NoImage = NoImage
  Images <- MCImages
  Commands <- MCCommands
PROPERTY CommandCounterCountsCommands
CHECK_DEADLOCK FALSE
