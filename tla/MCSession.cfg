\* The script, with up to three of its commands lost.
SPECIFICATION SessionSpec
CONSTANTS
  TotalBlinkers = 8
  CountWrap = 3
  CmdWrap = 2
  PipeDepth = 2
  MaxStarts = 1
  MaxLost = 3
  MaxBlinks = 1
  TblElement1Max = 1
  NoImage = NoImage
  Images <- MCImages
  Commands <- MCCommands
INVARIANT AcknowledgedReportsTrue
INVARIANT CommandsAnswered
PROPERTY SessionAnswered
CHECK_DEADLOCK FALSE
