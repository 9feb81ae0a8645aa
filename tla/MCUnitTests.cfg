\* The coverage tests against the model of the app.
SPECIFICATION UtSpec
CONSTANTS
  TotalBlinkers = 8
  CountWrap = 65536
  CmdWrap = 256
  PipeDepth = 32
  MaxStarts = 1
  MaxCalls = 9
  TblElement1Max = 10
  NoImage = NoImage
  Images <- MCImages
  Commands = {}
INVARIANT AssertionsHold
PROPERTY SuiteEnds
CHECK_DEADLOCK FALSE
