\* Progress: errors and exit requests end the app, table requests are served,
\* although the pipe may be flooded with commands.
SPECIFICATION Spec
CONSTANTS
  TotalBlinkers = 1
  CountWrap = 2
  CmdWrap = 2
  PipeDepth = 2
  MaxStarts = 2
  TblElement1Max = 1
  NoImage = NoImage
  Images <- MCImages
  Commands <- BusyCommands
PROPERTIES
  ErrorLeadsToExit
  ExitRequestHonoured
  TableRequestServed
  ContractProgress
CHECK_DEADLOCK FALSE
