\* The app's life: initialization with every failure, the run loop, exit and
\* restart, with the table and a few commands.
SPECIFICATION Spec
CONSTANTS
  TotalBlinkers = 2
  CountWrap = 2
  CmdWrap = 2
  PipeDepth = 1
  MaxStarts = 2
  TblElement1Max = 1
  NoImage = NoImage
  Images <- MCImages
  Commands <- LifeCommands
INVARIANTS
  TypeOK
  RunLoopHasResources
  NoMessageIdError
  ActiveImageValid
  FreshAfterRestart
PROPERTIES
  ErrorIsFinal
  ContractSafety
CHECK_DEADLOCK FALSE
