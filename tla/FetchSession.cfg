CONSTANTS
  Shapes <- MCShapes
  MaxChanges = 2
  Window = 2
  MayCancel = TRUE
SPECIFICATION FairSpec
INVARIANTS FramesAgree AttemptIsTrue CompleteIsSnapshot
PROPERTIES ImplementsTransfer BothEnd
CHECK_DEADLOCK FALSE
