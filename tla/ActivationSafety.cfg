CONSTANTS
  a1 = a1
  a2 = a2
  Activation = {a1, a2}
  Shapes = {"text", "folder", "save"}
  None = None
  MaxConcurrent = 2
  MaxFaults = 1
  MaxCrashes = 1
SYMMETRY ActivationSymmetry
SPECIFICATION Spec
INVARIANTS
  TypeOK
  WriteAhead
  StagingOwned
  UncertaintySurvivesRestart
  CompletedIsOnDisk
  NoResidue
  SoleCandidateKept
  CacheIsBounded
  SoleClipboardPathExists
PROPERTIES
  UncertainIsFinal
  ImplementsDelivery
CHECK_DEADLOCK FALSE
