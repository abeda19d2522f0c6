CONSTANTS
  a1 = a1
  a2 = a2
  Activation = {a1, a2}
  Shapes = {"file", "folder"}
  None = None
  MaxConcurrent = 2
  MaxFaults = 0
  MaxCrashes = 1
SPECIFICATION FairSpec
PROPERTIES
  Terminates
  RecoversEventually
CHECK_DEADLOCK FALSE
