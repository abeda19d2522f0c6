CONSTANTS
  a1 = a1
  a2 = a2
  Activation = {a1, a2}
  Shapes = {"folder"}
  None = None
  MaxConcurrent = 2
  MaxFaults = 0
  MaxCrashes = 0
SPECIFICATION Spec
INVARIANT ClipboardPathExists
CHECK_DEADLOCK FALSE
