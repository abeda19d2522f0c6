CONSTANTS
  Name <- MCName
  Fold <- MCFold
  Size <- MCSize
  Offerable = {1, 2, 3, 4}
  Plannable = {1, 2, 3}
  Lengths = {0, 1, 2, 3}
  MaxNodes = 4
  MaxPath = 4
  MaxEntries = 3
  MaxFile = 2
  MaxTransfer = 3
  MaxFrame = 7
  MaxManifest = 12
SPECIFICATION Spec
INVARIANTS AdmittedIsOffered AdmittedExactly
CHECK_DEADLOCK FALSE
