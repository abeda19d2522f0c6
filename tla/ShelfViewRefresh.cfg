CONSTANTS
  r1 = r1
  r2 = r2
  Refresher = {r1, r2}
  MaxActivations = 2
  MaxChanges = 2
  MaxActive = 2
  MaxRemote = 1
  MaxNudges = 1
  MaxFaults = 1
SPECIFICATION FairSpec
INVARIANTS NoLostRefresh
PROPERTIES ChangesReachTheWindow
CHECK_DEADLOCK FALSE
