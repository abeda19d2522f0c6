CONSTANTS
  d1 = d1
  d2 = d2
  s1 = s1
  c1 = c1
  k1 = k1
  k2 = k2
  k3 = k3
  k4 = k4
  Desktop = {d1, d2}
  Serve = {s1}
  Call = {c1}
  Click = {k1, k2, k3, k4}
  CardOf <- MCCardOf
  MaxPulls = 2
  MaxFaults = 1
SPECIFICATION FairSpec
INVARIANTS ServingIsPublished OnePullPerCard
PROPERTIES ControlComesBack
CHECK_DEADLOCK FALSE
