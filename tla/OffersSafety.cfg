CONSTANTS
  a = a
  b = b
  Device = {a, b}
  Nodes = {{a}, {b}}
  Senders = {a}
  o1 = o1
  o2 = o2
  o3 = o3
  Offer = {o1, o2, o3}
  None = None
  MaxLive = 2
  MaxRestarts = 2
SYMMETRY OfferSymmetry
SPECIFICATION Spec
INVARIANTS TypeOK EligibleUntilRefused
PROPERTIES ShelfKeepsNewest SourcesKeepNewest
CHECK_DEADLOCK FALSE
