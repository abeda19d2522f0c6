CONSTANTS
  a = a
  b = b
  c = c
  Device = {a, b, c}
  Nodes = {{a}, {b, c}}
  Senders = {a, b}
  o1 = o1
  o2 = o2
  Offer = {o1, o2}
  None = None
  MaxLive = 1
  MaxRestarts = 2
SPECIFICATION FairSpec
INVARIANTS SourceBeforeCard StoredMeansReceived
PROPERTIES EveryPeerReported
CHECK_DEADLOCK FALSE
