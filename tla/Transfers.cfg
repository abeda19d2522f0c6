CONSTANTS
  c1 = c1
  c2 = c2
  c3 = c3
  Conn = {c1, c2, c3}
  MaxHandlers = 2
  MaxStreams = 1
  Space = 6
  Headroom = 1
  Payload = {2}
  MaxFaults = 1
  MaxStarts = 2
SPECIFICATION FairSpec
INVARIANTS TypeOK HeadroomKept
PROPERTIES Drains
CHECK_DEADLOCK FALSE
