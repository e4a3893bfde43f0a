SPECIFICATION FairSpec
CONSTANTS
  r1 = r1
  r2 = r2
  c1 = c1
  c2 = c2
  NoConn = NoConn
  Results <- MCOneResult
  Conns <- MCConns
  Ids <- MCIds
  AckTimeout = 1
  Window = 1
  MaxFaults = 1
CHECK_DEADLOCK FALSE
PROPERTIES
  Delivered
