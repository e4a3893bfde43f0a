SPECIFICATION Spec
CONSTANTS
  r1 = r1
  r2 = r2
  c1 = c1
  c2 = c2
  NoConn = NoConn
  Results <- MCTwoResults
  Conns <- MCConns
  Ids <- MCIds
  AckTimeout = 1
  Window = 1
  MaxFaults = 1
SYMMETRY Symmetry
CHECK_DEADLOCK FALSE
INVARIANTS
  TypeOK
  SinglePlace
  Accounted
  OneLossPerConnection
  DeliveryInv
PROPERTIES
  RequeuedOnlyWhenLate
  PromiseKept
