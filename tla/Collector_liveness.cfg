SPECIFICATION FairSpec
CONSTANTS
  p1 = p1
  p2 = p2
  c1 = c1
  c2 = c2
  c3 = c3
  m1 = m1
  m2 = m2
  NoConn = NoConn
  Names <- MCNames
  Conns <- MCTwoConns
  Who <- MCWhoTwo
  Messages <- MCMessages
  Deletable <- MCNoNames
  MaxVersion = 2
  EmptyVersions <- MCNoEmptyVersions
CHECK_DEADLOCK FALSE
PROPERTIES
  Notified
  ClosedLeaveRegistry
