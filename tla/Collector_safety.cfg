SPECIFICATION Spec
CONSTANTS
  p1 = p1
  p2 = p2
  c1 = c1
  c2 = c2
  c3 = c3
  m1 = m1
  m2 = m2
  NoConn = NoConn
  Names <- MCOneName
  Conns <- MCConns
  Who <- MCWho
  Messages <- MCTwoMessages
  Deletable <- MCOneName
  MaxVersion = 3
  EmptyVersions <- MCEmptyVersions
SYMMETRY Symmetry
CHECK_DEADLOCK FALSE
INVARIANTS
  TypeOK
  VisitedAreRegistered
PROPERTIES
  TargetsNeverRegress
