SPECIFICATION FairSpec
CONSTANTS
  p1 = p1
  p2 = p2
  n1 = n1
  n2 = n2
  d1 = d1
  d2 = d2
  Probers <- MCProbers
  Names <- MCNames
  NoRow = NoRow
  InitialNames <- MCInitialNames
  Messages <- MCMessages
  MaxMessages = 3
  MaxEdits = 3
  Ticks = 2
  NoReply = NoReply
  TimeoutValue = 127
CHECK_DEADLOCK FALSE
INVARIANTS
  TypeOK
  OnePair
  LastReportStored
PROPERTIES
  EveryMessageWritten
