SPECIFICATION FairSpec
CONSTANTS
  a1 = a1
  a2 = a2
  Addrs <- MCAddrs
  Lists <- MCLists
  SeqMod = 3
CHECK_DEADLOCK FALSE
INVARIANTS
  TypeOK
  Complete
  AnswersAreOwn
  RoundInv
PROPERTIES
  ListReported
