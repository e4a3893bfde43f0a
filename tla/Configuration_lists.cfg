SPECIFICATION Spec
CONSTANTS
  p1 = p1
  p2 = p2
  t1 = t1
  t2 = t2
  g1 = g1
  g2 = g2
  n1 = n1
  n2 = n2
  a1 = a1
  a2 = a2
  w1 = w1
  w2 = w2
  Group = Group
  NoRow = NoRow
  Workers <- MCWorkers
  Probers <- MCProbers
  Targets <- MCTargets
  Groups <- MCGroups
  Names <- MCNames
  Addresses <- MCAddresses
  InitialRows <- MCRows
  InitialLinks <- MCLinks
  Name = n1
  MaxPosts = 2
SYMMETRY Symmetry
CHECK_DEADLOCK FALSE
INVARIANTS
  TypeOK
  UpToDate
  SteadyAreListed
  GroupIsItsForm
