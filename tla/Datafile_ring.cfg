SPECIFICATION Spec
CONSTANTS
  Data <- MCData
  MaxRecords = 3
  Ticks = 7
  None = None
CHECK_DEADLOCK FALSE
INVARIANTS
  TypeOK
  FileInv
  OnlyOldestChange
  RangeIsRead
PROPERTIES
  LogKept
