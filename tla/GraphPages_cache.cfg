SPECIFICATION Spec
CONSTANTS
  Workers = {worker}
  Pairs = {pair}
  Ticks = 2
  TTL = 1
  MaxFetch = 1
  MaxRecords = 1
  MaxTime = 3
  Default = 1
  Hour = 1
  UnitSeconds <- MCUnitSeconds
  Windows <- MCWindows
  Queries <- MCQueries
  None = None
  Invalid = Invalid
CHECK_DEADLOCK FALSE
INVARIANTS
  TypeOK
  Fresh
  SameSeconds
  IndexAgrees
