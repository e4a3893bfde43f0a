SPECIFICATION Spec
CONSTANTS
  MaxTime = 8
  MaxLength = 4
  RecordLists <- MCRecordLists
  TimeoutValue = 3
  None = None
  FloatMin = 1
  FloatMax = 4
  Infinity = 5
  BucketDuration = 4
CHECK_DEADLOCK FALSE
INVARIANTS
  TypeOK
  BucketsCover
  BucketsByTime
  StatisticsAgree
