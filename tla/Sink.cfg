CONSTANTS
  Lengths = {2, 9}
  OldLengths = {0, 5, 11}
  max_file_size = 8
  kFlushEvery = 3
  kFlushInterval = 1
  Faults = {"disk", "crash"}
  MaxRecords = 8
  MaxCrashes = 2
SPECIFICATION SinkSpec
INVARIANTS SizeExact SizeBounded Unbroken BoundedLag BoundedOutage CrashCost
PROPERTIES RotatesOnlyWhenFull
CHECK_DEADLOCK FALSE
