CONSTANTS
  Lengths = {2}
  OldLengths = {0}
  max_file_size = 5
  kFlushEvery = 3
  kFlushInterval = 1
  Faults = {}
  MaxRecords = 4
  MaxCrashes = 0
  NumPrograms = 2
  RingSlots = 2
  MaxEvents = 4
SPECIFICATION DaemonSpec

PROPERTIES NearRealTime
CHECK_DEADLOCK FALSE
