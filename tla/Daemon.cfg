CONSTANTS
  Lengths = {3}
  OldLengths = {0}
  max_file_size = 7
  kFlushEvery = 3
  kFlushInterval = 1
  Faults = {}
  MaxRecords = 5
  MaxCrashes = 0
  NumPrograms = 2
  RingSlots = 2
  MaxEvents = 5
SPECIFICATION DaemonSpec
INVARIANTS DaemonTypeOK CleanExit OrderedDelivery DegradedIsReported
PROPERTIES SignalEndsMain
CHECK_DEADLOCK FALSE
