CONSTANTS
  Pids = {1, 2}
  Exes = {"sh", "ls"}
  NoExe = "none"
  Ticks = {1, 2, 3, 4, 5, 6, 7}
  Times = {0, 1, 2, 3, 4, 5, 6, 7}
  Word = 1024
  kMaxEntries = 20
  kIdentityCheckNs = 2
  Actors <- MCActors
  Snapshots <- MCSnapshots
  MaxIds = 20
  Probes = {"exec", "fork", "exit", "activity", "clone"}
  RingSlots = 4
  MaxClock = 7
SPECIFICATION TelemetrySpec
INVARIANT TgidMapsToOneId
CHECK_DEADLOCK FALSE
