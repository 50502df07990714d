CONSTANTS
  Pids = {1, 2}
  Exes = {"sh"}
  NoExe = "none"
  Ticks = {1, 2}
  Times = {0, 1}
  Word = 1024
  kMaxEntries = 2
  kIdentityCheckNs = 1
  Actors <- MCActors
  Snapshots <- MCGone
  MaxIds = 4
SPECIFICATION Spec
INVARIANTS BoundedSize IndexExact
PROPERTIES EvictionIsLRU FrozenAfterExit
