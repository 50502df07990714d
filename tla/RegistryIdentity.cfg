CONSTANTS
  Pids = {1, 2}
  Exes = {"sh"}
  NoExe = "none"
  Ticks = {1, 2}
  Times = {0, 1}
  Word = 1024
  kMaxEntries = 2
  kIdentityCheckNs = 1
  Actors <- MCActors
  Snapshots <- MCSnapshots
  MaxIds = 3
SPECIFICATION Spec
INVARIANTS ContextIsActors
PROPERTIES StableIdentity ImplementsDirectory
