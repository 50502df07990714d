CONSTANTS
  Threads = {t1, t2}
  Fds = {3, 4}
  Kinds = {"accept", "socketpair", "read", "close"}
  Hazards = {"loss", "dup2", "reuse", "overwrite"}
  MaxUpsets = 2
SYMMETRY Symmetry
SPECIFICATION Spec
INVARIANTS TrackedExact NoMislabel NothingMissed OnlyOpened
