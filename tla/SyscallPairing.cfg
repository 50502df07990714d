CONSTANTS
  Threads = {t1, t2}
  Kinds = {"openat", "exit_group"}
  NoReturn = {"exit_group"}
  Enabled = {"openat", "exit_group"}
  Suppressed = {}
  Programs <- MCPrograms
  MapSize = 2
  MaxCalls = 3
SYMMETRY Symmetry
SPECIFICATION Spec
INVARIANTS TypeOK PairedOnceAttached SubmittedOnce LossCounted
CHECK_DEADLOCK FALSE
