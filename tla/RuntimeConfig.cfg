CONSTANTS
  Lines <- MCLines
  MaxLines = 4
  Kinds = {"k1", "k2"}
SPECIFICATION Spec
INVARIANTS ParseMeans OnlyInSection Honest
CHECK_DEADLOCK FALSE
