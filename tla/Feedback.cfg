SPECIFICATION Spec
CONSTANTS
  Post = {a, b, c}
  Faults = {"lost", "db"}
SYMMETRY Posts
INVARIANTS TypeOK LastWriteRead OneRow
CHECK_DEADLOCK FALSE
