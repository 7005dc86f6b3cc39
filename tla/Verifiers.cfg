SPECIFICATION Spec
CONSTANTS
  Atoms = {x, y}
  Keys = {k, l}
  Children = {c1, c2, c3}
  Kinds = {"structural", "judge", "state_change", "all", "custom", "external"}
INVARIANTS ContainsExpected VerdictEarned
CHECK_DEADLOCK FALSE
