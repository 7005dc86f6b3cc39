SPECIFICATION MCSpec
CONSTANTS
  Evaluators = {e1, e2}
  Setups <- TestSetups
  Answers = {right, alsoright, wrong}
  Accepted = {right, alsoright}
  NoAnswer = NoAnswer
  MaxRuns = 2
  MaxSaves = 1
  MaxChars = 4
  Window = 2
  Overlap = 2
  MaxText = 6
SYMMETRY Symmetry
INVARIANTS MetricsAgree ComparedAlike VersionsTold ContextKept
CHECK_DEADLOCK FALSE
