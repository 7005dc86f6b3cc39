SPECIFICATION Spec
CONSTANTS
  None = None
  Agents = {a1}
  Operators = {u1}
  Boards <- StandingBoards
  Operations = {"abandon", "bootstrap", "create"}
  Alerts = {FALSE, TRUE}
  Priorities = {2}
  Predicates = {"structural", "state_change"}
  MaxDiagnoses = 1
  MaxGoals = 4
  MaxEdits = 0
  MaxAborts = 1
INVARIANTS OneOpenChild DiagnosisBound OneStandingPerPolicy
PROPERTIES FollowsLifecycle
