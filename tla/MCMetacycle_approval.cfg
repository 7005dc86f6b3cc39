SPECIFICATION Spec
CONSTANTS
  None = None
  Agents = {a1}
  Operators = {u1, u2}
  Boards <- ApprovalBoards
  Operations = {"approve", "reject", "abandon", "budget"}
  Alerts = {FALSE}
  Priorities = {1}
  Predicates = {"judge"}
  MaxDiagnoses = 1
  MaxGoals = 2
  MaxEdits = 1
  MaxAborts = 1
INVARIANTS TypeOK ApprovalGate SettledHasTrajectory
