SPECIFICATION Spec
CONSTANTS
  None = None
  Agents = {a1}
  Operators = {u1}
  Boards <- OneTask
  Operations = {"abandon"}
  Alerts = {FALSE}
  Priorities = {1}
  Predicates = {"judge"}
  MaxDiagnoses = 1
  MaxGoals = 2
  MaxEdits = 0
  MaxAborts = 0
PROPERTIES AbandonIsFinal
