SPECIFICATION Spec
CONSTANTS
  Agents = {a1, a2}
  Operators = {u1}
  AutoCommit = TRUE
  AutoTag = TRUE
  MaxSaves = 3
  MaxFaults = 2
INVARIANTS NumbersReusedBound AgentTextsKept TagsTrue ReadableAtRest
CHECK_DEADLOCK FALSE
