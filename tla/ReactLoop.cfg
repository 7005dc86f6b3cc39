SPECIFICATION FairSpec
CONSTANTS
  Calls = {recall, write, bad}
  Always = {}
  Conditional = {write}
  Refused = {bad}
  Outcomes = {"success", "timeout"}
  Retried = {recall}
  Retryable = {"timeout"}
  MaxRetries = 1
  MaxSteps = 4
  BudgetTokens = 3
  MaxRejections = 1
  Window = 1
  ThoughtTokens = 1
  ActionTokens = 0
  CritiqueTokens = 1
INVARIANTS CriticGuardsEffects EffectsBounded Conversation BudgetBound NoEndlessRepetition StatusTellsHow
PROPERTIES Finishes
CHECK_DEADLOCK FALSE
