SPECIFICATION Spec
CONSTANTS
  Procs = {p1, p2}
  Readers = {r1}
  Topics = {t1, t2}
  Stopwords = Stopwords
  K = 1
  Factor = 1
  ScanLimit = 1
  LocalModels = {"fits", "other"}
  UseServer = TRUE
  MaxSteps = 2
  MaxTicks = 2
  MaxCrashes = 1
  MaxOutages = 1
SYMMETRY Symmetry
INVARIANTS StoredInOrder LossAccounted RecallAnswers CostAttributed
CHECK_DEADLOCK FALSE
