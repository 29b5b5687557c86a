SPECIFICATION Spec
CONSTANTS
  Sessions = {s1}
  Callers = {c1, c2}
  SampleSizes = {1, 2}
  N_TRAIN = 2
  MAX_TRAINING_SAMPLE_SIZE = 1
  TOTAL_CORPUS_BYTE_BUDGET = 2
  SESSION_TTL = 1
  MaxStates = 2
  MaxDetached = 1
  MaxTime = 1
INVARIANTS
  BudgetSelfHeals
PROPERTIES
  ServedNotEvicted
  CallsEnd
CHECK_DEADLOCK FALSE
