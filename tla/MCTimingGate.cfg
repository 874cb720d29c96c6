SPECIFICATION Spec
CONSTANTS
  Operation = {"aead_tag"}
  Planted = {"mutant_secret_key_eq"}
  attempts = 3
  threshold = 1
  Statistic <- Statistics
INVARIANTS LeakMeansEveryRunCrossed PassRestsOnEvidence
PROPERTY ClearedOperationsStayCleared
CHECK_DEADLOCK FALSE
