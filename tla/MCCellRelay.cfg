SPECIFICATION FairSpec
CONSTANTS
  Node = {n1, n2}
  Message = {m1, m2}
  Flag = {0, 1}
  MAX_TTL = 2
  MAX_COPIES = 0
  Altered = {"length", "version", "flags", "ttl", "copies", "tag", "nonce", "body"}
  MaxSent = 1
  MaxAlterations = 1
  None = None
INVARIANTS SealSurvivesRelays BudgetIsExact
PROPERTIES EveryHopIsUsed EveryCellComesToRest
CHECK_DEADLOCK FALSE
