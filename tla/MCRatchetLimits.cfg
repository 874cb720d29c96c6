CONSTANTS
  CHAIN_LIMIT = 4
  MAX_SKIP_PER_CHAIN = 2
  MAX_SKIPPED_TOTAL = 3
  MaxChains = 3
  MAX_ACTIONS = 4
  Damage = {}
  LowOrder = LowOrder
  Foreign = Foreign
  None = None
SPECIFICATION Spec
INVARIANTS OpensAtMostOnce OpensUnlessEvicted SkippedKeysBounded EvictsOldestFirst ForwardSecrecy RootKeysInStep ReceivesOnlySealedNumbers HarnessNeverPanics

