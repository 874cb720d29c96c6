CONSTANTS
  CHAIN_LIMIT = 3
  MAX_SKIP_PER_CHAIN = 1
  MAX_SKIPPED_TOTAL = 2
  MaxChains = 3
  MAX_ACTIONS = 4
  Damage = {}
  LowOrder = LowOrder
  Foreign = Foreign
  None = None
SPECIFICATION FairSpec

PROPERTIES EverySealedFrameSettles SendingResumes
