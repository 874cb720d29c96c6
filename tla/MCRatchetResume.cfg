CONSTANTS
  CHAIN_LIMIT = 2
  MAX_SKIP_PER_CHAIN = 2
  MAX_SKIPPED_TOTAL = 4
  MaxChains = 3
  MAX_ACTIONS = 4
  Damage = {}
  LowOrder = LowOrder
  Foreign = Foreign
  None = None
SPECIFICATION Spec

PROPERTY PeerFrameResumesSending
