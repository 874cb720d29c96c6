CONSTANTS
  CHAIN_LIMIT = 3
  MAX_SKIP_PER_CHAIN = 3
  MAX_SKIPPED_TOTAL = 9
  MaxChains = 3
  MAX_ACTIONS = 4
  Damage = {"ratchet", "previous_chain_len", "message_number", "body"}
  LowOrder = LowOrder
  Foreign = Foreign
  None = None
SPECIFICATION Spec
INVARIANTS EveryFrameOpens OpensOnlyThePeers
PROPERTIES OnlyAuthenticFramesChangeASession ImplementsOnceChannel
