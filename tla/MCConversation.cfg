SPECIFICATION Spec
SYMMETRY Parties
CONSTANTS
  CHAIN_LIMIT = 3
  MAX_SKIP_PER_CHAIN = 3
  MAX_SKIPPED_TOTAL = 9
  LowOrder = LowOrder
  None = None
  Party = {Alice, Bob}
  OneTime = {}
  Altered = {}
  Foreign = Foreign
  MaxStarts = 2
  MaxAnswers = 2
  MaxFrames = 4
INVARIANTS TypeOK OpensOnlyItsPartner NoKeySealsTwoFrames PartnersUnderstandEachOther CopyStaysInItsSession CopyHeals
CHECK_DEADLOCK FALSE
