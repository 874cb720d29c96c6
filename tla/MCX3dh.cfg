SPECIFICATION Spec
CONSTANTS
  Party = {"Alice", "Bob"}
  OneTime = {1}
  Altered = {"bundle", "identity", "ephemeral", "kem_ciphertext"}
  Foreign = Foreign
  LowOrder = LowOrder
  None = None
  MaxStarts = 2
  MaxAnswers = 1
INVARIANTS KeysAgreeExactlyOnOneView NoKeyInTwoSessions KeyNeedsBothHalves AnswerNeedsTheClaimedIdentity
CHECK_DEADLOCK FALSE
