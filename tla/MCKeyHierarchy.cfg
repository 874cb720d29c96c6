SPECIFICATION Spec
SYMMETRY Secrets
CONSTANTS
  Password = {pw1, pw2}
  Salt = {salt1, salt2}
  MaxDraws = 5
  None = None
INVARIANTS UnwrapInvertsWrap SubkeysSurviveRewrapping
CHECK_DEADLOCK FALSE
