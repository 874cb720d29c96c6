SPECIFICATION Spec
CONSTANTS
  Thread = {t1, t2}
  Block = {b1, b2}
  Size = {1, 2}
  Secret = {s1}
  Zero = Zero
  MAX_WATCHES = 2
  MaxWatches = 3
  MaxFrees = 2
  None = None
SYMMETRY Alike
INVARIANTS TypeOK SlotsMatchWatches NothingFreedUnseen CountsOnlyItsOwnFrees
