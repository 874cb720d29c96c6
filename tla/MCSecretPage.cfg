SPECIFICATION Spec
CONSTANTS
  Block = {"a", "b", "c"}
  PagesPerBlock = 1
  Key = {"k"}
INVARIANTS FreedBlocksAreWiped LockedKeysNeverSwap NoLockOutlivesItsKey
