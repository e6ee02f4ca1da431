SPECIFICATION Spec
CONSTANTS
  Name = {"a"}
  NThreads = 1
  Key <- MCKeyCap
  MaxTile = 2
  KtAt <- MCKtAt
  MaxUses = 4
  MaxSlots = 2
INVARIANT BosOwned
INVARIANT CacheSound
PROPERTY LeastRecentlyUsed
CHECK_DEADLOCK FALSE
