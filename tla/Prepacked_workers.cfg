SPECIFICATION LiveSpec
CONSTANTS
  Name = {"a", "b"}
  NThreads = 2
  Key <- MCKeyWorkers
  MaxTile = 2
  KtAt <- MCKtAt
  MaxUses = 3
  MaxSlots = 1
INVARIANT AnswerIsProduct
PROPERTY CallReturns
CHECK_DEADLOCK FALSE
