SPECIFICATION Spec
CONSTANTS
  ctorLeafs = 4
  ctorBlocks = 2
  SizeWord = 65536
  Item = {"a", "b"}
  MaxPushes = 12
CHECK_DEADLOCK FALSE
INVARIANT TypeOK
INVARIANT TreeIsOfLog
INVARIANT RollbackDepth
