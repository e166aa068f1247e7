SPECIFICATION Spec
CONSTANTS
  Value = {x, y}
  Any = Any
  MaxCapacity = 4
INVARIANT TypeOK
INVARIANT ReadsWhatWasPushed
INVARIANT LoopIsNewest
PROPERTY ImplementsStack
