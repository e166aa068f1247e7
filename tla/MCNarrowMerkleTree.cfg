SPECIFICATION Spec
CONSTANTS
  Leaf = {x, y}
  Capacities = {2, 3}
  SizeWord = 1000000
  MaxTxs = 9
INVARIANT TypeOK
INVARIANT LayersHoldBeginnings
INVARIANT RecentDropIsExact
PROPERTY DropKeepsLongest
PROPERTY ImplementsLog
INVARIANT TopIsKept
