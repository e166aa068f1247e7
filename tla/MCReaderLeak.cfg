SPECIFICATION Spec
CONSTANTS
  Thread = {r1, r2}
  Asset = {y}
  Log = Log
  TableSize = 1
  MaxCommits = 2
INVARIANT QueryGetsTransaction
CHECK_DEADLOCK FALSE
