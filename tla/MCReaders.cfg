SPECIFICATION Spec
CONSTANTS
  Thread = {r1, r2}
  Asset = {y}
  Log = Log
  TableSize = 1
  MaxCommits = 2
INVARIANT TypeOK
 
INVARIANT ListIsPinned
PROPERTY NotFoundIsTrue
PROPERTY QueriesEnd
 
PROPERTY CopyComesBack
CHECK_DEADLOCK FALSE
