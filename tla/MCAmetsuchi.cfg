SPECIFICATION Spec
CONSTANTS
  p = p
  q = q
  PubKey <- MCPubKey
  Ip <- MCIp
  Asset <- MCAsset
  Command <- MCCommand
  Transaction <- MCTransaction
  Word = 8
  MaxPrecision = 1
  Leafs = 4
  MaxAppends = 4
INVARIANT TypeOK
INVARIANT IdsAreGapless
INVARIANT CacheCoherent
 
INVARIANT Audit
INVARIANT MerkleIsOfLog
PROPERTY Immutable
PROPERTY ImplementsLedger
