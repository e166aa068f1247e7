SPECIFICATION Spec
CONSTANTS
  p = p
  q = q
  PubKey <- MCPubKey
  Ip <- MCIp
  Asset <- MCAsset
  Command <- MCCommand
  Transaction <- MCTransaction
  Word = 8
  MaxPrecision = 1
  Leafs = 2
  MaxAppends = 4
PROPERTY CommitIsCheckpoint
