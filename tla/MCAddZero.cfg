SPECIFICATION WSVSpec
CONSTANTS
  p = p
  q = q
  ip1 = ip1
  ip2 = ip2
  PubKey <- MCPubKey
  Ip <- MCIp
  Asset <- MCAsset
  Command <- MoneyCommand
  Word = 16
  MaxPrecision = 1
PROPERTY AddSums
