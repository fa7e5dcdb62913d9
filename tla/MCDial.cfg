CONSTANTS
  a = a
  b = b
  c = c
  s = s
  Clients = {a, b, c, s}
  Weight <- MCWeight
  SendOnly = {s}
  Duplex = {}
  Configs <- MCConfigs
  Retries = 5
SPECIFICATION FairSpec
CHECK_DEADLOCK FALSE
INVARIANTS
  IInv
  VerdictFits
  HandsOverPool
PROPERTIES
  DialEnds
