CONSTANTS
  n1 = n1
  n2 = n2
  n3 = n3
  Clients = {n1, n2}
  Weight <- MCWeight2
  SendOnly = {}
  Duplex = {}
  Gated = {n2}
  NoClient = NoClient
SPECIFICATION FairSpec
PROPERTIES
  CallReturns
  WorkersStop
