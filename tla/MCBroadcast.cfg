CONSTANTS
  a = a
  b = b
  s = s
  Clients = {a, b, s}
  Weight <- MCWeight
  SendOnly = {s}
  Duplex = {}
  NoClient = NoClient
SPECIFICATION FairSpec
INVARIANTS
  IInv
  FailureMeansNobodyAccepted
PROPERTIES
  CopiesOutliveReturn
  AcceptanceReturns
  EndOfContextEndsAll
