SPECIFICATION Spec
CONSTANTS
  w = w
  h = h
  s = s
  q1 = q1
  q2 = q2
  NoClient = NoClient
  Clients <- MCClients
  SendOnly <- MCSendOnly
  Duplex <- MCDuplex
  Weight <- MCWeight
  Order <- MCOrder
  Callers <- OneCaller
  Kinds = {TRUE, FALSE}
  PreferHttp = FALSE
  MaxChanges = 2
INVARIANTS
  IInv
  NoBlindRetry
  SelectionRespectsPriority
  UnavailableMeansNone
