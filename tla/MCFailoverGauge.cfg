SPECIFICATION Spec
CONSTANTS
  w = w
  h = h
  s = s
  q1 = q1
  q2 = q2
  NoClient = NoClient
  Clients <- MCReaders
  SendOnly <- NoSendOnly
  Duplex <- MCDuplex
  Weight <- LiveWeight
  Order <- LiveOrder
  Callers <- OneCaller
  Kinds = {TRUE, FALSE}
  PreferHttp = FALSE
  MaxChanges = 1
INVARIANT
  GaugeAgreesAtRest
