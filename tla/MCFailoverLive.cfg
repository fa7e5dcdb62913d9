SPECIFICATION FairSpec
CONSTANTS
  w = w
  h = h
  s = s
  q1 = q1
  q2 = q2
  NoClient = NoClient
  Clients <- OneReader
  SendOnly <- NoSendOnly
  Duplex <- MCDuplex
  Weight <- OneWeight
  Order <- OneOrder
  Callers <- MCCallers
  Kinds = {FALSE}
  PreferHttp = TRUE
  MaxChanges = 2
PROPERTIES
  FlagsConverge
  CallReturns
  CloseEndsHealthChecks
