CONSTANTS
  a = a
  b = b
  c = c
  s = s
  Clients = {a, b, c, s}
  Weight <- MCWeight
  SendOnly = {s}
  Duplex = {a, c, s}
  Scale <- MCScale
  Inputs <- MCInputs
SPECIFICATION Spec
INVARIANTS
  BestScoreChosen
