CONSTANTS
  n1 = n1
  n2 = n2
  n3 = n3
  Clients = {n1, n2, n3}
  Weight <- MCWeight
  SendOnly = {}
  Duplex = {}
  Gated = {n2}
  NoClient = NoClient
SPECIFICATION Spec
INVARIANTS
  IInv
  WeightPriority
  DeadlineKeepsBestBuffered
  AnswersAreGenuine
  OnlyTimeoutsDiscarded
PROPERTIES
  NoLateStart
  ImplementsWeightedRead
