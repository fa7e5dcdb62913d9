CONSTANTS
  Requests = {q1, q2, q3}
  Bounded = {q1, q2}
  Probers = {p1}
  RateLimit = 1
  MaxConcurrency = 2
  Word = 8
  Patience = {1}
SPECIFICATION FairSpec
INVARIANTS
  IInv
PROPERTIES
  KeepsContract
  EveryRequestLeaves
