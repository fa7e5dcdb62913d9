CONSTANTS
  Requests = {q1, q2, q3}
  Bounded = {q1, q2, q3}
  Probers = {p1, p2}
  RateLimit = 2
  MaxConcurrency = 2
  Word = 8
  Patience = {1}
SPECIFICATION Spec
SYMMETRY Symmetry
INVARIANTS
  RateLimitRespected
