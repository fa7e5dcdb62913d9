CONSTANTS
  b1 = b1
  b2 = b2
  b3 = b3
  b4 = b4
  t = t
  u = u
  x = x
  y = y
  zero = zero
  k1 = k1
  k2 = k2
  s1 = s1
  s2 = s2
  q1 = q1
  q2 = q2
  q3 = q3
  Servers = {s1, s2}
  Callers = {q1, q2, q3}
  Blocks = {b1, b2, b3, b4}
  Body <- MCBody
  Uncles <- MCUncles
  Tx = t
  Addresses = {x, y, zero}
  Zero = zero
  Signed = x
  Signature = Signature
  None = None
  MaxHeads = 1
SPECIFICATION Spec
CHECK_DEADLOCK FALSE
SYMMETRY Symmetry
INVARIANTS
  IInv
  SenderOfInclusion
  SignatureIsOwners
  BlockIsWhole
  FastPath
