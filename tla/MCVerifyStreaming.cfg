CONSTANTS
  Scalar <- MCScalar
  Point <- MCPoint
  Zero = 0
  G = 1
  Malformed = Malformed
  SSub <- MCSSub
  SMul <- MCSMul
  PAdd <- MCPAdd
  PMul <- MCPMul
  HashToPoint <- MCHashToPoint
  Challenge <- MCChallenge
  Nil = Nil
  Bytes <- MCBytes
  MaxRing = 3
  Member = {1, 2}
  Message = {1}
  Response = {0, 1, 3}
  KeyImages = {3, 2}
SPECIFICATION CallSpec
INVARIANTS
  CallTypeOK
  ReturnsVerify
CHECK_DEADLOCK FALSE
