CONSTANTS
  Scalar <- MCScalar
  Point <- MCPoint
  Zero = 0
  G = 1
  Malformed = Malformed
  SSub <- MCSSub
  SMul <- MCSMul
  PAdd <- MCPAdd
  PMul <- MCPMul
  HashToPoint <- MCHashToPoint
  Challenge <- MCChallenge
  Nil = Nil
  Bytes <- MCBytes
  Key = {1, 2}
  MaxRing = 3
  Suites = {"Sha3", "Blake3"}
  Suite = "Sha3"
  Message = {1, 2}
  SecretKeys = {1, 2}
  Draws <- MCDraws
SPECIFICATION Spec
INVARIANTS
  TypeOK
  RingHoldsKeys
  OneShotVerifies
  TicketBoundToRing
