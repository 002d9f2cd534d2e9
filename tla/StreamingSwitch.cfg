CONSTANTS
  Scalar <- MCScalar
  Point <- MCPoint
  Zero = 0
  G = 1
  Malformed = Malformed
  SSub <- MCSSub
  SMul <- MCSMul
  PAdd <- MCPAdd
  PMul <- MCPMul
  HashToPoint <- MCHashToPoint
  Challenge <- MCChallenge
  Nil = Nil
  MaxRing = 3
  Member = {1, 2, 3}
  Message = {1, 2}
  SecretKeys = {1, 2}
  Random = {0, 1, 3}
  Suite = "Sha3"
  RingHashes <- MCRingHashes
SPECIFICATION Spec
INVARIANT SwitchCaughtBeforeOutput
