CONSTANTS
  Scalar <- MCScalar
  Point <- MCPoint
  Zero = 0
  G = 1
  Malformed = Malformed
  SSub <- MCSSub
  SMul <- MCSMul
  PAdd <- MCPAdd
  PMul <- MCPMul
  HashToPoint <- MCHashToPoint
  Challenge <- MCChallenge
  HashToScalar <- MCHashToScalar
  Coefficient <- MCCoefficient
  Schemes = {"SAG", "MLSAG", "CLSAG"}
  Nil = Nil
  MaxDecoys = 2
  MaxKeys = 2
  Key = {1, 4}
  SecretKeys = {1, 2}
  Message = {1, 2}
  Draws <- MCDraws
SPECIFICATION Spec
INVARIANTS
  FedOnce
  LegacyVerifies
  LinkedByKey
CHECK_DEADLOCK FALSE
