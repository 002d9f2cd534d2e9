CONSTANTS
  Scalar <- MCScalar
  Point <- MCPoint
  Zero = 0
  G = 1
  Malformed = Malformed
  SSub <- MCSSub
  SMul <- MCSMul
  PAdd <- MCPAdd
  PMul <- MCPMul
  HashToPoint <- MCSuiteHashToPoint
  Challenge <- MCSuiteChallenge
  Nil = Nil
  Bytes <- MCBytes
  Key = {1, 2}
  MaxRing = 2
  Suites = {"Sha3", "Blake3"}
  Default = "Sha3"
  Message = {1, 2}
  SecretKeys = {2}
  Draws <- MCDraws
SPECIFICATION Spec
INVARIANTS
  TypeOK
  VerifiesOverOneRing
  StoredVerifies
  ModesAgree
  ViewIsOfRing
