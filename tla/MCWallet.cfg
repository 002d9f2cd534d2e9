CONSTANTS
  Scalar <- MCScalar
  Point <- MCPoint
  Zero = 0
  G = 2
  Malformed = Malformed
  SSub <- MCSSub
  SMul <- MCSMul
  SAdd <- MCSAdd
  PAdd <- MCPAdd
  PMul <- MCPMul
  HashToPoint <- MCWalletHashToPoint
  Challenge <- MCChallenge
  Tweak <- MCTweak
  Nil = Nil
  Absent = Absent
  Bytes <- MCBytes
  Suite = "Sha3"
  Holder = {owner, watcher}
  Data = {1, 2}
  MaxDepth = 2
  Root = {1}
  MaxRing = 22
  Decoys <- MCDecoys
  Message = {1}
  Draws <- MCDraws
SPECIFICATION Spec
INVARIANTS
  TypeOK
  KeysMatch
  SamePathSameKey
  WalletSigns
  LinkedBySecret
  SignsAlike
  ProgressVerdictIsVerify
PROPERTIES
  ImplementsMeter
