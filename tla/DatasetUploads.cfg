SPECIFICATION Spec
CONSTANTS
  Datasets = {d1, d2}
  Existing = {d1}
  Uploads = {u1}
  Clients = {c1, c2}
  Bodies = {1, 2, 3}
  MaxParts = 2
  MaxRequests = 5
  MinPartSize = 2
  MaxPartSize = 2
  MaxTotalSize = 3
  NoKey = NoKey
  NoObject = NoObject
  NoDigest = NoDigest
  NoPart = NoPart
  Contents <- MCContents
  Digests <- MCDigests
  Size <- MCSize
INVARIANTS
  TypeOK
  RowSound
  UntroubledAgree
  AssembledPartsLargeEnough
  SessionsReleaseStaging
SYMMETRY ClientSymmetry
CHECK_DEADLOCK FALSE
