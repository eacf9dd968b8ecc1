SPECIFICATION Spec
CONSTANTS
  Clients = {c1, c2}
  Workloads <- MCWorkloads
  Probes <- MCProbes
  UuidOf <- MCUuidOf
  ShortNames = {"", "ops"}
  UserIds = {"u1", "u2", "u3"}
  GroupIds = {"g1", "g2", "g3"}
  TokenIds = {"k1", "k2", "k3"}
  ThingIds = {"t1", "t2", "t3", "t4"}
  AlertIds = {"a1", "a2", "a3", "a4"}
SYMMETRY MCSymmetry
INVARIANTS
  TypeOK
  ShadowedNeverDecides
  ListedIsReadable
  TwinsNeedOverlap
  BurstHolds
PROPERTIES
  ChangesAuthorised
CHECK_DEADLOCK FALSE
