SPECIFICATION Spec
CONSTANTS
  Vips = {v1, v2}
  Keys = {k1, k2}
  Addrs = {a1}
  Nats = {"Symmetric"}
  MaxRetries = 1
  RelayProbes = 1
  RelayEnabled = TRUE
  RelayKnown = TRUE
  LegacyRelay = TRUE
  Batches = 2
  NoKey = NoKey
  NoAddr = NoAddr
  RelayAddr = RelayAddr
  NoPing = NoPing
INVARIANTS TypeOK DirectIsVerified
PROPERTIES RelayIsLastResort DirectTrafficStays
SYMMETRY Perms
