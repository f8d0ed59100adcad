SPECIFICATION FairSpec
CONSTANTS
  Vips = {v1}
  Keys = {k1}
  Addrs = {a1, a2}
  Nats = {"Symmetric", "RestrictedCone"}
  MaxRetries = 2
  RelayProbes = 2
  RelayEnabled = TRUE
  RelayKnown = TRUE
  LegacyRelay = TRUE
  Batches = 1
  NoKey = NoKey
  NoAddr = NoAddr
  RelayAddr = RelayAddr
  NoPing = NoPing
INVARIANTS StateFollowsPaths
PROPERTIES PingsResolve RelayIsRequested
