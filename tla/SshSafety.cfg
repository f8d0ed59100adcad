CONSTANTS
  Chans = {k1}
  Ptys = {p1}
  Cmds = {"ls", "rm"}
  Writes = {"rm"}
  Filters <- MCFilters
  QCap = 1
  None = None
  RecLines = 4
  RecChunk = 2
  NoHash = NoHash
  Ips = {"a"}
  SshConns = {c1}
  Rules <- MCRules
  PerIp = 1
  MaxFailedAuth = 2
  BanTime = 1
  Minute = 1
  TwoMinutes = 2
  Hour = 2
  Horizon = 3
  LogCap = 3
  Never = Never
  Names = {n1, n2}
  Inodes = {i1, i2}
  Handles = {h1}
  MaxSize = 1
  OffMax = 3
  SeekMax = 2
  Batch = 3
  Nil = Nil
  Fwds = {f1, f2}
  FwdConns = {x1, x2}
  Ports = {1, 2}
  FwdTotal = 3
  Unset = Unset
  Hosts = {"a", "ab"}
  Within <- MCWithin
  Servers = {s1}
  Clients = {l1, l2}
  Modes = {"tofu", "strict", "insecure"}
  MaxKey = 2
  MaxLines = 2
  Damaged = Damaged
  Nobody = Nobody
  Tasks = {t1, t2}
  MaxAge = 1
  Grace = 1
  HardExpiry = 3
  PolHorizon = 4
  NoPolicy = NoPolicy
  Callers = {e1, e2}
  Ttl = 2
  Flight = 1
  MaxDuration = 4
  WaitLimit = 1
  EmHorizon = 3
  NoTime = NoTime
  Peers <- MCPeers
  Targets <- MCTargets
  MaxParallels = {0, 1, 2}
  Missing = Missing
  Parts = {"recorder", "server", "sftp", "forward", "client", "emergency"}
SPECIFICATION SshSpec
INVARIANTS EmergencyEnds RecordingHasNoHoles LimiterHolds SftpKeepsTrack ForwardsAccounted HostKeyStays
CHECK_DEADLOCK FALSE
