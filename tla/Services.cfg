SPECIFICATION ServicesLive
CONSTANTS
  Parts = {"routing", "token", "login", "service", "update", "tun", "ports", "discovery"}
  ExitNodes <- MCExitNodes
  Systems = {"linux", "macos", "windows"}
  NoExit = NoExit
  Lifetimes = {3}
  Assumed = 3
  Margin = 1
  MaxNow = 2
  NoToken = NoToken
  NoStamp = NoStamp
  Waits = {w1, w2}
  NoWait = NoWait
  Pids = {1, 2}
  Terminals = {"t1", "t2"}
  Modes = {"edge", "nucleus"}
  Platforms = {"systemd", "plain", "macos", "windows"}
  NoDaemon = NoDaemon
  NoUnit = NoUnit
  Versions <- MCVersions
  Targets = {"unix", "windows"}
  NoFile = NoFile
  Nets = {"n1", "n2"}
  Vip6Of <- MCVip6Of
  TunPeers = {w1, w2}
  Endpoints = {"x", "none"}
  SegmentBits = 2
  Segments = 2
  NoNet = NoNet
  NoEndpoint = NoEndpoint
  Ports = {1, 2}
  NoPort = NoPort
  Nodes = {d1}
  MaxWire = 2
INVARIANTS NucleusOutsideTunnel DaemonsObey UpgradeIsSafe DeviceIsRight AdvertisedIsShown
PROPERTIES  CancelWorks PresentPeersLearned
CHECK_DEADLOCK FALSE
