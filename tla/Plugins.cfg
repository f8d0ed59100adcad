SPECIFICATION PluginsLive
CONSTANTS
  Parts = {"manager", "runtime", "host", "packager", "triggers", "enricher"}
  Ids = {"p"}
  Versions = {"v1", "v2"}
  Caps <- MCCaps
  NoPlugin = NoPlugin
  Calls = {r1, r2, r3}
  Runtimes = {"p"}
  NoCall = NoCall
  Half = 8
  MemorySize = 5
  LogLimit = 2
  Keys = {k1}
  NoValue = NoValue
  Streams = {cam}
  Capacity = 2
  Producers = {p1, p2}
  MaxSamples = 3
  MaxSweeps = 1
  MaxAge = 1
  NoSample = NoSample
  ChunkSize = 2
  PreRolls = {2}
  Cooldown = 2
  Interval = 2
  MaxTime = 2
  MaxInputs = 2
  Switchable = {"teleop"}
  NoTime = NoTime
  MaxStates = 3
  Duration = 3
  MaxGap = 1
  Horizon = 6
  NoFrame = NoFrame
INVARIANTS RegistryAgrees LogsWhatWasNamed EpisodeIsWindow
PROPERTIES ImplementsPluginLife RuntimeCallsReturn TriggersFireRight FramesFromNearest
CHECK_DEADLOCK FALSE
