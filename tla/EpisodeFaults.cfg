SPECIFICATION EpisodeSpec
CONSTANTS
  N = 3
  Size <- MCSize
  Quality <- MCQuality
  Strategies = {"OldestFirst", "LargestFirst", "LowestQualityFirst", "UploadedFirst"}
  MaxBytes = 3
  MaxEpisodes = 1
  AutoCleanup = TRUE
  Aging = TRUE
  DiskErrors = TRUE
  MaxFaults = 2
  Priorities <- MCPriorities
  MaxQueued = 2
  AutoUpload = TRUE
INVARIANTS WithinBudget DiskFollowsIndex StateAgrees QueueInOrder
CHECK_DEADLOCK FALSE
