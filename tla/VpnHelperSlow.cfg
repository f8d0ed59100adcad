SPECIFICATION HelperSpec
CONSTANTS
  Ids = {i1, i2, i3}
  Clients = {c1, c2}
  Nets = {n1, n2}
  NoId = NoId
  NoNet = NoNet
  PortmapEnabled = FALSE
  SlowTasks = TRUE
  GatewayErrs = TRUE
SYMMETRY Perms
INVARIANTS OneConnection ReportedIsHeld PromptLeavesNothing
CHECK_DEADLOCK FALSE
