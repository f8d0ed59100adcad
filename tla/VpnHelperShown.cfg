SPECIFICATION HelperSpec
CONSTANTS
  Ids = {i1, i2}
  Clients = {c1}
  Nets = {n1, n2}
  NoId = NoId
  NoNet = NoNet
  PortmapEnabled = TRUE
  SlowTasks = FALSE
  GatewayErrs = FALSE
SYMMETRY Perms
PROPERTIES ShownIsConnected
CHECK_DEADLOCK FALSE
