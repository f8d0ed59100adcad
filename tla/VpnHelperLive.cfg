SPECIFICATION HelperFair
CONSTANTS
  Ids = {i1, i2}
  Clients = {c1}
  Nets = {n1}
  NoId = NoId
  NoNet = NoNet
  PortmapEnabled = TRUE
  SlowTasks = TRUE
  GatewayErrs = TRUE
PROPERTIES TeardownCompletes
CHECK_DEADLOCK FALSE
