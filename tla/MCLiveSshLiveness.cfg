SPECIFICATION FairSpec
CHECK_DEADLOCK FALSE
CONSTANTS
  Clients = {c1}
  NoClient = NoClient
  Conns = {}
  MaxQueue = 2
  MaxAuthFailures = 2
  MaxTunStops = 2
  TunEnabled = TRUE
  CleanupMayFail = FALSE
  ProxyMayRefuse = TRUE
PROPERTIES
  SessionSettles
