SPECIFICATION PathSpec
CONSTANTS
  Clients = {c1, c2}
  NoClient = NoClient
  Conns = {w1, w2}
  MaxQueue = 3
  MaxAuthFailures = 2
  MaxTunStops = 2
  TunEnabled = TRUE
  CleanupMayFail = TRUE
  ProxyMayRefuse = TRUE
INVARIANTS
  TypeOK
  AttemptsAreAccounted
  SessionIsAccounted
  TrafficIsRight
CHECK_DEADLOCK FALSE
