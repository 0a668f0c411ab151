SPECIFICATION Spec
CONSTANTS
  XrayPorts = {p1, p2}
  XrayRules = {a, b}
  ChannelOpens = 2
  Servers = {"h"}
  ServerAddresses = {"a", "b"}
  ServerMoves = 1
  UserConnects = 2
  AppRestarts = 1
  FailedSaves = 1
  NetworkChanges = 3
  BackoffSteps = 2
  WakeSessions = 2
  FailedReads = 1
SYMMETRY XraySymmetry
INVARIANTS
  NothingFollowsKexInit
CHECK_DEADLOCK FALSE
