SPECIFICATION Spec
CONSTANTS
  Hosts = {h1, h2}
  Values = {v1, v2}
  NoRelease = NoRelease
SYMMETRY StorageSymmetry
INVARIANTS
  SavedIsKept
  UpdatesAreTrue
  ApplicationIsReachable
  RoutingChangesAreKept
  LogIsKept
CHECK_DEADLOCK FALSE
