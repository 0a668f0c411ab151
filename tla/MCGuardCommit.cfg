SPECIFICATION Spec
CONSTANTS
  Helpers = {a, b}
  Indices = {i1, i2, i3}
  SearchPaths = {1, 2}
  CreateTries = 2
  AdapterOpens = 2
  AdapterPackets = 1
  AdapterFaults = 1
  AdapterSwaps = 1
  Lookups = {1, 2, 3}
  Snapshots = 8
  SnapshotFaults = 1
  HelperProcesses = 3
  HelperStarts = 3
  HelperFaults = 2
  Bridges = {1, 2}
  EndpointConnections = 2
  PendingRequests = 2
  ServiceRequests = 3
  TeardownFaults = 1
SYMMETRY RouteSymmetry
INVARIANTS
  ReachableAreInstalled
CHECK_DEADLOCK FALSE
