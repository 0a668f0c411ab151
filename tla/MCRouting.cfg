SPECIFICATION AllSpec
CONSTANTS
  Endpoints = {e1, e2, e3, e4}
  Pacs = {t1, t2}
  Forms = {"full", "short"}
  Ports = {1}
  MaxRetained = 1
  MaxVersions = 1
  MaxFaults = 1
  MaxTroubles = 1
  AcceptedSockets = {1, 2, 3, 4}
  SnapshotFailures = 2
  SnapshotAttempts = 2
  FailedCaptures = 3
  PausesLapsed = 1
  LearnedApps = {"p", "u"}
  ProfiledApps = {"p"}
  RemoteAddresses = {"a"}
  CachedNames = {"d", "f"}
  FamilyNames = {"f"}
  Routings <- SomeRoutings
  RoutingUpdates = 1
  LearningCycles = 3
  FailedQueries = 1
  SessionEnds = 1
SYMMETRY PacSymmetry
INVARIANTS
  PacsAreServed
  OneOrder
  LookupsAreAnswered
PROPERTIES
  SettingsAreGivenBack
  LearnedRoutesAreTrue
CHECK_DEADLOCK FALSE
