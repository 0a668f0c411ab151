SPECIFICATION MCSpec
CONSTANTS
  MaxQueue = 2
  MaxSaves = 1
CHECK_DEADLOCK FALSE
INVARIANTS
  TypeOK
  IntentsAreKept
  RestsAsAsked
  NoticesAreTrue
  WindowFollows
PROPERTIES
  LatestIntentWins
